----------------------------- MODULE RateLimit ------------------------------
(***************************************************************************)
(* The limits on sign-ins, changes of PIN and POSTs (auth/login_limiter.rs,*)
(* auth/post_limiter.rs) over their store (auth/rate_limit_store.rs): a    *)
(* map in every process, or one table that the replicas share.             *)
(*                                                                         *)
(* An attempt looks at the count of its address, at the count of its       *)
(* account, compares the PIN and records a failure under both, one access  *)
(* of the store at a time.  A POST is looked up and recorded under its     *)
(* address before it runs.  A record in the store is the attempt that made *)
(* it and its time.  Times are in units of the shorter window.             *)
(***************************************************************************)
EXTENDS Naturals, FiniteSets

CONSTANTS
    Attempts,     \* the requests; bounds their number
    Accounts, Addresses,
    Replicas,     \* the processes
    Table,        \* the place of the records when the replicas share them
    Short, Long,  \* the windows: of POSTs, of PINs (and of the cleanup)
    LastTime,     \* bounds the clock
    MaxAccount, MaxAddress, MaxPosts

ASSUME RateLimitAssumption ==
    /\ {Short, Long, LastTime, MaxAccount, MaxAddress, MaxPosts} \subseteq Nat \ {0}
    /\ Short <= Long /\ IsFiniteSet(Attempts)
    /\ Table \notin Replicas /\ Accounts \cap Addresses = {}

Kinds == {"login", "change", "post"}
Names == Accounts \cup Addresses
Times == 0 .. LastTime
Places == Replicas \cup {Table}

VARIABLES
    now,
    shared,    \* SHARED_RATE_LIMITS
    attempt,   \* the requests
    marks,     \* marks[p][k][n]: the records under the key of kind k and name n
    failed,    \* history: the failed comparisons and the admitted POSTs, till forgiven
    peak       \* history: the most attempts of a key that were ever under way together

limitVars == <<now, shared, attempt, marks, failed, peak>>

New == [at |-> "new", kind |-> "post", account |-> Table, address |-> Table, on |-> Table]

Under == {"account", "compare", "noteAccount", "noteAddress", "clear"}

LimitTypeOK ==
    /\ now \in Times /\ shared \in BOOLEAN
    /\ attempt \in [Attempts -> [at : {"new", "over"} \cup Under, kind : Kinds,
                                 account : Accounts \cup {Table}, address : Addresses \cup {Table},
                                 on : Places]]
    /\ marks \in [Places -> [Kinds -> [Names -> SUBSET [by : Attempts, time : Times]]]]
    /\ failed \subseteq [by : Attempts, at : Places, kind : Kinds, name : Names, time : Times]
    /\ peak \in [Places -> [Kinds -> [Names -> Nat]]]

LimitInit ==
    /\ now = 0 /\ shared \in BOOLEAN
    /\ attempt = [a \in Attempts |-> New]
    /\ marks = [p \in Places |-> [k \in Kinds |-> [n \in Names |-> {}]]]
    /\ failed = {}
    /\ peak = [p \in Places |-> [k \in Kinds |-> [n \in Names |-> 0]]]

-----------------------------------------------------------------------------
(* The store.                                                              *)

Window(k) == IF k = "post" THEN Short ELSE Long
Limit(k, n) == IF k = "post" THEN MaxPosts ELSE IF n \in Accounts THEN MaxAccount ELSE MaxAddress
Place(r) == IF shared THEN Table ELSE r

(* The process keeps what is younger than the window; the table is asked   *)
(* for what is not older.                                                  *)
Recent(k, time) == IF shared THEN now - time <= Window(k) ELSE now - time < Window(k)

CountOf(p, k, n) == Cardinality({m \in marks[p][k][n] : Recent(k, m.time)})

(* The sign-ins and the changes of PIN share a map, the POSTs have theirs. *)
SameMap(k, l) == (k = "post") = (l = "post")

(* Every access of a map drops what is too old from all its entries.       *)
Pruned(p, k) ==
    IF shared THEN marks
    ELSE [marks EXCEPT ![p] = [l \in Kinds |-> [n \in Names |->
            IF SameMap(k, l) THEN {m \in @[l][n] : Recent(l, m.time)} ELSE @[l][n]]]]

Recorded(a, p, k, n) == [Pruned(p, k) EXCEPT ![p][k][n] = @ \cup {[by |-> a, time |-> now]}]

-----------------------------------------------------------------------------
(* The attempts.                                                           *)

Goto(a, at) == attempt' = [attempt EXCEPT ![a].at = at]
Stop(a) == attempt' = [attempt EXCEPT ![a] = [New EXCEPT !.at = "over"]]

NamesOf(j) == IF j.kind = "post" THEN {j.address} ELSE {j.account, j.address}
UnderWay(jobs, p, k, n) ==
    {a \in Attempts : jobs[a].at \in Under /\ jobs[a].on = p /\ jobs[a].kind = k /\ n \in NamesOf(jobs[a])}

PeakWith(jobs) ==
    [p \in Places |-> [k \in Kinds |-> [n \in Names |->
        LET together == Cardinality(UnderWay(jobs, p, k, n)) IN
        IF peak[p][k][n] < together THEN together ELSE peak[p][k][n]]]]

(* login_submit and change_pin_submit look at the address first;           *)
(* limit_post_requests has nothing else to look at.                        *)
LookAddress(a, k, c, i, r) ==
    LET p == Place(r) IN
    /\ attempt[a].at = "new"
    /\ CountOf(p, k, i) < Limit(k, i)
    /\ attempt' = [attempt EXCEPT ![a] =
            [at |-> IF k = "post" THEN "noteAddress" ELSE "account",
             kind |-> k, account |-> c, address |-> i, on |-> p]]
    /\ marks' = Pruned(p, k)
    /\ peak' = PeakWith(attempt')
    /\ UNCHANGED <<now, shared, failed>>

LookAccountLate(a) ==
    LET j == attempt[a] IN
    /\ j.at = "account"
    /\ IF CountOf(j.on, j.kind, j.account) <= MaxAccount THEN Goto(a, "compare") ELSE Stop(a)
    /\ marks' = Pruned(j.on, j.kind)
    /\ UNCHANGED <<now, shared, failed, peak>>

LookAccount(a) ==
    LET j == attempt[a] IN
    /\ j.at = "account"
    /\ IF CountOf(j.on, j.kind, j.account) < MaxAccount THEN Goto(a, "compare") ELSE Stop(a)
    /\ marks' = Pruned(j.on, j.kind)
    /\ UNCHANGED <<now, shared, failed, peak>>

(* find_by_code and verify_pin; a form that is refused, or a change that   *)
(* is due and asks for no PIN, is as good as one that never came or one    *)
(* that was right.                                                         *)
CompareRight(a) ==
    /\ attempt[a].at = "compare"
    /\ Goto(a, "clear")
    /\ UNCHANGED <<now, shared, marks, failed, peak>>

CompareWrong(a) ==
    LET j == attempt[a] IN
    /\ j.at = "compare"
    /\ Goto(a, "noteAccount")
    /\ failed' = failed \cup {[by |-> a, at |-> j.on, kind |-> j.kind, name |-> n, time |-> now] :
                                n \in NamesOf(j)}
    /\ UNCHANGED <<now, shared, marks, peak>>

NoteAccount(a) ==
    LET j == attempt[a] IN
    /\ j.at = "noteAccount"
    /\ marks' = Recorded(a, j.on, j.kind, j.account)
    /\ Goto(a, "noteAddress")
    /\ UNCHANGED <<now, shared, failed, peak>>

(* A POST runs once it is recorded.                                        *)
NoteAddress(a) ==
    LET j == attempt[a] IN
    /\ j.at = "noteAddress"
    /\ marks' = Recorded(a, j.on, j.kind, j.address)
    /\ failed' = IF j.kind # "post" THEN failed
                 ELSE failed \cup {[by |-> a, at |-> j.on, kind |-> "post", name |-> j.address, time |-> now]}
    /\ Stop(a)
    /\ UNCHANGED <<now, shared, peak>>

(* The success of an account forgives its failures, not its address's.     *)
LimitClear(a) ==
    LET j == attempt[a] IN
    /\ j.at = "clear"
    /\ marks' = [marks EXCEPT ![j.on][j.kind][j.account] = {}]
    /\ failed' = {f \in failed : ~(f.at = j.on /\ f.kind = j.kind /\ f.name = j.account)}
    /\ Stop(a)
    /\ UNCHANGED <<now, shared, peak>>

-----------------------------------------------------------------------------
(* Around the attempts.                                                    *)

Tick ==
    /\ now < LastTime
    /\ now' = now + 1
    /\ UNCHANGED <<shared, attempt, marks, failed, peak>>

CleanupShort ==
    /\ shared
    /\ marks' = [marks EXCEPT ![Table] = [k \in Kinds |-> [n \in Names |->
                    {m \in @[k][n] : now - m.time <= Short}]]]
    /\ marks' # marks
    /\ UNCHANGED <<now, shared, attempt, failed, peak>>

(* cleanup_expired_postgres, once a minute: one age for all keys.          *)
Cleanup ==
    /\ shared
    /\ marks' = [marks EXCEPT ![Table] = [k \in Kinds |-> [n \in Names |->
                    {m \in @[k][n] : now - m.time <= Long}]]]
    /\ marks' # marks
    /\ UNCHANGED <<now, shared, attempt, failed, peak>>

(* What the attempts that stop here have not recorded goes unrecorded.     *)
Unrecorded(stopped) ==
    {f \in failed : /\ f.by \in stopped
                    /\ \/ attempt[f.by].at = "noteAccount"
                       \/ attempt[f.by].at = "noteAddress" /\ f.name \in Addresses}

(* A request is dropped with its connection.  With the table every access  *)
(* of the store waits; with the map only the query for the employee does.  *)
LimitAbort(a) ==
    /\ attempt[a].at \in Under /\ (~shared => attempt[a].at = "compare")
    /\ Stop(a)
    /\ failed' = failed \ Unrecorded({a})
    /\ UNCHANGED <<now, shared, marks, peak>>

(* A process with a map of its own restarts: the map starts empty.  (One   *)
(* that shares the table drops its requests only, LimitAbort of each.)     *)
LimitRestart(r) ==
    /\ ~shared
    /\ LET here == {a \in Attempts : attempt[a].on = r /\ attempt[a].at \in Under} IN
       /\ attempt' = [a \in Attempts |-> IF a \in here THEN [New EXCEPT !.at = "over"] ELSE attempt[a]]
       /\ marks' = [marks EXCEPT ![r] = [k \in Kinds |-> [n \in Names |-> {}]]]
       /\ failed' = {f \in failed : f.at # r}
    /\ UNCHANGED <<now, shared, peak>>

LimitNext ==
    \/ \E a \in Attempts :
        \/ \E k \in Kinds, c \in Accounts, i \in Addresses, r \in Replicas : LookAddress(a, k, c, i, r)
        \/ LookAccount(a) \/ CompareRight(a) \/ CompareWrong(a)
        \/ NoteAccount(a) \/ NoteAddress(a) \/ LimitClear(a) \/ LimitAbort(a)
    \/ Tick \/ Cleanup
    \/ \E r \in Replicas : LimitRestart(r)

LimitSpec == LimitInit /\ [][LimitNext]_limitVars

-----------------------------------------------------------------------------
(* is_locked_account, is_locked_ip, record_failure_*: within its window a  *)
(* key has at most its limit of failures (of POSTs that ran), and one more *)
(* for every attempt beyond the first that was ever under way together     *)
(* with it; and no failure that is over goes uncounted.                    *)
LimitHolds ==
    \A p \in Places, k \in Kinds, n \in Names :
        LET ofKey == {f \in failed : f.at = p /\ f.kind = k /\ f.name = n /\ Recent(k, f.time)}
            over  == {f \in ofKey : attempt[f.by].at = "over"} IN
        /\ ofKey = {} \/ Cardinality(ofKey) < Limit(k, n) + peak[p][k][n]
        /\ {f.by : f \in over} \subseteq {m.by : m \in marks[p][k][n]}

(* cleanup_expired_postgres, prune_stale_keys, remove: of a key that is    *)
(* locked the count goes down with the clock, with a success of that very  *)
(* account and kind, and with the restart of the process that holds it,    *)
(* and with nothing else.                                                  *)
LocksStand ==
    [][\A p \in Places, k \in Kinds, n \in Names :
        /\ CountOf(p, k, n) >= Limit(k, n) /\ CountOf(p, k, n)' < CountOf(p, k, n)
        => \/ now' # now
           \/ \E a \in Attempts : /\ attempt[a].at = "clear" /\ attempt'[a].at = "over"
                                  /\ attempt[a].on = p /\ attempt[a].kind = k /\ attempt[a].account = n
           \/ p \in Replicas /\ UnderWay(attempt', p, k, n) = {} /\ marks'[p] # marks[p]
                /\ \A l \in Kinds, x \in Names : marks'[p][l][x] = {}]_limitVars
=============================================================================
