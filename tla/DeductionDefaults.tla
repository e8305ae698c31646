------------------------- MODULE DeductionDefaults --------------------------
(***************************************************************************)
(* Saves of an employee's default deductions (save_deduction_defaults in   *)
(* services/compensation.rs): in a transaction the rows of the employee    *)
(* are deleted and one is inserted for every type with an amount.          *)
(*                                                                         *)
(* PostgreSQL runs it READ COMMITTED: the DELETE works on the rows that    *)
(* were committed when it began and waits for whoever is deleting one of   *)
(* them; an INSERT waits for whoever has inserted the same type and fails  *)
(* on a row that is committed.  An amount is the save that set it.         *)
(***************************************************************************)
EXTENDS Naturals, FiniteSets

CONSTANTS
    DefaultSaves,   \* the POSTs; bounds their number
    DeductionTypes  \* in the order of the form

ASSUME DeductionDefaultsAssumption == DeductionTypes \subseteq Nat

VARIABLES
    defaults,   \* the rows that are committed
    save,       \* the POSTs and their transactions
    latest,     \* history: the save that committed last, or none
    beside      \* history: the saves that were under way together

defaultVars == <<defaults, save, latest, beside>>

Amounts(t, s) == [type |-> t, by |-> s]
Open == {"delete", "insert"}

(* saw is what the DELETE works on, gone what it has deleted, wrote the    *)
(* types inserted so far.                                                  *)
NotSaved == [at |-> "new", form |-> {}, saw |-> {}, gone |-> {}, wrote |-> {}]

DefaultTypeOK ==
    LET rows == [type : DeductionTypes, by : DefaultSaves] IN
    /\ defaults \subseteq rows
    /\ save \in [DefaultSaves -> [at : {"new", "done"} \cup Open, form : SUBSET DeductionTypes,
                                  saw : SUBSET rows, gone : SUBSET rows, wrote : SUBSET DeductionTypes]]
    /\ latest \subseteq DefaultSaves
    /\ beside \subseteq DefaultSaves \X DefaultSaves

DefaultInit ==
    /\ defaults = {}
    /\ save = [s \in DefaultSaves |-> NotSaved]
    /\ latest = {}
    /\ beside = {}

(* The form has an amount for the types in form; every other one is zero.  *)
SaveBegin(s, form) ==
    /\ save[s].at = "new"
    /\ save' = [save EXCEPT ![s] = [NotSaved EXCEPT !.at = "delete", !.form = form, !.saw = defaults]]
    /\ beside' = beside \cup UNION {{<<s, q>>, <<q, s>>} : q \in {q \in DefaultSaves : save[q].at \in Open}}
    /\ UNCHANGED <<defaults, latest>>

SaveDeleteOwn(s) ==
    /\ save[s].at = "delete"
    /\ \A q \in DefaultSaves \ {s} : save[q].at \in Open => save[q].gone \cap save[s].saw = {}
    /\ save' = [save EXCEPT ![s].at = "insert",
                            ![s].gone = {r \in save[s].saw \cap defaults : r.type \in save[s].form}]
    /\ UNCHANGED <<defaults, latest, beside>>

SaveDelete(s) ==
    /\ save[s].at = "delete"
    /\ \A q \in DefaultSaves \ {s} : save[q].at \in Open => save[q].gone \cap save[s].saw = {}
    /\ save' = [save EXCEPT ![s].at = "insert", ![s].gone = save[s].saw \cap defaults]
    /\ UNCHANGED <<defaults, latest, beside>>

(* The next type of the form; the primary key decides, once nobody is      *)
(* inserting or deleting a row of that type.  (Two that wait for each      *)
(* other are SaveAbort of the one the server picks.)                       *)
SaveInsert(s) ==
    LET left == save[s].form \ save[s].wrote IN
    /\ save[s].at = "insert" /\ left # {}
    /\ LET t == CHOOSE t \in left : \A u \in left : t <= u IN
       /\ \A q \in DefaultSaves \ {s} : save[q].at \in Open =>
                t \notin save[q].wrote /\ \A r \in save[q].gone : r.type # t
       /\ save' = IF \E r \in defaults \ save[s].gone : r.type = t
                  THEN [save EXCEPT ![s] = [NotSaved EXCEPT !.at = "done"]]
                  ELSE [save EXCEPT ![s].wrote = @ \cup {t}]
    /\ UNCHANGED <<defaults, latest, beside>>

SaveCommit(s) ==
    /\ save[s].at = "insert" /\ save[s].wrote = save[s].form
    /\ defaults' = (defaults \ save[s].gone) \cup {Amounts(t, s) : t \in save[s].form}
    /\ save' = [save EXCEPT ![s] = [NotSaved EXCEPT !.at = "done", !.form = save[s].form]]
    /\ latest' = {s}
    /\ UNCHANGED beside

(* A statement fails, or the handler is dropped: the transaction rolls     *)
(* back.                                                                   *)
SaveAbort(s) ==
    /\ save[s].at \in Open
    /\ save' = [save EXCEPT ![s] = [NotSaved EXCEPT !.at = "done"]]
    /\ UNCHANGED <<defaults, latest, beside>>

DefaultNext ==
    \E s \in DefaultSaves :
        \/ \E form \in SUBSET DeductionTypes : SaveBegin(s, form)
        \/ SaveDelete(s) \/ SaveInsert(s) \/ SaveCommit(s) \/ SaveAbort(s)

DefaultSpec == DefaultInit /\ [][DefaultNext]_defaultVars

-----------------------------------------------------------------------------
(* The defaults of an employee are all the amounts of the save that        *)
(* committed last, and beyond them only amounts of saves that were under   *)
(* way together with it; and a type has one amount                         *)
(* (compensation.rs:268-307).                                              *)
DefaultsOfOneSave ==
    /\ \A s \in latest : /\ {Amounts(t, s) : t \in save[s].form} \subseteq defaults
                         /\ \A r \in defaults : r.by = s \/ <<r.by, s>> \in beside
    /\ \A q, r \in defaults : q.type = r.type => q = r
=============================================================================
