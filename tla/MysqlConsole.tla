---------------------------- MODULE MysqlConsole ----------------------------
(***************************************************************************)
(* What the MySQL pages promise: the abstract specification of the way     *)
(* from an administrator's form to the database server.                    *)
(*                                                                         *)
(* A form is carried out in ONE step, once, or never; it is never carried  *)
(* out after it is over.  A form that is checked is answered with success  *)
(* only in or after the step that carried it out; "error" promises         *)
(* nothing.  MysqlRefinement maps MysqlAdmin to this module.               *)
(***************************************************************************)
CONSTANTS
    Dbs, Users, Passwords, Requests, None,
    Forms,      \* what can be asked for
    Unchecked   \* operations whose result the panel does not look at

VARIABLES
    dbs, accounts, grants,  \* the database server
    form,                   \* what each request asks for
    fate,                   \* "none", "open", "carried" (out) or "over"
    answer                  \* what the administrator was told

server == <<dbs, accounts, grants>>
vars == <<server, form, fate, answer>>

Init ==
    /\ dbs \in SUBSET Dbs
    /\ accounts \in [Users -> Passwords \cup {None}]
    /\ grants = {}
    /\ form = [r \in Requests |-> None]
    /\ fate = [r \in Requests |-> "none"]
    /\ answer = [r \in Requests |-> None]

\* What carrying out f does; a grant needs an account, not a database.
Effect(f) ==
    \/ /\ f.op = "createDb"
       /\ dbs' = dbs \cup {f.db} /\ UNCHANGED <<accounts, grants>>
    \/ /\ f.op = "dropDb"
       /\ dbs' = dbs \ {f.db} /\ UNCHANGED <<accounts, grants>>
    \/ /\ f.op = "createUser"
       /\ accounts' = [accounts EXCEPT ![f.user] = IF @ = None THEN f.password ELSE @]
       /\ UNCHANGED <<dbs, grants>>
    \/ /\ f.op = "dropUser"
       /\ accounts' = [accounts EXCEPT ![f.user] = None]
       /\ grants' = {g \in grants : g[2] # f.user}
       /\ UNCHANGED dbs
    \/ /\ f.op = "grant" /\ accounts[f.user] # None
       /\ grants' = grants \cup {<<f.db, f.user>>} /\ UNCHANGED <<dbs, accounts>>

\* An administrator is answered once.
Say(r, a) == answer' = [answer EXCEPT ![r] = IF @ = "waiting" THEN a ELSE @]

Ask(r, f) ==
    /\ fate[r] = "none"
    /\ form' = [form EXCEPT ![r] = f]
    /\ fate' = [fate EXCEPT ![r] = "open"]
    /\ answer' = [answer EXCEPT ![r] = "waiting"]
    /\ UNCHANGED server

CarryOut(r) ==
    /\ fate[r] = "open"
    /\ Effect(form[r])
    /\ \/ fate' = [fate EXCEPT ![r] = "carried"] /\ UNCHANGED answer
       \/ /\ fate' = [fate EXCEPT ![r] = "over"]
          /\ \E a \in {"ok", "error"} : Say(r, a)
    /\ UNCHANGED form

\* Some requests are over, those still open without effect; success is told
\* of what was carried out and of what nobody checks.
Conclude(S) ==
    /\ \A r \in S : fate[r] \in {"open", "carried"}
    /\ fate' = [r \in Requests |-> IF r \in S THEN "over" ELSE fate[r]]
    /\ \E say \in [Requests -> {"ok", "error"}] :
          /\ \A r \in S : say[r] = "ok" => fate[r] = "carried" \/ form[r].op \in Unchecked
          /\ answer' = [r \in Requests |->
                          IF r \in S /\ answer[r] = "waiting" THEN say[r] ELSE answer[r]]
    /\ UNCHANGED <<server, form>>

\* The administrator is told before the request is over.
GiveUp(r) ==
    /\ answer[r] = "waiting"
    /\ Say(r, IF form[r].op \in Unchecked THEN "ok" ELSE "error")
    /\ UNCHANGED <<server, form, fate>>

Next ==
    \/ \E r \in Requests :
         \/ \E f \in Forms : Ask(r, f)
         \/ CarryOut(r) \/ GiveUp(r)
    \/ \E S \in SUBSET Requests : Conclude(S)

Spec == Init /\ [][Next]_vars

=============================================================================
