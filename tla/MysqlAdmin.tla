---------------------------- MODULE MysqlAdmin ----------------------------
(***************************************************************************)
(* The MySQL pages: an administrator's form goes through the panel         *)
(* (httpapi.go, mysqlCreateDatabase and its neighbours) and its agent      *)
(* client (agent_client.go, ten seconds for an answer) to the agent's      *)
(* handlers (agent.go), which run "sudo mysql -e ..." (mysql.go).          *)
(*                                                                         *)
(* The database server is modelled from the statements it is sent.  It     *)
(* runs each one at once and whole; which comes first is open, and a       *)
(* statement runs although the panel has given up its request.             *)
(***************************************************************************)
EXTENDS Naturals, FiniteSets

CONSTANTS
    Dbs,        \* names of databases
    Users,      \* names of users
    Passwords,  \* passwords an administrator submits
    Requests,   \* forms that are submitted
    None,       \* no such account, no request, nothing submitted
    MaxFaults   \* bound: crashes of the agent and failing statements

ASSUME ConstantsAssumption ==
    /\ None \notin Passwords \cup Requests \cup {"waiting", "ok", "error"}
    /\ Dbs \cap Users = {}
    /\ MaxFaults \in Nat

VARIABLES
    dbs,        \* the databases on the node
    accounts,   \* password of each user at localhost, None without account
    grants,     \* database and user at localhost
    form,       \* what each request asks for, None until it is submitted
    pc,         \* where the agent's handler of a request is
    answer,     \* what the panel told the administrator
    last,       \* history: the latest form for each database and user, when
                \* nothing else was outstanding for what it names
    faults

serverVars == <<dbs, accounts, grants>>
vars == <<serverVars, form, pc, answer, last, faults>>

----------------------------------------------------------------------------
(* Helpers.  Names that start with Bug are faulty variants of the          *)
(* definition after them: mistakes the properties have to notice.          *)

Forms ==
    [op : {"createDb", "dropDb"}, db : Dbs]
        \cup [op : {"createUser"}, user : Users, password : Passwords]
        \cup [op : {"dropUser"}, user : Users]
        \cup [op : {"grant"}, db : Dbs, user : Users]

ASSUME NoneIsNoForm == None \notin Forms

\* mysqlDeleteDatabase and mysqlDeleteUser do not look at the result.
Unchecked == {"dropDb", "dropUser"}

Named(f) ==
    CASE f.op \in {"createDb", "dropDb"}     -> {f.db}
      [] f.op \in {"createUser", "dropUser"} -> {f.user}
      [] f.op = "grant"                      -> {f.db, f.user}

\* Requests that may still change something that f names.
Outstanding(f) ==
    {r \in Requests : /\ form[r] # None /\ pc[r] # "done"
                      /\ Named(form[r]) \cap Named(f) # {}}

\* What the panel makes of the agent's result.
Told(r, result) == IF form[r].op \in Unchecked THEN "ok" ELSE result

Fault == faults < MaxFaults /\ faults' = faults + 1

\* The handler answers; the panel hears it unless it has given up.
Finish(r, result) ==
    /\ pc' = [pc EXCEPT ![r] = "done"]
    /\ answer' = [answer EXCEPT ![r] = IF @ = "waiting" THEN Told(r, result) ELSE @]
    /\ UNCHANGED <<form, last>>

Received(r, op) == pc[r] = "sent" /\ form[r].op = op

\* A statement changes the server and ends the handler, or it fails: the
\* server is away, or it has run the statement and the result is lost.
Executes(r, statement) ==
    \/ statement /\ Finish(r, "ok") /\ UNCHANGED faults
    \/ statement /\ Fault /\ Finish(r, "error")
    \/ UNCHANGED serverVars /\ Fault /\ Finish(r, "error")

----------------------------------------------------------------------------
\* A node may come with databases and accounts of its own.
Init ==
    /\ dbs \in SUBSET Dbs
    /\ accounts \in [Users -> Passwords \cup {None}]
    /\ grants = {}
    /\ form = [r \in Requests |-> None]
    /\ pc = [r \in Requests |-> "idle"]
    /\ answer = [r \in Requests |-> None]
    /\ last = [x \in Dbs \cup Users |-> None]
    /\ faults = 0

----------------------------------------------------------------------------
(* The panel.                                                              *)

\* A form is submitted and sent on to the agent.
Submit(r, f) ==
    /\ form[r] = None
    /\ form' = [form EXCEPT ![r] = f]
    /\ pc' = [pc EXCEPT ![r] = "sent"]
    /\ answer' = [answer EXCEPT ![r] = "waiting"]
    /\ last' = [x \in Dbs \cup Users |->
                  IF x \in Named(f)
                  THEN IF Outstanding(f) = {} THEN r ELSE None
                  ELSE last[x]]
    /\ UNCHANGED <<serverVars, faults>>

\* The client's ten seconds are over, or the answer is lost.
GiveUp(r) ==
    /\ answer[r] = "waiting"
    /\ answer' = [answer EXCEPT ![r] = Told(r, "error")]
    /\ UNCHANGED <<serverVars, form, pc, last, faults>>

\* A request the panel has given up never comes to the agent.
Lose(r) ==
    /\ pc[r] = "sent"
    /\ answer[r] # "waiting"
    /\ pc' = [pc EXCEPT ![r] = "done"]
    /\ UNCHANGED <<serverVars, form, answer, last, faults>>

----------------------------------------------------------------------------
(* The agent's handlers and their statements.                              *)

\* CREATE DATABASE IF NOT EXISTS.
CreateDatabase(r) ==
    /\ Received(r, "createDb")
    /\ Executes(r, dbs' = dbs \cup {form[r].db} /\ UNCHANGED <<accounts, grants>>)

\* DROP DATABASE IF EXISTS: what was granted on it stays granted.
DeleteDatabase(r) ==
    /\ Received(r, "dropDb")
    /\ Executes(r, dbs' = dbs \ {form[r].db} /\ UNCHANGED <<accounts, grants>>)

\* The name is given for the password.
BugCreateUserName(r) ==
    /\ Received(r, "createUser")
    /\ Executes(r, /\ accounts' = [accounts EXCEPT ![form[r].user] =
                                     IF @ = None THEN form[r].user ELSE @]
                   /\ UNCHANGED <<dbs, grants>>)

\* CREATE OR REPLACE USER.
BugCreateUser(r) ==
    /\ Received(r, "createUser")
    /\ Executes(r, /\ accounts' = [accounts EXCEPT ![form[r].user] = form[r].password]
                   /\ UNCHANGED <<dbs, grants>>)

\* CREATE USER IF NOT EXISTS ...@'localhost': an account that exists keeps
\* its password, and that is no error.
CreateUser(r) ==
    /\ Received(r, "createUser")
    /\ Executes(r, /\ accounts' = [accounts EXCEPT ![form[r].user] =
                                     IF @ = None THEN form[r].password ELSE @]
                   /\ UNCHANGED <<dbs, grants>>)

\* DELETE FROM mysql.user.
BugDeleteUser(r) ==
    /\ Received(r, "dropUser")
    /\ Executes(r, /\ accounts' = [accounts EXCEPT ![form[r].user] = None]
                   /\ UNCHANGED <<dbs, grants>>)

\* DROP USER IF EXISTS ...@'localhost': its grants go with it.
DeleteUser(r) ==
    /\ Received(r, "dropUser")
    /\ Executes(r, /\ accounts' = [accounts EXCEPT ![form[r].user] = None]
                   /\ grants' = {g \in grants : g[2] # form[r].user}
                   /\ UNCHANGED dbs)

\* The result of GRANT is not looked at.
BugGrantMissing(r) ==
    /\ Received(r, "grant")
    /\ accounts[form[r].user] = None
    /\ pc' = [pc EXCEPT ![r] = "flush"]
    /\ UNCHANGED <<serverVars, form, answer, last, faults>>

\* GRANT to a user without account is an error of the server.
GrantMissing(r) ==
    /\ Received(r, "grant")
    /\ accounts[form[r].user] = None
    /\ Finish(r, "error")
    /\ UNCHANGED <<serverVars, faults>>

\* GRANT ALL PRIVILEGES ON db.*: the database need not exist.
Grant(r) ==
    /\ Received(r, "grant")
    /\ accounts[form[r].user] # None
    /\ grants' = grants \cup {<<form[r].db, form[r].user>>}
    /\ \/ pc' = [pc EXCEPT ![r] = "flush"] /\ UNCHANGED <<form, answer, last, faults>>
       \/ Fault /\ Finish(r, "error")
    /\ UNCHANGED <<dbs, accounts>>

GrantFails(r) ==
    /\ Received(r, "grant")
    /\ Fault
    /\ Finish(r, "error")
    /\ UNCHANGED serverVars

\* FLUSH PRIVILEGES, a second call of mysql.
Flush(r) ==
    /\ pc[r] = "flush"
    /\ Executes(r, UNCHANGED serverVars)

\* The agent dies and is started again; a statement that mysql runs may
\* still be done by the server, which Executes covers.
AgentDies ==
    LET dying == {r \in Requests : pc[r] \in {"sent", "flush"}} IN
    /\ dying # {}
    /\ Fault
    /\ pc' = [r \in Requests |-> IF r \in dying THEN "done" ELSE pc[r]]
    /\ answer' = [r \in Requests |->
                    IF r \in dying /\ answer[r] = "waiting" THEN Told(r, "error") ELSE answer[r]]
    /\ UNCHANGED <<serverVars, form, last>>

Next ==
    \/ \E r \in Requests :
         \/ \E f \in Forms : Submit(r, f)
         \/ GiveUp(r) \/ Lose(r)
         \/ CreateDatabase(r) \/ DeleteDatabase(r)
         \/ CreateUser(r) \/ DeleteUser(r)
         \/ GrantMissing(r) \/ Grant(r) \/ GrantFails(r) \/ Flush(r)
    \/ AgentDies

Spec == Init /\ [][Next]_vars

----------------------------------------------------------------------------
(* Properties.                                                             *)

\* Every variable has its type: the type invariant of the module.
TypeOK ==
    /\ dbs \subseteq Dbs
    /\ accounts \in [Users -> Passwords \cup {None}]
    /\ grants \subseteq Dbs \X Users
    /\ form \in [Requests -> Forms \cup {None}]
    /\ pc \in [Requests -> {"idle", "sent", "flush", "done"}]
    /\ answer \in [Requests -> {None, "waiting", "ok", "error"}]
    /\ last \in [Dbs \cup Users -> Requests \cup {None}]
    /\ faults \in 0..MaxFaults

\* What a checked request leaves behind when it is answered with success.
Effect(r) ==
    LET f == form[r] IN
    /\ f.op = "createDb"   => f.db \in dbs
    /\ f.op = "createUser" => accounts[f.user] # None
    /\ f.op = "grant"      => <<f.db, f.user>> \in grants

\* What the administrator was told stands: a create or a grant that was
\* submitted when nothing else was outstanding for what it names, and was
\* answered with success, holds until the next form that names any of it,
\* whatever late or failing requests do to the rest (httpapi.go:486-555).
AnsweredHolds ==
    \A r \in Requests :
        (form[r] # None /\ answer[r] = "ok" /\ \A x \in Named(form[r]) : last[x] = r)
            => Effect(r)

\* However creates and drops of a user are repeated, delayed and reordered,
\* no privilege outlives the account it was granted to, ready for the next
\* account of that name (mysql.go:98-122).
GrantsHaveAccounts ==
    \A g \in grants : accounts[g[2]] # None

\* A create that is repeated or comes late never changes the password of an
\* account that is there (mysql.go:101).
PasswordsStay ==
    [][\A u \in Users :
         accounts[u] # None => accounts'[u] \in {accounts[u], None}]_vars

\* mysql.go:115 says of GrantPrivileges: "Ensure user exists and DB exists".
GrantEnsuresBoth ==
    [][\A g \in grants' \ grants : g[1] \in dbs /\ accounts[g[2]] # None]_vars

============================================================================
