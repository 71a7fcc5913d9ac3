------------------------- MODULE MysqlAdminProofs -------------------------
(***************************************************************************)
(* What the MySQL pages promise, for any number of databases, users,       *)
(* passwords, requests and faults.                                         *)
(*                                                                         *)
(* That an answer stands needs two facts beside it: a request that has all *)
(* it names to itself shares none of it with a request still under way,    *)
(* and a grant that waits for its FLUSH has been made.                     *)
(***************************************************************************)
EXTENDS MysqlRefinement, TLAPS

\* r was submitted alone, and nothing that names any of it came after.
Owns(r) == form[r] # None /\ \A x \in Named(form[r]) : last[x] = r

Overlap(r, s) == Named(form[r]) \cap Named(form[s]) # {}

\* A request, its handler and its answer keep step.
Progress ==
    \A r \in Requests :
        /\ form[r] = None <=> pc[r] = "idle"
        /\ form[r] = None => answer[r] = None
        /\ pc[r] = "flush" => form[r].op = "grant"
        /\ answer[r] = "ok" /\ form[r].op \notin Unchecked => pc[r] = "done"

\* What a request owns, no other is working on.
OwnerAlone ==
    \A r, s \in Requests :
        r # s /\ Owns(r) /\ form[s] # None /\ Overlap(r, s) => pc[s] = "done"

\* The effect is there as soon as a grant is, before it is answered.
OwnerHolds ==
    \A r \in Requests :
        Owns(r) /\ (pc[r] = "flush" \/ answer[r] = "ok") => Effect(r)

IInv == TypeOK /\ Progress /\ OwnerAlone /\ OwnerHolds

----------------------------------------------------------------------------
(* Forms and what they name.                                               *)

\* Every form names something, and only databases and users.
LEMMA NamedType ==
    ASSUME NEW f \in Forms
    PROVE  Named(f) # {} /\ Named(f) \subseteq Dbs \cup Users
  BY DEF Named, Forms

\* None is no form: a form has an operation.
LEMMA FormOp ==
    ASSUME NEW f \in Forms
    PROVE  f.op \in {"createDb", "dropDb", "createUser", "dropUser", "grant"}
  BY DEF Forms

----------------------------------------------------------------------------
(* The invariant holds at the start, and every action keeps it.            *)

LEMMA InitInv == Init => IInv
<1> SUFFICES ASSUME Init PROVE IInv
    OBVIOUS
<1>1. TypeOK
    BY ConstantsAssumption DEF Init, TypeOK
<1>2. Progress
    BY ConstantsAssumption DEF Init, Progress
<1>3. OwnerAlone /\ OwnerHolds
    BY DEF Init, OwnerAlone, OwnerHolds, Owns
<1> QED
    BY <1>1, <1>2, <1>3 DEF IInv

\* While forms and what is known of them stay, nobody loses what it owns.
LEMMA StayAlone ==
    ASSUME OwnerAlone, form' = form, last' = last,
           \A r \in Requests : pc[r] = "done" => pc'[r] = "done"
    PROVE  OwnerAlone'
  BY DEF OwnerAlone, Owns, Overlap

\* A step that leaves the server alone, and answers "ok" only to a request
\* that nobody checks or that waits for its FLUSH.
LEMMA StillHolds ==
    ASSUME IInv, UNCHANGED <<serverVars, form, last>>,
           \A r \in Requests :
              /\ pc'[r] = "flush" => pc[r] = "flush"
              /\ answer'[r] = "ok" => \/ answer[r] = "ok"
                                      \/ pc[r] = "flush"
                                      \/ form[r].op \in Unchecked
    PROVE  OwnerHolds'
<1> SUFFICES ASSUME NEW r \in Requests, Owns(r), pc'[r] = "flush" \/ answer'[r] = "ok"
             PROVE  Effect(r)
    BY DEF OwnerHolds, Owns, Effect, serverVars
<1>1. CASE pc[r] = "flush" \/ answer[r] = "ok"
    BY <1>1 DEF IInv, OwnerHolds
<1>2. CASE form[r].op \in Unchecked
    BY <1>2 DEF Unchecked, Effect
<1> QED
    BY <1>1, <1>2

\* What a statement of s may change.
Touches(s) ==
    /\ \A d \in Dbs \ Named(form[s]) : d \in dbs' <=> d \in dbs
    /\ \A u \in Users \ Named(form[s]) : accounts'[u] = accounts[u]
    /\ \A d \in Dbs \ Named(form[s]), u \in Users \ Named(form[s]) :
         <<d, u>> \in grants' <=> <<d, u>> \in grants

\* A step of s that runs a statement keeps what the others own.
LEMMA StatementHolds ==
    ASSUME IInv, NEW s \in Requests, pc[s] # "done", form[s] # None,
           form' = form, last' = last, Touches(s),
           \A r \in Requests \ {s} : pc'[r] = pc[r] /\ answer'[r] = answer[r],
           pc'[s] = "flush" \/ answer'[s] = "ok" => Effect(s)'
    PROVE  OwnerHolds'
<1> SUFFICES ASSUME NEW r \in Requests, Owns(r), pc'[r] = "flush" \/ answer'[r] = "ok",
                    r # s
             PROVE  Effect(r)'
    BY DEF OwnerHolds, Owns
<1>1. ~Overlap(r, s)
    BY DEF IInv, OwnerAlone
<1>2. Effect(r)
    BY DEF IInv, OwnerHolds
<1>3. form[r] \in Forms
    BY DEF IInv, TypeOK, Owns
<1>4. CASE form[r].op = "createDb"
    <2>1. form[r].db \in Dbs \ Named(form[s])
        BY <1>1, <1>3, <1>4 DEF Overlap, Named, Forms
    <2> QED
        BY <1>2, <1>4, <2>1 DEF Effect, Touches
<1>5. CASE form[r].op = "createUser"
    <2>1. form[r].user \in Users \ Named(form[s])
        BY <1>1, <1>3, <1>5 DEF Overlap, Named, Forms
    <2> QED
        BY <1>2, <1>5, <2>1 DEF Effect, Touches
<1>6. CASE form[r].op = "grant"
    <2>1. form[r].db \in Dbs \ Named(form[s]) /\ form[r].user \in Users \ Named(form[s])
        BY <1>1, <1>3, <1>6 DEF Overlap, Named, Forms
    <2> QED
        BY <1>2, <1>6, <2>1 DEF Effect, Touches
<1>7. CASE form[r].op \in Unchecked
    BY <1>7 DEF Unchecked, Effect
<1> QED
    BY <1>3, <1>4, <1>5, <1>6, <1>7, FormOp DEF Unchecked

ServerTypes ==
    dbs \subseteq Dbs /\ accounts \in [Users -> Passwords \cup {None}] /\ grants \subseteq Dbs \X Users

\* A request that is under way has a form, which is not in doubt.
LEMMA UnderWay ==
    ASSUME IInv, NEW s \in Requests, pc[s] # "idle"
    PROVE  form[s] # None /\ form[s] \in Forms
  BY DEF IInv, Progress, TypeOK

LEMMA FaultType ==
    ASSUME TypeOK, Fault \/ UNCHANGED faults PROVE faults' \in 0..MaxFaults
  BY ConstantsAssumption DEF TypeOK, Fault

\* The end of a handler, whatever its statement did within its names.
LEMMA EndKeeps ==
    ASSUME IInv, NEW s \in Requests, pc[s] \in {"sent", "flush"},
           NEW result \in {"ok", "error"}, Finish(s, result),
           Fault \/ UNCHANGED faults, ServerTypes', Touches(s),
           result = "ok" => Effect(s)'
    PROVE  IInv'
<1>0. form[s] # None /\ form[s] \in Forms
    BY UnderWay
<1>1. /\ form' = form /\ last' = last
      /\ pc' = [pc EXCEPT ![s] = "done"]
      /\ answer' = [answer EXCEPT ![s] = IF @ = "waiting" THEN Told(s, result) ELSE @]
    BY DEF Finish
<1>2. Told(s, result) \in {"ok", "error"} /\ (Told(s, result) = "ok" => result = "ok" \/ form[s].op \in Unchecked)
    BY DEF Told
<1>3. TypeOK'
    BY <1>1, <1>2, FaultType DEF IInv, TypeOK, ServerTypes
<1>4. /\ pc'[s] = "done"
      /\ answer'[s] = "ok" => \/ result = "ok" \/ form[s].op \in Unchecked
                              \/ answer[s] = "ok"
      /\ \A r \in Requests \ {s} : pc'[r] = pc[r] /\ answer'[r] = answer[r]
    BY <1>1, <1>2 DEF IInv, TypeOK
<1>5. Progress'
    BY <1>0, <1>1, <1>4 DEF IInv, Progress
<1>6. OwnerAlone'
    BY <1>1, <1>4, StayAlone DEF IInv
<1>7. answer'[s] = "ok" => Effect(s)'
    <2>1. answer[s] = "ok" => form[s].op \in Unchecked
        BY <1>0 DEF IInv, Progress
    <2> QED
        BY <1>1, <1>4, <2>1 DEF Effect, Unchecked
<1>8. OwnerHolds'
    BY <1>0, <1>1, <1>4, <1>7, StatementHolds
<1> QED
    BY <1>3, <1>5, <1>6, <1>8 DEF IInv

\* A statement that was never run.
LEMMA FailKeeps ==
    ASSUME IInv, NEW s \in Requests, pc[s] \in {"sent", "flush"},
           UNCHANGED serverVars, Fault, Finish(s, "error")
    PROVE  IInv'
<1>1. ServerTypes' /\ Touches(s)
    BY DEF serverVars, ServerTypes, Touches, IInv, TypeOK
<1> QED
    BY <1>1, EndKeeps

LEMMA CreateDatabaseKeeps ==
    ASSUME IInv, NEW s \in Requests, CreateDatabase(s) PROVE IInv'
<1>1. pc[s] = "sent" /\ form[s].op = "createDb" /\ form[s] \in Forms
    BY UnderWay DEF CreateDatabase, Received
<1> DEFINE Ran == dbs' = dbs \cup {form[s].db} /\ UNCHANGED <<accounts, grants>>
<1>2. CASE Ran /\ \/ Finish(s, "ok") /\ UNCHANGED faults
                  \/ Fault /\ Finish(s, "error")
    <2>1. form[s].db \in Dbs /\ Named(form[s]) = {form[s].db}
        BY <1>1 DEF Named, Forms
    <2>2. ServerTypes' /\ Touches(s)
        BY <1>1, <1>2, <2>1 DEF ServerTypes, Touches, IInv, TypeOK
    <2>3. Effect(s)'
        BY <1>1, <1>2, <2>1, ConstantsAssumption DEF Effect, Finish, IInv, TypeOK
    <2> QED
        BY <1>1, <1>2, <2>2, <2>3, EndKeeps
<1>3. CASE UNCHANGED serverVars /\ Fault /\ Finish(s, "error")
    BY <1>1, <1>3, FailKeeps
<1> QED
    BY <1>2, <1>3 DEF CreateDatabase, Executes

LEMMA DeleteDatabaseKeeps ==
    ASSUME IInv, NEW s \in Requests, DeleteDatabase(s) PROVE IInv'
<1>1. pc[s] = "sent" /\ form[s].op = "dropDb" /\ form[s] \in Forms
    BY UnderWay DEF DeleteDatabase, Received
<1> DEFINE Ran == dbs' = dbs \ {form[s].db} /\ UNCHANGED <<accounts, grants>>
<1>2. CASE Ran /\ \/ Finish(s, "ok") /\ UNCHANGED faults
                  \/ Fault /\ Finish(s, "error")
    <2>1. form[s].db \in Dbs /\ Named(form[s]) = {form[s].db}
        BY <1>1 DEF Named, Forms
    <2>2. ServerTypes' /\ Touches(s)
        BY <1>1, <1>2, <2>1 DEF ServerTypes, Touches, IInv, TypeOK
    <2>3. Effect(s)'
        BY <1>1, <1>2, <2>1, ConstantsAssumption DEF Effect, Finish, IInv, TypeOK
    <2> QED
        BY <1>1, <1>2, <2>2, <2>3, EndKeeps
<1>3. CASE UNCHANGED serverVars /\ Fault /\ Finish(s, "error")
    BY <1>1, <1>3, FailKeeps
<1> QED
    BY <1>2, <1>3 DEF DeleteDatabase, Executes

LEMMA CreateUserKeeps ==
    ASSUME IInv, NEW s \in Requests, CreateUser(s) PROVE IInv'
<1>1. pc[s] = "sent" /\ form[s].op = "createUser" /\ form[s] \in Forms
    BY UnderWay DEF CreateUser, Received
<1> DEFINE Ran == /\ accounts' = [accounts EXCEPT ![form[s].user] =
                                IF @ = None THEN form[s].password ELSE @]
                 /\ UNCHANGED <<dbs, grants>>
<1>2. CASE Ran /\ \/ Finish(s, "ok") /\ UNCHANGED faults
                  \/ Fault /\ Finish(s, "error")
    <2>1. form[s].user \in Users /\ form[s].password \in Passwords /\ Named(form[s]) = {form[s].user}
        BY <1>1 DEF Named, Forms
    <2>2. ServerTypes' /\ Touches(s)
        BY <1>1, <1>2, <2>1 DEF ServerTypes, Touches, IInv, TypeOK
    <2>3. Effect(s)'
        BY <1>1, <1>2, <2>1, ConstantsAssumption DEF Effect, Finish, IInv, TypeOK
    <2> QED
        BY <1>1, <1>2, <2>2, <2>3, EndKeeps
<1>3. CASE UNCHANGED serverVars /\ Fault /\ Finish(s, "error")
    BY <1>1, <1>3, FailKeeps
<1> QED
    BY <1>2, <1>3 DEF CreateUser, Executes

LEMMA DeleteUserKeeps ==
    ASSUME IInv, NEW s \in Requests, DeleteUser(s) PROVE IInv'
<1>1. pc[s] = "sent" /\ form[s].op = "dropUser" /\ form[s] \in Forms
    BY UnderWay DEF DeleteUser, Received
<1> DEFINE Ran == /\ accounts' = [accounts EXCEPT ![form[s].user] = None]
                 /\ grants' = {g \in grants : g[2] # form[s].user}
                 /\ UNCHANGED dbs
<1>2. CASE Ran /\ \/ Finish(s, "ok") /\ UNCHANGED faults
                  \/ Fault /\ Finish(s, "error")
    <2>1. form[s].user \in Users /\ Named(form[s]) = {form[s].user}
        BY <1>1 DEF Named, Forms
    <2>2. ServerTypes' /\ Touches(s)
        BY <1>1, <1>2, <2>1 DEF ServerTypes, Touches, IInv, TypeOK
    <2>3. Effect(s)'
        BY <1>1, <1>2, <2>1, ConstantsAssumption DEF Effect, Finish, IInv, TypeOK
    <2> QED
        BY <1>1, <1>2, <2>2, <2>3, EndKeeps
<1>3. CASE UNCHANGED serverVars /\ Fault /\ Finish(s, "error")
    BY <1>1, <1>3, FailKeeps
<1> QED
    BY <1>2, <1>3 DEF DeleteUser, Executes

LEMMA GrantErrorKeeps ==
    ASSUME IInv, NEW s \in Requests, GrantMissing(s) \/ GrantFails(s) PROVE IInv'
<1>1. pc[s] = "sent"
    BY DEF GrantMissing, GrantFails, Received
<1>2. UNCHANGED serverVars /\ Finish(s, "error") /\ (Fault \/ UNCHANGED faults)
    BY DEF GrantMissing, GrantFails
<1>3. ServerTypes' /\ Touches(s)
    BY <1>2 DEF serverVars, ServerTypes, Touches, IInv, TypeOK
<1> QED
    BY <1>1, <1>2, <1>3, EndKeeps

LEMMA GrantKeeps ==
    ASSUME IInv, NEW s \in Requests, Grant(s) PROVE IInv'
<1>1. pc[s] = "sent" /\ form[s].op = "grant" /\ form[s] # None /\ form[s] \in Forms
    BY UnderWay DEF Grant, Received
<1>2. form[s].db \in Dbs /\ form[s].user \in Users /\ Named(form[s]) = {form[s].db, form[s].user}
    BY <1>1 DEF Named, Forms
<1>3. ServerTypes' /\ Touches(s)
    BY <1>2 DEF Grant, ServerTypes, Touches, IInv, TypeOK
<1>4. form' = form => Effect(s)'
    BY <1>1, <1>2 DEF Grant, Effect
<1>5. CASE Fault /\ Finish(s, "error")
    BY <1>1, <1>3, <1>5, EndKeeps
<1>6. CASE pc' = [pc EXCEPT ![s] = "flush"] /\ UNCHANGED <<form, answer, last, faults>>
    <2>1. TypeOK'
        BY <1>3, <1>6 DEF IInv, TypeOK, ServerTypes
    <2>2. pc'[s] = "flush" /\ \A r \in Requests \ {s} : pc'[r] = pc[r] /\ answer'[r] = answer[r]
        BY <1>6 DEF IInv, TypeOK
    <2>3. Progress'
        BY <1>1, <1>6, <2>2 DEF IInv, Progress, Unchecked
    <2>4. OwnerAlone'
        BY <1>1, <1>6, <2>2, StayAlone DEF IInv
    <2>5. OwnerHolds'
        BY <1>1, <1>3, <1>4, <1>6, <2>2, StatementHolds
    <2> QED
        BY <2>1, <2>3, <2>4, <2>5 DEF IInv
<1> QED
    BY <1>5, <1>6 DEF Grant

LEMMA FlushKeeps ==
    ASSUME IInv, NEW s \in Requests, Flush(s) PROVE IInv'
<1>1. pc[s] = "flush" /\ form[s] # None
    BY UnderWay DEF Flush
<1>2. /\ UNCHANGED serverVars /\ (Fault \/ UNCHANGED faults)
      /\ \E result \in {"ok", "error"} : Finish(s, result)
    BY DEF Flush, Executes
<1>3. PICK result \in {"ok", "error"} : Finish(s, result)
    BY <1>2
<1>4. UNCHANGED <<serverVars, form, last>> /\ pc' = [pc EXCEPT ![s] = "done"]
    BY <1>2, <1>3 DEF Finish
<1>5. ServerTypes'
    BY <1>2 DEF serverVars, ServerTypes, IInv, TypeOK
<1>6. Told(s, result) \in {"ok", "error"}
    BY DEF Told
<1>7. TypeOK'
    BY <1>2, <1>3, <1>5, <1>6, FaultType DEF Finish, IInv, TypeOK, ServerTypes
<1>8. pc'[s] = "done" /\ \A r \in Requests \ {s} : pc'[r] = pc[r] /\ answer'[r] = answer[r]
    BY <1>3 DEF Finish, IInv, TypeOK
<1>9. Progress'
    BY <1>1, <1>4, <1>8 DEF IInv, Progress
<1>10. OwnerAlone'
    BY <1>4, <1>8, StayAlone DEF IInv
<1>11. OwnerHolds'
    BY <1>1, <1>4, <1>8, StillHolds
<1> QED
    BY <1>7, <1>9, <1>10, <1>11 DEF IInv

LEMMA GiveUpKeeps ==
    ASSUME IInv, NEW s \in Requests, GiveUp(s) PROVE IInv'
<1>1. UNCHANGED <<serverVars, form, pc, last>> /\ answer' = [answer EXCEPT ![s] = Told(s, "error")]
    BY DEF GiveUp
<1>2. Told(s, "error") \in {"ok", "error"} /\ (Told(s, "error") = "ok" => form[s].op \in Unchecked)
    BY DEF Told
<1>3. TypeOK'
    BY <1>2 DEF GiveUp, serverVars, IInv, TypeOK
<1>4. form[s] # None
    BY ConstantsAssumption DEF GiveUp, IInv, Progress
<1>5. \A r \in Requests : answer'[r] = IF r = s THEN Told(s, "error") ELSE answer[r]
    BY <1>1 DEF IInv, TypeOK
<1>6. Progress'
    BY <1>1, <1>2, <1>4, <1>5 DEF IInv, Progress
<1>7. OwnerAlone'
    BY <1>1, StayAlone DEF IInv
<1>8. OwnerHolds'
    BY <1>1, <1>2, <1>5, StillHolds
<1> QED
    BY <1>3, <1>6, <1>7, <1>8 DEF IInv

LEMMA LoseKeeps ==
    ASSUME IInv, NEW s \in Requests, Lose(s) PROVE IInv'
<1>1. UNCHANGED <<serverVars, form, answer, last>> /\ pc' = [pc EXCEPT ![s] = "done"] /\ pc[s] = "sent"
    BY DEF Lose
<1>2. TypeOK'
    BY DEF Lose, serverVars, IInv, TypeOK
<1>3. \A r \in Requests : pc'[r] = IF r = s THEN "done" ELSE pc[r]
    BY <1>1 DEF IInv, TypeOK
<1>4. Progress'
    BY <1>1, <1>3 DEF IInv, Progress
<1>5. OwnerAlone'
    BY <1>1, <1>3, StayAlone DEF IInv
<1>6. OwnerHolds'
    BY <1>1, <1>3, StillHolds
<1> QED
    BY <1>2, <1>4, <1>5, <1>6 DEF IInv

LEMMA AgentDiesKeeps == ASSUME IInv, AgentDies PROVE IInv'
<1>1. UNCHANGED <<serverVars, form, last>>
    BY DEF AgentDies
<1>2. \A r \in Requests :
        /\ pc'[r] = IF pc[r] \in {"sent", "flush"} THEN "done" ELSE pc[r]
        /\ answer'[r] = IF pc[r] \in {"sent", "flush"} /\ answer[r] = "waiting"
                        THEN Told(r, "error") ELSE answer[r]
    BY DEF AgentDies
<1>3. \A r \in Requests : /\ Told(r, "error") \in {"ok", "error"}
                          /\ Told(r, "error") = "ok" => form[r].op \in Unchecked
    BY DEF Told
<1>4. TypeOK'
    <2>1. pc' \in [Requests -> {"idle", "sent", "flush", "done"}]
        BY DEF AgentDies, IInv, TypeOK
    <2>2. answer' \in [Requests -> {None, "waiting", "ok", "error"}]
        BY <1>3 DEF AgentDies, IInv, TypeOK
    <2>3. faults' \in 0..MaxFaults
        BY FaultType DEF AgentDies, IInv
    <2> QED
        BY <1>1, <2>1, <2>2, <2>3 DEF serverVars, IInv, TypeOK
<1>5. Progress'
    BY <1>1, <1>2, <1>3 DEF IInv, Progress
<1>6. OwnerAlone'
    BY <1>1, <1>2, StayAlone DEF IInv
<1>7. OwnerHolds'
    BY <1>1, <1>2, <1>3, StillHolds
<1> QED
    BY <1>4, <1>5, <1>6, <1>7 DEF IInv

LEMMA SubmitKeeps ==
    ASSUME IInv, NEW s \in Requests, NEW f \in Forms, Submit(s, f) PROVE IInv'
<1>1. /\ UNCHANGED <<serverVars, faults>> /\ form[s] = None /\ pc[s] = "idle"
      /\ form'[s] = f /\ pc'[s] = "sent" /\ answer'[s] = "waiting" /\ answer[s] = None
      /\ \A r \in Requests \ {s} :
            form'[r] = form[r] /\ pc'[r] = pc[r] /\ answer'[r] = answer[r]
    BY DEF Submit, IInv, TypeOK, Progress
<1>2. \A x \in Dbs \cup Users :
        last'[x] = IF x \in Named(f)
                   THEN IF Outstanding(f) = {} THEN s ELSE None
                   ELSE last[x]
    BY DEF Submit
<1>3. Named(f) # {} /\ \A g \in Forms : Named(g) \subseteq Dbs \cup Users
    BY NamedType
<1>4. f # None
    BY NoneIsNoForm
<1>5. TypeOK'
    <2>1. last' \in [Dbs \cup Users -> Requests \cup {None}]
        BY DEF Submit, IInv, TypeOK
    <2> QED
        BY <2>1 DEF Submit, serverVars, IInv, TypeOK
<1>6. Progress'
    BY <1>1, <1>4 DEF IInv, Progress
\* Another request that owns what it names owned it before, and f names
\* nothing of it.
<1>7. \A r \in Requests \ {s} :
        Owns(r)' => Owns(r) /\ Named(form[r]) \cap Named(f) = {}
    <2> SUFFICES ASSUME NEW r \in Requests \ {s}, Owns(r)'
                 PROVE  Owns(r) /\ Named(form[r]) \cap Named(f) = {}
        OBVIOUS
    <2>1. form[r] # None /\ form[r] \in Forms /\ \A x \in Named(form[r]) : last'[x] = r
        BY <1>1 DEF Owns, IInv, TypeOK
    <2>2. r # None
        BY ConstantsAssumption
    <2> QED
        BY <1>2, <1>3, <2>1, <2>2 DEF Owns
\* The new request owns what it names only if it is alone with it.
<1>8. Owns(s)' => Outstanding(f) = {}
    <2>1. s # None
        BY ConstantsAssumption
    <2>2. Owns(s)' => \A x \in Named(f) : last'[x] = s
        BY <1>1 DEF Owns
    <2> QED
        BY <1>2, <1>3, <2>1, <2>2
<1>9. OwnerAlone'
    <2> SUFFICES ASSUME NEW r \in Requests, NEW q \in Requests, r # q,
                        Owns(r)', form'[q] # None, Overlap(r, q)'
                 PROVE  pc'[q] = "done"
        BY DEF OwnerAlone
    <2>1. CASE r = s
        BY <1>1, <1>8, <2>1 DEF Outstanding, Overlap
    <2>2. CASE q = s
        BY <1>1, <1>7, <2>2 DEF Overlap
    <2>3. CASE r # s /\ q # s
        BY <1>1, <1>7, <2>3 DEF Overlap, IInv, OwnerAlone
    <2> QED
        BY <2>1, <2>2, <2>3
<1>10. OwnerHolds'
    <2> SUFFICES ASSUME NEW r \in Requests, Owns(r)', pc'[r] = "flush" \/ answer'[r] = "ok"
                 PROVE  Effect(r)'
        BY DEF OwnerHolds
    <2>1. r # s
        BY <1>1
    <2>2. Effect(r)
        BY <1>1, <1>7, <2>1 DEF IInv, OwnerHolds
    <2> QED
        BY <1>1, <2>1, <2>2 DEF Effect, serverVars
<1> QED
    BY <1>5, <1>6, <1>9, <1>10 DEF IInv

LEMMA NextKeeps == IInv /\ [Next]_vars => IInv'
<1> SUFFICES ASSUME IInv, [Next]_vars PROVE IInv'
    OBVIOUS
<1>1. CASE UNCHANGED vars
    <2>1. UNCHANGED <<serverVars, form, pc, answer, last, faults>>
        BY <1>1 DEF vars
    <2>2. TypeOK' /\ Progress'
        BY <2>1 DEF serverVars, IInv, TypeOK, Progress
    <2>3. OwnerAlone' /\ OwnerHolds'
        BY <2>1, StayAlone, StillHolds DEF IInv
    <2> QED
        BY <2>2, <2>3 DEF IInv
<1>2. CASE AgentDies
    BY <1>2, AgentDiesKeeps
<1>3. ASSUME NEW r \in Requests, NEW f \in Forms, Submit(r, f) PROVE IInv'
    BY <1>3, SubmitKeeps
<1>4. ASSUME NEW r \in Requests, GiveUp(r) \/ Lose(r) PROVE IInv'
    BY <1>4, GiveUpKeeps, LoseKeeps
<1>5. ASSUME NEW r \in Requests, CreateDatabase(r) \/ DeleteDatabase(r) PROVE IInv'
    BY <1>5, CreateDatabaseKeeps, DeleteDatabaseKeeps
<1>6. ASSUME NEW r \in Requests, CreateUser(r) \/ DeleteUser(r) PROVE IInv'
    BY <1>6, CreateUserKeeps, DeleteUserKeeps
<1>7. ASSUME NEW r \in Requests, GrantMissing(r) \/ Grant(r) \/ GrantFails(r) \/ Flush(r)
      PROVE  IInv'
    BY <1>7, GrantErrorKeeps, GrantKeeps, FlushKeeps
<1> QED
    BY <1>1, <1>2, <1>3, <1>4, <1>5, <1>6, <1>7 DEF Next

\* In every reachable state types hold, progress is in step, and what a
\* request owns is its own and holds (httpapi.go:486-555, mysql.go:59-133).
THEOREM MysqlInvariant == Spec => []IInv
  BY InitInv, NextKeeps, PTL DEF Spec

\* Every variable always has its type (httpapi.go:486-555, mysql.go:59-133).
THEOREM MysqlTypes == Spec => []TypeOK
<1>1. IInv => TypeOK
    BY DEF IInv
<1> QED
    BY <1>1, MysqlInvariant, PTL

\* What the administrator was told stands: a create or a grant that was
\* submitted alone and answered with success holds until the next form for
\* what it names, whatever crashes, fails or comes late meanwhile
\* (httpapi.go:486-555, mysql.go:59-133).
THEOREM AnswersStand == Spec => []AnsweredHolds
<1>1. IInv => AnsweredHolds
    BY DEF IInv, OwnerHolds, AnsweredHolds, Owns
<1> QED
    BY <1>1, MysqlInvariant, PTL

----------------------------------------------------------------------------
(* Accounts, their grants and their passwords.                             *)

\* The steps that change accounts or grants.
LEMMA AccountSteps ==
    ASSUME IInv, [Next]_vars
    PROVE  \/ UNCHANGED <<accounts, grants>>
           \/ \E r \in Requests :
                \/ CreateUser(r) /\ UNCHANGED grants
                \/ DeleteUser(r)
                \/ /\ Grant(r) /\ UNCHANGED accounts
                   /\ accounts[form[r].user] # None
                   /\ grants' = grants \cup {<<form[r].db, form[r].user>>}
<1>1. CASE UNCHANGED vars \/ AgentDies
    BY <1>1 DEF vars, serverVars, AgentDies
<1>2. ASSUME NEW r \in Requests, NEW f \in Forms, Submit(r, f)
      PROVE  UNCHANGED <<accounts, grants>>
    BY <1>2 DEF Submit, serverVars
<1>3. ASSUME NEW r \in Requests,
             GiveUp(r) \/ Lose(r) \/ GrantMissing(r) \/ GrantFails(r) \/ Flush(r)
      PROVE  UNCHANGED <<accounts, grants>>
    BY <1>3 DEF GiveUp, Lose, GrantMissing, GrantFails, Flush, Executes, serverVars
<1>4. ASSUME NEW r \in Requests, CreateDatabase(r) \/ DeleteDatabase(r)
      PROVE  UNCHANGED <<accounts, grants>>
    BY <1>4 DEF CreateDatabase, DeleteDatabase, Executes, serverVars
<1>5. ASSUME NEW r \in Requests, CreateUser(r) PROVE UNCHANGED grants
    BY <1>5 DEF CreateUser, Executes, serverVars
<1>6. ASSUME NEW r \in Requests, Grant(r)
      PROVE  /\ UNCHANGED accounts /\ accounts[form[r].user] # None
             /\ grants' = grants \cup {<<form[r].db, form[r].user>>}
    BY <1>6 DEF Grant
<1> QED
    BY <1>1, <1>2, <1>3, <1>4, <1>5, <1>6 DEF Next

\* An account keeps its password until it is dropped.
LEMMA AccountsStep ==
    ASSUME IInv, [Next]_vars, NEW u \in Users, accounts[u] # None
    PROVE  \/ accounts'[u] = accounts[u]
           \/ accounts'[u] = None /\ grants' = {g \in grants : g[2] # u}
<1>1. ASSUME NEW r \in Requests, CreateUser(r) PROVE accounts'[u] = accounts[u]
    BY <1>1 DEF CreateUser, Executes, serverVars, IInv, TypeOK
<1>2. ASSUME NEW r \in Requests, DeleteUser(r)
      PROVE  \/ accounts'[u] = accounts[u]
             \/ accounts'[u] = None /\ grants' = {g \in grants : g[2] # u}
    <2>1. CASE form[r].user = u
        BY <1>2, <2>1 DEF DeleteUser, Executes, serverVars, IInv, TypeOK
    <2>2. CASE form[r].user # u
        BY <1>2, <2>2 DEF DeleteUser, Executes, serverVars, IInv, TypeOK
    <2> QED
        BY <2>1, <2>2
<1> QED
    BY <1>1, <1>2, AccountSteps

\* Only an account that is there gets a grant.
LEMMA GrantsStep ==
    ASSUME IInv, [Next]_vars, NEW g \in grants' \ grants
    PROVE  accounts'[g[2]] # None
<1>1. ASSUME NEW r \in Requests, DeleteUser(r) PROVE grants' \subseteq grants
    BY <1>1 DEF DeleteUser, Executes, serverVars
<1> QED
    BY <1>1, AccountSteps

\* No privilege outlives its account, in whatever order creates, grants and
\* drops of a user come (mysql.go:98-122).
THEOREM NoOrphanGrants == Spec => []GrantsHaveAccounts
<1>1. Init => GrantsHaveAccounts
    BY DEF Init, GrantsHaveAccounts
<1>2. IInv /\ GrantsHaveAccounts /\ [Next]_vars => GrantsHaveAccounts'
    <2> SUFFICES ASSUME IInv, GrantsHaveAccounts, [Next]_vars, NEW g \in grants'
                 PROVE  accounts'[g[2]] # None
        BY DEF GrantsHaveAccounts
    <2>1. CASE g \in grants
        <3>1. g[2] \in Users /\ accounts[g[2]] # None
            BY <2>1 DEF IInv, TypeOK, GrantsHaveAccounts
        <3> QED
            BY <3>1, AccountsStep
    <2>2. CASE g \notin grants
        BY <2>2, GrantsStep
    <2> QED
        BY <2>1, <2>2
<1> QED
    BY <1>1, <1>2, MysqlInvariant, PTL DEF Spec

\* Repeating a create, or a create that comes late, leaves the password of
\* an account as it is (mysql.go:101).
THEOREM PasswordsKept == Spec => PasswordsStay
<1>1. IInv /\ [Next]_vars =>
        [\A u \in Users : accounts[u] # None => accounts'[u] \in {accounts[u], None}]_vars
    BY AccountsStep
<1> QED
    BY <1>1, MysqlInvariant, PTL DEF Spec, PasswordsStay

\* The half of mysql.go:115 that is true ("Ensure user exists and DB
\* exists"): only a user with an account is granted anything.
GrantEnsuresUser == [][\A g \in grants' \ grants : accounts[g[2]] # None]_vars

\* Every grant is to an account that is there when the grant is made.
THEOREM GrantsAreToUsers == Spec => GrantEnsuresUser
<1>1. IInv /\ [Next]_vars => [\A g \in grants' \ grants : accounts[g[2]] # None]_vars
    <2> SUFFICES ASSUME IInv, [Next]_vars, NEW g \in grants' \ grants
                 PROVE  accounts[g[2]] # None
        OBVIOUS
    <2>1. ASSUME NEW r \in Requests, DeleteUser(r) PROVE grants' \subseteq grants
        BY <2>1 DEF DeleteUser, Executes, serverVars
    <2> QED
        BY <2>1, AccountSteps
<1> QED
    BY <1>1, MysqlInvariant, PTL DEF Spec, GrantEnsuresUser

----------------------------------------------------------------------------
(* That the pages implement MysqlConsole.                                  *)

\* A handler that moves on moves the fate of its form, and no other.
LEMMA FateMoves ==
    ASSUME TypeOK, NEW r \in Requests, NEW p \in {"idle", "sent", "flush", "done"},
           pc' = [pc EXCEPT ![r] = p]
    PROVE  fateBar' = [fateBar EXCEPT ![r] = FateOf[p]]
  BY DEF TypeOK, fateBar, FateOf

LEMMA FateIs ==
    ASSUME NEW r \in Requests
    PROVE  /\ pc[r] = "idle" => fateBar[r] = "none"
           /\ pc[r] = "sent" => fateBar[r] = "open"
           /\ pc[r] = "flush" => fateBar[r] = "carried"
  BY DEF fateBar, FateOf

\* What Finish tells: one answer, to one who waits.
LEMMA FinishSays ==
    ASSUME IInv, NEW r \in Requests, NEW result \in {"ok", "error"}, Finish(r, result)
    PROVE  /\ fateBar' = [fateBar EXCEPT ![r] = "over"]
           /\ Told(r, result) \in {"ok", "error"}
           /\ answer' = [answer EXCEPT ![r] = IF @ = "waiting" THEN Told(r, result) ELSE @]
           /\ form' = form
<1>1. pc' = [pc EXCEPT ![r] = "done"]
    BY DEF Finish
<1>2. fateBar' = [fateBar EXCEPT ![r] = "over"]
    BY <1>1, FateMoves DEF IInv, FateOf
<1> QED
    BY <1>2 DEF Finish, Told

\* A statement that ends its handler carries the form out.
LEMMA FinishCarries ==
    ASSUME IInv, NEW r \in Requests, pc[r] = "sent", C!Effect(form[r]),
           NEW result \in {"ok", "error"}, Finish(r, result)
    PROVE  C!CarryOut(r)
<1>1. fateBar[r] = "open"
    BY FateIs
<1>2. C!Say(r, Told(r, result))
    BY FinishSays DEF C!Say
<1> QED
    BY <1>1, <1>2, FinishSays DEF C!CarryOut

\* A handler that ends without a statement of its own concludes its form;
\* it reports success only after the grant that came before.
LEMMA FinishConcludes ==
    ASSUME IInv, NEW r \in Requests, pc[r] \in {"sent", "flush"}, UNCHANGED serverVars,
           NEW result \in {"ok", "error"}, Finish(r, result), result = "ok" => pc[r] = "flush"
    PROVE  C!Conclude({r})
<1> DEFINE say == [q \in Requests |-> IF q = r THEN Told(r, result) ELSE "error"]
<1>1. fateBar[r] \in {"open", "carried"} /\ (result = "ok" => fateBar[r] = "carried")
    BY FateIs
<1>2. fateBar' = [q \in Requests |-> IF q \in {r} THEN "over" ELSE fateBar[q]]
    BY FinishSays DEF fateBar
<1>3. say \in [Requests -> {"ok", "error"}]
    BY FinishSays
<1>4. \A q \in {r} : say[q] = "ok" => fateBar[q] = "carried" \/ form[q].op \in Unchecked
    BY <1>1 DEF Told
<1>5. answer' = [q \in Requests |->
                   IF q \in {r} /\ answer[q] = "waiting" THEN say[q] ELSE answer[q]]
    BY FinishSays DEF IInv, TypeOK
<1> QED
    BY <1>1, <1>2, <1>3, <1>4, <1>5, FinishSays DEF C!Conclude, C!server, serverVars

LEMMA RefineExecutes ==
    ASSUME IInv, NEW r \in Requests,
           CreateDatabase(r) \/ DeleteDatabase(r) \/ CreateUser(r) \/ DeleteUser(r)
    PROVE  C!CarryOut(r) \/ C!Conclude({r})
<1>1. pc[r] = "sent"
    BY DEF CreateDatabase, DeleteDatabase, CreateUser, DeleteUser, Received
<1>2. \/ C!Effect(form[r]) /\ (Finish(r, "ok") \/ Finish(r, "error"))
      \/ UNCHANGED serverVars /\ Finish(r, "error")
    <2>1. CASE CreateDatabase(r)
        BY <2>1 DEF CreateDatabase, Received, Executes, C!Effect
    <2>2. CASE DeleteDatabase(r)
        BY <2>2 DEF DeleteDatabase, Received, Executes, C!Effect
    <2>3. CASE CreateUser(r)
        BY <2>3 DEF CreateUser, Received, Executes, C!Effect
    <2>4. CASE DeleteUser(r)
        BY <2>4 DEF DeleteUser, Received, Executes, C!Effect
    <2> QED
        BY <2>1, <2>2, <2>3, <2>4
<1>3. CASE C!Effect(form[r]) /\ (Finish(r, "ok") \/ Finish(r, "error"))
    BY <1>1, <1>3, FinishCarries
<1>4. CASE UNCHANGED serverVars /\ Finish(r, "error")
    BY <1>1, <1>4, FinishConcludes
<1> QED
    BY <1>2, <1>3, <1>4

\* GRANT carries the form out; FLUSH and every error conclude it.
LEMMA RefineGrant ==
    ASSUME IInv, NEW r \in Requests, GrantMissing(r) \/ Grant(r) \/ GrantFails(r) \/ Flush(r)
    PROVE  C!CarryOut(r) \/ C!Conclude({r})
<1>1. CASE GrantMissing(r) \/ GrantFails(r)
    BY <1>1, FinishConcludes DEF GrantMissing, GrantFails, Received
<1>2. CASE Flush(r)
    BY <1>2, FinishConcludes DEF Flush, Executes
<1>3. CASE Grant(r)
    <2>1. pc[r] = "sent" /\ C!Effect(form[r])
        BY <1>3 DEF Grant, Received, C!Effect
    <2>2. CASE pc' = [pc EXCEPT ![r] = "flush"] /\ UNCHANGED <<form, answer, last, faults>>
        <3>1. fateBar[r] = "open" /\ fateBar' = [fateBar EXCEPT ![r] = "carried"]
            BY <2>1, <2>2, FateIs, FateMoves DEF IInv, FateOf
        <3> QED
            BY <2>1, <2>2, <3>1 DEF C!CarryOut
    <2>3. CASE Finish(r, "error")
        BY <2>1, <2>3, FinishCarries
    <2> QED
        BY <1>3, <2>2, <2>3 DEF Grant
<1> QED
    BY <1>1, <1>2, <1>3

LEMMA RefineSubmit ==
    ASSUME IInv, NEW r \in Requests, NEW f \in Forms, Submit(r, f)
    PROVE  C!Ask(r, f)
<1>1. pc[r] = "idle" /\ pc' = [pc EXCEPT ![r] = "sent"]
    BY DEF Submit, IInv, Progress
<1>2. fateBar[r] = "none" /\ fateBar' = [fateBar EXCEPT ![r] = "open"]
    BY <1>1, FateIs, FateMoves DEF IInv, FateOf
<1> QED
    BY <1>2 DEF Submit, C!Ask, C!server, serverVars

\* The panel gives up: told before it is over, or lost on the way.
LEMMA RefineGiveUp ==
    ASSUME IInv, NEW r \in Requests, GiveUp(r) \/ Lose(r)
    PROVE  C!GiveUp(r) \/ C!Conclude({r})
<1>1. CASE GiveUp(r)
    <2>1. answer' = [answer EXCEPT ![r] = Told(r, "error")] /\ answer[r] = "waiting"
        BY <1>1 DEF GiveUp
    <2>2. C!Say(r, IF form[r].op \in Unchecked THEN "ok" ELSE "error")
        BY <2>1 DEF C!Say, Told, IInv, TypeOK
    <2>3. fateBar' = fateBar
        BY <1>1 DEF GiveUp, fateBar
    <2> QED
        BY <1>1, <2>1, <2>2, <2>3 DEF GiveUp, C!GiveUp, C!server, serverVars
<1>2. CASE Lose(r)
    <2>1. pc[r] = "sent" /\ pc' = [pc EXCEPT ![r] = "done"] /\ UNCHANGED <<serverVars, form>>
          /\ answer' = answer /\ answer[r] # "waiting"
        BY <1>2 DEF Lose
    <2>2. Finish(r, "error")
        BY <2>1, <1>2 DEF Finish, Lose, IInv, TypeOK
    <2> QED
        BY <2>1, <2>2, FinishConcludes
<1> QED
    BY <1>1, <1>2

\* A crash of the agent concludes every form it was working on at once.
LEMMA RefineDies ==
    ASSUME IInv, AgentDies
    PROVE  \E S \in SUBSET Requests : C!Conclude(S)
<1> DEFINE S == {r \in Requests : pc[r] \in {"sent", "flush"}}
           say == [r \in Requests |-> Told(r, "error")]
<1>1. /\ pc' = [r \in Requests |-> IF r \in S THEN "done" ELSE pc[r]]
      /\ answer' = [r \in Requests |->
                      IF r \in S /\ answer[r] = "waiting" THEN say[r] ELSE answer[r]]
      /\ UNCHANGED <<serverVars, form>>
    BY DEF AgentDies
<1>2. fateBar' = [r \in Requests |-> IF r \in S THEN "over" ELSE fateBar[r]]
    BY <1>1 DEF fateBar, FateOf
<1>3. \A r \in S : fateBar[r] \in {"open", "carried"}
    BY FateIs
<1>4. say \in [Requests -> {"ok", "error"}]
    BY DEF Told
<1>5. \A r \in S : say[r] = "ok" => fateBar[r] = "carried" \/ form[r].op \in Unchecked
    BY DEF Told
<1>6. C!Conclude(S)
    BY <1>1, <1>2, <1>3, <1>4, <1>5 DEF C!Conclude, C!server, serverVars
<1> QED
    BY <1>6

LEMMA RefineInit == Init => C!Init
<1> SUFFICES ASSUME Init PROVE C!Init
    OBVIOUS
<1>1. fateBar = [r \in Requests |-> "none"]
    BY DEF Init, fateBar, FateOf
<1> QED
    BY <1>1 DEF Init, C!Init

LEMMA RefineStep == IInv /\ [Next]_vars => [C!Next]_(C!vars)
<1> SUFFICES ASSUME IInv, [Next]_vars PROVE [C!Next]_(C!vars)
    OBVIOUS
<1>1. CASE UNCHANGED vars
    <2>1. fateBar' = fateBar
        BY <1>1 DEF vars, fateBar
    <2> QED
        BY <1>1, <2>1 DEF vars, serverVars, C!vars, C!server
<1>2. CASE AgentDies
    BY <1>2, RefineDies DEF C!Next
<1>3. ASSUME NEW r \in Requests, NEW f \in Forms, Submit(r, f) PROVE C!Next
    BY <1>3, RefineSubmit DEF C!Next
<1>4. ASSUME NEW r \in Requests, C!CarryOut(r) \/ C!GiveUp(r) \/ C!Conclude({r}) PROVE C!Next
    <2>1. {r} \in SUBSET Requests
        OBVIOUS
    <2> QED
        BY <1>4, <2>1 DEF C!Next
<1> QED
    BY <1>1, <1>2, <1>3, <1>4, RefineGiveUp, RefineExecutes, RefineGrant DEF Next

\* Whatever crashes, fails, is lost or comes late, a form is one step of the
\* console, taken at most once, and a success that was checked is true
\* (httpapi.go:486-555, agent_client.go:225-278, mysql.go:59-133).
THEOREM FormsAtomic == Spec => FormsAreAtomic
  BY RefineInit, RefineStep, MysqlInvariant, PTL DEF Spec, FormsAreAtomic, C!Spec

============================================================================
