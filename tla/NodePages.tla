----------------------------- MODULE NodePages -----------------------------
(***************************************************************************)
(* The pages of a node behind PanelGate (httpapi.go, /nodes/{id}/...):     *)
(* a handler reads the node's row and calls the agent at the host it names *)
(* or deletes the row, while agents register outside the gate.             *)
(*                                                                         *)
(* A page names its node by the id in its address, which the browser may   *)
(* have from a list of long ago.  What the agent does with a call is the   *)
(* business of NginxSites and MysqlAdmin; what agentRegister does besides  *)
(* the row, that of Enrollment.  An update of a row by agentRegister sets  *)
(* name, port and certificate name, never the host: it changes nothing     *)
(* here.                                                                   *)
(***************************************************************************)
EXTENDS PanelGate

CONSTANTS
    Ids,    \* node ids, uuids drawn by agentRegister
    Hosts   \* hosts of agents

ASSUME NoneIsNoNode == None \notin Ids \cup Hosts

VARIABLES
    host,   \* nodes.agent_host by id, None when there is no such row
    spent,  \* the ids that were ever drawn
    work    \* what each page request is about

nodeVars == <<host, spent>>
pageVars == <<gateVars, nodeVars, work>>

\* act: "view" a list, "call" an agent or "delete" a row; target: the id in
\* the address; dest: the host the handler has read; listed, history: the
\* host the row named when the request was sent.
NoWork == [act |-> "none", target |-> None, dest |-> None, listed |-> None]

\* A request that was answered has no more to do.
KeepWork ==
    work' = [r \in Requests |-> IF pc'[r] \in Settled THEN NoWork ELSE work[r]]

PageInit ==
    /\ GateInit
    /\ host = [i \in Ids |-> None]
    /\ spent = {}
    /\ work = [r \in Requests |-> NoWork]

\* The form of a licence, or a page that is about no node in particular.
SendOther(r) ==
    /\ \E b \in Browsers, k \in Keys \cup {None} : Send(r, b, k)
    /\ work' = [work EXCEPT ![r] = [NoWork EXCEPT !.act = "view"]]
    /\ UNCHANGED nodeVars

SendPage(r, i, act) ==
    /\ i \in spent
    /\ \E b \in Browsers : Send(r, b, None)
    /\ work' = [work EXCEPT ![r] =
                  [act |-> act, target |-> i, dest |-> None, listed |-> host[i]]]
    /\ UNCHANGED nodeVars

\* The steps of the gate; Finish is, besides, the 404 of getNodeOr404, the
\* answer of the agent and the end of the ten seconds it has.
Gate == GateStep /\ KeepWork /\ UNCHANGED nodeVars

\* The columns of the row are scanned in the wrong order: the id is called.
BugReadNode(r) ==
    /\ pc[r] = "served" /\ work[r].act = "call" /\ work[r].dest = None
    /\ host[work[r].target] # None
    /\ work' = [work EXCEPT ![r].dest = work[r].target]
    /\ UNCHANGED <<gateVars, nodeVars>>

\* getNodeOr404 finds the row; the call of the agent goes to its host.
ReadNode(r) ==
    /\ pc[r] = "served" /\ work[r].act = "call" /\ work[r].dest = None
    /\ host[work[r].target] # None
    /\ work' = [work EXCEPT ![r].dest = host[work[r].target]]
    /\ UNCHANGED <<gateVars, nodeVars>>

\* nodeDelete: calls for the node that have read the row go on.
DeleteRow(r) ==
    /\ pc[r] = "served" /\ work[r].act = "delete"
    /\ host' = [host EXCEPT ![work[r].target] = None]
    /\ Finish(r) /\ KeepWork
    /\ UNCHANGED spent

\* The id of a deleted row is drawn again.
BugInsertRow(i, h) ==
    /\ host[i] = None
    /\ host' = [host EXCEPT ![i] = h]
    /\ spent' = spent \cup {i}
    /\ UNCHANGED <<gateVars, work>>

\* agentRegister lists a host under a fresh id, needing no session.
InsertRow(i, h) ==
    /\ i \notin spent
    /\ host' = [host EXCEPT ![i] = h]
    /\ spent' = spent \cup {i}
    /\ UNCHANGED <<gateVars, work>>

PageNext ==
    \/ Gate
    \/ \E r \in Requests :
         \/ SendOther(r) \/ ReadNode(r) \/ DeleteRow(r)
         \/ \E i \in Ids, act \in {"call", "delete"} : SendPage(r, i, act)
    \/ \E i \in Ids, h \in Hosts : InsertRow(i, h)

PageSpec == PageInit /\ [][PageNext]_pageVars

----------------------------------------------------------------------------
(* Properties.                                                             *)

Work == [act : {"none", "view", "call", "delete"}, target : Ids \cup {None},
         dest : Hosts \cup {None}, listed : Hosts \cup {None}]

\* Every variable has its type, those of the gate included.
PageTypeOK ==
    /\ GateTypeOK
    /\ host \in [Ids -> Hosts \cup {None}]
    /\ spent \subseteq Ids
    /\ work \in [Requests -> Work]

\* A call goes to the host its node's row named when the administrator sent
\* the form, and to none if the row was gone by then, whatever is deleted,
\* registered again or submitted in between (345-374, 601-618);
\* and nobody calls an agent but through the gate.
CallGoesWhereListed ==
    \A r \in Requests : work[r].dest # None =>
        /\ work[r].dest = work[r].listed
        /\ pc[r] = "served" /\ fresh[r] /\ stored # None

============================================================================
