---------------------------- MODULE Enrollment ----------------------------
(***************************************************************************)
(* Enrollment of agents with the panel.                                    *)
(*                                                                         *)
(* An administrator asks the panel for a one-time token and installs the   *)
(* agent on a server with it.  The agent process, restarted by systemd     *)
(* whenever it exits, posts the token and a CSR to the panel (agent.go,    *)
(* ensureEnrolled), the panel checks and spends the token, signs the CSR   *)
(* and lists the server as a node (httpapi.go, agentRegister), and the     *)
(* agent stores certificate, key and CA in three files and serves with     *)
(* them (agent.go, loadTLS).                                               *)
(*                                                                         *)
(* The handler is four database statements outside any transaction, each   *)
(* a step of its own: handlers interleave with each other, with agents     *)
(* that give up and retry, with administrators who delete nodes, with      *)
(* database errors and with restarts of either program.                    *)
(*                                                                         *)
(* A call to the register endpoint is one element of Calls.  The key pair  *)
(* the agent generates for it, the certificate CN and the node id the      *)
(* panel draws for it are fresh with it, so the same element names them.   *)
(***************************************************************************)
EXTENDS Naturals, FiniteSets

CONSTANTS
    Agents,        \* servers on which an agent is installed
    Hosts,         \* values of the agents' advertised host
    HostOf,        \* the host each agent advertises (VPSPANEL_ADVERTISE_HOST)
    Tokens,        \* enrollment tokens
    Calls,         \* calls of POST /api/v1/agent/register
    None,          \* "no value": a NULL column, a missing file, no call
    Torn,          \* a file that was truncated and not yet written
    MaxInFlight,   \* bound: handlers the panel runs at the same moment
    MaxFaults,     \* bound: crashes, stops, timeouts and signing failures
    MaxDbErrors,   \* bound: statements that fail while the database is away
    AdminDeletes,  \* whether administrators delete nodes
    TokensExpire   \* whether the 24 hours of a token may pass

ASSUME ConstantsAssumption ==
    /\ IsFiniteSet(Calls)
    /\ HostOf \in [Agents -> Hosts]
    /\ None \notin Agents \cup Hosts \cup Tokens \cup Calls
    /\ Torn \notin Calls \cup {None}
    /\ MaxInFlight \in Nat \ {0}
    /\ MaxFaults \in Nat
    /\ MaxDbErrors \in Nat
    /\ AdminDeletes \in BOOLEAN
    /\ TokensExpire \in BOOLEAN

VARIABLES
    issued,    \* enroll_tokens: the tokens that have a row
    used,      \* enroll_tokens: the tokens whose used_at is set
    expired,   \* the tokens whose expires_at has passed
    nodeHost,  \* nodes.agent_host by id, None when there is no such row
    nodeCN,    \* nodes.server_cert_cn by id
    pc,        \* where the handler of each call is
    tok,       \* the token a call carries
    from,      \* the agent that made a call
    found,     \* existingID in the handler: the row the select returned
    env,       \* VPSPANEL_ENROLL_TOKEN in the agent's environment file
    phase,     \* where the agent process is
    cur,       \* the call whose reply the agent waits for or is storing
    files,     \* the three files of the agent's state directory
    wiped,     \* history: calls past their select when a row of their host
               \* was deleted
    late,      \* history: calls whose handler wrote the row after their agent
               \* had given them up
    faults,    \* faults so far
    dbErrors   \* database errors so far

tokenVars == <<issued, used, expired>>
nodeVars  == <<nodeHost, nodeCN, wiped, late>>
callVars  == <<pc, tok, from, found>>
agentVars == <<env, phase, cur, files>>
vars == <<tokenVars, nodeVars, callVars, agentVars, faults, dbErrors>>

----------------------------------------------------------------------------
(* Helpers.                                                                *)

Files == {"cert", "key", "ca"}

\* The handler of call r is between its first statement and its reply.
InHandler(r) == pc[r] \in {"lookup", "mark", "find", "write"}

Active == {r \in Calls : InHandler(r)}

\* A definition whose name starts with Bug is a faulty variant of one below:
\* a mistake in the code that a property has to notice.  No action uses it.
BugAlwaysAbandoned(r) == TRUE

\* The agent that made call r no longer waits for it.
Abandoned(r) == \A a \in Agents : cur[a] # r

Host(r) == HostOf[from[r]]

Rows(h) == {i \in Calls : nodeHost[i] = h}

\* With a token configured, enroll at every start.
BugAlwaysEnrolls(a) == env[a] = None

\* ensureEnrolled returns at once when the three files exist, whatever is
\* in them.
HasAllFiles(a) == \A f \in Files : files[a][f] # None

\* The CA is written before the key.
BugKeyLast == [cert |-> "ca", ca |-> "key", key |-> "loading"]

\* ensureEnrolled writes certificate, key and CA in this order.
AfterFile == [cert |-> "key", key |-> "ca", ca |-> "loading"]

\* The reply of r: nobody reads it when the agent has gone, and a call that
\* was refused has left no trace, so that its name can be used again.
Reply(r, result) ==
    IF result = "refused" /\ Abandoned(r)
    THEN /\ pc' = [pc EXCEPT ![r] = "free"]
         /\ tok' = [tok EXCEPT ![r] = None]
         /\ from' = [from EXCEPT ![r] = None]
         /\ found' = [found EXCEPT ![r] = None]
    ELSE /\ pc' = [pc EXCEPT ![r] = result]
         /\ found' = [found EXCEPT ![r] = None]
         /\ UNCHANGED <<tok, from>>

\* The process exits; systemd starts it again (Restart=always).
ProcessExits(a) ==
    /\ phase' = [phase EXCEPT ![a] = "down"]
    /\ cur' = [cur EXCEPT ![a] = None]
    /\ UNCHANGED <<env, files>>

Fault   == faults < MaxFaults /\ faults' = faults + 1
DbError == dbErrors < MaxDbErrors /\ dbErrors' = dbErrors + 1
NoFault == UNCHANGED <<faults, dbErrors>>

----------------------------------------------------------------------------
Init ==
    /\ issued = {} /\ used = {} /\ expired = {}
    /\ nodeHost = [i \in Calls |-> None]
    /\ nodeCN = [i \in Calls |-> None]
    /\ pc = [r \in Calls |-> "free"]
    /\ tok = [r \in Calls |-> None]
    /\ from = [r \in Calls |-> None]
    /\ found = [r \in Calls |-> None]
    /\ env = [a \in Agents |-> None]
    /\ phase = [a \in Agents |-> "absent"]
    /\ cur = [a \in Agents |-> None]
    /\ files = [a \in Agents |-> [f \in Files |-> None]]
    /\ wiped = {} /\ late = {}
    /\ faults = 0
    /\ dbErrors = 0

----------------------------------------------------------------------------
(* The administrator and the clock.                                        *)

\* NewEnrollmentToken: a random token, its hash inserted with its expiry.
IssueToken(t) ==
    /\ t \notin issued
    /\ issued' = issued \cup {t}
    /\ UNCHANGED <<used, expired, nodeVars, callVars, agentVars>> /\ NoFault

\* expires_at passes: time.Now().After(expires) holds from now on.
ExpireToken(t) ==
    /\ TokensExpire
    /\ t \in issued \ expired
    /\ expired' = expired \cup {t}
    /\ UNCHANGED <<issued, used, nodeVars, callVars, agentVars>> /\ NoFault

\* The install script writes the token to the environment file and enables
\* the unit; a unit that already runs is not restarted by it.
Install(a, t) ==
    /\ t \in issued
    /\ env[a] # t
    /\ env' = [env EXCEPT ![a] = t]
    /\ phase' = [phase EXCEPT ![a] = IF @ = "absent" THEN "down" ELSE @]
    /\ UNCHANGED <<tokenVars, nodeVars, callVars, cur, files>> /\ NoFault

\* nodeDelete: the row goes, whatever handlers of the panel know of it.
DeleteNode(i) ==
    /\ AdminDeletes
    /\ nodeHost[i] # None
    /\ wiped' = wiped \cup
         {r \in Calls : pc[r] \in {"write", "ok"} /\ Host(r) = nodeHost[i]}
    /\ nodeHost' = [nodeHost EXCEPT ![i] = None]
    /\ nodeCN' = [nodeCN EXCEPT ![i] = None]
    /\ UNCHANGED <<late, tokenVars, callVars, agentVars>> /\ NoFault

----------------------------------------------------------------------------
(* The handler agentRegister, statement by statement.                      *)

\* used_at is not looked at.
BugAdmitUsed(r) ==
    /\ pc[r] = "lookup"
    /\ tok[r] \notin expired
    /\ pc' = [pc EXCEPT ![r] = "mark"]
    /\ UNCHANGED <<tokenVars, nodeVars, tok, from, found, agentVars>> /\ NoFault

\* Lines 587-591: the token exists (the environment file only ever holds a
\* token the panel issued) and is neither used nor expired.
Admit(r) ==
    /\ pc[r] = "lookup"
    /\ tok[r] \notin used \cup expired
    /\ pc' = [pc EXCEPT ![r] = "mark"]
    /\ UNCHANGED <<tokenVars, nodeVars, tok, from, found, agentVars>> /\ NoFault

Refuse(r) ==
    /\ pc[r] = "lookup"
    /\ tok[r] \in used \cup expired
    /\ Reply(r, "refused")
    /\ UNCHANGED <<tokenVars, nodeVars, agentVars>> /\ NoFault

\* An error of the select is answered like an invalid token.
LookupError(r) ==
    /\ pc[r] = "lookup"
    /\ DbError
    /\ Reply(r, "refused")
    /\ UNCHANGED <<tokenVars, nodeVars, agentVars, faults>>

\* The token is not marked.
BugNoMark(r) ==
    /\ pc[r] = "mark"
    /\ pc' = [pc EXCEPT ![r] = "find"]
    /\ UNCHANGED <<tokenVars, nodeVars, tok, from, found, agentVars>> /\ NoFault

\* Line 592: "... where id=$1 and used_at is null".  How many rows it
\* changed is not looked at, so a token that another handler has spent in
\* the meantime does not stop this one.
Mark(r) ==
    /\ pc[r] = "mark"
    /\ used' = used \cup {tok[r]}
    /\ pc' = [pc EXCEPT ![r] = "find"]
    /\ UNCHANGED <<issued, expired, nodeVars, tok, from, found, agentVars>> /\ NoFault

\* Its error is not looked at either.
MarkError(r) ==
    /\ pc[r] = "mark"
    /\ DbError
    /\ pc' = [pc EXCEPT ![r] = "find"]
    /\ UNCHANGED <<tokenVars, nodeVars, tok, from, found, agentVars, faults>>

\* The row of the host is not looked for.
BugNoFind(r) ==
    /\ pc[r] = "find"
    /\ found' = [found EXCEPT ![r] = None]
    /\ pc' = [pc EXCEPT ![r] = "write"]
    /\ UNCHANGED <<tokenVars, nodeVars, tok, from, agentVars>> /\ NoFault

\* The select has no "where agent_host=$1".
BugFindAny(r) ==
    /\ pc[r] = "find"
    /\ LET rows == {i \in Calls : nodeHost[i] # None} IN
         IF rows = {}
         THEN found' = [found EXCEPT ![r] = None]
         ELSE \E i \in rows : found' = [found EXCEPT ![r] = i]
    /\ pc' = [pc EXCEPT ![r] = "write"]
    /\ UNCHANGED <<tokenVars, nodeVars, tok, from, agentVars>> /\ NoFault

\* Lines 594-603: the CSR is signed, then one row of the host is selected.
SignAndFind(r) ==
    /\ pc[r] = "find"
    /\ IF Rows(Host(r)) = {}
       THEN found' = [found EXCEPT ![r] = None]
       ELSE \E i \in Rows(Host(r)) : found' = [found EXCEPT ![r] = i]
    /\ pc' = [pc EXCEPT ![r] = "write"]
    /\ UNCHANGED <<tokenVars, nodeVars, tok, from, agentVars>> /\ NoFault

\* The values of the insert are swapped.
BugInsertedRow(r) ==
    /\ nodeHost' = [nodeHost EXCEPT ![r] = r]
    /\ nodeCN' = [nodeCN EXCEPT ![r] = Host(r)]

\* Line 613: a new row under the fresh node id.
InsertedRow(r) ==
    /\ nodeHost' = [nodeHost EXCEPT ![r] = Host(r)]
    /\ nodeCN' = [nodeCN EXCEPT ![r] = r]

\* The return is missing: the agent is told 400, and the row is written.
BugSignErrorGoesOn(r) ==
    /\ pc[r] = "find"
    /\ Fault
    /\ InsertedRow(r)
    /\ Reply(r, "failed")
    /\ UNCHANGED <<tokenVars, wiped, late, agentVars, dbErrors>>

\* Lines 596-599: a CSR that cannot be signed, after the token is spent.
SignError(r) ==
    /\ pc[r] = "find"
    /\ Fault
    /\ Reply(r, "failed")
    /\ UNCHANGED <<tokenVars, nodeVars, agentVars, dbErrors>>

\* Line 604: an error of the select is taken for "no such row".
FindError(r) ==
    /\ pc[r] = "find"
    /\ DbError
    /\ found' = [found EXCEPT ![r] = None]
    /\ pc' = [pc EXCEPT ![r] = "write"]
    /\ UNCHANGED <<tokenVars, nodeVars, tok, from, agentVars, faults>>

\* server_cert_cn is not among the columns the update sets.
BugKeepsCN(r) == nodeCN' = nodeCN

\* Line 607: the update, which changes no row when the node was deleted
\* since the select, and is no error then.
UpdatedCN(r) ==
    nodeCN' = [nodeCN EXCEPT ![found[r]] = IF nodeHost[found[r]] = None THEN None ELSE r]

\* History: whether the agent still waits when its row is written.
NoteLate(r) == late' = IF Abandoned(r) THEN late \cup {r} ELSE late

UpdateNode(r) ==
    /\ pc[r] = "write"
    /\ found[r] # None
    /\ UpdatedCN(r)
    /\ NoteLate(r)
    /\ Reply(r, "ok")
    /\ UNCHANGED <<tokenVars, nodeHost, wiped, agentVars>> /\ NoFault

InsertNode(r) ==
    /\ pc[r] = "write"
    /\ found[r] = None
    /\ InsertedRow(r)
    /\ NoteLate(r)
    /\ Reply(r, "ok")
    /\ UNCHANGED <<tokenVars, wiped, agentVars>> /\ NoFault

\* The error of the statement is not looked at.
BugWriteErrorIgnored(r) ==
    /\ pc[r] = "write"
    /\ DbError
    /\ UNCHANGED <<nodeHost, nodeCN>>
    /\ Reply(r, "ok")
    /\ UNCHANGED <<tokenVars, wiped, late, agentVars, faults>>

\* Lines 608-611 and 614-617: the statement fails, or its result is lost
\* after the database has applied it.
WriteError(r) ==
    /\ pc[r] = "write"
    /\ DbError
    /\ \/ UNCHANGED <<nodeHost, nodeCN, late>>
       \/ /\ found[r] = None
          /\ InsertedRow(r)
          /\ NoteLate(r)
       \/ /\ found[r] # None
          /\ UpdatedCN(r)
          /\ NoteLate(r)
          /\ UNCHANGED nodeHost
    /\ Reply(r, "failed")
    /\ UNCHANGED <<tokenVars, wiped, agentVars, faults>>

\* The agent has gone: the request context is cancelled, every statement
\* still to come fails, and so does the handler.  The server may notice at
\* any moment, or not before the handler is done.
Cancel(r) ==
    /\ InHandler(r)
    /\ Abandoned(r)
    /\ Reply(r, IF pc[r] = "lookup" THEN "refused" ELSE "failed")
    /\ UNCHANGED <<tokenVars, nodeVars, agentVars>> /\ NoFault

\* The panel exits, by a crash or a stop: main returns without waiting for
\* Shutdown, and the handlers end where they are.
PanelStops ==
    /\ Active # {}
    /\ Fault
    /\ pc' = [r \in Calls |-> IF InHandler(r) THEN "failed" ELSE pc[r]]
    /\ found' = [r \in Calls |-> IF InHandler(r) THEN None ELSE found[r]]
    /\ UNCHANGED <<tokenVars, nodeVars, tok, from, agentVars, dbErrors>>

----------------------------------------------------------------------------
(* The agent process.                                                      *)

\* Lines 117-119 of agent.go.
StartEnrolled(a) ==
    /\ phase[a] = "down"
    /\ HasAllFiles(a)
    /\ phase' = [phase EXCEPT ![a] = "loading"]
    /\ UNCHANGED <<tokenVars, nodeVars, callVars, env, cur, files>> /\ NoFault

\* Lines 121-146: a new key, a new CSR, and the POST.
Register(a) ==
    /\ phase[a] = "down"
    /\ ~HasAllFiles(a)
    /\ Cardinality(Active) < MaxInFlight
    /\ \E r \in Calls :
         /\ pc[r] = "free"
         /\ pc' = [pc EXCEPT ![r] = "lookup"]
         /\ tok' = [tok EXCEPT ![r] = env[a]]
         /\ from' = [from EXCEPT ![r] = a]
         /\ cur' = [cur EXCEPT ![a] = r]
    /\ phase' = [phase EXCEPT ![a] = "waiting"]
    /\ UNCHANGED <<tokenVars, nodeVars, found, env, files>> /\ NoFault

\* Status 200: the files are written next.
OnReply(a) ==
    /\ phase[a] = "waiting"
    /\ pc[cur[a]] = "ok"
    /\ phase' = [phase EXCEPT ![a] = "cert"]
    /\ UNCHANGED <<tokenVars, nodeVars, callVars, env, cur, files>> /\ NoFault

\* Any other status: ensureEnrolled returns an error, main exits.
OnError(a) ==
    /\ phase[a] = "waiting"
    /\ pc[cur[a]] \in {"refused", "failed"}
    /\ ProcessExits(a)
    /\ IF pc[cur[a]] = "refused"
       THEN /\ pc' = [pc EXCEPT ![cur[a]] = "free"]
            /\ tok' = [tok EXCEPT ![cur[a]] = None]
            /\ from' = [from EXCEPT ![cur[a]] = None]
       ELSE UNCHANGED <<pc, tok, from>>
    /\ UNCHANGED <<tokenVars, nodeVars, found>> /\ NoFault

\* os.WriteFile truncates the file, then writes it.
OpenFile(a) ==
    /\ phase[a] \in Files
    /\ files[a][phase[a]] # Torn
    /\ files' = [files EXCEPT ![a][phase[a]] = Torn]
    /\ UNCHANGED <<tokenVars, nodeVars, callVars, env, phase, cur>> /\ NoFault

FillFile(a) ==
    /\ phase[a] \in Files
    /\ files[a][phase[a]] = Torn
    /\ files' = [files EXCEPT ![a][phase[a]] = cur[a]]
    /\ phase' = [phase EXCEPT ![a] = AfterFile[phase[a]]]
    /\ UNCHANGED <<tokenVars, nodeVars, callVars, env, cur>> /\ NoFault

\* Lines 181-191: the key pair must match; what panel-ca.crt holds is not
\* looked at, and a torn one gives a server that trusts no client.
KeyPairLoads(a) == files[a]["cert"] = files[a]["key"] /\ files[a]["cert"] \in Calls

LoadTLS(a) ==
    /\ phase[a] = "loading"
    /\ phase' = [phase EXCEPT ![a] = IF KeyPairLoads(a) THEN "serving" ELSE "down"]
    /\ cur' = [cur EXCEPT ![a] = None]
    /\ UNCHANGED <<tokenVars, nodeVars, callVars, env, files>> /\ NoFault

\* The process ends before it is done: it crashes, the server reboots, a
\* file cannot be written, the reply is lost or takes more than 30 seconds.
AgentDies(a) ==
    /\ phase[a] \notin {"absent", "down"}
    /\ Fault
    /\ ProcessExits(a)
    /\ UNCHANGED <<tokenVars, nodeVars, callVars, dbErrors>>

----------------------------------------------------------------------------
HandlerStep(r) ==
    \/ Admit(r) \/ Refuse(r) \/ Mark(r) \/ SignAndFind(r)
    \/ UpdateNode(r) \/ InsertNode(r)

HandlerError(r) ==
    \/ LookupError(r) \/ MarkError(r) \/ SignError(r) \/ FindError(r)
    \/ WriteError(r) \/ Cancel(r)

AgentStep(a) ==
    \/ StartEnrolled(a) \/ Register(a) \/ OnReply(a) \/ OnError(a)
    \/ OpenFile(a) \/ FillFile(a) \/ LoadTLS(a)

AdminStep ==
    \/ \E t \in Tokens : IssueToken(t) \/ ExpireToken(t)
    \/ \E a \in Agents, t \in Tokens : Install(a, t)
    \/ \E i \in Calls : DeleteNode(i)

Next ==
    \/ AdminStep
    \/ \E r \in Calls : HandlerStep(r) \/ HandlerError(r)
    \/ \E a \in Agents : AgentStep(a) \/ AgentDies(a)
    \/ PanelStops

Spec == Init /\ [][Next]_vars

\* The Go scheduler runs every handler on, and systemd restarts the agent
\* whenever it exits; administrators, the clock and faults owe nothing.
FairSpec ==
    /\ Spec
    /\ \A r \in Calls : WF_vars(HandlerStep(r))
    /\ \A a \in Agents : WF_vars(AgentStep(a))

----------------------------------------------------------------------------
(* Properties.                                                             *)

\* Every variable has its type: the type invariant of the module.
TypeOK ==
    /\ issued \subseteq Tokens /\ used \subseteq Tokens /\ expired \subseteq Tokens
    /\ nodeHost \in [Calls -> Hosts \cup {None}]
    /\ nodeCN \in [Calls -> Calls \cup {None}]
    /\ pc \in [Calls -> {"free", "lookup", "mark", "find", "write",
                        "ok", "refused", "failed"}]
    /\ tok \in [Calls -> Tokens \cup {None}]
    /\ from \in [Calls -> Agents \cup {None}]
    /\ found \in [Calls -> Calls \cup {None}]
    /\ env \in [Agents -> Tokens \cup {None}]
    /\ phase \in [Agents -> {"absent", "down", "waiting", "loading", "serving"}
                             \cup Files]
    /\ cur \in [Agents -> Calls \cup {None}]
    /\ files \in [Agents -> [Files -> Calls \cup {None, Torn}]]
    /\ wiped \subseteq Calls /\ late \subseteq Calls
    /\ faults \in 0..MaxFaults
    /\ dbErrors \in 0..MaxDbErrors

\* The calls that were answered with a certificate for token t.
Granted(t) == {r \in Calls : tok[r] = t /\ pc[r] = "ok"}

\* A token buys no more certificates than the handlers that can run between
\* each other's check and update of used_at, plus the updates that failed
\* unnoticed: one, when requests come one by one and the database answers.
\* (agentRegister checks used_at and sets it in two statements, 587-592.)
TokenUseBounded ==
    \A t \in Tokens : Cardinality(Granted(t)) <= MaxInFlight + dbErrors

\* A host is listed at most once, but for handlers that looked for its row
\* at the same time and selects that failed (603-613: nodes.agent_host has
\* no unique constraint).
RowsBounded ==
    \A h \in Hosts : Cardinality(Rows(h)) <= MaxInFlight + dbErrors

\* However updates, inserts and deletes interleave, the certificate name in
\* a node's row was signed for an agent of that row's host (603-613).
RowBelongsToHost ==
    \A i \in Calls : nodeHost[i] # None =>
        /\ nodeCN[i] \in Calls
        /\ HostOf[from[nodeCN[i]]] = nodeHost[i]

\* Wherever a crash hits the three writes of ensureEnrolled, an agent that
\* will skip enrollment next time (117) has a key pair that loads (181):
\* it cannot exit at every start for ever.
NoBrickedAgent ==
    \A a \in Agents : HasAllFiles(a) => KeyPairLoads(a)

\* The panel's list follows the agents: the host of a serving agent has a row
\* that names the very certificate the agent serves with.  Only a handler
\* that runs on after its agent has given up may write its own name over it,
\* or another agent of the same host; and only a deletion after the handler
\* has looked for the row leaves none, the one between its select and its
\* update (603-607) included.
ServedCertIsListed ==
    \A a \in Agents : phase[a] = "serving" =>
        LET c == files[a]["cert"] IN
        \/ c \in wiped
        \/ \E i \in Rows(HostOf[a]) :
              nodeCN[i] \in {c} \cup late \/ from[nodeCN[i]] # a

\* Nobody is listed who was told that enrolling failed, but for writes whose
\* result was lost: no error path comes after the row (594-618).
Ghosts == {i \in Calls : nodeHost[i] # None /\ pc[nodeCN[i]] # "ok"}

GhostsBounded == Cardinality(Ghosts) <= dbErrors

\* Once an agent has its three files it keeps this identity whatever it
\* runs into: no restart and no new token makes it enroll again (117-119).
Enrolled(a) == \A f \in Files : files[a][f] \in Calls

IdentityIsStable ==
    [][\A a \in Agents : Enrolled(a) => files'[a] = files[a]]_vars

\* The agent lacks a file, its token is spent or past its time, and no
\* handler that has admitted it works for it: it asks and is refused.
LockedOut(a) ==
    /\ phase[a] \in {"down", "waiting"}
    /\ ~HasAllFiles(a)
    /\ env[a] \in used \cup expired
    /\ cur[a] # None =>
         \/ pc[cur[a]] \in {"refused", "failed"}
         \/ pc[cur[a]] = "lookup" /\ tok[cur[a]] \in used \cup expired

\* An agent that is locked out stays so until it is installed with another
\* token, however often systemd restarts it: no restart, no answer that
\* comes late and no other agent's call ever helps it (agent.go:117-155,
\* httpapi.go:588).
LockedOutStays ==
    [][\A a \in Agents : LockedOut(a) /\ env'[a] = env[a] => LockedOut(a)']_vars

\* The panel lists the server and can talk to it: the agent serves, and
\* panel-ca.crt holds the panel's CA.
Attached(a) ==
    /\ phase[a] = "serving"
    /\ Enrolled(a)
    /\ Rows(HostOf[a]) # {}

\* A call that another agent made with t was granted.
SpentByOther(a, t) == \E r \in Granted(t) : from[r] # a

\* With nothing failing, an agent installed with a token that is still good
\* gets attached, unless the token expires, is replaced, or serves another
\* agent first, or the node is deleted while it starts.
LiveTokenAttaches ==
    \A a \in Agents, t \in Tokens :
        (env[a] = t /\ t \in issued \ (used \cup expired))
            ~> \/ Attached(a) \/ (\E r \in wiped : from[r] = a)
               \/ t \in expired \/ env[a] # t \/ SpentByOther(a, t)

\* What templates/nodes.html:58 tells the administrator of the install
\* command: the server gets attached to the panel.
InstallAttaches == \A a \in Agents : env[a] # None ~> Attached(a)

============================================================================
