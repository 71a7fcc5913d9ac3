------------------------ MODULE RegistrationProofs ------------------------
(***************************************************************************)
(* What the list of nodes says, for every value of the constants: more     *)
(* theorems about Enrollment, and that it implements Registry.             *)
(*                                                                         *)
(* A call that was answered keeps its agent for ever (CallMoves): rows,    *)
(* certificate names and files can refer to it.  ListInv and OwnInv say    *)
(* what they refer to, NamedInv what the list says of an agent's latest    *)
(* call; TokenInv adds what holds when handlers run one at a time          *)
(* (SerialPanel) and nothing has failed or been deleted yet (Calm).        *)
(***************************************************************************)
EXTENDS EnrollmentRefinement, EnrollmentProofs

\* The handler of r is over and has left traces.
Done(r) == pc[r] \in {"ok", "failed"}

\* What one step does to a call: an answered one stays as it is, one under
\* way keeps token and agent, and one that becomes "ok" has written its row.
Moves(r) ==
    /\ Done(r) => pc'[r] = pc[r]
    /\ pc[r] # "free" /\ pc'[r] # "free" => from'[r] = from[r] /\ tok'[r] = tok[r]
    /\ pc'[r] = "write" => \/ SignAndFind(r) \/ FindError(r)
                           \/ pc[r] = "write" /\ found'[r] = found[r]
    /\ pc'[r] = "ok" => pc[r] = "ok" \/ UpdateNode(r) \/ InsertNode(r)

\* What Reply does, to the call it answers and to the others.
LEMMA ReplyMoves ==
    ASSUME TypeInv, NEW r \in Calls, InHandler(r),
           NEW result \in {"ok", "refused", "failed"}, Reply(r, result)
    PROVE  /\ pc'[r] \in {result, "free"}
           /\ pc'[r] = "free" => result = "refused" /\ Abandoned(r)
           /\ pc'[r] # "free" => from'[r] = from[r] /\ tok'[r] = tok[r]
           /\ \A s \in Calls : s # r =>
                /\ pc'[s] = pc[s] /\ from'[s] = from[s]
                /\ tok'[s] = tok[s] /\ found'[s] = found[s]
BY DEF Reply, TypeInv, TypeOK

LEMMA HandlerMoves ==
    ASSUME TypeInv, NEW r \in Calls, HandlerNext(r), NEW s \in Calls
    PROVE  Moves(s)
<1>1. CASE Admit(r) \/ Mark(r) \/ MarkError(r) \/ SignAndFind(r) \/ FindError(r)
  BY <1>1 DEF Admit, Mark, MarkError, SignAndFind, FindError, Moves, Done, TypeInv, TypeOK
<1>2. CASE Refuse(r) \/ LookupError(r)
  BY <1>2, ReplyMoves DEF Refuse, LookupError, InHandler, Moves, Done
<1>3. CASE SignError(r) \/ WriteError(r) \/ Cancel(r)
  <2>1. InHandler(r) /\ (Reply(r, "refused") \/ Reply(r, "failed"))
    BY <1>3 DEF SignError, WriteError, Cancel, InHandler
  <2>2. QED
    BY <2>1, ReplyMoves DEF InHandler, Moves, Done
<1>4. CASE UpdateNode(r) \/ InsertNode(r)
  <2>1. InHandler(r) /\ Reply(r, "ok")
    BY <1>4 DEF UpdateNode, InsertNode, InHandler
  <2>2. QED
    BY <1>4, <2>1, ReplyMoves DEF InHandler, Moves, Done
<1>5. QED
  BY <1>1, <1>2, <1>3, <1>4 DEF HandlerNext, HandlerStep, HandlerError

LEMMA CallMoves ==
    ASSUME TypeInv, [Next]_vars, NEW s \in Calls
    PROVE  Moves(s)
<1>1. CASE AdminStep \/ UNCHANGED vars
  BY <1>1 DEF AdminStep, IssueToken, ExpireToken, Install, DeleteNode, vars, callVars,
              Moves, Done
<1>2. ASSUME NEW r \in Calls, HandlerStep(r) \/ HandlerError(r)
      PROVE  Moves(s)
  BY <1>2, HandlerMoves DEF HandlerNext
<1>3. ASSUME NEW a \in Agents, AgentStep(a) \/ AgentDies(a)
      PROVE  Moves(s)
  <2>1. CASE Register(a)
    BY <2>1 DEF Register, Moves, Done, TypeInv, TypeOK
  <2>2. CASE OnError(a)
    BY <2>2 DEF OnError, Moves, Done, TypeInv, TypeOK
  <2>3. CASE UNCHANGED callVars
    BY <2>3 DEF callVars, Moves, Done
  <2>4. QED
    BY <1>3, <2>1, <2>2, <2>3
       DEF AgentStep, StartEnrolled, OnReply, OpenFile, FillFile, LoadTLS, AgentDies
<1>4. CASE PanelStops
  BY <1>4 DEF PanelStops, InHandler, Moves, Done, TypeInv, TypeOK
<1>5. QED
  BY <1>1, <1>2, <1>3, <1>4 DEF Next

----------------------------------------------------------------------------
(* Whose rows they are.                                                    *)

\* Call s was answered and is of the host of call r.
SameHost(s, r) == s \in Calls /\ Done(s) /\ Host(s) = Host(r)

\* The row a call inserted names its host, and a certificate of that host;
\* the row a handler has found is one of its host, gone only if deleted.
ListInv ==
    \A r \in Calls :
        /\ nodeHost[r] # None =>
             Done(r) /\ nodeHost[r] = Host(r) /\ SameHost(nodeCN[r], r)
        /\ pc[r] = "write" /\ found[r] # None =>
             /\ SameHost(found[r], r)
             /\ nodeHost[found[r]] # None \/ r \in wiped

LEMMA ListInit == Init => ListInv
BY DEF Init, ListInv

\* Answered calls keep their host.
LEMMA SameHostStays ==
    ASSUME TypeInv, [Next]_vars, NEW s \in Calls, NEW r \in Calls,
           pc[r] # "free", pc'[r] # "free", SameHost(s, r)
    PROVE  SameHost(s, r)'
<1>1. from'[r] = from[r] /\ pc'[s] = pc[s] /\ from'[s] = from[s]
  BY CallMoves DEF Moves, SameHost, Done
<1>2. QED
  BY <1>1 DEF SameHost, Done, Host

\* A step that leaves the rows alone and finds none.
LEMMA ListFrame ==
    ASSUME TypeInv, ListInv, [Next]_vars, UNCHANGED <<nodeHost, nodeCN>>,
           wiped \subseteq wiped',
           \A r \in Calls : pc'[r] = "write" /\ found'[r] # None =>
               pc[r] = "write" /\ found'[r] = found[r]
    PROVE  ListInv'
<1> SUFFICES ASSUME NEW r \in Calls
             PROVE  /\ nodeHost'[r] # None =>
                         Done(r)' /\ nodeHost'[r] = Host(r)' /\ SameHost(nodeCN[r], r)'
                    /\ pc'[r] = "write" /\ found'[r] # None =>
                         /\ SameHost(found[r], r)'
                         /\ nodeHost'[found[r]] # None \/ r \in wiped'
  BY DEF ListInv
<1>1. ASSUME nodeHost'[r] # None
      PROVE  Done(r)' /\ nodeHost'[r] = Host(r)' /\ SameHost(nodeCN[r], r)'
  <2>1. Done(r) /\ nodeHost[r] = Host(r) /\ SameHost(nodeCN[r], r)
    BY <1>1 DEF ListInv
  <2>2. Done(r)' /\ Host(r)' = Host(r)
    BY <2>1, CallMoves DEF Moves, Done, Host
  <2>3. QED
    BY <2>1, <2>2, SameHostStays DEF Done, SameHost
<1>2. ASSUME pc'[r] = "write", found'[r] # None
      PROVE  /\ SameHost(found[r], r)'
             /\ nodeHost'[found[r]] # None \/ r \in wiped'
  <2>1. pc[r] = "write" /\ found[r] # None
    BY <1>2
  <2>2. SameHost(found[r], r) /\ (nodeHost[found[r]] # None \/ r \in wiped)
    BY <2>1 DEF ListInv
  <2>3. Host(r)' = Host(r)
    BY <1>2, <2>1, CallMoves DEF Moves, Host
  <2>4. QED
    BY <1>2, <2>1, <2>2, <2>3, SameHostStays DEF SameHost
<1>3. QED
  BY <1>1, <1>2

\* The row of the host is found.
LEMMA ListFind ==
    ASSUME TypeInv, ListInv, NEW r \in Calls, SignAndFind(r)
    PROVE  ListInv'
<1>1. /\ UNCHANGED <<nodeHost, nodeCN, wiped, from>>
      /\ pc[r] = "find" /\ pc' = [pc EXCEPT ![r] = "write"]
  BY DEF SignAndFind, nodeVars
<1>2. \A s \in Calls : (Done(s)' <=> Done(s)) /\ Host(s)' = Host(s)
  BY <1>1 DEF Done, Host, TypeInv, TypeOK
<1>3. /\ found'[r] # None => found'[r] \in Rows(Host(r))
      /\ \A s \in Calls : s # r => found'[s] = found[s] /\ pc'[s] = pc[s]
  BY <1>1 DEF SignAndFind, TypeInv, TypeOK
<1>4. ASSUME found'[r] # None
      PROVE  SameHost(found'[r], r) /\ nodeHost[found'[r]] # None
  <2>1. found'[r] \in Calls /\ nodeHost[found'[r]] = Host(r)
    BY <1>3, <1>4 DEF Rows
  <2>2. Host(r) \in Hosts
    BY <1>1, ConstantsAssumption DEF Host, TypeInv, CallShape
  <2>3. QED
    BY <2>1, <2>2, ConstantsAssumption DEF ListInv, SameHost
<1>5. QED
  <2> SUFFICES ASSUME NEW s \in Calls
               PROVE  /\ nodeHost'[s] # None =>
                           Done(s)' /\ nodeHost'[s] = Host(s)' /\ SameHost(nodeCN[s], s)'
                      /\ pc'[s] = "write" /\ found'[s] # None =>
                           /\ SameHost(found[s], s)'
                           /\ nodeHost'[found'[s]] # None \/ s \in wiped'
    BY DEF ListInv
  <2>1. nodeHost'[s] # None =>
            Done(s)' /\ nodeHost'[s] = Host(s)' /\ SameHost(nodeCN[s], s)'
    BY <1>1, <1>2 DEF ListInv, SameHost
  <2>2. CASE s = r
    BY <1>1, <1>2, <1>4, <2>1, <2>2 DEF SameHost
  <2>3. CASE s # r
    BY <1>1, <1>2, <1>3, <2>1, <2>3 DEF ListInv, SameHost
  <2>4. QED
    BY <2>2, <2>3

\* The row is written, or the statement fails, or its result is lost.
Written(r) ==
    \/ UNCHANGED <<nodeHost, nodeCN>>
    \/ found[r] = None /\ InsertedRow(r)
    \/ found[r] # None /\ UpdatedCN(r) /\ nodeHost' = nodeHost

LEMMA ListWrite ==
    ASSUME TypeInv, ListInv, NEW r \in Calls, pc[r] = "write", Written(r),
           NEW result \in {"ok", "failed"}, Reply(r, result), wiped' = wiped
    PROVE  ListInv'
<1>1. /\ pc' = [pc EXCEPT ![r] = result]
      /\ from' = from
      /\ found' = [found EXCEPT ![r] = None]
  BY DEF Reply
<1>2. \A s \in Calls : Host(s)' = Host(s) /\ (Done(s) => Done(s)')
  BY <1>1 DEF Done, Host, TypeInv, TypeOK
<1>3. Done(r)' /\ ~Done(r)
  BY <1>1 DEF Done, TypeInv, TypeOK
<1>4. \A s \in Calls : pc'[s] = "write" => s # r /\ pc[s] = "write" /\ found'[s] = found[s]
  BY <1>1 DEF TypeInv, TypeOK
<1>5. QED
  <2> SUFFICES ASSUME NEW s \in Calls
               PROVE  /\ nodeHost'[s] # None =>
                           Done(s)' /\ nodeHost'[s] = Host(s)' /\ SameHost(nodeCN[s], s)'
                      /\ pc'[s] = "write" /\ found'[s] # None =>
                           /\ SameHost(found[s], s)'
                           /\ nodeHost'[found'[s]] # None \/ s \in wiped'
    BY DEF ListInv
  <2>1. Host(r) # None
    BY ConstantsAssumption DEF Host, TypeInv, CallShape
  <2>2. ASSUME nodeHost'[s] # None
        PROVE  Done(s)' /\ nodeHost'[s] = Host(s)' /\ SameHost(nodeCN[s], s)'
    <3>1. CASE UNCHANGED <<nodeHost, nodeCN>>
      BY <1>2, <2>2, <3>1 DEF ListInv, SameHost
    <3>2. CASE found[r] = None /\ InsertedRow(r)
      <4>1. CASE s = r
        BY <1>2, <1>3, <3>2, <4>1 DEF InsertedRow, SameHost, TypeInv, TypeOK
      <4>2. CASE s # r
        BY <1>2, <2>2, <3>2, <4>2 DEF InsertedRow, ListInv, SameHost, TypeInv, TypeOK
      <4>3. QED
        BY <4>1, <4>2
    <3>3. CASE found[r] # None /\ UpdatedCN(r) /\ nodeHost' = nodeHost
      <4>1. CASE s = found[r]
        <5>1. nodeCN'[s] = r /\ Host(r) = Host(s)
          BY <2>2, <3>3, <4>1 DEF UpdatedCN, ListInv, SameHost, TypeInv, TypeOK
        <5>2. QED
          BY <1>2, <1>3, <2>2, <3>3, <5>1 DEF ListInv, SameHost
      <4>2. CASE s # found[r]
        BY <1>2, <2>2, <3>3, <4>2 DEF UpdatedCN, ListInv, SameHost, TypeInv, TypeOK
      <4>3. QED
        BY <4>1, <4>2
    <3>4. QED
      BY <3>1, <3>2, <3>3 DEF Written
  <2>3. ASSUME pc'[s] = "write", found'[s] # None
        PROVE  /\ SameHost(found[s], s)'
               /\ nodeHost'[found'[s]] # None \/ s \in wiped'
    <3>1. SameHost(found[s], s) /\ (nodeHost[found[s]] # None \/ s \in wiped)
      BY <1>4, <2>3 DEF ListInv
    <3>2. found'[s] = found[s] /\ SameHost(found[s], s)'
      BY <1>2, <1>4, <2>3, <3>1 DEF SameHost
    <3>3. nodeHost[found[s]] # None => nodeHost'[found[s]] # None
      BY <2>1, <3>1 DEF Written, InsertedRow, SameHost, TypeInv, TypeOK
    <3>4. QED
      BY <1>2, <3>1, <3>2, <3>3
  <2>4. QED
    BY <2>2, <2>3

\* A handler whose row is deleted is noted as wiped.
LEMMA ListDelete ==
    ASSUME TypeInv, ListInv, NEW i \in Calls, DeleteNode(i)
    PROVE  ListInv'
<1>1. /\ UNCHANGED <<pc, from, found>>
      /\ nodeHost' = [nodeHost EXCEPT ![i] = None] /\ nodeCN' = [nodeCN EXCEPT ![i] = None]
      /\ wiped' = wiped \cup
           {r \in Calls : pc[r] \in {"write", "ok"} /\ Host(r) = nodeHost[i]}
      /\ nodeHost[i] # None
  BY DEF DeleteNode, callVars
<1>2. nodeHost[i] = Host(i)
  BY <1>1 DEF ListInv
<1>3. QED
  BY <1>1, <1>2 DEF ListInv, SameHost, Done, Host, TypeInv, TypeOK

LEMMA ListStep == TypeInv /\ ListInv /\ [Next]_vars => ListInv'
<1> SUFFICES ASSUME TypeInv, ListInv, [Next]_vars
             PROVE  ListInv'
  OBVIOUS
<1>1. CASE UNCHANGED nodeVars /\ \A r \in Calls : ~SignAndFind(r)
  <2>1. ASSUME NEW r \in Calls, FindError(r)
        PROVE  found'[r] = None
    BY <2>1 DEF FindError, TypeInv, TypeOK
  <2>2. \A r \in Calls : pc'[r] = "write" /\ found'[r] # None =>
            pc[r] = "write" /\ found'[r] = found[r]
    BY <1>1, <2>1, CallMoves DEF Moves
  <2>3. QED
    BY <1>1, <2>2, ListFrame DEF nodeVars
<1>2. CASE \E r \in Calls : SignAndFind(r)
  BY <1>2, ListFind
<1>3. CASE \E r \in Calls : UpdateNode(r) \/ InsertNode(r) \/ WriteError(r)
  <2>1. PICK r \in Calls : UpdateNode(r) \/ InsertNode(r) \/ WriteError(r)
    BY <1>3
  <2>2. pc[r] = "write" /\ Written(r) /\ wiped' = wiped
    BY <2>1 DEF UpdateNode, InsertNode, WriteError, Written
  <2>3. Reply(r, "ok") \/ Reply(r, "failed")
    BY <2>1 DEF UpdateNode, InsertNode, WriteError
  <2>4. QED
    BY <2>2, <2>3, ListWrite
<1>4. CASE \E i \in Calls : DeleteNode(i)
  BY <1>4, ListDelete
<1>5. QED
  <2>1. ASSUME NEW r \in Calls, Admit(r) \/ Refuse(r) \/ Mark(r) \/ LookupError(r)
                   \/ MarkError(r) \/ SignError(r) \/ FindError(r) \/ Cancel(r)
        PROVE  UNCHANGED nodeVars
    BY <2>1 DEF Admit, Refuse, Mark, LookupError, MarkError, SignError, FindError, Cancel
  <2>2. ASSUME NEW a \in Agents, AgentStep(a) \/ AgentDies(a)
        PROVE  UNCHANGED nodeVars
    BY <2>2 DEF AgentStep, StartEnrolled, Register, OnReply, OnError, OpenFile, FillFile,
                LoadTLS, AgentDies
  <2>3. CASE PanelStops \/ UNCHANGED vars
    BY <1>1, <1>2, <2>3 DEF PanelStops, vars
  <2>4. ASSUME AdminStep, ~\E i \in Calls : DeleteNode(i)
        PROVE  UNCHANGED nodeVars
    BY <2>4 DEF AdminStep, IssueToken, ExpireToken, Install
  <2>5. QED
    BY <1>1, <1>2, <1>3, <1>4, <2>1, <2>2, <2>3, <2>4 DEF Next, HandlerStep, HandlerError

LEMMA ListInvariant == Spec => []ListInv
BY TypeInvariant, ListInit, ListStep, PTL DEF Spec

\* However the handlers interleave, the certificate name in a row was signed
\* for an agent of that row's host (httpapi.go:601-618).
THEOREM RowsBelong == Spec => []RowBelongsToHost
<1>1. ListInv => RowBelongsToHost
  BY DEF ListInv, SameHost, Host, RowBelongsToHost
<1>2. QED
  BY <1>1, ListInvariant, PTL

----------------------------------------------------------------------------
(* What an agent's calls and files refer to.                               *)

\* Every call an agent waits for, and every file it has written, is of its
\* own calls; what it keeps once it no longer waits was answered with "ok".
OwnShape(a) ==
    /\ cur[a] \in Calls => pc[cur[a]] # "free" /\ from[cur[a]] = a
    /\ phase[a] # "waiting" /\ cur[a] \in Calls => pc[cur[a]] = "ok"
    /\ \A f \in Files : files[a][f] \in Calls =>
         pc[files[a][f]] = "ok" /\ from[files[a][f]] = a

OwnInv == \A a \in Agents : OwnShape(a)

\* A call that an agent waits for is not freed by anybody else.
LEMMA OwnFrame ==
    ASSUME TypeInv, FilesInv, OwnInv, [Next]_vars, NEW a \in Agents,
           UNCHANGED <<files[a], cur[a]>>, phase'[a] # "waiting" => phase[a] # "waiting",
           cur[a] \in Calls => pc'[cur[a]] # "free"
    PROVE  OwnShape(a)'
<1>1. OwnShape(a)
  BY DEF OwnInv
<1>3. ASSUME NEW r \in Calls, pc[r] # "free", pc'[r] # "free"
      PROVE  from'[r] = from[r] /\ (pc[r] = "ok" => pc'[r] = "ok")
  BY <1>3, CallMoves DEF Moves, Done
<1>4. ASSUME NEW r \in Calls, pc[r] = "ok"
      PROVE  pc'[r] = "ok" /\ from'[r] = from[r]
  BY <1>4, CallMoves DEF Moves, Done
<1>5. cur'[a] \in Calls => pc'[cur'[a]] # "free" /\ from'[cur'[a]] = a
  BY <1>1, <1>3 DEF OwnShape
<1>6. phase'[a] # "waiting" /\ cur'[a] \in Calls => pc'[cur'[a]] = "ok"
  BY <1>1, <1>4 DEF OwnShape
<1>7. \A f \in Files : files'[a][f] \in Calls =>
         pc'[files'[a][f]] = "ok" /\ from'[files'[a][f]] = a
  BY <1>1, <1>4 DEF OwnShape
<1>8. QED
  BY <1>5, <1>6, <1>7 DEF OwnShape

LEMMA FreedByHandler ==
    ASSUME TypeInv, NEW r \in Calls, HandlerNext(r), NEW s \in Calls, pc'[s] = "free"
    PROVE  pc[s] = "free" \/ Abandoned(s)
<1>1. CASE Admit(r) \/ Mark(r) \/ MarkError(r) \/ SignAndFind(r) \/ FindError(r)
  BY <1>1 DEF Admit, Mark, MarkError, SignAndFind, FindError, TypeInv, TypeOK
<1>2. CASE Refuse(r) \/ LookupError(r) \/ SignError(r) \/ WriteError(r) \/ Cancel(r)
           \/ UpdateNode(r) \/ InsertNode(r)
  <2>1. InHandler(r) /\ (Reply(r, "ok") \/ Reply(r, "refused") \/ Reply(r, "failed"))
    BY <1>2 DEF Refuse, LookupError, SignError, WriteError, Cancel, UpdateNode, InsertNode,
                InHandler
  <2>2. s # r => pc'[s] = pc[s]
    BY <2>1, ReplyMoves
  <2>3. s = r => Abandoned(s)
    BY <2>1, ReplyMoves
  <2>4. QED
    BY <2>2, <2>3
<1>3. QED
  BY <1>1, <1>2 DEF HandlerNext, HandlerStep, HandlerError

\* An agent's own steps.
LEMMA OwnAgent ==
    ASSUME TypeInv, FilesInv, OwnInv, NEW a \in Agents, AgentNext(a)
    PROVE  OwnShape(a)'
<1>1. OwnShape(a) /\ FilesShape(a) /\ a # None
  BY ConstantsAssumption DEF OwnInv, FilesInv
<1>2. CASE StartEnrolled(a) \/ LoadTLS(a) \/ AgentDies(a)
  BY <1>1, <1>2, ConstantsAssumption
     DEF StartEnrolled, LoadTLS, AgentDies, ProcessExits, OwnShape, Files, callVars,
         TypeInv, TypeOK
<1>3. CASE Register(a)
  <2>1. PICK r \in Calls : /\ pc[r] = "free" /\ pc' = [pc EXCEPT ![r] = "lookup"]
                           /\ from' = [from EXCEPT ![r] = a] /\ cur' = [cur EXCEPT ![a] = r]
    BY <1>3 DEF Register
  <2>2. files' = files /\ phase'[a] = "waiting"
    BY <1>3 DEF Register, TypeInv, TypeOK
  <2>3. QED
    BY <1>1, <2>1, <2>2 DEF OwnShape, Files, TypeInv, TypeOK
<1>4. CASE OnReply(a)
  BY <1>1, <1>4 DEF OnReply, OwnShape, Files, callVars, TypeInv, TypeOK
<1>5. CASE OnError(a)
  <2>1. /\ files' = files /\ cur'[a] = None /\ phase'[a] = "down"
        /\ \A r \in Calls : pc[r] = "ok" => pc'[r] = "ok" /\ from'[r] = from[r]
    BY <1>5 DEF OnError, ProcessExits, TypeInv, TypeOK
  <2>2. QED
    BY <1>1, <2>1, ConstantsAssumption DEF OwnShape, Files
<1>6. CASE OpenFile(a)
  <2>1. /\ UNCHANGED <<pc, from, phase, cur>>
        /\ \A f \in Files : files'[a][f] \in {files[a][f], Torn}
    BY <1>6 DEF OpenFile, callVars, TypeInv, TypeOK
  <2>2. QED
    BY <1>1, <2>1, ConstantsAssumption DEF OwnShape
<1>7. CASE FillFile(a)
  <2>1. /\ UNCHANGED <<pc, from, cur>>
        /\ \A f \in Files : files'[a][f] \in {files[a][f], cur[a]}
        /\ phase[a] \in Files
    BY <1>7 DEF FillFile, callVars, TypeInv, TypeOK
  <2>2. pc[cur[a]] = "ok"
    BY <1>1, <2>1 DEF OwnShape, FilesShape, Files
  <2>3. QED
    BY <1>1, <2>1, <2>2 DEF OwnShape
<1>8. QED
  BY <1>2, <1>3, <1>4, <1>5, <1>6, <1>7 DEF AgentNext, AgentStep

LEMMA OwnStep == TypeInv /\ FilesInv /\ OwnInv /\ [Next]_vars => OwnInv'
<1> SUFFICES ASSUME TypeInv, FilesInv, OwnInv, [Next]_vars, NEW a \in Agents
             PROVE  OwnShape(a)'
  BY DEF OwnInv
<1>0. cur[a] \in Calls => pc[cur[a]] # "free" /\ from[cur[a]] = a
  BY DEF OwnInv, OwnShape
<1>1. CASE AdminStep \/ PanelStops \/ UNCHANGED vars
  <2>1. /\ UNCHANGED <<files, cur>> /\ (phase'[a] # "waiting" => phase[a] # "waiting")
        /\ \A r \in Calls : pc[r] # "free" => pc'[r] # "free"
    BY <1>1 DEF AdminStep, IssueToken, ExpireToken, Install, DeleteNode, PanelStops, vars,
                agentVars, callVars, TypeInv, TypeOK
  <2>2. QED
    BY <1>0, <2>1, OwnFrame
<1>2. ASSUME NEW r \in Calls, HandlerStep(r) \/ HandlerError(r)
      PROVE  OwnShape(a)'
  <2>1. UNCHANGED agentVars
    BY <1>2, HandlerKeepsAgents DEF HandlerNext
  <2>2. cur[a] \in Calls => pc'[cur[a]] # "free"
    BY <1>0, <1>2, FreedByHandler DEF HandlerNext, Abandoned
  <2>3. QED
    BY <2>1, <2>2, OwnFrame DEF agentVars
<1>3. ASSUME NEW b \in Agents, AgentStep(b) \/ AgentDies(b)
      PROVE  OwnShape(a)'
  <2>1. CASE a = b
    BY <1>3, <2>1, OwnAgent DEF AgentNext
  <2>2. CASE a # b
    <3>1. /\ UNCHANGED <<files[a], cur[a], phase[a]>>
          /\ \A r \in Calls : pc[r] # "free" /\ pc'[r] = "free" => r = cur[b]
      BY <1>3, <2>2 DEF AgentStep, StartEnrolled, Register, OnReply, OnError, OpenFile,
                        FillFile, LoadTLS, AgentDies, ProcessExits, callVars, TypeInv, TypeOK
    <3>2. cur[b] \in Calls => from[cur[b]] = b
      BY DEF OwnInv, OwnShape
    <3>3. QED
      BY <1>0, <2>2, <3>1, <3>2, OwnFrame
  <2>3. QED
    BY <2>1, <2>2
<1>4. QED
  BY <1>1, <1>2, <1>3 DEF Next

LEMMA OwnInvariant == Spec => []OwnInv
<1>1. Init => OwnInv
  BY ConstantsAssumption DEF Init, OwnInv, OwnShape, Files
<1>2. QED
  BY <1>1, OwnStep, TypeInvariant, FilesInvariant, PTL DEF Spec

----------------------------------------------------------------------------
(* What the list says of the agents that serve.                            *)

\* The steps that write a row.
Writes(r) == UpdateNode(r) \/ InsertNode(r) \/ WriteError(r)

LEMMA WriteShape ==
    ASSUME NEW r \in Calls, Writes(r)
    PROVE  /\ pc[r] = "write" /\ Written(r) /\ wiped' = wiped
           /\ Reply(r, "ok") \/ (WriteError(r) /\ Reply(r, "failed"))
           /\ UNCHANGED <<nodeHost, nodeCN, late>> \/ NoteLate(r)
BY DEF Writes, UpdateNode, InsertNode, WriteError, Written

\* Only these and deletions change the list.
LEMMA NodeMoves ==
    ASSUME [Next]_vars
    PROVE  \/ UNCHANGED nodeVars
           \/ \E i \in Calls : DeleteNode(i)
           \/ \E r \in Calls : Writes(r)
<1>1. ASSUME NEW r \in Calls, HandlerStep(r) \/ HandlerError(r), ~Writes(r)
      PROVE  UNCHANGED nodeVars
  BY <1>1 DEF HandlerStep, HandlerError, Writes, Admit, Refuse, Mark, SignAndFind,
              LookupError, MarkError, SignError, FindError, Cancel
<1>2. ASSUME NEW a \in Agents, AgentStep(a) \/ AgentDies(a)
      PROVE  UNCHANGED nodeVars
  BY <1>2 DEF AgentStep, StartEnrolled, Register, OnReply, OnError, OpenFile, FillFile,
              LoadTLS, AgentDies
<1>3. CASE PanelStops \/ UNCHANGED vars
  BY <1>3 DEF PanelStops, vars
<1>4. ASSUME AdminStep, ~\E i \in Calls : DeleteNode(i)
      PROVE  UNCHANGED nodeVars
  BY <1>4 DEF AdminStep, IssueToken, ExpireToken, Install
<1>5. QED
  BY <1>1, <1>2, <1>3, <1>4 DEF Next

\* The call whose certificate agent a waits for, stores or has.
Latest(a, r) == cur[a] = r \/ (files[a]["ca"] # None /\ files[a]["cert"] = r)

\* The list names it, or shows why it does not.
ListedAs(a, r) ==
    \/ r \in wiped
    \/ \E i \in Rows(HostOf[a]) : nodeCN[i] \in {r} \cup late \/ from[nodeCN[i]] # a

NamedInv == \A a \in Agents, r \in Calls : pc[r] = "ok" /\ Latest(a, r) => ListedAs(a, r)

LEMMA LatestIsOwn ==
    ASSUME TypeInv, OwnInv, NEW a \in Agents, NEW r \in Calls, Latest(a, r)
    PROVE  from[r] = a
BY DEF Latest, OwnInv, OwnShape, Files

\* An agent takes up a certificate only through the call it waits for.
LEMMA LatestBefore ==
    ASSUME TypeInv, FilesInv, [Next]_vars, NEW a \in Agents, NEW r \in Calls,
           pc[r] # "free", Latest(a, r)'
    PROVE  Latest(a, r)
<1>1. CASE UNCHANGED <<files[a], cur[a]>>
  BY <1>1 DEF Latest
<1>2. CASE AgentNext(a)
  <2>1. FilesShape(a) /\ a # None
    BY ConstantsAssumption DEF FilesInv
  <2>2. CASE Register(a)
    BY <1>2, <2>2 DEF Register, Latest, TypeInv, TypeOK
  <2>3. CASE OpenFile(a) \/ FillFile(a)
    <3>1. /\ cur' = cur /\ phase[a] \in Files
          /\ files'[a]["ca"] # None => phase[a] = "ca" \/ files[a]["ca"] # None
          /\ phase[a] # "cert" => files'[a]["cert"] = files[a]["cert"]
          /\ phase[a] = "cert" => files'[a]["ca"] = files[a]["ca"]
      BY <2>1, <2>3 DEF OpenFile, FillFile, Files, TypeInv, TypeOK
    <3>2. CASE phase[a] = "ca"
      BY <2>1, <3>1, <3>2 DEF Latest, FilesShape
    <3>3. CASE phase[a] # "ca"
      BY <2>1, <3>1, <3>3 DEF Latest, FilesShape, Files
    <3>4. QED
      BY <3>2, <3>3
  <2>4. CASE StartEnrolled(a) \/ OnReply(a) \/ OnError(a) \/ LoadTLS(a) \/ AgentDies(a)
    <3>1. files' = files /\ cur'[a] \in {cur[a], None}
      BY <2>4 DEF StartEnrolled, OnReply, OnError, LoadTLS, AgentDies, ProcessExits,
                  TypeInv, TypeOK
    <3>2. QED
      BY <3>1, ConstantsAssumption DEF Latest
  <2>5. QED
    BY <1>2, <2>2, <2>3, <2>4 DEF AgentNext, AgentStep
<1>3. ASSUME NEW b \in Agents, AgentStep(b) \/ AgentDies(b), a # b
      PROVE  UNCHANGED <<files[a], cur[a]>>
  BY <1>3 DEF AgentStep, StartEnrolled, Register, OnReply, OnError, OpenFile, FillFile,
              LoadTLS, AgentDies, ProcessExits, TypeInv, TypeOK
<1>4. ASSUME NEW q \in Calls, HandlerStep(q) \/ HandlerError(q)
      PROVE  UNCHANGED <<files[a], cur[a]>>
  BY <1>4, HandlerKeepsAgents DEF HandlerNext, agentVars
<1>5. CASE AdminStep \/ PanelStops \/ UNCHANGED vars
  BY <1>1, <1>5 DEF AdminStep, IssueToken, ExpireToken, Install, DeleteNode, PanelStops, vars,
                    agentVars
<1>6. QED
  BY <1>1, <1>2, <1>3, <1>4, <1>5 DEF Next, AgentNext

\* A handler whose agent still waits for it is no match for the certificate
\* that agent already has: it is that agent's only call.
LEMMA OneCall ==
    ASSUME TypeInv, FilesInv, OwnInv, NEW a \in Agents, NEW r \in Calls, pc[r] = "ok",
           Latest(a, r), NEW q \in Calls, pc[q] = "write", ~Abandoned(q)
    PROVE  from[q] # a
<1>1. PICK b \in Agents : cur[b] = q
  BY DEF Abandoned
<1>2. from[q] = b /\ phase[b] = "waiting"
  BY <1>1 DEF OwnInv, OwnShape
<1>3. files[b]["ca"] = None
  BY <1>2 DEF FilesInv, FilesShape
<1>4. QED
  BY <1>1, <1>2, <1>3 DEF Latest

LEMMA ListedStays ==
    ASSUME TypeInv, FilesInv, ListInv, OwnInv, [Next]_vars, NEW a \in Agents, NEW r \in Calls,
           pc[r] = "ok", Latest(a, r), ListedAs(a, r)
    PROVE  ListedAs(a, r)'
<1>1. from[r] = a
  BY LatestIsOwn
<1>2. \A i \in Calls : nodeHost[i] # None =>
         nodeCN[i] \in Calls /\ from'[nodeCN[i]] = from[nodeCN[i]]
  BY CallMoves DEF ListInv, SameHost, Moves, Done
<1>3. HostOf[a] # None
  BY ConstantsAssumption
<1>4. CASE UNCHANGED nodeVars
  BY <1>2, <1>3, <1>4 DEF nodeVars, ListedAs, Rows
<1>5. ASSUME NEW d \in Calls, DeleteNode(d)
      PROVE  ListedAs(a, r)'
  <2>1. /\ nodeHost' = [nodeHost EXCEPT ![d] = None] /\ nodeCN' = [nodeCN EXCEPT ![d] = None]
        /\ wiped' = wiped \cup
             {s \in Calls : pc[s] \in {"write", "ok"} /\ Host(s) = nodeHost[d]}
        /\ late' = late
    BY <1>5 DEF DeleteNode
  <2>2. CASE nodeHost[d] = HostOf[a]
    BY <1>1, <2>1, <2>2 DEF ListedAs, Host
  <2>3. CASE nodeHost[d] # HostOf[a]
    <3>1. \A i \in Rows(HostOf[a]) : i \in Rows(HostOf[a])' /\ nodeCN'[i] = nodeCN[i]
      BY <2>1, <2>3 DEF Rows, TypeInv, TypeOK
    <3>2. \A i \in Rows(HostOf[a]) : from'[nodeCN[i]] = from[nodeCN[i]]
      BY <1>2, <1>3 DEF Rows
    <3>3. QED
      BY <2>1, <3>1, <3>2 DEF ListedAs
  <2>4. QED
    BY <2>2, <2>3
<1>6. ASSUME NEW q \in Calls, Writes(q)
      PROVE  ListedAs(a, r)'
  <2>1. /\ pc[q] = "write" /\ Written(q) /\ wiped' = wiped
        /\ UNCHANGED <<nodeHost, nodeCN, late>> \/ NoteLate(q)
    BY <1>6, WriteShape
  <2>2. late \subseteq late' /\ (nodeCN' # nodeCN /\ Abandoned(q) => q \in late')
    BY <2>1 DEF NoteLate
  <2>3. nodeHost[q] = None
    BY <2>1 DEF ListInv, Done
  <2>4. ASSUME NEW i \in Rows(HostOf[a])
        PROVE  i \in Rows(HostOf[a])' /\ nodeCN'[i] \in {nodeCN[i], q}
    BY <1>3, <2>1, <2>3, <2>4 DEF Written, InsertedRow, UpdatedCN, Rows, TypeInv, TypeOK
  <2>5. from'[q] = from[q]
    BY <2>1, WriteShape, <1>6 DEF Reply
  <2>6. CASE r \in wiped
    BY <2>1, <2>6 DEF ListedAs
  <2>7. ASSUME NEW i \in Rows(HostOf[a]), nodeCN[i] \in {r} \cup late \/ from[nodeCN[i]] # a
        PROVE  ListedAs(a, r)'
    <3>1. i \in Rows(HostOf[a])' /\ nodeCN'[i] \in {nodeCN[i], q}
      BY <2>4
    <3>2. CASE nodeCN'[i] = nodeCN[i]
      <4>1. from'[nodeCN[i]] = from[nodeCN[i]]
        BY <1>2, <1>3 DEF Rows
      <4>2. QED
        BY <2>2, <2>7, <3>1, <3>2, <4>1 DEF ListedAs
    <3>3. CASE nodeCN'[i] # nodeCN[i]
      <4>1. nodeCN'[i] = q /\ (q \in late' \/ ~Abandoned(q))
        BY <2>2, <3>1, <3>3
      <4>2. q \in late' \/ from'[q] # a
        BY <2>1, <2>5, <4>1, OneCall
      <4>3. QED
        BY <3>1, <4>1, <4>2 DEF ListedAs
    <3>4. QED
      BY <3>2, <3>3
  <2>8. QED
    BY <2>6, <2>7 DEF ListedAs
<1>7. QED
  BY <1>4, <1>5, <1>6, NodeMoves

\* A call that becomes "ok" has just written the row.
LEMMA ListedFirst ==
    ASSUME TypeInv, ListInv, NEW a \in Agents, NEW r \in Calls, from[r] = a,
           UpdateNode(r) \/ InsertNode(r)
    PROVE  ListedAs(a, r)'
<1>1. HostOf[a] \in Hosts /\ HostOf[a] # None /\ Host(r) = HostOf[a] /\ pc[r] = "write"
  BY ConstantsAssumption DEF Host, UpdateNode, InsertNode
<1>2. CASE UpdateNode(r)
  <2>1. /\ SameHost(found[r], r) /\ nodeHost' = nodeHost /\ wiped' = wiped
        /\ nodeHost[found[r]] # None \/ r \in wiped
    BY <1>1, <1>2 DEF UpdateNode, ListInv
  <2>2. CASE nodeHost[found[r]] # None
    <3>1. found[r] \in Calls /\ nodeHost[found[r]] = HostOf[a]
      BY <1>1, <2>1, <2>2 DEF ListInv, SameHost
    <3>2. nodeCN'[found[r]] = r
      BY <1>2, <2>2, <3>1 DEF UpdateNode, UpdatedCN, TypeInv, TypeOK
    <3>3. found[r] \in Rows(HostOf[a])'
      BY <2>1, <3>1 DEF Rows
    <3>4. QED
      BY <3>2, <3>3 DEF ListedAs
  <2>3. CASE r \in wiped
    BY <2>1, <2>3 DEF ListedAs
  <2>4. QED
    BY <2>1, <2>2, <2>3
<1>3. CASE InsertNode(r)
  <2>1. r \in Rows(HostOf[a])' /\ nodeCN'[r] = r
    BY <1>1, <1>3 DEF InsertNode, InsertedRow, Rows, TypeInv, TypeOK
  <2>2. QED
    BY <2>1 DEF ListedAs
<1>4. QED
  BY <1>2, <1>3

LEMMA NamedStep ==
    TypeInv /\ FilesInv /\ ListInv /\ OwnInv /\ NamedInv /\ [Next]_vars => NamedInv'
<1> SUFFICES ASSUME TypeInv, FilesInv, ListInv, OwnInv, NamedInv, [Next]_vars,
                    NEW a \in Agents, NEW r \in Calls, pc'[r] = "ok", Latest(a, r)'
             PROVE  ListedAs(a, r)'
  BY DEF NamedInv
<1>1. CASE pc[r] = "ok"
  BY <1>1, LatestBefore, ListedStays DEF NamedInv
<1>2. CASE pc[r] # "ok"
  <2>1. UpdateNode(r) \/ InsertNode(r)
    BY <1>2, CallMoves DEF Moves
  <2>2. pc[r] = "write"
    BY <2>1 DEF UpdateNode, InsertNode
  <2>3. from[r] = a
    BY <2>2, LatestBefore, LatestIsOwn
  <2>4. QED
    BY <2>1, <2>3, ListedFirst
<1>3. QED
  BY <1>1, <1>2

\* The row of a serving agent's host names the certificate it serves with,
\* unless a handler ran on for an agent that had given up, another agent has
\* the same host, or the row was deleted (httpapi.go:601-622,
\* agent.go:117-191).
THEOREM ServedCertIsTheListed == Spec => []ServedCertIsListed
<1>1. Init => NamedInv
  BY DEF Init, NamedInv
<1>2. Spec => []NamedInv
  BY <1>1, NamedStep, TypeInvariant, FilesInvariant, ListInvariant, OwnInvariant, PTL DEF Spec
<1>3. FilesInv /\ OwnInv /\ NamedInv => ServedCertIsListed
  <2> SUFFICES ASSUME FilesInv, OwnInv, NamedInv, NEW a \in Agents, phase[a] = "serving"
               PROVE  ListedAs(a, files[a]["cert"])
    BY DEF ServedCertIsListed, ListedAs
  <2>1. files[a]["ca"] # None /\ files[a]["cert"] \in Calls
    BY DEF FilesInv, FilesShape, KeyPairLoads
  <2>2. pc[files[a]["cert"]] = "ok"
    BY <2>1 DEF OwnInv, OwnShape, Files
  <2>3. QED
    BY <2>1, <2>2 DEF NamedInv, Latest
<1>4. QED
  BY <1>2, <1>3, FilesInvariant, OwnInvariant, PTL

----------------------------------------------------------------------------
(* Rows of registrations that failed.                                      *)

\* What has failed or was deleted stays so.
LEMMA NothingUndone ==
    ASSUME TypeInv, [Next]_vars
    PROVE  /\ dbErrors \in Nat /\ dbErrors' \in Nat /\ dbErrors <= dbErrors'
           /\ wiped \subseteq wiped'
<1>1. dbErrors \in Nat /\ dbErrors' \in {dbErrors, dbErrors + 1}
  <2>1. ASSUME NEW r \in Calls, HandlerStep(r) \/ HandlerError(r)
        PROVE  dbErrors' \in {dbErrors, dbErrors + 1}
    BY <2>1 DEF HandlerStep, HandlerError, Admit, Refuse, Mark, SignAndFind, UpdateNode,
                InsertNode, LookupError, MarkError, SignError, FindError, WriteError,
                Cancel, NoFault, DbError
  <2>2. ASSUME NEW a \in Agents, AgentStep(a) \/ AgentDies(a)
        PROVE  dbErrors' = dbErrors
    BY <2>2 DEF AgentStep, StartEnrolled, Register, OnReply, OnError, OpenFile, FillFile,
                LoadTLS, AgentDies, NoFault
  <2>3. AdminStep \/ PanelStops \/ UNCHANGED vars => dbErrors' = dbErrors
    BY DEF AdminStep, IssueToken, ExpireToken, Install, DeleteNode, PanelStops, vars, NoFault
  <2>4. dbErrors \in Nat
    BY ConstantsAssumption DEF TypeInv, TypeOK
  <2>5. QED
    BY <2>1, <2>2, <2>3, <2>4 DEF Next
<1>2. wiped \subseteq wiped'
  <2>1. ASSUME NEW r \in Calls, Writes(r)
        PROVE  wiped \subseteq wiped'
    BY <2>1, WriteShape
  <2>2. QED
    BY <2>1, NodeMoves DEF nodeVars, DeleteNode
<1>3. QED
  BY <1>1, <1>2

\* A row of a granted call becomes a ghost by a failed statement only.
LEMMA GhostMoves ==
    ASSUME TypeInv, ListInv, [Next]_vars, NEW i \in Calls, i \in Ghosts', i \notin Ghosts
    PROVE  \E r \in Calls : WriteError(r) /\ i = IF found[r] = None THEN r ELSE found[r]
<1>1. nodeHost'[i] # None /\ pc'[nodeCN'[i]] # "ok"
  BY DEF Ghosts
<1>2. nodeHost[i] = nodeHost'[i] /\ nodeCN'[i] = nodeCN[i] => FALSE
  <2>1. ASSUME nodeHost[i] = nodeHost'[i], nodeCN'[i] = nodeCN[i]
        PROVE  nodeCN[i] \in Calls /\ Done(nodeCN[i])
    BY <1>1, <2>1 DEF ListInv, SameHost
  <2>2. ASSUME nodeHost[i] = nodeHost'[i], nodeCN'[i] = nodeCN[i]
        PROVE  pc'[nodeCN[i]] = pc[nodeCN[i]]
    BY <2>1, <2>2, CallMoves DEF Moves
  <2>3. QED
    BY <1>1, <2>2 DEF Ghosts
<1>3. ~UNCHANGED nodeVars
  BY <1>2 DEF nodeVars
<1>4. ~\E d \in Calls : DeleteNode(d)
  BY <1>1, <1>2 DEF DeleteNode, TypeInv, TypeOK
<1>5. PICK r \in Calls : Writes(r)
  BY <1>3, <1>4, NodeMoves
<1>6. /\ pc[r] = "write" /\ Written(r)
      /\ Reply(r, "ok") \/ (WriteError(r) /\ Reply(r, "failed"))
  BY <1>5, WriteShape
<1>7. i = (IF found[r] = None THEN r ELSE found[r]) /\ nodeCN'[i] = r
  BY <1>1, <1>2, <1>6 DEF Written, InsertedRow, UpdatedCN, TypeInv, TypeOK
<1>8. Reply(r, "ok") => pc'[r] = "ok"
  BY DEF Reply, TypeInv, TypeOK
<1>9. QED
  BY <1>1, <1>6, <1>7, <1>8

LEMMA GhostStep == TypeInv /\ ListInv /\ GhostsBounded /\ [Next]_vars => GhostsBounded'
<1> SUFFICES ASSUME TypeInv, ListInv, GhostsBounded, [Next]_vars
             PROVE  Cardinality(Ghosts') <= dbErrors'
  BY DEF GhostsBounded
<1>1. Ghosts \in SUBSET Calls /\ Ghosts' \in SUBSET Calls
  BY DEF Ghosts
<1>2. dbErrors \in Nat /\ dbErrors' \in Nat /\ dbErrors <= dbErrors'
  BY NothingUndone
<1>3. Cardinality(Ghosts) <= dbErrors
  BY DEF GhostsBounded
<1>4. CASE \E r \in Calls : WriteError(r)
  <2>1. PICK r \in Calls : WriteError(r)
    BY <1>4
  <2>2. dbErrors' = dbErrors + 1
    BY <2>1 DEF WriteError, DbError
  <2> DEFINE x == IF found[r] = None THEN r ELSE found[r]
  <2>3. x \in Calls
    BY DEF TypeInv, TypeOK
  <2>4. Ghosts' \subseteq Ghosts \cup {x}
    <3>1. ASSUME NEW i \in Calls, i \in Ghosts', i \notin Ghosts
          PROVE  i = x
      <4>1. PICK q \in Calls : WriteError(q) /\ i = IF found[q] = None THEN q ELSE found[q]
        BY <3>1, GhostMoves
      <4>2. q = r
        <5>1. Reply(r, "failed") /\ pc[q] = "write" /\ Reply(q, "failed")
          BY <2>1, <4>1 DEF WriteError
        <5>2. pc' = [pc EXCEPT ![r] = "failed"] /\ pc' = [pc EXCEPT ![q] = "failed"]
          BY <5>1 DEF Reply
        <5>3. QED
          BY <5>1, <5>2 DEF TypeInv, TypeOK
      <4>3. QED
        BY <4>1, <4>2
    <3>2. QED
      BY <1>1, <3>1
  <2>5. Ghosts' \in SUBSET (Ghosts \cup {x})
    BY <2>4
  <2>6. Cardinality(Ghosts') <= Cardinality(Ghosts) + 1
    BY <1>1, <2>3, <2>5, CallAdded
  <2>7. Cardinality(Ghosts) \in Nat /\ Cardinality(Ghosts') \in Nat
    BY <1>1, CallSets
  <2>8. QED
    BY <1>2, <1>3, <2>2, <2>6, <2>7
<1>5. CASE ~\E r \in Calls : WriteError(r)
  <2>1. Ghosts' \subseteq Ghosts
    BY <1>1, <1>5, GhostMoves
  <2>2. Cardinality(Ghosts') <= Cardinality(Ghosts)
        /\ Cardinality(Ghosts) \in Nat /\ Cardinality(Ghosts') \in Nat
    BY <1>1, <2>1, CallSets
  <2>3. QED
    BY <1>2, <1>3, <2>2
<1>6. QED
  BY <1>4, <1>5

\* Whoever was told that enrolling failed is not listed, but for statements
\* whose result was lost (httpapi.go:594-618).
THEOREM GhostsAreFew == Spec => []GhostsBounded
<1>1. Init => GhostsBounded
  <2>1. Init => Ghosts = {} /\ dbErrors = 0
    BY DEF Init, Ghosts
  <2>2. QED
    BY <2>1, FS_EmptySet DEF GhostsBounded
<1>2. QED
  BY <1>1, GhostStep, TypeInvariant, ListInvariant, PTL DEF Spec

----------------------------------------------------------------------------
(* An agent without files whose token is spent.                            *)

\* Tokens stay spent, and stay past their time.
LEMMA DeadTokens ==
    ASSUME [Next]_vars
    PROVE  used \subseteq used' /\ expired \subseteq expired'
<1>1. CASE AdminStep \/ PanelStops \/ UNCHANGED vars
  BY <1>1 DEF AdminStep, IssueToken, ExpireToken, Install, DeleteNode, PanelStops, vars,
              tokenVars
<1>2. ASSUME NEW r \in Calls, HandlerStep(r) \/ HandlerError(r)
      PROVE  used \subseteq used' /\ expired \subseteq expired'
  BY <1>2 DEF HandlerStep, HandlerError, Admit, Refuse, Mark, SignAndFind, UpdateNode,
              InsertNode, LookupError, MarkError, SignError, FindError, WriteError,
              Cancel, tokenVars
<1>3. ASSUME NEW a \in Agents, AgentStep(a) \/ AgentDies(a)
      PROVE  used \subseteq used' /\ expired \subseteq expired'
  BY <1>3 DEF AgentStep, StartEnrolled, Register, OnReply, OnError, OpenFile, FillFile,
              LoadTLS, AgentDies, tokenVars
<1>4. QED
  BY <1>1, <1>2, <1>3 DEF Next

\* The call of an agent that is locked out.
Hopeless(r) ==
    \/ pc[r] \in {"refused", "failed"}
    \/ pc[r] = "lookup" /\ tok[r] \in used \cup expired

\* While its agent waits, a hopeless call stays hopeless, whatever handler runs.
LEMMA HopelessHandler ==
    ASSUME TypeInv, NEW r \in Calls, HandlerNext(r), [Next]_vars,
           NEW s \in Calls, Hopeless(s), ~Abandoned(s)
    PROVE  Hopeless(s)'
<1>1. used \subseteq used' /\ expired \subseteq expired'
  BY DeadTokens
<1>2. CASE r # s
  <2>1. pc'[s] = pc[s] /\ tok'[s] = tok[s]
    <3>1. CASE Admit(r) \/ Mark(r) \/ MarkError(r) \/ SignAndFind(r) \/ FindError(r)
      BY <1>2, <3>1 DEF Admit, Mark, MarkError, SignAndFind, FindError, TypeInv, TypeOK
    <3>2. CASE Refuse(r) \/ LookupError(r) \/ SignError(r) \/ WriteError(r) \/ Cancel(r)
               \/ UpdateNode(r) \/ InsertNode(r)
      <4>1. InHandler(r) /\ (Reply(r, "ok") \/ Reply(r, "refused") \/ Reply(r, "failed"))
        BY <3>2 DEF Refuse, LookupError, SignError, WriteError, Cancel, UpdateNode,
                    InsertNode, InHandler
      <4>2. QED
        BY <1>2, <4>1, ReplyMoves
    <3>3. QED
      BY <3>1, <3>2 DEF HandlerNext, HandlerStep, HandlerError
  <2>2. QED
    BY <1>1, <2>1 DEF Hopeless
<1>3. CASE r = s
  <2>1. pc[s] = "lookup" /\ tok[s] \in used \cup expired
    BY <1>3 DEF Hopeless, HandlerNext, HandlerStep, HandlerError, Admit, Refuse, Mark,
                SignAndFind, UpdateNode, InsertNode, LookupError, MarkError, SignError,
                FindError, WriteError, Cancel, InHandler
  <2>2. Refuse(s) \/ LookupError(s)
    BY <1>3, <2>1 DEF HandlerNext, HandlerStep, HandlerError, Admit, Mark, SignAndFind,
                      UpdateNode, InsertNode, MarkError, SignError, FindError, WriteError,
                      Cancel
  <2>3. InHandler(s) /\ Reply(s, "refused")
    BY <2>2 DEF Refuse, LookupError, InHandler
  <2>4. pc'[s] = "refused"
    BY <2>3, ReplyMoves
  <2>5. QED
    BY <2>4 DEF Hopeless
<1>4. QED
  BY <1>2, <1>3

\* What an agent does itself when it is locked out: it asks, or it exits.
LEMMA LockedOutAgent ==
    ASSUME TypeInv, FilesInv, NEW a \in Agents, LockedOut(a), AgentNext(a)
    PROVE  LockedOut(a)'
<1>1. a # None /\ phase[a] \in {"down", "waiting"} /\ ~HasAllFiles(a)
  BY ConstantsAssumption DEF LockedOut
<1>2. CASE Register(a)
  <2>1. PICK r \in Calls :
           /\ pc' = [pc EXCEPT ![r] = "lookup"]
           /\ tok' = [tok EXCEPT ![r] = env[a]]
           /\ cur' = [cur EXCEPT ![a] = r]
    BY <1>2 DEF Register
  <2>2. cur'[a] = r /\ pc'[r] = "lookup" /\ tok'[r] = env[a]
    BY <2>1 DEF TypeInv, TypeOK
  <2>3. UNCHANGED <<env, files, used, expired>> /\ phase'[a] = "waiting"
    BY <1>2 DEF Register, tokenVars, TypeInv, TypeOK
  <2>4. QED
    BY <1>1, <2>2, <2>3 DEF LockedOut, HasAllFiles
<1>3. CASE OnError(a) \/ AgentDies(a)
  <2>1. UNCHANGED <<env, files, used, expired>> /\ phase'[a] = "down" /\ cur'[a] = None
    BY <1>3 DEF OnError, AgentDies, ProcessExits, tokenVars, TypeInv, TypeOK
  <2>2. QED
    BY <1>1, <2>1 DEF LockedOut, HasAllFiles
<1>4. CASE OnReply(a)
  <2>1. cur[a] # None
    BY <1>4, ConstantsAssumption DEF OnReply, FilesInv, FilesShape
  <2>2. QED
    BY <1>4, <2>1 DEF OnReply, LockedOut
<1>5. CASE StartEnrolled(a) \/ OpenFile(a) \/ FillFile(a) \/ LoadTLS(a)
  BY <1>1, <1>5 DEF StartEnrolled, OpenFile, FillFile, LoadTLS, Files
<1>6. QED
  BY <1>2, <1>3, <1>4, <1>5 DEF AgentNext, AgentStep

LEMMA LockedOutStep ==
    ASSUME TypeInv, FilesInv, OwnInv, [Next]_vars, NEW a \in Agents, LockedOut(a), env'[a] = env[a]
    PROVE  LockedOut(a)'
<1>1. used \subseteq used' /\ expired \subseteq expired'
  BY DeadTokens
<1>2. /\ phase[a] \in {"down", "waiting"} /\ ~HasAllFiles(a) /\ env[a] \in used \cup expired
      /\ cur[a] # None => cur[a] \in Calls /\ Hopeless(cur[a])
      /\ cur[a] \in Calls => from[cur[a]] = a
  BY DEF LockedOut, Hopeless, OwnInv, OwnShape, TypeInv, TypeOK
<1>3. ASSUME UNCHANGED <<files[a], cur[a]>>, phase'[a] \in {"down", "waiting"},
             cur[a] # None => Hopeless(cur[a])'
      PROVE  LockedOut(a)'
  BY <1>1, <1>2, <1>3 DEF LockedOut, HasAllFiles, Hopeless
<1>4. CASE AdminStep \/ PanelStops \/ UNCHANGED vars
  <2>1. UNCHANGED <<files, cur>> /\ phase'[a] = phase[a]
    BY <1>2, <1>4 DEF AdminStep, IssueToken, ExpireToken, Install, DeleteNode, PanelStops,
                      vars, agentVars, TypeInv, TypeOK
  <2>2. \A r \in Calls : Hopeless(r) => Hopeless(r)'
    BY <1>1, <1>4 DEF AdminStep, IssueToken, ExpireToken, Install, DeleteNode, PanelStops,
                      vars, callVars, InHandler, Hopeless, TypeInv, TypeOK
  <2>3. QED
    BY <1>2, <1>3, <2>1, <2>2
<1>5. ASSUME NEW r \in Calls, HandlerStep(r) \/ HandlerError(r)
      PROVE  LockedOut(a)'
  <2>1. UNCHANGED agentVars
    BY <1>5, HandlerKeepsAgents DEF HandlerNext
  <2>2. ASSUME cur[a] # None
        PROVE  Hopeless(cur[a])'
    <3>1. cur[a] \in Calls /\ Hopeless(cur[a]) /\ ~Abandoned(cur[a])
      BY <1>2, <2>2 DEF Abandoned
    <3>2. \A s \in Calls : Hopeless(s) /\ ~Abandoned(s) => Hopeless(s)'
      BY <1>5, HopelessHandler DEF HandlerNext
    <3>3. cur'[a] = cur[a]
      BY <2>1 DEF agentVars
    <3>4. QED
      BY <3>1, <3>2, <3>3 DEF Hopeless
  <2>3. QED
    BY <1>2, <1>3, <2>1, <2>2 DEF agentVars
<1>6. ASSUME NEW b \in Agents, AgentStep(b) \/ AgentDies(b)
      PROVE  LockedOut(a)'
  <2>1. CASE a = b
    BY <1>6, <2>1, LockedOutAgent DEF AgentNext
  <2>2. CASE a # b
    <3>1. /\ UNCHANGED <<files[a], cur[a], phase[a]>>
          /\ \A r \in Calls : pc[r] # "free" =>
               r = cur[b] \/ (pc'[r] = pc[r] /\ tok'[r] = tok[r])
      BY <1>6, <2>2 DEF AgentStep, StartEnrolled, Register, OnReply, OnError, OpenFile,
                        FillFile, LoadTLS, AgentDies, ProcessExits, callVars, TypeInv, TypeOK
    <3>2. cur[b] \in Calls => from[cur[b]] = b
      BY DEF OwnInv, OwnShape
    <3>3. cur[a] # None => Hopeless(cur[a])'
      BY <1>1, <1>2, <2>2, <3>1, <3>2 DEF Hopeless
    <3>4. QED
      BY <1>2, <1>3, <3>1, <3>3
  <2>3. QED
    BY <2>1, <2>2
<1>7. QED
  BY <1>4, <1>5, <1>6 DEF Next

\* Only an administrator lets an agent that is locked out in again.
THEOREM LockedOutForGood == Spec => LockedOutStays
<1>1. TypeInv /\ FilesInv /\ OwnInv /\ [Next]_vars =>
         [\A a \in Agents : LockedOut(a) /\ env'[a] = env[a] => LockedOut(a)']_vars
  BY LockedOutStep
<1>2. QED
  BY <1>1, TypeInvariant, FilesInvariant, OwnInvariant, PTL DEF Spec, LockedOutStays

\* A call that has passed the update of line 592 has spent its token, when
\* no statement fails.
SpentInv == \A r \in Calls : pc[r] \in {"find", "write", "ok"} => tok[r] \in used

\* Only the update of line 592 leads to the statements after it.
LEMMA FindMoves ==
    ASSUME TypeInv, [Next]_vars, NEW s \in Calls, pc'[s] = "find"
    PROVE  pc[s] = "find" \/ Mark(s) \/ MarkError(s)
<1>1. CASE AdminStep \/ PanelStops \/ UNCHANGED vars
  BY <1>1 DEF AdminStep, IssueToken, ExpireToken, Install, DeleteNode, PanelStops, vars,
              callVars, TypeInv, TypeOK
<1>2. ASSUME NEW r \in Calls, HandlerStep(r) \/ HandlerError(r)
      PROVE  pc[s] = "find" \/ Mark(s) \/ MarkError(s)
  <2>1. CASE Admit(r) \/ Mark(r) \/ MarkError(r) \/ SignAndFind(r) \/ FindError(r)
    BY <2>1 DEF Admit, Mark, MarkError, SignAndFind, FindError, TypeInv, TypeOK
  <2>2. CASE Refuse(r) \/ LookupError(r) \/ SignError(r) \/ WriteError(r) \/ Cancel(r)
             \/ UpdateNode(r) \/ InsertNode(r)
    <3>1. InHandler(r) /\ (Reply(r, "ok") \/ Reply(r, "refused") \/ Reply(r, "failed"))
      BY <2>2 DEF Refuse, LookupError, SignError, WriteError, Cancel, UpdateNode,
                  InsertNode, InHandler
    <3>2. QED
      BY <3>1, ReplyMoves
  <2>3. QED
    BY <1>2, <2>1, <2>2 DEF HandlerStep, HandlerError
<1>3. ASSUME NEW a \in Agents, AgentStep(a) \/ AgentDies(a)
      PROVE  pc[s] = "find" \/ Mark(s) \/ MarkError(s)
  BY <1>3 DEF AgentStep, StartEnrolled, Register, OnReply, OnError, OpenFile, FillFile,
              LoadTLS, AgentDies, callVars, TypeInv, TypeOK
<1>4. QED
  BY <1>1, <1>2, <1>3 DEF Next

LEMMA SpentStep ==
    ASSUME MaxDbErrors = 0, TypeInv, SpentInv, [Next]_vars
    PROVE  SpentInv'
<1> SUFFICES ASSUME NEW r \in Calls, pc'[r] \in {"find", "write", "ok"}
             PROVE  tok'[r] \in used'
  BY DEF SpentInv
<1>1. used \subseteq used' /\ Moves(r)
  BY DeadTokens, CallMoves
<1>2. CASE pc[r] \in {"find", "write", "ok"}
  BY <1>1, <1>2 DEF Moves, SpentInv
<1>3. CASE pc'[r] = "find" /\ pc[r] # "find"
  <2>1. Mark(r)
    BY <1>3, FindMoves, ConstantsAssumption DEF MarkError, DbError, TypeInv, TypeOK
  <2>2. QED
    BY <2>1 DEF Mark
<1>4. CASE pc'[r] \in {"write", "ok"}
  BY <1>1, <1>2, <1>4 DEF Moves, SignAndFind, FindError, UpdateNode, InsertNode
<1>5. QED
  BY <1>2, <1>3, <1>4

\* The process of agent a ends after its call was granted and before it has
\* its three files; it still has the token it asked with.
Interrupted(a) ==
    /\ phase[a] \in {"waiting"} \cup Files
    /\ pc[cur[a]] = "ok"
    /\ tok[cur[a]] = env[a]
    /\ phase'[a] = "down"
    /\ ~HasAllFiles(a)'

\* An agent whose process ends after the panel granted its call and before
\* all three files are there is locked out, with the token it asked with.
InterruptedIsLockedOut ==
    [][\A a \in Agents : Interrupted(a) => LockedOut(a)']_vars

\* A reply that is lost, or a process that ends while it stores the reply,
\* costs the agent its enrollment: by LockedOutForGood no retry repairs it.
THEOREM LostReplyLocksOut ==
    ASSUME MaxDbErrors = 0
    PROVE  Spec => InterruptedIsLockedOut
<1>1. Init => SpentInv
  BY DEF Init, SpentInv
<1>2. Spec => []SpentInv
  BY <1>1, SpentStep, TypeInvariant, PTL DEF Spec
<1>3. ASSUME TypeInv, FilesInv, OwnInv, SpentInv, [Next]_vars, NEW a \in Agents,
             Interrupted(a)
      PROVE  LockedOut(a)'
  <2> USE DEF Interrupted
  <2>1. cur[a] \in Calls /\ phase[a] # "down" /\ phase[a] # "loading"
    BY <1>3 DEF Interrupted, FilesInv, FilesShape, Files
  <2>2. env[a] \in used /\ used \subseteq used'
    BY <1>3, <2>1, DeadTokens DEF Interrupted, SpentInv
  <2>3. AgentDies(a)
    <3>1. CASE AdminStep \/ PanelStops \/ UNCHANGED vars
      BY <1>3, <2>1, <3>1 DEF AdminStep, IssueToken, ExpireToken, Install, DeleteNode,
              PanelStops, vars, agentVars, Files, TypeInv, TypeOK
    <3>2. ASSUME NEW r \in Calls, HandlerStep(r) \/ HandlerError(r)
          PROVE  FALSE
      BY <1>3, <2>1, <3>2, HandlerKeepsAgents DEF HandlerNext, agentVars
    <3>3. ASSUME NEW b \in Agents, AgentStep(b) \/ AgentDies(b)
          PROVE  AgentDies(a)
      <4>1. a = b
        BY <1>3, <2>1, <3>3 DEF AgentStep, StartEnrolled, Register, OnReply, OnError,
              OpenFile, FillFile, LoadTLS, AgentDies, ProcessExits, TypeInv, TypeOK
      <4>2. ~StartEnrolled(a) /\ ~Register(a) /\ ~OnError(a) /\ ~LoadTLS(a)
        BY <1>3, <2>1 DEF StartEnrolled, Register, OnError, LoadTLS
      <4>3. ~OnReply(a) /\ ~OpenFile(a) /\ ~FillFile(a)
        BY <1>3, <2>1 DEF OnReply, OpenFile, FillFile, AfterFile, Files, TypeInv, TypeOK
      <4>4. QED
        BY <3>3, <4>1, <4>2, <4>3 DEF AgentStep
    <3>4. QED
      BY <1>3, <3>1, <3>2, <3>3 DEF Next
  <2>4. cur'[a] = None /\ env'[a] = env[a] /\ ~HasAllFiles(a)'
    BY <1>3, <2>3 DEF AgentDies, ProcessExits, TypeInv, TypeOK
  <2>5. QED
    BY <1>3, <2>2, <2>4 DEF LockedOut
<1>4. TypeInv /\ FilesInv /\ OwnInv /\ SpentInv /\ [Next]_vars =>
         [\A a \in Agents : Interrupted(a) => LockedOut(a)']_vars
  BY <1>3
<1>5. QED
  BY <1>2, <1>4, TypeInvariant, FilesInvariant, OwnInvariant, PTL
     DEF Spec, InterruptedIsLockedOut

----------------------------------------------------------------------------
(* Handlers one at a time; a database that answers and no deletions so     *)
(* far: the case in which the registration of an agent looks like one step.*)

SerialPanel == MaxInFlight = 1

\* What is known in every state.
KnownInv == TypeInv /\ FilesInv /\ UseInv /\ RowsInv /\ ListInv /\ OwnInv /\ GhostsBounded

LEMMA KnownInvariant == Spec => []KnownInv
BY TypeInvariant, FilesInvariant, UseInvariant, RowsInvariant, ListInvariant,
   OwnInvariant, GhostsAreFew, PTL DEF KnownInv

\* It was calm before if it is calm now.
LEMMA CalmBefore == ASSUME TypeInv, [Next]_vars, Calm' PROVE Calm /\ dbErrors' = dbErrors
BY NothingUndone DEF Calm

\* A failing statement ends the calm.
LEMMA CalmSteps ==
    ASSUME Calm, Calm', NEW r \in Calls
    PROVE  ~LookupError(r) /\ ~MarkError(r) /\ ~FindError(r) /\ ~WriteError(r)
BY DEF Calm, LookupError, MarkError, FindError, WriteError, DbError

\* A set of calls with at most one element.
LEMMA AtMostOne ==
    ASSUME NEW S \in SUBSET Calls, Cardinality(S) <= 1, NEW r \in S, NEW s \in S
    PROVE  r = s
<1> SUFFICES ASSUME r # s
             PROVE  FALSE
  OBVIOUS
<1>1. IsFiniteSet({s}) /\ Cardinality({s}) = 1
  BY FS_Singleton
<1>2. Cardinality({s} \cup {r}) = 2
  BY <1>1, FS_AddElement
<1>3. {s} \cup {r} \in SUBSET S
  OBVIOUS
<1>4. Cardinality({s} \cup {r}) <= Cardinality(S) /\ Cardinality(S) \in Nat
  BY <1>3, CallSets
<1>5. QED
  BY <1>2, <1>4

LEMMA OneElement == ASSUME NEW S \in SUBSET Calls, NEW r \in S PROVE Cardinality(S) >= 1
<1>1. IsFiniteSet({r}) /\ Cardinality({r}) = 1
  BY FS_Singleton
<1>2. {r} \in SUBSET S
  OBVIOUS
<1>3. Cardinality({r}) <= Cardinality(S) /\ Cardinality(S) \in Nat
  BY <1>2, CallSets
<1>4. QED
  BY <1>1, <1>3

\* So does a deletion: every row is one of a granted call.
LEMMA CalmDelete ==
    ASSUME KnownInv, Calm, Calm', NEW i \in Calls, DeleteNode(i)
    PROVE  FALSE
<1>1. /\ nodeHost[i] # None /\ wiped' = {}
      /\ \A r \in Calls : ~(pc[r] \in {"write", "ok"} /\ Host(r) = nodeHost[i])
  BY DEF DeleteNode, Calm
<1>2. nodeCN[i] \in Calls /\ Host(nodeCN[i]) = nodeHost[i]
  BY <1>1 DEF KnownInv, ListInv, SameHost
<1>3. i \in Ghosts
  BY <1>1, <1>2 DEF Ghosts
<1>4. Ghosts \in SUBSET Calls
  BY DEF Ghosts
<1>5. Cardinality(Ghosts) >= 1 /\ Cardinality(Ghosts) \in Nat
  BY <1>3, <1>4, OneElement, CallSets
<1>6. Cardinality(Ghosts) <= 0
  BY DEF KnownInv, GhostsBounded, Calm
<1>7. QED
  BY <1>5, <1>6

\* One handler, one row of a host, and no row while a handler is about to
\* insert one.
LEMMA Serial ==
    ASSUME SerialPanel, Calm, KnownInv
    PROVE  /\ \A r, s \in Calls : InHandler(r) /\ InHandler(s) => r = s
           /\ \A h \in Hosts : \A i, j \in Rows(h) : i = j
           /\ \A h \in Hosts : Inserting(h) # {} => Rows(h) = {}
           /\ Cardinality(Active) < MaxInFlight => Active = {}
<1>1. dbErrors = 0
  BY DEF Calm
<1>2. Active \in SUBSET Calls /\ Cardinality(Active) <= 1 /\ Cardinality(Active) \in Nat
  <2>1. Active \in SUBSET Calls
    BY DEF Active
  <2>2. QED
    BY <2>1, <1>1, CallSets DEF KnownInv, UseInv, SerialPanel
<1>3. ASSUME NEW h \in Hosts
      PROVE  /\ Rows(h) \in SUBSET Calls /\ Inserting(h) \in SUBSET Calls
             /\ Cardinality(Rows(h)) <= 1
             /\ Inserting(h) # {} => Rows(h) = {}
  <2>1. /\ Cardinality(Rows(h)) + Cardinality(Inserting(h)) <= 1
        /\ Rows(h) \in SUBSET Calls /\ Inserting(h) \in SUBSET Calls
        /\ Cardinality(Rows(h)) \in Nat /\ Cardinality(Inserting(h)) \in Nat
    BY <1>1, RowSets DEF KnownInv, RowsInv, SerialPanel
  <2>2. ASSUME NEW r \in Inserting(h), NEW i \in Rows(h)
        PROVE  FALSE
    <3>1. Cardinality(Rows(h)) >= 1 /\ Cardinality(Inserting(h)) >= 1
      BY <2>1, OneElement
    <3>2. QED
      BY <2>1, <3>1
  <2>3. QED
    BY <2>1, <2>2
<1>4. \A r, s \in Calls : InHandler(r) /\ InHandler(s) => r = s
  BY <1>2, AtMostOne DEF Active
<1>5. \A h \in Hosts : \A i, j \in Rows(h) : i = j
  BY <1>3, AtMostOne
<1>6. ASSUME Cardinality(Active) < MaxInFlight
      PROVE  Active = {}
  <2>1. ASSUME NEW r \in Active
        PROVE  FALSE
    BY <1>2, <1>6, <2>1, OneElement DEF SerialPanel
  <2>2. QED
    BY <2>1
<1>7. QED
  BY <1>3, <1>4, <1>5, <1>6

\* The handler of r is done: its host has one row, which names r, and the
\* other hosts have what they had.
Lists(r) ==
    /\ pc[r] = "write" /\ pc' = [pc EXCEPT ![r] = "ok"]
    /\ UNCHANGED <<tokenVars, tok, from>>
    /\ \E x \in Calls : Rows(Host(r))' = {x} /\ nodeCN'[x] = r
    /\ \A h \in Hosts \ {Host(r)} :
         Rows(h)' = Rows(h) /\ \A i \in Rows(h) : nodeCN'[i] = nodeCN[i]

LEMMA WriteLists ==
    ASSUME SerialPanel, Calm, KnownInv, NEW r \in Calls, UpdateNode(r) \/ InsertNode(r)
    PROVE  Lists(r)
<1>1. /\ pc[r] = "write" /\ Reply(r, "ok")
      /\ UNCHANGED tokenVars
  BY DEF UpdateNode, InsertNode
<1>2. pc' = [pc EXCEPT ![r] = "ok"] /\ UNCHANGED <<tok, from>>
  BY <1>1 DEF Reply
<1>3. Host(r)' = Host(r) /\ Host(r) \in Hosts /\ Host(r) # None
  BY <1>1, <1>2, ConstantsAssumption DEF Host, KnownInv, TypeInv, CallShape
<1>4. CASE UpdateNode(r)
  <2>1. found[r] \in Calls /\ nodeHost[found[r]] = Host(r)
    BY <1>4 DEF UpdateNode, KnownInv, ListInv, SameHost, Calm
  <2>2. nodeHost' = nodeHost /\ nodeCN' = [nodeCN EXCEPT ![found[r]] = r]
    BY <1>3, <1>4, <2>1 DEF UpdateNode, UpdatedCN
  <2>3. \A i \in Rows(Host(r)) : i = found[r]
    BY <1>3, <2>1, Serial DEF Rows
  <2>4. Rows(Host(r))' = {found[r]} /\ nodeCN'[found[r]] = r
    BY <1>3, <2>1, <2>2, <2>3 DEF Rows, KnownInv, TypeInv, TypeOK
  <2>5. ASSUME NEW h \in Hosts, h # Host(r)
        PROVE  Rows(h)' = Rows(h) /\ \A i \in Rows(h) : nodeCN'[i] = nodeCN[i]
    BY <2>1, <2>2, <2>5 DEF Rows, KnownInv, TypeInv, TypeOK
  <2>6. QED
    BY <1>1, <1>2, <2>1, <2>4, <2>5 DEF Lists
<1>5. CASE InsertNode(r)
  <2>1. /\ nodeHost' = [nodeHost EXCEPT ![r] = Host(r)]
        /\ nodeCN' = [nodeCN EXCEPT ![r] = r]
        /\ found[r] = None
    BY <1>5 DEF InsertNode, InsertedRow
  <2>2. nodeHost[r] = None
    BY <1>1 DEF KnownInv, ListInv, Done
  <2>3. Rows(Host(r)) = {}
    <3>1. r \in Inserting(Host(r))
      BY <1>1, <2>1 DEF Inserting
    <3>2. QED
      BY <1>3, <3>1, Serial
  <2>4. Rows(Host(r))' = {r} /\ nodeCN'[r] = r
    BY <1>3, <2>1, <2>3 DEF Rows, KnownInv, TypeInv, TypeOK
  <2>5. ASSUME NEW h \in Hosts, h # Host(r)
        PROVE  Rows(h)' = Rows(h) /\ \A i \in Rows(h) : nodeCN'[i] = nodeCN[i]
    BY <2>1, <2>2, <2>5, ConstantsAssumption DEF Rows, KnownInv, TypeInv, TypeOK
  <2>6. QED
    BY <1>1, <1>2, <2>4, <2>5 DEF Lists
<1>6. QED
  BY <1>4, <1>5

\* No other step changes the list or grants a certificate.
LEMMA ListingMoves ==
    ASSUME SerialPanel, KnownInv, [Next]_vars, Calm, Calm'
    PROVE  \/ \E r \in Calls : Lists(r)
           \/ /\ UNCHANGED <<nodeHost, nodeCN>>
              /\ \A r \in Calls : pc'[r] = "ok" <=> pc[r] = "ok"
<1>1. ASSUME \A r \in Calls : ~UpdateNode(r) /\ ~InsertNode(r)
      PROVE  \A r \in Calls : pc'[r] = "ok" <=> pc[r] = "ok"
  BY <1>1, CallMoves DEF Moves, Done, KnownInv
<1>2. ASSUME \A r \in Calls : ~UpdateNode(r) /\ ~InsertNode(r)
      PROVE  UNCHANGED <<nodeHost, nodeCN>>
  BY <1>2, NodeMoves, CalmSteps, CalmDelete DEF Writes, nodeVars
<1>3. CASE \E r \in Calls : UpdateNode(r) \/ InsertNode(r)
  BY <1>3, WriteLists
<1>4. ASSUME ~\E r \in Calls : UpdateNode(r) \/ InsertNode(r)
      PROVE  /\ UNCHANGED <<nodeHost, nodeCN>>
             /\ \A r \in Calls : pc'[r] = "ok" <=> pc[r] = "ok"
  BY <1>1, <1>2, <1>4
<1>5. QED
  BY <1>3, <1>4

----------------------------------------------------------------------------
(* That registration is one step of Registry.                              *)

\* Tokens in use were issued, and a handler past line 592 has spent its own
\* as long as no statement fails.
TokenInv ==
    /\ used \cup expired \subseteq issued
    /\ \A a \in Agents : env[a] \in issued \cup {None}
    /\ \A r \in Calls : pc[r] # "free" => tok[r] \in issued
    /\ Calm => \A r \in Calls : pc[r] \in {"find", "write"} => tok[r] \in used

LEMMA TokenInit == Init => TokenInv
BY DEF Init, TokenInv

LEMMA TokenHandler ==
    ASSUME KnownInv, TokenInv, NEW r \in Calls, HandlerNext(r), [Next]_vars
    PROVE  TokenInv'
<1>1. TypeInv /\ UNCHANGED <<env, issued, expired>>
  BY HandlerKeepsAgents
     DEF KnownInv, agentVars, tokenVars, HandlerNext, HandlerStep, HandlerError, Admit, Refuse,
         Mark, SignAndFind, UpdateNode, InsertNode, LookupError, MarkError, SignError, FindError,
         WriteError, Cancel
<1>2. Calm' => Calm
  BY <1>1, CalmBefore
<1>3. CASE Admit(r) \/ SignAndFind(r)
  BY <1>1, <1>2, <1>3 DEF TokenInv, Admit, SignAndFind, tokenVars, TypeInv, TypeOK
<1>4. CASE Mark(r)
  BY <1>1, <1>2, <1>4 DEF TokenInv, Mark, TypeInv, TypeOK
<1>5. CASE Refuse(r) \/ LookupError(r) \/ SignError(r) \/ WriteError(r) \/ Cancel(r)
           \/ UpdateNode(r) \/ InsertNode(r)
  <2>1. /\ InHandler(r) /\ (Reply(r, "ok") \/ Reply(r, "refused") \/ Reply(r, "failed"))
        /\ used' = used
    BY <1>5 DEF Refuse, LookupError, SignError, WriteError, Cancel, UpdateNode, InsertNode,
                InHandler, tokenVars
  <2>2. /\ pc'[r] \in {"ok", "refused", "failed", "free"} /\ pc[r] # "free"
        /\ pc'[r] # "free" => tok'[r] = tok[r]
        /\ \A s \in Calls : s # r => pc'[s] = pc[s] /\ tok'[s] = tok[s]
    BY <1>1, <2>1, ReplyMoves DEF InHandler
  <2>3. QED
    BY <1>1, <1>2, <2>1, <2>2 DEF TokenInv
<1>6. CASE MarkError(r) \/ FindError(r)
  <2>1. ~Calm'
    BY <1>1, <1>6, CalmBefore, CalmSteps
  <2>2. QED
    BY <1>1, <1>6, <2>1 DEF TokenInv, MarkError, FindError, tokenVars, TypeInv, TypeOK
<1>7. QED
  BY <1>3, <1>4, <1>5, <1>6 DEF HandlerNext, HandlerStep, HandlerError

LEMMA TokenStep == KnownInv /\ TokenInv /\ [Next]_vars => TokenInv'
<1> SUFFICES ASSUME KnownInv, TokenInv, [Next]_vars
             PROVE  TokenInv'
  OBVIOUS
<1>1. TypeInv /\ (Calm' => Calm)
  BY CalmBefore DEF KnownInv
<1>2. CASE AdminStep
  BY <1>1, <1>2 DEF AdminStep, IssueToken, ExpireToken, Install, DeleteNode, TokenInv, callVars,
                    agentVars, tokenVars, TypeInv, TypeOK
<1>3. ASSUME NEW r \in Calls, HandlerStep(r) \/ HandlerError(r)
      PROVE  TokenInv'
  BY <1>3, TokenHandler DEF HandlerNext
<1>4. ASSUME NEW a \in Agents, AgentStep(a) \/ AgentDies(a)
      PROVE  TokenInv'
  <2>1. UNCHANGED <<tokenVars, env>>
    BY <1>4 DEF AgentStep, StartEnrolled, Register, OnReply, OnError, OpenFile, FillFile,
                LoadTLS, AgentDies, ProcessExits
  <2>2. CASE Register(a)
    <3>1. env[a] \in issued
      BY <1>1, <2>2, ConstantsAssumption DEF Register, TokenInv, TypeInv, EnvShape
    <3>2. QED
      BY <1>1, <2>1, <2>2, <3>1 DEF Register, TokenInv, tokenVars, TypeInv, TypeOK
  <2>3. CASE OnError(a)
    BY <1>1, <2>1, <2>3 DEF OnError, TokenInv, tokenVars, TypeInv, TypeOK
  <2>4. CASE UNCHANGED callVars
    BY <1>1, <2>1, <2>4 DEF callVars, TokenInv, tokenVars
  <2>5. QED
    BY <1>4, <2>2, <2>3, <2>4 DEF AgentStep, StartEnrolled, OnReply, OpenFile, FillFile,
                                  LoadTLS, AgentDies
<1>5. CASE PanelStops \/ UNCHANGED vars
  BY <1>1, <1>5 DEF PanelStops, vars, InHandler, TokenInv, tokenVars, agentVars, callVars,
                    TypeInv, TypeOK
<1>6. QED
  BY <1>2, <1>3, <1>4, <1>5 DEF Next

\* What a step of Registry may do to one token, the list being untouched.
LEMMA StatusMoves ==
    ASSUME NEW t \in Tokens, UNCHANGED <<nodeHost, nodeCN>>,
           \A r \in Calls : pc'[r] = "ok" <=> pc[r] = "ok",
           \A u \in Tokens : u # t => StatusOf(u)' = StatusOf(u),
           \/ StatusOf(t)' = StatusOf(t)
           \/ StatusOf(t) = "absent" /\ StatusOf(t)' = "live"
           \/ StatusOf(t) = "live" /\ StatusOf(t)' \in {"spent", "expired"}
    PROVE  [R!Next]_(R!vars)
<1>1. listingBar' = listingBar
  BY DEF listingBar, ListingOf, Rows
<1>2. grantedBar' = grantedBar
  BY DEF grantedBar
<1>3. statusBar' = [statusBar EXCEPT ![t] = StatusOf(t)']
  BY DEF statusBar
<1>4. statusBar[t] = StatusOf(t)
  BY DEF statusBar
<1>5. CASE StatusOf(t)' = StatusOf(t)
  <2>1. statusBar' = statusBar
    BY <1>5 DEF statusBar
  <2>2. QED
    BY <1>1, <1>2, <2>1 DEF R!vars
<1>6. CASE StatusOf(t) = "absent" /\ StatusOf(t)' = "live"
  <2>1. R!Issue(t)
    BY <1>1, <1>2, <1>3, <1>4, <1>6 DEF R!Issue, R!Become
  <2>2. QED
    BY <2>1 DEF R!Next
<1>7. CASE StatusOf(t) = "live" /\ StatusOf(t)' = "spent"
  <2>1. R!Burn(t)
    BY <1>1, <1>2, <1>3, <1>4, <1>7 DEF R!Burn, R!Become
  <2>2. QED
    BY <2>1 DEF R!Next
<1>8. CASE StatusOf(t) = "live" /\ StatusOf(t)' = "expired"
  <2>1. R!Expire(t)
    BY <1>1, <1>2, <1>3, <1>4, <1>8 DEF R!Expire, R!Become
  <2>2. QED
    BY <2>1 DEF R!Next
<1>9. QED
  BY <1>5, <1>6, <1>7, <1>8

\* The write of the row is the step of Registry.
LEMMA ListsRegisters ==
    ASSUME SerialPanel, Calm, KnownInv, TokenInv, NEW r \in Calls, Lists(r)
    PROVE  R!Next
<1>1. tok[r] \in Tokens /\ Host(r) \in Hosts
  BY ConstantsAssumption DEF Lists, Host, KnownInv, TypeInv, CallShape
<1>2. PICK t \in Tokens, h \in Hosts : t = tok[r] /\ h = Host(r)
  BY <1>1
<1>3. /\ t \in issued /\ t \in used
      /\ pc[r] = "write" /\ pc' = [pc EXCEPT ![r] = "ok"]
      /\ UNCHANGED <<issued, used, expired, tok, from>>
      /\ pc \in [Calls -> {"free", "lookup", "mark", "find", "write", "ok", "refused", "failed"}]
  BY <1>2 DEF Lists, TokenInv, KnownInv, TypeInv, TypeOK, tokenVars
<1>4. \A s \in Calls : s # r => ~InHandler(s)
  BY <1>3, Serial DEF InHandler
<1>5. /\ BeingSpent(t)
      /\ \A u \in Tokens : ~BeingSpent(u)' /\ (u # t => ~BeingSpent(u))
  BY <1>2, <1>3, <1>4 DEF BeingSpent, InHandler
<1>6. StatusOf(t) = "live" /\ StatusOf(t)' = "spent"
  BY <1>3, <1>5 DEF StatusOf
<1>7. \A u \in Tokens : u # t => StatusOf(u)' = StatusOf(u)
  BY <1>3, <1>5 DEF StatusOf
<1>8. statusBar[t] = "live" /\ statusBar' = [statusBar EXCEPT ![t] = "spent"]
  BY <1>6, <1>7 DEF statusBar
<1>9. Host(r)' = h
  BY <1>2, <1>3 DEF Host
<1>10. ListingOf(h)' = r
  <2>1. PICK x \in Calls : Rows(Host(r))' = {x} /\ nodeCN'[x] = r
    BY DEF Lists
  <2>2. Rows(h)' = {x}
    BY <1>9, <2>1 DEF Rows
  <2>3. QED
    BY <2>1, <2>2 DEF ListingOf
<1>11. ASSUME NEW g \in Hosts, g # h
      PROVE  ListingOf(g)' = ListingOf(g)
  <2>1. Rows(g)' = Rows(g) /\ \A i \in Rows(g) : nodeCN'[i] = nodeCN[i]
    BY <1>2, <1>11 DEF Lists
  <2>2. QED
    BY <2>1 DEF ListingOf
<1>12. listingBar' = [listingBar EXCEPT ![h] = r]
  BY <1>10, <1>11 DEF listingBar
<1>13. /\ r \notin grantedBar
       /\ grantedBar' = grantedBar \cup {r}
  BY <1>3 DEF grantedBar
<1>14. R!Register(t, h, r)
  BY <1>8, <1>12, <1>13 DEF R!Register, R!Become
<1>15. QED
  BY <1>14 DEF R!Next

\* A handler that is over without a row has spent its token, or leaves it as
\* it was; the tokens of the others are as before.
LEMMA HandlerStatus ==
    ASSUME SerialPanel, Calm, KnownInv, TokenInv, NEW r \in Calls, InHandler(r),
           NEW t \in Tokens, t = tok[r],
           UNCHANGED <<issued, expired>>,
           used' \in {used, used \cup {t}},
           \A s \in Calls : s # r => pc'[s] = pc[s] /\ tok'[s] = tok[s],
           InHandler(r)' => tok'[r] = t,
           \/ pc[r] = "lookup" /\ ~InHandler(r)' /\ used' = used
           \/ pc[r] = "lookup" /\ pc'[r] = "mark" /\ t \notin used \cup expired /\ used' = used
           \/ pc[r] # "lookup" /\ (InHandler(r)' => pc'[r] # "lookup")
    PROVE  /\ \A u \in Tokens : u # t => StatusOf(u)' = StatusOf(u)
           /\ \/ StatusOf(t)' = StatusOf(t)
              \/ StatusOf(t) = "live" /\ StatusOf(t)' \in {"spent", "expired"}
<1>1. t \in issued
  BY DEF InHandler, TokenInv
<1>2. \A s \in Calls : s # r => ~InHandler(s) /\ ~InHandler(s)'
  BY Serial DEF InHandler
<1>3. \A u \in Tokens : /\ BeingSpent(u) <=> u = t /\ pc[r] # "lookup"
                        /\ BeingSpent(u)' <=> u = t /\ InHandler(r)' /\ pc'[r] # "lookup"
  BY <1>2 DEF BeingSpent, InHandler
<1>4. ASSUME NEW u \in Tokens, u # t
      PROVE  StatusOf(u)' = StatusOf(u)
  BY <1>3, <1>4 DEF StatusOf
<1>5. \/ StatusOf(t)' = StatusOf(t)
      \/ StatusOf(t) = "live" /\ StatusOf(t)' \in {"spent", "expired"}
  BY <1>1, <1>3 DEF StatusOf
<1>6. QED
  BY <1>1, <1>4, <1>5

\* A step that Registry does not see.
LEMMA StatusSame ==
    ASSUME UNCHANGED <<nodeHost, nodeCN, tokenVars>>,
           \A r \in Calls : pc'[r] = "ok" <=> pc[r] = "ok",
           \A u \in Tokens : BeingSpent(u)' <=> BeingSpent(u)
    PROVE  UNCHANGED R!vars
<1>1. listingBar' = listingBar
  BY DEF listingBar, ListingOf, Rows
<1>2. grantedBar' = grantedBar
  BY DEF grantedBar
<1>3. \A u \in Tokens : StatusOf(u)' = StatusOf(u)
  BY DEF StatusOf, tokenVars
<1>4. statusBar' = statusBar
  BY <1>3 DEF statusBar
<1>5. QED
  BY <1>1, <1>2, <1>4 DEF R!vars

\* A handler's step that is not the write of the row.
LEMMA RefineHandler ==
    ASSUME SerialPanel, Calm, Calm', KnownInv, TokenInv, NEW r \in Calls, HandlerNext(r),
           ~UpdateNode(r), ~InsertNode(r), UNCHANGED <<nodeHost, nodeCN>>,
           \A s \in Calls : pc'[s] = "ok" <=> pc[s] = "ok"
    PROVE  [R!Next]_(R!vars)
<1>1. TypeInv /\ UNCHANGED <<issued, expired>> /\ InHandler(r)
  BY DEF KnownInv, tokenVars, HandlerNext, HandlerStep, HandlerError, Admit, Refuse, Mark,
         SignAndFind, LookupError, MarkError, SignError, FindError, WriteError, Cancel, InHandler
<1>2. PICK t \in Tokens : t = tok[r]
  BY <1>1 DEF TypeInv, CallShape, InHandler
<1>3. ~MarkError(r) /\ ~FindError(r) /\ ~WriteError(r) /\ ~LookupError(r)
  BY CalmSteps
<1>4. /\ used' \in {used, used \cup {t}}
      /\ \A s \in Calls : s # r => pc'[s] = pc[s] /\ tok'[s] = tok[s]
      /\ InHandler(r)' => tok'[r] = t
      /\ \/ pc[r] = "lookup" /\ ~InHandler(r)' /\ used' = used
         \/ pc[r] = "lookup" /\ pc'[r] = "mark" /\ t \notin used \cup expired /\ used' = used
         \/ pc[r] # "lookup" /\ (InHandler(r)' => pc'[r] # "lookup")
  <2>1. CASE Admit(r)
    BY <1>1, <1>2, <2>1 DEF Admit, tokenVars, TypeInv, TypeOK
  <2>2. CASE Mark(r)
    BY <1>1, <1>2, <2>2 DEF Mark, TypeInv, TypeOK
  <2>3. CASE SignAndFind(r)
    BY <1>1, <1>2, <2>3 DEF SignAndFind, tokenVars, TypeInv, TypeOK
  <2>4. CASE Refuse(r) \/ SignError(r) \/ Cancel(r)
    <3>1. (Reply(r, "refused") \/ Reply(r, "failed")) /\ used' = used
      BY <2>4 DEF Refuse, SignError, Cancel, tokenVars
    <3>2. /\ pc'[r] \in {"refused", "failed", "free"}
          /\ \A s \in Calls : s # r => pc'[s] = pc[s] /\ tok'[s] = tok[s]
      BY <1>1, <3>1, ReplyMoves
    <3>3. QED
      BY <3>1, <3>2 DEF InHandler
  <2>5. QED
    BY <1>3, <2>1, <2>2, <2>3, <2>4 DEF HandlerNext, HandlerStep, HandlerError
<1>5. /\ \A u \in Tokens : u # t => StatusOf(u)' = StatusOf(u)
      /\ \/ StatusOf(t)' = StatusOf(t)
         \/ StatusOf(t) = "live" /\ StatusOf(t)' \in {"spent", "expired"}
  BY <1>1, <1>2, <1>4, HandlerStatus
<1>6. QED
  BY <1>5, StatusMoves

LEMMA RefineAdmin ==
    ASSUME Calm, Calm', KnownInv, TokenInv, AdminStep
    PROVE  [R!Next]_(R!vars)
<1>1. UNCHANGED <<nodeHost, nodeCN, pc, tok>>
  BY CalmDelete DEF AdminStep, IssueToken, ExpireToken, Install, nodeVars, callVars
<1>2. \A u \in Tokens : BeingSpent(u)' <=> BeingSpent(u)
  BY <1>1 DEF BeingSpent
<1>3. ASSUME NEW t \in Tokens, IssueToken(t)
      PROVE  [R!Next]_(R!vars)
  <2>1. ~BeingSpent(t)
    BY <1>3 DEF BeingSpent, IssueToken, TokenInv
  <2>2. StatusOf(t) = "absent" /\ StatusOf(t)' = "live"
    BY <1>2, <1>3, <2>1 DEF StatusOf, IssueToken, TokenInv
  <2>3. \A u \in Tokens : u # t => StatusOf(u)' = StatusOf(u)
    BY <1>2, <1>3 DEF StatusOf, IssueToken
  <2>4. QED
    BY <1>1, <2>2, <2>3, StatusMoves
<1>4. ASSUME NEW t \in Tokens, ExpireToken(t)
      PROVE  [R!Next]_(R!vars)
  <2>1. StatusOf(t)' = StatusOf(t) \/ (StatusOf(t) = "live" /\ StatusOf(t)' = "expired")
    BY <1>2, <1>4 DEF StatusOf, ExpireToken
  <2>2. \A u \in Tokens : u # t => StatusOf(u)' = StatusOf(u)
    BY <1>2, <1>4 DEF StatusOf, ExpireToken
  <2>3. QED
    BY <1>1, <2>1, <2>2, StatusMoves
<1>5. CASE UNCHANGED tokenVars
  BY <1>1, <1>2, <1>5, StatusSame
<1>6. QED
  BY <1>3, <1>4, <1>5 DEF AdminStep, Install, DeleteNode

LEMMA RefineStep ==
    ASSUME SerialPanel
    PROVE  KnownInv /\ TokenInv /\ [Next]_vars => (Calm' => [R!Next]_(R!vars))
<1> SUFFICES ASSUME KnownInv, TokenInv, [Next]_vars, Calm'
             PROVE  [R!Next]_(R!vars)
  OBVIOUS
<1>0. Calm
  BY CalmBefore DEF KnownInv
<1>1. CASE \E r \in Calls : Lists(r)
  BY <1>0, <1>1, ListsRegisters
<1>2. CASE ~\E r \in Calls : Lists(r)
  <2>1. /\ UNCHANGED <<nodeHost, nodeCN>>
        /\ \A r \in Calls : pc'[r] = "ok" <=> pc[r] = "ok"
    BY <1>0, <1>2, ListingMoves
  <2>2. TypeInv
    BY DEF KnownInv
  <2>3. CASE AdminStep
    BY <1>0, <2>3, RefineAdmin
  <2>4. ASSUME NEW r \in Calls, HandlerStep(r) \/ HandlerError(r)
        PROVE  [R!Next]_(R!vars)
    <3>1. ~UpdateNode(r) /\ ~InsertNode(r)
      BY <1>0, <1>2, WriteLists
    <3>2. QED
      BY <1>0, <2>1, <2>4, <3>1, RefineHandler DEF HandlerNext
  <2>5. ASSUME NEW a \in Agents, AgentStep(a) \/ AgentDies(a)
        PROVE  [R!Next]_(R!vars)
    <3>1. UNCHANGED tokenVars
      BY <2>5 DEF AgentStep, StartEnrolled, Register, OnReply, OnError, OpenFile, FillFile,
                  LoadTLS, AgentDies
    <3>2. \A r \in Calls : \/ pc'[r] = pc[r] /\ tok'[r] = tok[r]
                           \/ /\ pc[r] \notin {"mark", "find", "write"}
                              /\ pc'[r] \notin {"mark", "find", "write"}
      BY <2>2, <2>5 DEF AgentStep, StartEnrolled, Register, OnReply, OnError, OpenFile,
                        FillFile, LoadTLS, AgentDies, callVars, TypeInv, TypeOK
    <3>3. \A u \in Tokens : BeingSpent(u)' <=> BeingSpent(u)
      BY <3>2 DEF BeingSpent
    <3>4. QED
      BY <2>1, <3>1, <3>3, StatusSame
  <2>6. CASE PanelStops
    <3>1. PICK r \in Calls : InHandler(r)
      BY <2>6 DEF PanelStops, Active
    <3>2. PICK t \in Tokens : t = tok[r]
      BY <2>2, <3>1 DEF TypeInv, CallShape, InHandler
    <3>3. \A s \in Calls : s # r => ~InHandler(s)
      BY <1>0, <3>1, Serial
    <3>4. /\ UNCHANGED <<issued, expired, used, tok>>
          /\ pc'[r] = "failed" /\ \A s \in Calls : s # r => pc'[s] = pc[s]
      BY <2>6, <3>1, <3>3 DEF PanelStops, tokenVars
    <3>5. ~InHandler(r)'
      BY <3>4 DEF InHandler
    <3>6. /\ \A u \in Tokens : u # t => StatusOf(u)' = StatusOf(u)
          /\ \/ StatusOf(t)' = StatusOf(t)
             \/ StatusOf(t) = "live" /\ StatusOf(t)' \in {"spent", "expired"}
      BY <1>0, <3>1, <3>2, <3>4, <3>5, HandlerStatus
    <3>7. QED
      BY <2>1, <3>6, StatusMoves
  <2>7. CASE UNCHANGED vars
    <3>1. UNCHANGED <<tokenVars, pc, tok>>
      BY <2>7 DEF vars, callVars
    <3>2. \A u \in Tokens : BeingSpent(u)' <=> BeingSpent(u)
      BY <3>1 DEF BeingSpent
    <3>3. QED
      BY <2>1, <3>1, <3>2, StatusSame
  <2>8. QED
    BY <2>3, <2>4, <2>5, <2>6, <2>7 DEF Next
<1>3. QED
  BY <1>1, <1>2

LEMMA RefineInit == Init => R!Init
<1> SUFFICES ASSUME Init
             PROVE  R!Init
  OBVIOUS
<1>1. \A t \in Tokens : StatusOf(t) = "absent"
  BY DEF Init, StatusOf
<1>2. \A h \in Hosts : ListingOf(h) = None
  <2>1. \A h \in Hosts : Rows(h) = {}
    BY ConstantsAssumption DEF Init, Rows
  <2>2. QED
    BY <2>1 DEF ListingOf
<1>3. grantedBar = {}
  BY DEF Init, grantedBar
<1>4. QED
  BY <1>1, <1>2, <1>3 DEF R!Init, statusBar, listingBar

\* With handlers one at a time, and as long as no statement has failed and no
\* row was deleted, the four statements of agentRegister are one step of
\* Registry, wherever agents and panel crash (httpapi.go:587-622).
THEOREM RegistrationAtomic ==
    ASSUME SerialPanel
    PROVE  Spec => RegistrationIsAtomic
<1>1. Spec => []TokenInv
  BY TokenInit, TokenStep, KnownInvariant, PTL DEF Spec
<1>2. KnownInv /\ TokenInv /\ [Next]_vars => [Calm' => [R!Next]_(R!vars)]_vars
  BY RefineStep
<1>3. QED
  BY <1>1, <1>2, RefineInit, KnownInvariant, PTL DEF Spec, RegistrationIsAtomic

----------------------------------------------------------------------------
(* What Registry promises, and with it the panel.                          *)

LEMMA PaidInit == R!Init => R!GrantsArePaid
<1> SUFFICES ASSUME R!Init
             PROVE  R!GrantsArePaid
  OBVIOUS
<1>1. grantedBar = {}
  BY DEF R!Init
<1>2. [r \in grantedBar |-> None] \in [grantedBar -> R!Spent]
  BY <1>1
<1>3. QED
  BY <1>1, <1>2 DEF R!GrantsArePaid

\* A token that becomes spent was not spent before.
LEMMA SpentMoves ==
    ASSUME NEW t \in Tokens, NEW old \in {"absent", "live"}, NEW new, R!Become(t, old, new)
    PROVE  R!Spent \subseteq R!Spent' /\ (new = "spent" => t \in R!Spent' \ R!Spent)
<1>1. statusBar[t] = old /\ statusBar' = [statusBar EXCEPT ![t] = new]
  BY DEF R!Become
<1>2. \A u \in Tokens : statusBar'[u] = IF u = t THEN new ELSE statusBar[u]
  BY <1>1 DEF statusBar
<1>3. QED
  BY <1>1, <1>2 DEF R!Spent

LEMMA PaidStep == R!GrantsArePaid /\ [R!Next]_(R!vars) => R!GrantsArePaid'
<1> SUFFICES ASSUME R!GrantsArePaid, [R!Next]_(R!vars)
             PROVE  R!GrantsArePaid'
  OBVIOUS
<1>1. PICK price \in [grantedBar -> R!Spent] :
         \A r, s \in grantedBar : price[r] = price[s] => r = s
  BY DEF R!GrantsArePaid
<1>2. ASSUME R!Spent \subseteq R!Spent', grantedBar' = grantedBar
      PROVE  R!GrantsArePaid'
  <2>1. price \in [grantedBar' -> R!Spent']
    BY <1>2
  <2>2. QED
    BY <1>1, <1>2, <2>1 DEF R!GrantsArePaid
<1>3. ASSUME NEW t \in Tokens, NEW h \in Hosts, NEW r \in Calls, R!Register(t, h, r)
      PROVE  R!GrantsArePaid'
  <2>1. grantedBar' = grantedBar \cup {r} /\ r \notin grantedBar
    BY <1>3 DEF R!Register
  <2>2. R!Spent \subseteq R!Spent' /\ t \in R!Spent' \ R!Spent
    BY <1>3, SpentMoves DEF R!Register
  <2> DEFINE paid == [s \in grantedBar' |-> IF s = r THEN t ELSE price[s]]
  <2>3. paid \in [grantedBar' -> R!Spent']
    BY <2>1, <2>2
  <2>4. \A s, u \in grantedBar' : paid[s] = paid[u] => s = u
    BY <1>1, <2>1, <2>2
  <2>5. QED
    BY <2>3, <2>4 DEF R!GrantsArePaid
<1>4. ASSUME NEW t \in Tokens, R!Issue(t) \/ R!Expire(t) \/ R!Burn(t)
      PROVE  R!GrantsArePaid'
  BY <1>2, <1>4, SpentMoves DEF R!Issue, R!Expire, R!Burn
<1>5. CASE UNCHANGED R!vars
  BY <1>2, <1>5 DEF R!vars, R!Spent
<1>6. QED
  BY <1>3, <1>4, <1>5 DEF R!Next

\* With handlers one at a time, and as long as no statement has failed and no
\* row was deleted, every certificate the panel grants costs a token of its
\* own (httpapi.go:587-592).
THEOREM CertificatesArePaid ==
    ASSUME SerialPanel
    PROVE  Spec => [](Calm => R!GrantsArePaid)
<1>1. Init => R!GrantsArePaid
  BY RefineInit, PaidInit
<1>2. ASSUME KnownInv, TokenInv, Calm => R!GrantsArePaid, [Next]_vars, Calm'
      PROVE  R!GrantsArePaid'
  <2>1. Calm
    BY <1>2, CalmBefore DEF KnownInv
  <2>2. [R!Next]_(R!vars)
    BY <1>2, RefineStep
  <2>3. QED
    BY <1>2, <2>1, <2>2, PaidStep
<1>3. Spec => []TokenInv
  BY TokenInit, TokenStep, KnownInvariant, PTL DEF Spec
<1>4. QED
  BY <1>1, <1>2, <1>3, KnownInvariant, PTL DEF Spec

============================================================================
