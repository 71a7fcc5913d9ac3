------------------------- MODULE EnrollmentProofs -------------------------
(***************************************************************************)
(* Theorems about Enrollment, for every value of its constants.            *)
(*                                                                         *)
(* TypeInv is inductive by itself.  FilesInv is inductive given TypeInv:   *)
(* it follows the order in which ensureEnrolled writes the three files.    *)
(***************************************************************************)
EXTENDS Enrollment, FiniteSetTheorems, TLAPS

\* A call in progress carries a token and an agent; an installed agent has
\* a token.  TypeOK is not inductive without it: the host a handler writes
\* to nodes is the host of the agent that made the call.
CallShape ==
    \A r \in Calls : pc[r] # "free" => tok[r] \in Tokens /\ from[r] \in Agents

EnvShape ==
    \A a \in Agents : phase[a] # "absent" => env[a] \in Tokens

TypeInv == TypeOK /\ CallShape /\ EnvShape

\* The actions of each actor, as one step.
HandlerNext(r) == HandlerStep(r) \/ HandlerError(r)
AgentNext(a) == AgentStep(a) \/ AgentDies(a)

----------------------------------------------------------------------------
(* Type correctness.                                                       *)

\* A reply keeps the handler's variables in their types, and leaves tokens
\* and agents of calls alone or clears them with the call.
LEMMA ReplyTyped ==
    ASSUME TypeInv, NEW r \in Calls, InHandler(r),
           NEW result \in {"ok", "refused", "failed"}, Reply(r, result)
    PROVE  /\ pc' \in [Calls -> {"free", "lookup", "mark", "find", "write",
                                 "ok", "refused", "failed"}]
           /\ tok' \in [Calls -> Tokens \cup {None}]
           /\ from' \in [Calls -> Agents \cup {None}]
           /\ found' \in [Calls -> Calls \cup {None}]
           /\ CallShape'
<1>1. CASE result = "refused" /\ Abandoned(r)
  BY <1>1 DEF Reply, TypeInv, TypeOK, CallShape, InHandler
<1>2. CASE ~(result = "refused" /\ Abandoned(r))
  BY <1>2 DEF Reply, TypeInv, TypeOK, CallShape, InHandler
<1>3. QED
  BY <1>1, <1>2

LEMMA TypeInit == Init => TypeInv
BY ConstantsAssumption DEF Init, TypeInv, TypeOK, CallShape, EnvShape, Files

LEMMA TypeAdmin ==
    ASSUME TypeInv, AdminStep
    PROVE  TypeInv'
<1>1. CASE \E t \in Tokens : IssueToken(t) \/ ExpireToken(t)
  BY <1>1 DEF TypeInv, TypeOK, CallShape, EnvShape, IssueToken, ExpireToken,
              tokenVars, nodeVars, callVars, agentVars, NoFault
<1>2. ASSUME NEW a \in Agents, NEW t \in Tokens, Install(a, t)
      PROVE  TypeInv'
  BY <1>2 DEF TypeInv, TypeOK, CallShape, EnvShape, Install, Files,
              tokenVars, nodeVars, callVars, agentVars, NoFault
<1>3. ASSUME NEW i \in Calls, DeleteNode(i)
      PROVE  TypeInv'
  BY <1>3 DEF TypeInv, TypeOK, CallShape, EnvShape, DeleteNode,
              tokenVars, nodeVars, callVars, agentVars, NoFault
<1>4. QED
  BY <1>1, <1>2, <1>3 DEF AdminStep

LEMMA TypeHandler ==
    ASSUME TypeInv, NEW r \in Calls, HandlerNext(r)
    PROVE  TypeInv'
<1> USE DEF tokenVars, nodeVars, callVars, agentVars, NoFault
<1>1. CASE Admit(r)
  BY <1>1 DEF TypeInv, TypeOK, CallShape, EnvShape, Admit
<1>2. CASE Refuse(r)
  BY <1>2, ReplyTyped DEF TypeInv, TypeOK, EnvShape, Refuse, InHandler
<1>3. CASE LookupError(r)
  BY <1>3, ReplyTyped, ConstantsAssumption
     DEF TypeInv, TypeOK, EnvShape, LookupError, InHandler, DbError
<1>4. CASE Mark(r)
  BY <1>4 DEF TypeInv, TypeOK, CallShape, EnvShape, Mark
<1>5. CASE MarkError(r)
  BY <1>5, ConstantsAssumption
     DEF TypeInv, TypeOK, CallShape, EnvShape, MarkError, DbError
<1>6. CASE SignAndFind(r)
  <2>1. found' \in [Calls -> Calls \cup {None}]
    BY <1>6 DEF SignAndFind, TypeInv, TypeOK, Rows
  <2>2. QED
    BY <1>6, <2>1 DEF TypeInv, TypeOK, CallShape, EnvShape, SignAndFind
<1>7. CASE SignError(r)
  BY <1>7, ReplyTyped, ConstantsAssumption
     DEF TypeInv, TypeOK, EnvShape, SignError, InHandler, Fault
<1>8. CASE FindError(r)
  BY <1>8, ConstantsAssumption
     DEF TypeInv, TypeOK, CallShape, EnvShape, FindError, DbError
<1>9. ASSUME pc[r] = "write"
      PROVE  Host(r) \in Hosts
  BY <1>9, ConstantsAssumption DEF Host, TypeInv, CallShape
<1>10. CASE UpdateNode(r)
  <2>1. nodeCN' \in [Calls -> Calls \cup {None}]
    BY <1>10 DEF UpdateNode, UpdatedCN, TypeInv, TypeOK
  <2>2. QED
    BY <1>10, <2>1, ReplyTyped DEF TypeInv, TypeOK, EnvShape, UpdateNode, InHandler, NoteLate
<1>11. CASE InsertNode(r)
  <2>1. /\ nodeHost' \in [Calls -> Hosts \cup {None}]
        /\ nodeCN' \in [Calls -> Calls \cup {None}]
    BY <1>11, <1>9 DEF InsertNode, InsertedRow, TypeInv, TypeOK
  <2>2. QED
    BY <1>11, <2>1, ReplyTyped DEF TypeInv, TypeOK, EnvShape, InsertNode, InHandler, NoteLate
<1>12. CASE WriteError(r)
  <2>1. /\ nodeHost' \in [Calls -> Hosts \cup {None}]
        /\ nodeCN' \in [Calls -> Calls \cup {None}]
    BY <1>12, <1>9 DEF WriteError, InsertedRow, UpdatedCN, TypeInv, TypeOK
  <2>2. QED
    BY <1>12, <2>1, ReplyTyped, ConstantsAssumption
       DEF TypeInv, TypeOK, EnvShape, WriteError, InHandler, DbError, NoteLate
<1>13. CASE Cancel(r)
  BY <1>13, ReplyTyped DEF TypeInv, TypeOK, EnvShape, Cancel, InHandler
<1>14. QED
  BY <1>1, <1>2, <1>3, <1>4, <1>5, <1>6, <1>7, <1>8, <1>10, <1>11, <1>12, <1>13
     DEF HandlerNext, HandlerStep, HandlerError

LEMMA TypeAgent ==
    ASSUME TypeInv, NEW a \in Agents, AgentNext(a)
    PROVE  TypeInv'
<1> USE DEF tokenVars, nodeVars, callVars, agentVars, NoFault
<1>1. CASE StartEnrolled(a)
  BY <1>1 DEF TypeInv, TypeOK, CallShape, EnvShape, StartEnrolled
<1>2. CASE Register(a)
  BY <1>2 DEF TypeInv, TypeOK, CallShape, EnvShape, Register
<1>3. CASE OnReply(a)
  BY <1>3 DEF TypeInv, TypeOK, CallShape, EnvShape, OnReply, Files
<1>4. CASE OnError(a)
  BY <1>4 DEF TypeInv, TypeOK, CallShape, EnvShape, OnError, ProcessExits
<1>5. CASE OpenFile(a)
  BY <1>5 DEF TypeInv, TypeOK, CallShape, EnvShape, OpenFile
<1>6. CASE FillFile(a)
  <2>1. AfterFile[phase[a]] \in {"loading"} \cup Files
    BY <1>6 DEF FillFile, AfterFile, Files
  <2>2. AfterFile[phase[a]] # "absent"
    BY <2>1 DEF Files
  <2>3. files' \in [Agents -> [Files -> Calls \cup {None, Torn}]]
    BY <1>6 DEF FillFile, TypeInv, TypeOK
  <2>4. QED
    BY <1>6, <2>1, <2>2, <2>3 DEF TypeInv, TypeOK, CallShape, EnvShape, FillFile, Files
<1>7. CASE LoadTLS(a)
  BY <1>7 DEF TypeInv, TypeOK, CallShape, EnvShape, LoadTLS
<1>8. CASE AgentDies(a)
  BY <1>8, ConstantsAssumption
     DEF TypeInv, TypeOK, CallShape, EnvShape, AgentDies, ProcessExits, Fault
<1>9. QED
  BY <1>1, <1>2, <1>3, <1>4, <1>5, <1>6, <1>7, <1>8 DEF AgentNext, AgentStep

LEMMA TypePanelStops ==
    ASSUME TypeInv, PanelStops
    PROVE  TypeInv'
BY ConstantsAssumption
   DEF TypeInv, TypeOK, CallShape, EnvShape, PanelStops, InHandler, Fault,
       tokenVars, nodeVars, callVars, agentVars

LEMMA TypeStep == TypeInv /\ [Next]_vars => TypeInv'
<1> SUFFICES ASSUME TypeInv, [Next]_vars
             PROVE  TypeInv'
  OBVIOUS
<1>1. CASE AdminStep
  BY <1>1, TypeAdmin
<1>2. ASSUME NEW r \in Calls, HandlerStep(r) \/ HandlerError(r)
      PROVE  TypeInv'
  BY <1>2, TypeHandler DEF HandlerNext
<1>3. ASSUME NEW a \in Agents, AgentStep(a) \/ AgentDies(a)
      PROVE  TypeInv'
  BY <1>3, TypeAgent DEF AgentNext
<1>4. CASE PanelStops
  BY <1>4, TypePanelStops
<1>5. CASE UNCHANGED vars
  BY <1>5 DEF TypeInv, TypeOK, CallShape, EnvShape, vars,
              tokenVars, nodeVars, callVars, agentVars
<1>6. QED
  BY <1>1, <1>2, <1>3, <1>4, <1>5 DEF Next

LEMMA TypeInvariant == Spec => []TypeInv
<1>1. QED
  BY TypeInit, TypeStep, PTL DEF Spec

\* Every variable keeps its type in every behaviour of panel and agents.
THEOREM TypeCorrect == Spec => []TypeOK
<1>1. TypeInv => TypeOK
  BY DEF TypeInv
<1>2. QED
  BY <1>1, TypeInvariant, PTL

----------------------------------------------------------------------------
(* The three files.  panel-ca.crt is written last, so its existence, whole *)
(* or torn, says that certificate and key are whole and belong together.   *)

FilesShape(a) ==
    /\ files[a]["ca"] # None => KeyPairLoads(a)
    /\ phase[a] \in {"waiting", "cert", "key"} => files[a]["ca"] = None
    /\ phase[a] = "ca" => files[a]["ca"] \in {None, Torn}
    /\ phase[a] \in {"loading", "serving"} => files[a]["ca"] # None
    /\ phase[a] \in {"waiting", "cert", "key", "ca"} => cur[a] \in Calls
    /\ phase[a] = "key" => files[a]["cert"] = cur[a]
    /\ phase[a] = "ca" => files[a]["cert"] = cur[a] /\ files[a]["key"] = cur[a]

FilesInv == \A a \in Agents : FilesShape(a)

LEMMA FilesInit == Init => FilesInv
BY DEF Init, FilesInv, FilesShape, Files

\* Only an agent's own steps change what FilesShape says of it.
LEMMA FilesFrame ==
    ASSUME FilesInv, UNCHANGED <<files, cur>>,
           \A a \in Agents : phase'[a] = phase[a] \/ phase'[a] = "down"
    PROVE  FilesInv'
BY DEF FilesInv, FilesShape, KeyPairLoads

LEMMA FilesAdmin ==
    ASSUME TypeInv, FilesInv, AdminStep
    PROVE  FilesInv'
<1>1. CASE \E t \in Tokens : IssueToken(t) \/ ExpireToken(t)
  BY <1>1, FilesFrame DEF IssueToken, ExpireToken, agentVars
<1>2. ASSUME NEW a \in Agents, NEW t \in Tokens, Install(a, t)
      PROVE  FilesInv'
  <2>1. \A b \in Agents : phase'[b] = phase[b] \/ phase'[b] = "down"
    BY <1>2 DEF Install, TypeInv, TypeOK
  <2>2. QED
    BY <1>2, <2>1, FilesFrame DEF Install
<1>3. ASSUME NEW i \in Calls, DeleteNode(i)
      PROVE  FilesInv'
  BY <1>3, FilesFrame DEF DeleteNode, agentVars
<1>4. QED
  BY <1>1, <1>2, <1>3 DEF AdminStep

\* No handler of the panel touches the agent.
LEMMA HandlerKeepsAgents ==
    ASSUME NEW r \in Calls, HandlerNext(r)
    PROVE  UNCHANGED agentVars
BY DEF HandlerNext, HandlerStep, HandlerError, Admit, Refuse, Mark, SignAndFind,
       UpdateNode, InsertNode, LookupError, MarkError, SignError, FindError,
       WriteError, Cancel

LEMMA FilesAgent ==
    ASSUME TypeInv, FilesInv, NEW a \in Agents, AgentNext(a)
    PROVE  FilesInv'
\* The other agents keep phase, cur and files.
<1>1. ASSUME NEW b \in Agents, b # a
      PROVE  phase'[b] = phase[b] /\ cur'[b] = cur[b] /\ files'[b] = files[b]
  BY <1>1 DEF AgentNext, AgentStep, StartEnrolled, Register, OnReply, OnError,
              OpenFile, FillFile, LoadTLS, AgentDies, ProcessExits, TypeInv, TypeOK
<1>2. ASSUME NEW b \in Agents, b # a
      PROVE  FilesShape(b)'
  BY <1>1, <1>2 DEF FilesInv, FilesShape, KeyPairLoads
<1>3. FilesShape(a)
  BY DEF FilesInv
<1>4. FilesShape(a)'
  <2>1. CASE StartEnrolled(a)
    BY <1>3, <2>1 DEF StartEnrolled, HasAllFiles, Files, FilesShape, KeyPairLoads,
                      TypeInv, TypeOK
  <2>2. CASE Register(a)
    <3>1. files[a]["ca"] = None
      BY <1>3, <2>2, ConstantsAssumption
         DEF Register, HasAllFiles, Files, FilesShape, KeyPairLoads
    <3>2. QED
      BY <3>1, <2>2 DEF Register, FilesShape, TypeInv, TypeOK
  <2>3. CASE OnReply(a)
    BY <1>3, <2>3 DEF OnReply, FilesShape, KeyPairLoads, TypeInv, TypeOK
  <2>4. CASE OnError(a)
    BY <1>3, <2>4 DEF OnError, ProcessExits, FilesShape, KeyPairLoads, TypeInv, TypeOK
  <2>5. CASE OpenFile(a)
    BY <1>3, <2>5, ConstantsAssumption
       DEF OpenFile, Files, FilesShape, KeyPairLoads, TypeInv, TypeOK
  <2>6. CASE FillFile(a)
    <3>1. CASE phase[a] = "cert"
      BY <1>3, <2>6, <3>1
         DEF FillFile, AfterFile, Files, FilesShape, KeyPairLoads, TypeInv, TypeOK
    <3>2. CASE phase[a] = "key"
      BY <1>3, <2>6, <3>2
         DEF FillFile, AfterFile, Files, FilesShape, KeyPairLoads, TypeInv, TypeOK
    <3>3. CASE phase[a] = "ca"
      BY <1>3, <2>6, <3>3, ConstantsAssumption
         DEF FillFile, AfterFile, Files, FilesShape, KeyPairLoads, TypeInv, TypeOK
    <3>4. QED
      BY <2>6, <3>1, <3>2, <3>3 DEF FillFile, Files
  <2>7. CASE LoadTLS(a)
    BY <1>3, <2>7 DEF LoadTLS, FilesShape, KeyPairLoads, TypeInv, TypeOK
  <2>8. CASE AgentDies(a)
    BY <1>3, <2>8 DEF AgentDies, ProcessExits, FilesShape, KeyPairLoads, TypeInv, TypeOK
  <2>9. QED
    BY <2>1, <2>2, <2>3, <2>4, <2>5, <2>6, <2>7, <2>8 DEF AgentNext, AgentStep
<1>5. QED
  BY <1>2, <1>4 DEF FilesInv

LEMMA FilesStep == TypeInv /\ FilesInv /\ [Next]_vars => FilesInv'
<1> SUFFICES ASSUME TypeInv, FilesInv, [Next]_vars
             PROVE  FilesInv'
  OBVIOUS
<1>1. CASE AdminStep
  BY <1>1, FilesAdmin
<1>2. ASSUME NEW r \in Calls, HandlerStep(r) \/ HandlerError(r)
      PROVE  FilesInv'
  <2>1. UNCHANGED agentVars
    BY <1>2, HandlerKeepsAgents DEF HandlerNext
  <2>2. QED
    BY <2>1, FilesFrame DEF agentVars
<1>3. ASSUME NEW a \in Agents, AgentStep(a) \/ AgentDies(a)
      PROVE  FilesInv'
  BY <1>3, FilesAgent DEF AgentNext
<1>4. CASE PanelStops
  BY <1>4, FilesFrame DEF PanelStops, agentVars
<1>5. CASE UNCHANGED vars
  BY <1>5, FilesFrame DEF vars, agentVars
<1>6. QED
  BY <1>1, <1>2, <1>3, <1>4, <1>5 DEF Next

LEMMA FilesInvariant == Spec => []FilesInv
<1>1. Spec => []TypeInv
  BY TypeInvariant
<1>2. QED
  BY <1>1, FilesInit, FilesStep, PTL DEF Spec

\* An agent that will skip enrollment has a key pair that loads, wherever
\* crashes hit the three writes of ensureEnrolled.
THEOREM NeverBricked == Spec => []NoBrickedAgent
<1>1. FilesInv => NoBrickedAgent
  BY DEF FilesInv, FilesShape, NoBrickedAgent, HasAllFiles, Files
<1>2. QED
  BY <1>1, FilesInvariant, PTL

\* The identity of an enrolled agent never changes.
LEMMA IdentityStep ==
    ASSUME TypeInv, FilesInv, Next, NEW a \in Agents, Enrolled(a)
    PROVE  files'[a] = files[a]
<1>1. files[a]["ca"] \in Calls /\ FilesShape(a)
  BY DEF Enrolled, Files, FilesInv
<1>2. phase[a] \notin Files
  BY <1>1, ConstantsAssumption DEF FilesShape, Files
<1>3. CASE AdminStep
  BY <1>3 DEF AdminStep, IssueToken, ExpireToken, Install, DeleteNode, agentVars
<1>4. ASSUME NEW r \in Calls, HandlerStep(r) \/ HandlerError(r)
      PROVE  files'[a] = files[a]
  BY <1>4, HandlerKeepsAgents DEF HandlerNext, agentVars
<1>5. ASSUME NEW b \in Agents, AgentStep(b) \/ AgentDies(b)
      PROVE  files'[a] = files[a]
  <2>1. CASE OpenFile(b) \/ FillFile(b)
    BY <1>2, <2>1 DEF OpenFile, FillFile, TypeInv, TypeOK
  <2>2. CASE ~(OpenFile(b) \/ FillFile(b))
    BY <1>5, <2>2 DEF AgentStep, StartEnrolled, Register, OnReply, OnError,
                      LoadTLS, AgentDies, ProcessExits
  <2>3. QED
    BY <2>1, <2>2
<1>6. CASE PanelStops
  BY <1>6 DEF PanelStops, agentVars
<1>7. QED
  BY <1>3, <1>4, <1>5, <1>6 DEF Next

THEOREM IdentityKept == Spec => IdentityIsStable
<1>1. TypeInv /\ FilesInv /\ [Next]_vars
        => [\A a \in Agents : Enrolled(a) => files'[a] = files[a]]_vars
  BY IdentityStep
<1>2. QED
  BY <1>1, TypeInvariant, FilesInvariant, PTL DEF Spec, IdentityIsStable

----------------------------------------------------------------------------
(* How many certificates a token buys.  As long as the token is not marked *)
(* used, a handler got past line 592 only by an update that failed, and    *)
(* the handlers that are about to mark it run at the same time.            *)

\* Calls with token t that have passed the check, and those of them that
\* have passed the update.
Taken(t)  == {r \in Calls : tok[r] = t /\ pc[r] \in {"mark", "find", "write", "ok"}}
Beyond(t) == {r \in Calls : tok[r] = t /\ pc[r] \in {"find", "write", "ok"}}

UseInv ==
    /\ Cardinality(Active) <= MaxInFlight
    /\ \A t \in Tokens : t \notin used => Cardinality(Beyond(t)) <= dbErrors
    /\ \A t \in Tokens : Cardinality(Taken(t)) <= MaxInFlight + dbErrors

\* A subset of Calls is finite, and a subset of it has no more elements.
LEMMA CallSets ==
    ASSUME NEW S \in SUBSET Calls, NEW T \in SUBSET S
    PROVE  /\ IsFiniteSet(S) /\ IsFiniteSet(T)
           /\ Cardinality(S) \in Nat /\ Cardinality(T) \in Nat
           /\ Cardinality(T) <= Cardinality(S)
<1>1. IsFiniteSet(S)
  BY ConstantsAssumption, FS_Subset
<1>2. QED
  BY <1>1, FS_Subset, FS_CardinalityType

\* One more call is at most one more element.
LEMMA CallAdded ==
    ASSUME NEW S \in SUBSET Calls, NEW r \in Calls, NEW T \in SUBSET (S \cup {r})
    PROVE  Cardinality(T) <= Cardinality(S) + 1
<1>1. IsFiniteSet(S) /\ Cardinality(S) \in Nat
  BY CallSets
<1>2. Cardinality(S \cup {r}) \in {Cardinality(S), Cardinality(S) + 1}
  BY <1>1, FS_AddElement
<1>3. Cardinality(T) <= Cardinality(S \cup {r}) /\ Cardinality(T) \in Nat
  BY CallSets
<1>4. QED
  BY <1>1, <1>2, <1>3

LEMMA CallUnion ==
    ASSUME NEW S \in SUBSET Calls, NEW T \in SUBSET Calls
    PROVE  Cardinality(S \cup T) <= Cardinality(S) + Cardinality(T)
<1>1. /\ IsFiniteSet(S) /\ IsFiniteSet(T) /\ IsFiniteSet(S \cap T)
      /\ Cardinality(S) \in Nat /\ Cardinality(T) \in Nat
      /\ Cardinality(S \cap T) \in Nat
  BY CallSets
<1>2. Cardinality(S \cup T)
        = Cardinality(S) + Cardinality(T) - Cardinality(S \cap T)
  BY <1>1, FS_Union
<1>3. QED
  BY <1>1, <1>2

LEMMA UseInit == Init => UseInv
<1> SUFFICES ASSUME Init
             PROVE  UseInv
  OBVIOUS
<1>1. /\ Active = {}
      /\ \A t \in Tokens : Taken(t) = {} /\ Beyond(t) = {}
  BY DEF Init, Active, InHandler, Taken, Beyond
<1>2. Cardinality({}) = 0
  BY FS_EmptySet
<1>3. dbErrors = 0 /\ MaxInFlight \in Nat
  BY ConstantsAssumption DEF Init
<1>4. Cardinality(Active) <= MaxInFlight
  BY <1>1, <1>2, <1>3
<1>5. \A t \in Tokens : Cardinality(Taken(t)) = 0 /\ Cardinality(Beyond(t)) = 0
  BY <1>1, <1>2
<1>6. QED
  BY <1>3, <1>4, <1>5 DEF UseInv

\* A step that lets no further call past the check or the update.
LEMMA UseFrame ==
    ASSUME TypeInv, UseInv,
           dbErrors' \in Nat, dbErrors <= dbErrors', used \subseteq used',
           Active' \subseteq Active,
           \A t \in Tokens : Taken(t)' \subseteq Taken(t),
           \A t \in Tokens : t \notin used' => Beyond(t)' \subseteq Beyond(t)
    PROVE  UseInv'
<1>1. dbErrors \in Nat /\ MaxInFlight \in Nat
  BY ConstantsAssumption DEF TypeInv, TypeOK
<1>2. Active \in SUBSET Calls
  BY DEF Active
<1>3. Cardinality(Active') <= MaxInFlight
  BY <1>1, <1>2, CallSets DEF UseInv
<1>4. ASSUME NEW t \in Tokens, t \notin used'
      PROVE  Cardinality(Beyond(t)') <= dbErrors'
  <2>1. Beyond(t) \in SUBSET Calls
    BY DEF Beyond
  <2>2. Cardinality(Beyond(t)') <= Cardinality(Beyond(t)) /\ Cardinality(Beyond(t)) <= dbErrors
    BY <1>4, <2>1, CallSets DEF UseInv
  <2>3. QED
    BY <1>1, <1>4, <2>1, <2>2, CallSets
<1>5. ASSUME NEW t \in Tokens
      PROVE  Cardinality(Taken(t)') <= MaxInFlight + dbErrors'
  <2>1. Taken(t) \in SUBSET Calls
    BY DEF Taken
  <2>2. Cardinality(Taken(t)') <= Cardinality(Taken(t))
    BY <2>1, CallSets
  <2>3. QED
    BY <1>1, <2>1, <2>2, CallSets DEF UseInv
<1>6. QED
  BY <1>3, <1>4, <1>5 DEF UseInv

\* The check: the calls now past it are those past the update, few because
\* the token is not marked, and those that run now.
LEMMA UseAdmit ==
    ASSUME TypeInv, UseInv, NEW r \in Calls, Admit(r)
    PROVE  UseInv'
<1>1. /\ dbErrors \in Nat /\ MaxInFlight \in Nat /\ dbErrors' = dbErrors
      /\ used' = used /\ tok' = tok
  BY ConstantsAssumption DEF TypeInv, TypeOK, Admit, tokenVars, NoFault
<1>2. Active' = Active
  BY DEF Active, InHandler, Admit, TypeInv, TypeOK
<1>3. \A t \in Tokens : Beyond(t)' = Beyond(t)
  BY <1>1 DEF Beyond, Admit, TypeInv, TypeOK
<1>4. ASSUME NEW t \in Tokens
      PROVE  Cardinality(Taken(t)') <= MaxInFlight + dbErrors
  <2>1. CASE t = tok[r]
    <3>1. t \notin used
      BY <2>1 DEF Admit
    <3>2. Taken(t)' \subseteq Active \cup Beyond(t)
      BY <1>1 DEF Taken, Beyond, Active, InHandler, Admit, TypeInv, TypeOK
    <3>3. Active \in SUBSET Calls /\ Beyond(t) \in SUBSET Calls
      BY DEF Active, Beyond
    <3>4. Cardinality(Taken(t)') <= Cardinality(Active \cup Beyond(t))
      BY <3>2, <3>3, CallSets
    <3>5. Cardinality(Active \cup Beyond(t)) <= Cardinality(Active) + Cardinality(Beyond(t))
      BY <3>3, CallUnion
    <3>6. /\ Cardinality(Active) \in Nat /\ Cardinality(Beyond(t)) \in Nat
          /\ Cardinality(Active \cup Beyond(t)) \in Nat
          /\ Cardinality(Taken(t)') \in Nat
      BY <3>2, <3>3, CallSets
    <3>7. Cardinality(Active) <= MaxInFlight /\ Cardinality(Beyond(t)) <= dbErrors
      BY <3>1 DEF UseInv
    <3>8. QED
      BY <1>1, <3>4, <3>5, <3>6, <3>7
  <2>2. CASE t # tok[r]
    <3>1. Taken(t)' = Taken(t)
      BY <1>1, <2>2 DEF Taken, Admit, TypeInv, TypeOK
    <3>2. QED
      BY <3>1 DEF UseInv
  <2>3. QED
    BY <2>1, <2>2
<1>5. QED
  BY <1>1, <1>2, <1>3, <1>4 DEF UseInv

\* The update that fails unnoticed pays for the call it lets through.
LEMMA UseMarkError ==
    ASSUME TypeInv, UseInv, NEW r \in Calls, MarkError(r)
    PROVE  UseInv'
<1>1. /\ dbErrors \in Nat /\ MaxInFlight \in Nat /\ dbErrors' = dbErrors + 1
      /\ used' = used /\ tok' = tok
  BY ConstantsAssumption DEF TypeInv, TypeOK, MarkError, DbError, tokenVars
<1>2. Active' = Active
  BY DEF Active, InHandler, MarkError, TypeInv, TypeOK
<1>3. \A t \in Tokens : Taken(t)' = Taken(t) /\ Taken(t) \in SUBSET Calls
  BY <1>1 DEF Taken, MarkError, TypeInv, TypeOK
<1>4. ASSUME NEW t \in Tokens, t \notin used
      PROVE  Cardinality(Beyond(t)') <= dbErrors'
  <2>1. Beyond(t)' \subseteq Beyond(t) \cup {r}
    BY <1>1 DEF Beyond, MarkError, TypeInv, TypeOK
  <2>2. Beyond(t) \in SUBSET Calls
    BY DEF Beyond
  <2>3. Cardinality(Beyond(t)') <= Cardinality(Beyond(t)) + 1
    BY <2>1, <2>2, CallAdded
  <2>4. Cardinality(Beyond(t)) \in Nat /\ Cardinality(Beyond(t)') \in Nat
    <3>1. Beyond(t)' \in SUBSET Calls
      BY <2>1, <2>2
    <3>2. QED
      BY <2>2, <3>1, CallSets
  <2>5. QED
    BY <1>1, <1>4, <2>3, <2>4 DEF UseInv
<1>5. \A t \in Tokens : Cardinality(Taken(t)) \in Nat
  BY <1>3, CallSets
<1>6. QED
  BY <1>1, <1>2, <1>3, <1>4, <1>5 DEF UseInv

\* A reply takes the call out of the handlers; only "ok" keeps it among the
\* calls past the check, where it already was.
LEMMA UseReply ==
    ASSUME TypeInv, UseInv, NEW r \in Calls,
           NEW result \in {"ok", "refused", "failed"}, Reply(r, result),
           InHandler(r), result = "ok" => pc[r] = "write",
           used' = used, dbErrors' \in {dbErrors, dbErrors + 1}
    PROVE  UseInv'
<1>1. dbErrors \in Nat
  BY ConstantsAssumption DEF TypeInv, TypeOK
<1>2. Active' \subseteq Active
  BY DEF Active, InHandler, Reply, TypeInv, TypeOK
<1>3. \A t \in Tokens : Taken(t)' \subseteq Taken(t) /\ Beyond(t)' \subseteq Beyond(t)
  BY DEF Taken, Beyond, InHandler, Reply, TypeInv, TypeOK
<1>4. QED
  BY <1>1, <1>2, <1>3, UseFrame

LEMMA UseHandler ==
    ASSUME TypeInv, UseInv, NEW r \in Calls, HandlerNext(r)
    PROVE  UseInv'
<1> USE DEF tokenVars, NoFault
<1>0. dbErrors \in Nat
  BY ConstantsAssumption DEF TypeInv, TypeOK
<1>1. CASE Admit(r)
  BY <1>1, UseAdmit
<1>2. CASE Refuse(r)
  BY <1>2, UseReply DEF Refuse, InHandler
<1>3. CASE LookupError(r)
  BY <1>3, UseReply DEF LookupError, InHandler, DbError
<1>4. CASE Mark(r)
  <2>1. Active' = Active
    BY <1>4 DEF Mark, Active, InHandler, TypeInv, TypeOK
  <2>2. \A t \in Tokens : /\ Taken(t)' = Taken(t)
                          /\ t \notin used' => Beyond(t)' = Beyond(t)
    BY <1>4 DEF Mark, Taken, Beyond, TypeInv, TypeOK
  <2>3. QED
    BY <1>0, <1>4, <2>1, <2>2, UseFrame DEF Mark
<1>5. CASE MarkError(r)
  BY <1>5, UseMarkError
<1>6. CASE SignAndFind(r) \/ FindError(r)
  <2>1. /\ Active' = Active
        /\ \A t \in Tokens : Taken(t)' = Taken(t) /\ Beyond(t)' = Beyond(t)
    BY <1>6 DEF SignAndFind, FindError, Active, InHandler, Taken, Beyond, TypeInv, TypeOK
  <2>2. used' = used /\ dbErrors' \in {dbErrors, dbErrors + 1}
    BY <1>6 DEF SignAndFind, FindError, DbError
  <2>3. QED
    BY <1>0, <2>1, <2>2, UseFrame
<1>7. CASE SignError(r)
  BY <1>7, UseReply DEF SignError, InHandler
<1>8. CASE UpdateNode(r) \/ InsertNode(r)
  BY <1>8, UseReply DEF UpdateNode, InsertNode, InHandler
<1>9. CASE WriteError(r)
  BY <1>9, UseReply DEF WriteError, InHandler, DbError
<1>10. CASE Cancel(r)
  BY <1>10, UseReply DEF Cancel, InHandler
<1>11. QED
  BY <1>1, <1>2, <1>3, <1>4, <1>5, <1>6, <1>7, <1>8, <1>9, <1>10
     DEF HandlerNext, HandlerStep, HandlerError

LEMMA UseAgent ==
    ASSUME TypeInv, UseInv, NEW a \in Agents, AgentNext(a)
    PROVE  UseInv'
<1> USE DEF tokenVars, callVars, NoFault
<1>0. dbErrors \in Nat /\ MaxInFlight \in Nat
  BY ConstantsAssumption DEF TypeInv, TypeOK
<1>1. CASE Register(a)
  <2>1. PICK r \in Calls :
             /\ pc[r] = "free"
             /\ pc' = [pc EXCEPT ![r] = "lookup"]
             /\ tok' = [tok EXCEPT ![r] = env[a]]
    BY <1>1 DEF Register
  <2>2. Active' \subseteq Active \cup {r}
    BY <2>1 DEF Active, InHandler, TypeInv, TypeOK
  <2>3. Active \in SUBSET Calls /\ Active' \in SUBSET Calls
    BY DEF Active
  <2>4. Cardinality(Active') <= Cardinality(Active) + 1
    BY <2>2, <2>3, CallAdded
  <2>5. Cardinality(Active') \in Nat /\ Cardinality(Active) \in Nat
    BY <2>3, CallSets
  <2>6. Cardinality(Active') <= MaxInFlight
    BY <1>0, <1>1, <2>4, <2>5 DEF Register
  <2>7. \A t \in Tokens : Taken(t)' = Taken(t) /\ Beyond(t)' = Beyond(t)
    BY <2>1 DEF Taken, Beyond, TypeInv, TypeOK
  <2>8. QED
    BY <1>1, <2>6, <2>7 DEF UseInv, Register
<1>2. CASE OnError(a)
  <2>1. /\ Active' \subseteq Active
        /\ \A t \in Tokens : Taken(t)' \subseteq Taken(t) /\ Beyond(t)' \subseteq Beyond(t)
    BY <1>2 DEF OnError, Active, InHandler, Taken, Beyond, TypeInv, TypeOK
  <2>2. QED
    BY <1>0, <1>2, <2>1, UseFrame DEF OnError
<1>3. CASE ~Register(a) /\ ~OnError(a)
  <2>1. UNCHANGED <<pc, tok, used, dbErrors>>
    BY <1>3 DEF AgentNext, AgentStep, StartEnrolled, OnReply, OpenFile,
                FillFile, LoadTLS, AgentDies
  <2>2. /\ Active' = Active
        /\ \A t \in Tokens : Taken(t)' = Taken(t) /\ Beyond(t)' = Beyond(t)
    BY <2>1 DEF Active, InHandler, Taken, Beyond
  <2>3. QED
    BY <2>1, <2>2 DEF UseInv
<1>4. QED
  BY <1>1, <1>2, <1>3

LEMMA UseStep == TypeInv /\ UseInv /\ [Next]_vars => UseInv'
<1> SUFFICES ASSUME TypeInv, UseInv, [Next]_vars
             PROVE  UseInv'
  OBVIOUS
<1>1. CASE AdminStep \/ UNCHANGED vars
  <2>1. UNCHANGED <<pc, tok, used, dbErrors>>
    BY <1>1 DEF AdminStep, IssueToken, ExpireToken, Install, DeleteNode,
                vars, tokenVars, callVars, NoFault
  <2>2. /\ Active' = Active
        /\ \A t \in Tokens : Taken(t)' = Taken(t) /\ Beyond(t)' = Beyond(t)
    BY <2>1 DEF Active, InHandler, Taken, Beyond
  <2>3. QED
    BY <2>1, <2>2 DEF UseInv
<1>2. ASSUME NEW r \in Calls, HandlerStep(r) \/ HandlerError(r)
      PROVE  UseInv'
  BY <1>2, UseHandler DEF HandlerNext
<1>3. ASSUME NEW a \in Agents, AgentStep(a) \/ AgentDies(a)
      PROVE  UseInv'
  BY <1>3, UseAgent DEF AgentNext
<1>4. CASE PanelStops
  <2>1. /\ Active' \subseteq Active
        /\ \A t \in Tokens : Taken(t)' \subseteq Taken(t) /\ Beyond(t)' \subseteq Beyond(t)
    BY <1>4 DEF PanelStops, Active, InHandler, Taken, Beyond
  <2>2. used' = used /\ dbErrors' = dbErrors /\ dbErrors \in Nat
    BY <1>4, ConstantsAssumption DEF PanelStops, tokenVars, TypeInv, TypeOK
  <2>3. QED
    BY <2>1, <2>2, UseFrame
<1>5. QED
  BY <1>1, <1>2, <1>3, <1>4 DEF Next

LEMMA UseInvariant == Spec => []UseInv
<1>1. QED
  BY TypeInvariant, UseInit, UseStep, PTL DEF Spec

\* A token buys at most as many certificates as handlers run at once, plus
\* the updates of used_at that failed unnoticed.
THEOREM TokenUse == Spec => []TokenUseBounded
<1>1. TypeInv /\ UseInv => TokenUseBounded
  <2> SUFFICES ASSUME TypeInv, UseInv, NEW t \in Tokens
               PROVE  Cardinality(Granted(t)) <= MaxInFlight + dbErrors
    BY DEF TokenUseBounded
  <2>1. Taken(t) \in SUBSET Calls /\ Granted(t) \in SUBSET Taken(t)
    BY DEF Taken, Granted
  <2>2. /\ Cardinality(Granted(t)) <= Cardinality(Taken(t))
        /\ Cardinality(Granted(t)) \in Nat /\ Cardinality(Taken(t)) \in Nat
    BY <2>1, CallSets
  <2>3. dbErrors \in Nat /\ MaxInFlight \in Nat
    BY ConstantsAssumption DEF TypeInv, TypeOK
  <2>4. QED
    BY <2>2, <2>3 DEF UseInv
<1>2. QED
  BY <1>1, TypeInvariant, UseInvariant, PTL

----------------------------------------------------------------------------
(* How often a host is listed.  A handler that found no row will insert    *)
(* one, so the rows of a host and the handlers about to insert one are     *)
(* counted together.                                                       *)

\* The handlers that are about to insert a row of host h.
Inserting(h) == {r \in Calls : pc[r] = "write" /\ found[r] = None /\ Host(r) = h}

RowsInv ==
    \A h \in Hosts :
        Cardinality(Rows(h)) + Cardinality(Inserting(h)) <= MaxInFlight + dbErrors

LEMMA RowSets ==
    ASSUME NEW h \in Hosts
    PROVE  /\ Rows(h) \in SUBSET Calls /\ Inserting(h) \in SUBSET Calls
           /\ Rows(h)' \in SUBSET Calls /\ Inserting(h)' \in SUBSET Calls
           /\ Cardinality(Rows(h)) \in Nat /\ Cardinality(Inserting(h)) \in Nat
           /\ Cardinality(Rows(h)') \in Nat /\ Cardinality(Inserting(h)') \in Nat
<1>1. /\ Rows(h) \in SUBSET Calls /\ Inserting(h) \in SUBSET Calls
      /\ Rows(h)' \in SUBSET Calls /\ Inserting(h)' \in SUBSET Calls
  BY DEF Rows, Inserting
<1>2. QED
  BY <1>1, CallSets

LEMMA RowsInit == Init => RowsInv
<1> SUFFICES ASSUME Init, NEW h \in Hosts
             PROVE  Cardinality(Rows(h)) + Cardinality(Inserting(h)) <= MaxInFlight + dbErrors
  BY DEF RowsInv
<1>1. Rows(h) = {} /\ Inserting(h) = {}
  BY ConstantsAssumption DEF Init, Rows, Inserting
<1>2. Cardinality({}) = 0
  BY FS_EmptySet
<1>3. dbErrors = 0 /\ MaxInFlight \in Nat
  BY ConstantsAssumption DEF Init
<1>4. QED
  BY <1>1, <1>2, <1>3

\* A step that adds no row and sends no further handler to the insert.
LEMMA RowsFrame ==
    ASSUME TypeInv, RowsInv, dbErrors' \in {dbErrors, dbErrors + 1},
           \A h \in Hosts : Rows(h)' \subseteq Rows(h) /\ Inserting(h)' \subseteq Inserting(h)
    PROVE  RowsInv'
<1> SUFFICES ASSUME NEW h \in Hosts
             PROVE  Cardinality(Rows(h)') + Cardinality(Inserting(h)')
                        <= MaxInFlight + dbErrors'
  BY DEF RowsInv
<1>1. /\ Cardinality(Rows(h)') <= Cardinality(Rows(h))
      /\ Cardinality(Inserting(h)') <= Cardinality(Inserting(h))
  BY RowSets, CallSets
<1>2. dbErrors \in Nat /\ MaxInFlight \in Nat
  BY ConstantsAssumption DEF TypeInv, TypeOK
<1>3. Cardinality(Rows(h)) + Cardinality(Inserting(h)) <= MaxInFlight + dbErrors
  BY DEF RowsInv
<1>4. QED
  BY <1>1, <1>2, <1>3, RowSets

\* The select: with no row of the host, whoever is about to insert one is a
\* handler that runs now.
LEMMA RowsFind ==
    ASSUME TypeInv, UseInv, RowsInv, NEW r \in Calls, SignAndFind(r)
    PROVE  RowsInv'
<1> SUFFICES ASSUME NEW h \in Hosts
             PROVE  Cardinality(Rows(h)') + Cardinality(Inserting(h)')
                        <= MaxInFlight + dbErrors'
  BY DEF RowsInv
<1>1. /\ dbErrors \in Nat /\ MaxInFlight \in Nat /\ dbErrors' = dbErrors
      /\ nodeHost' = nodeHost /\ from' = from
  BY ConstantsAssumption DEF TypeInv, TypeOK, SignAndFind, NoFault, nodeVars
<1>2. Rows(h)' = Rows(h)
  BY <1>1 DEF Rows
<1>3. CASE Rows(h) = {}
  <2>1. Active \in SUBSET Calls /\ Inserting(h)' \subseteq Active
    BY <1>1 DEF Inserting, Active, InHandler, SignAndFind, TypeInv, TypeOK
  <2>2. Cardinality(Inserting(h)') <= Cardinality(Active) /\ Cardinality(Active) \in Nat
    BY <2>1, CallSets
  <2>3. Cardinality(Rows(h)') = 0
    BY <1>2, <1>3, FS_EmptySet
  <2>4. QED
    BY <1>1, <2>2, <2>3, RowSets DEF UseInv
<1>4. CASE Rows(h) # {}
  <2>1. Inserting(h)' \subseteq Inserting(h)
    <3>1. CASE Host(r) = h
      <4>1. found'[r] # None
        BY <1>4, <3>1, ConstantsAssumption DEF SignAndFind, Rows, TypeInv, TypeOK
      <4>2. QED
        BY <1>1, <4>1 DEF Inserting, Host, SignAndFind, TypeInv, TypeOK
    <3>2. CASE Host(r) # h
      <4>1. \A c \in Calls : c # r => pc'[c] = pc[c] /\ found'[c] = found[c]
        BY DEF SignAndFind, TypeInv, TypeOK
      <4>2. QED
        BY <1>1, <3>2, <4>1 DEF Inserting, Host
    <3>3. QED
      BY <3>1, <3>2
  <2>2. Cardinality(Inserting(h)') <= Cardinality(Inserting(h))
    BY <2>1, RowSets, CallSets
  <2>3. Cardinality(Rows(h)) + Cardinality(Inserting(h)) <= MaxInFlight + dbErrors
    BY DEF RowsInv
  <2>4. QED
    BY <1>1, <1>2, <2>2, <2>3, RowSets
<1>5. QED
  BY <1>3, <1>4

\* The select that fails pays for the handler it sends to the insert.
LEMMA RowsFindError ==
    ASSUME TypeInv, RowsInv, NEW r \in Calls, FindError(r)
    PROVE  RowsInv'
<1> SUFFICES ASSUME NEW h \in Hosts
             PROVE  Cardinality(Rows(h)') + Cardinality(Inserting(h)')
                        <= MaxInFlight + dbErrors'
  BY DEF RowsInv
<1>1. /\ dbErrors \in Nat /\ MaxInFlight \in Nat /\ dbErrors' = dbErrors + 1
      /\ nodeHost' = nodeHost /\ from' = from
  BY ConstantsAssumption DEF TypeInv, TypeOK, FindError, DbError, nodeVars
<1>2. Rows(h)' = Rows(h)
  BY <1>1 DEF Rows
<1>3. Inserting(h)' \subseteq Inserting(h) \cup {r}
  BY <1>1 DEF Inserting, Host, FindError, TypeInv, TypeOK
<1>4. Cardinality(Inserting(h)') <= Cardinality(Inserting(h)) + 1
  BY <1>3, RowSets, CallAdded
<1>5. Cardinality(Rows(h)) + Cardinality(Inserting(h)) <= MaxInFlight + dbErrors
  BY DEF RowsInv
<1>6. QED
  BY <1>1, <1>2, <1>4, <1>5, RowSets

\* The insert turns a handler about to insert into a row.
LEMMA RowsInsert ==
    ASSUME TypeInv, RowsInv, NEW r \in Calls, pc[r] = "write", found[r] = None,
           InsertedRow(r), NEW result \in {"ok", "failed"}, Reply(r, result),
           dbErrors' \in {dbErrors, dbErrors + 1}
    PROVE  RowsInv'
<1> SUFFICES ASSUME NEW h \in Hosts
             PROVE  Cardinality(Rows(h)') + Cardinality(Inserting(h)')
                        <= MaxInFlight + dbErrors'
  BY DEF RowsInv
<1>1. /\ dbErrors \in Nat /\ MaxInFlight \in Nat
      /\ from' = from /\ pc' = [pc EXCEPT ![r] = result]
      /\ found' = [found EXCEPT ![r] = None]
      /\ nodeHost' = [nodeHost EXCEPT ![r] = Host(r)]
  BY ConstantsAssumption DEF TypeInv, TypeOK, Reply, InsertedRow
<1>2. Cardinality(Rows(h)) + Cardinality(Inserting(h)) <= MaxInFlight + dbErrors
  BY DEF RowsInv
<1>3. CASE Host(r) = h
  <2>1. Rows(h)' \subseteq Rows(h) \cup {r}
    BY <1>1 DEF Rows, TypeInv, TypeOK
  <2>2. Cardinality(Rows(h)') <= Cardinality(Rows(h)) + 1
    BY <2>1, RowSets, CallAdded
  <2>3. r \in Inserting(h) /\ Inserting(h)' \subseteq Inserting(h) \ {r}
    BY <1>1, <1>3 DEF Inserting, Host, TypeInv, TypeOK
  <2>4. IsFiniteSet(Inserting(h)) /\ Inserting(h) \ {r} \in SUBSET Calls
    BY RowSets, CallSets
  <2>5. Cardinality(Inserting(h) \ {r}) = Cardinality(Inserting(h)) - 1
    BY <2>3, <2>4, FS_RemoveElement
  <2>6. Cardinality(Inserting(h)') <= Cardinality(Inserting(h) \ {r})
    BY <2>3, <2>4, CallSets
  <2>7. QED
    BY <1>1, <1>2, <2>2, <2>5, <2>6, RowSets
<1>4. CASE Host(r) # h
  <2>1. Rows(h)' \subseteq Rows(h) /\ Inserting(h)' \subseteq Inserting(h)
    BY <1>1, <1>4 DEF Rows, Inserting, Host, TypeInv, TypeOK
  <2>2. /\ Cardinality(Rows(h)') <= Cardinality(Rows(h))
        /\ Cardinality(Inserting(h)') <= Cardinality(Inserting(h))
    BY <2>1, RowSets, CallSets
  <2>3. QED
    BY <1>1, <1>2, <2>2, RowSets
<1>5. QED
  BY <1>3, <1>4

\* A reply without an insert.
LEMMA RowsReply ==
    ASSUME TypeInv, RowsInv, NEW r \in Calls, nodeHost' = nodeHost,
           NEW result \in {"ok", "refused", "failed"}, Reply(r, result),
           dbErrors' \in {dbErrors, dbErrors + 1}
    PROVE  RowsInv'
<1>1. \A h \in Hosts : Rows(h)' \subseteq Rows(h)
  BY DEF Rows
<1>2. \A h \in Hosts : Inserting(h)' \subseteq Inserting(h)
  BY DEF Inserting, Host, Reply, TypeInv, TypeOK
<1>3. QED
  BY <1>1, <1>2, RowsFrame

LEMMA RowsHandler ==
    ASSUME TypeInv, UseInv, RowsInv, NEW r \in Calls, HandlerNext(r)
    PROVE  RowsInv'
<1> USE DEF nodeVars, NoFault
<1>1. CASE Admit(r) \/ Mark(r) \/ MarkError(r)
  <2>1. /\ \A h \in Hosts : Rows(h)' = Rows(h)
        /\ dbErrors' \in {dbErrors, dbErrors + 1}
    BY <1>1 DEF Admit, Mark, MarkError, DbError, Rows
  <2>2. \A h \in Hosts : Inserting(h)' = Inserting(h)
    BY <1>1 DEF Admit, Mark, MarkError, Inserting, Host, TypeInv, TypeOK
  <2>3. QED
    BY <2>1, <2>2, RowsFrame
<1>2. CASE Refuse(r)
  BY <1>2, RowsReply DEF Refuse
<1>3. CASE LookupError(r)
  BY <1>3, RowsReply DEF LookupError, DbError
<1>4. CASE SignAndFind(r)
  BY <1>4, RowsFind
<1>5. CASE FindError(r)
  BY <1>5, RowsFindError
<1>6. CASE SignError(r)
  BY <1>6, RowsReply DEF SignError
<1>7. CASE UpdateNode(r)
  BY <1>7, RowsReply DEF UpdateNode
<1>8. CASE InsertNode(r)
  BY <1>8, RowsInsert DEF InsertNode
<1>9. CASE WriteError(r)
  <2>1. CASE nodeHost' = nodeHost
    BY <1>9, <2>1, RowsReply DEF WriteError, DbError
  <2>2. CASE nodeHost' # nodeHost
    BY <1>9, <2>2, RowsInsert DEF WriteError, DbError
  <2>3. QED
    BY <2>1, <2>2
<1>10. CASE Cancel(r)
  BY <1>10, RowsReply DEF Cancel
<1>11. QED
  BY <1>1, <1>2, <1>3, <1>4, <1>5, <1>6, <1>7, <1>8, <1>9, <1>10
     DEF HandlerNext, HandlerStep, HandlerError

LEMMA RowsStep == TypeInv /\ UseInv /\ RowsInv /\ [Next]_vars => RowsInv'
<1> SUFFICES ASSUME TypeInv, UseInv, RowsInv, [Next]_vars
             PROVE  RowsInv'
  OBVIOUS
<1>1. CASE AdminStep
  <2>1. /\ UNCHANGED <<pc, found, from, dbErrors>>
        /\ \A h \in Hosts : Rows(h)' \subseteq Rows(h)
    BY <1>1, ConstantsAssumption
       DEF AdminStep, IssueToken, ExpireToken, Install, DeleteNode, Rows,
           nodeVars, callVars, NoFault, TypeInv, TypeOK
  <2>2. \A h \in Hosts : Inserting(h)' = Inserting(h)
    BY <2>1 DEF Inserting, Host
  <2>3. QED
    BY <2>1, <2>2, RowsFrame
<1>2. ASSUME NEW r \in Calls, HandlerStep(r) \/ HandlerError(r)
      PROVE  RowsInv'
  BY <1>2, RowsHandler DEF HandlerNext
<1>3. ASSUME NEW a \in Agents, AgentStep(a) \/ AgentDies(a)
      PROVE  RowsInv'
  <2>1. nodeHost' = nodeHost /\ dbErrors' = dbErrors
    BY <1>3 DEF AgentStep, StartEnrolled, Register, OnReply, OnError, OpenFile,
                FillFile, LoadTLS, AgentDies, nodeVars, NoFault
  <2>2. \A r \in Calls : pc'[r] = "write" =>
            pc[r] = "write" /\ found'[r] = found[r] /\ from'[r] = from[r]
    BY <1>3 DEF AgentStep, StartEnrolled, Register, OnReply, OnError, OpenFile,
                FillFile, LoadTLS, AgentDies, callVars, TypeInv, TypeOK
  <2>3. \A h \in Hosts : Rows(h)' = Rows(h) /\ Inserting(h)' \subseteq Inserting(h)
    BY <2>1, <2>2 DEF Rows, Inserting, Host
  <2>4. QED
    BY <2>1, <2>3, RowsFrame
<1>4. CASE PanelStops
  <2>1. nodeHost' = nodeHost /\ dbErrors' = dbErrors
    BY <1>4 DEF PanelStops, nodeVars
  <2>2. \A h \in Hosts : Rows(h)' = Rows(h) /\ Inserting(h)' \subseteq Inserting(h)
    BY <1>4, <2>1 DEF PanelStops, InHandler, Rows, Inserting, Host
  <2>3. QED
    BY <2>1, <2>2, RowsFrame
<1>5. CASE UNCHANGED vars
  <2>1. /\ dbErrors' = dbErrors
        /\ \A h \in Hosts : Rows(h)' = Rows(h) /\ Inserting(h)' = Inserting(h)
    BY <1>5 DEF vars, nodeVars, callVars, Rows, Inserting, Host
  <2>2. QED
    BY <2>1, RowsFrame
<1>6. QED
  BY <1>1, <1>2, <1>3, <1>4, <1>5 DEF Next

LEMMA RowsInvariant == Spec => []RowsInv
<1>1. QED
  BY TypeInvariant, UseInvariant, RowsInit, RowsStep, PTL DEF Spec

\* A host is listed at most once, but for handlers that run at the same time
\* and selects that failed.
THEOREM RowsFew == Spec => []RowsBounded
<1>1. TypeInv /\ RowsInv => RowsBounded
  <2> SUFFICES ASSUME TypeInv, RowsInv, NEW h \in Hosts
               PROVE  Cardinality(Rows(h)) <= MaxInFlight + dbErrors
    BY DEF RowsBounded
  <2>1. dbErrors \in Nat /\ MaxInFlight \in Nat
    BY ConstantsAssumption DEF TypeInv, TypeOK
  <2>2. QED
    BY <2>1, RowSets DEF RowsInv
<1>2. QED
  BY <1>1, TypeInvariant, RowsInvariant, PTL

============================================================================
