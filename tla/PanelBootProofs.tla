-------------------------- MODULE PanelBootProofs --------------------------
(***************************************************************************)
(* Theorems about PanelBoot, for every value of its constants: any number  *)
(* of crashes and database errors.                                         *)
(***************************************************************************)
EXTENDS PanelBoot, FiniteSetTheorems, TLAPS

Pair(c) == [key |-> c, crt |-> c]

\* ca.key is whole before ca.crt is opened, and nothing was served before
\* both were whole.  From then on neither file is ever missing.
CaInv ==
    /\ disk["crt"] # None => disk["key"] \in Cas
    /\ disk["crt"] \in Cas => disk["key"] = disk["crt"]
    /\ servedCas # {} => \E c \in Cas : servedCas = {c} /\ disk = Pair(c)
    /\ pc \in CaFiles => servedCas = {} /\ \E c \in Cas : ca = Pair(c)
    /\ pc = "key" => disk["crt"] = None
    /\ pc = "crt" => disk["key"] = ca["key"] /\ disk["crt"] \in {None, Torn}
    /\ pc \in {"count", "insert", "print", "serving"} =>
         ca = disk /\ \E c \in Cas : ca = Pair(c)

\* The two migrations are done once the CA is looked at.
SchemaInv ==
    /\ tables = applied
    /\ pc \in Steps \ {"down", "connect", "v1"} => 1 \in applied
    /\ pc \in Steps \ {"down", "connect", "v1", "v2"} => 2 \in applied

\* What is printed is the password of the row that was inserted before.
AdminInv ==
    /\ printed \subseteq {admin}
    /\ pc = "insert" => admin = None /\ password \in Passwords
    /\ pc = "print" => admin = password /\ password \in Passwords
    /\ pc = "serving" => admin # None

BootInv == TypeOK /\ CaInv /\ SchemaInv /\ AdminInv

----------------------------------------------------------------------------
LEMMA BootInit == Init => BootInv
BY ConstantsAssumption
   DEF Init, BootInv, TypeOK, CaInv, SchemaInv, AdminInv, Steps, Versions,
       CaFiles, NoCA

\* The process ends and leaves the files and the journal as they are.
LEMMA BootExit ==
    ASSUME BootInv, Exit, UNCHANGED <<disk, printed, servedCas>>,
           tables' = applied', applied' \subseteq Versions,
           admin' = admin \/ (admin = None /\ admin' \in Passwords),
           faults' \in 0..MaxFaults, dbErrors' \in 0..MaxDbErrors
    PROVE  BootInv'
<1>1. TypeOK'
  BY DEF Exit, BootInv, TypeOK, Steps, CaFiles, NoCA, SchemaInv
<1>2. CaInv'
  BY DEF Exit, BootInv, CaInv, CaFiles
<1>3. SchemaInv'
  BY DEF Exit, SchemaInv, Steps
<1>4. AdminInv'
  BY ConstantsAssumption DEF Exit, AdminInv, BootInv, TypeOK
<1>5. QED
  BY <1>1, <1>2, <1>3, <1>4 DEF BootInv

LEMMA BootStarts ==
    ASSUME BootInv, Start \/ Connect
    PROVE  BootInv'
BY DEF Start, Connect, dbVars, memVars, NoFault, BootInv, TypeOK, CaInv,
       SchemaInv, AdminInv, Steps, CaFiles

LEMMA BlockKeeps ==
    ASSUME BootInv, NEW v \in Versions, Block(v)
    PROVE  /\ tables' = applied' /\ applied' \subseteq Versions
           /\ applied \subseteq applied' /\ v \in applied'
BY DEF Block, BootInv, SchemaInv, TypeOK

LEMMA BootMigrates ==
    ASSUME BootInv, Migrate(1, "v1", "v2") \/ Migrate(2, "v2", "ca")
    PROVE  BootInv'
<1>1. PICK v \in Versions, step \in {"v1", "v2"}, next \in {"v2", "ca"} :
           /\ Migrate(v, step, next)
           /\ <<v, step, next>> \in {<<1, "v1", "v2">>, <<2, "v2", "ca">>}
  BY DEF Versions
<1>2. /\ tables' = applied' /\ applied' \subseteq Versions
      /\ applied \subseteq applied' /\ v \in applied'
  BY <1>1, BlockKeeps DEF Migrate
<1>3. SchemaInv'
  BY <1>1, <1>2 DEF Migrate, BootInv, SchemaInv, Steps
<1>4. TypeOK' /\ CaInv' /\ AdminInv'
  BY <1>1, <1>2 DEF Migrate, memVars, NoFault, BootInv, TypeOK, CaInv, AdminInv,
                    Steps, CaFiles
<1>5. QED
  BY <1>3, <1>4 DEF BootInv

LEMMA BootLoads ==
    ASSUME BootInv, LoadCA
    PROVE  BootInv'
<1>1. CASE Parses(disk["key"]) /\ Parses(disk["crt"]) /\ ca' = disk /\ pc' = "count"
                /\ UNCHANGED password
  <2>1. disk = Pair(disk["key"]) /\ disk["key"] \in Cas
    BY <1>1 DEF Parses, Pair, BootInv, CaInv, TypeOK, CaFiles
  <2>2. CaInv'
    BY <1>1, <2>1 DEF LoadCA, BootInv, CaInv, CaFiles
  <2>3. TypeOK'
    BY <1>1, <2>1 DEF LoadCA, BootInv, TypeOK, Steps, CaFiles, Pair, dbVars, NoFault
  <2>4. SchemaInv' /\ AdminInv'
    BY <1>1 DEF LoadCA, BootInv, SchemaInv, AdminInv, Steps, dbVars
  <2>5. QED
    BY <2>2, <2>3, <2>4 DEF BootInv
<1>2. CASE Exit
  BY <1>2, BootExit DEF LoadCA, dbVars, NoFault, BootInv, TypeOK, SchemaInv
<1>3. QED
  BY <1>1, <1>2 DEF LoadCA

\* A new pair is generated only when ca.crt is missing, and so only before
\* the panel has served.
LEMMA BootGenerates ==
    ASSUME BootInv, GenerateCA
    PROVE  BootInv'
<1>1. disk["crt"] = None
  BY ConstantsAssumption DEF GenerateCA, CaMissing, CaFiles, BootInv, CaInv
<1>2. servedCas = {}
  BY <1>1, ConstantsAssumption DEF BootInv, CaInv, Pair
<1>3. PICK c \in Cas : ca' = Pair(c)
  BY DEF GenerateCA, Pair
<1>4. CaInv'
  BY <1>1, <1>2, <1>3, ConstantsAssumption DEF GenerateCA, BootInv, CaInv, CaFiles
<1>5. TypeOK'
  BY <1>3 DEF GenerateCA, BootInv, TypeOK, Steps, CaFiles, Pair, dbVars, NoFault
<1>6. SchemaInv' /\ AdminInv'
  BY DEF GenerateCA, BootInv, SchemaInv, AdminInv, Steps, dbVars
<1>7. QED
  BY <1>4, <1>5, <1>6 DEF BootInv

LEMMA BootWrites ==
    ASSUME BootInv, OpenFile \/ FillFile
    PROVE  BootInv'
<1>1. PICK c \in Cas : ca = Pair(c)
  BY DEF OpenFile, FillFile, BootInv, CaInv
<1>2. servedCas = {} /\ pc \in CaFiles
  BY DEF OpenFile, FillFile, BootInv, CaInv
<1>3. SchemaInv' /\ AdminInv'
  BY DEF OpenFile, FillFile, AfterFile, BootInv, SchemaInv, AdminInv, Steps, CaFiles, dbVars
<1>4. CASE OpenFile
  <2>1. CaInv'
    BY <1>1, <1>2, <1>4, ConstantsAssumption
       DEF OpenFile, BootInv, CaInv, TypeOK, CaFiles, Pair, memVars
  <2>2. TypeOK'
    BY <1>4 DEF OpenFile, BootInv, TypeOK, CaFiles, dbVars, memVars, NoFault
  <2>3. QED
    BY <1>3, <2>1, <2>2 DEF BootInv
<1>5. CASE FillFile
  <2>1. ASSUME pc = "key"
        PROVE  CaInv'
    <3>1. disk' = [disk EXCEPT !["key"] = c] /\ disk["crt"] = None
      BY <1>1, <1>5, <2>1 DEF FillFile, BootInv, CaInv, Pair
    <3>2. disk'["key"] = c /\ disk'["crt"] = None
      BY <3>1 DEF BootInv, TypeOK, CaFiles
    <3>3. pc' = "crt" /\ ca' = ca /\ servedCas' = servedCas
      BY <1>5, <2>1 DEF FillFile, AfterFile, memVars
    <3>4. QED
      BY <1>1, <1>2, <3>2, <3>3, ConstantsAssumption DEF CaInv, CaFiles, Pair
  <2>2. ASSUME pc = "crt"
        PROVE  CaInv'
    <3>1. disk' = [disk EXCEPT !["crt"] = c] /\ disk["key"] = c
      BY <1>1, <1>5, <2>2 DEF FillFile, BootInv, CaInv, Pair
    <3>2. disk' \in [CaFiles -> Cas \cup {None, Torn}]
      BY <3>1 DEF BootInv, TypeOK
    <3>3. disk'["key"] = c /\ disk'["crt"] = c
      BY <3>1 DEF BootInv, TypeOK, CaFiles
    <3>4. disk' = Pair(c)
      BY <3>2, <3>3 DEF CaFiles, Pair
    <3>5. pc' = "count" /\ ca' = ca /\ servedCas' = servedCas
      BY <1>5, <2>2 DEF FillFile, AfterFile, memVars
    <3>6. QED
      BY <1>1, <1>2, <3>4, <3>5, ConstantsAssumption DEF CaInv, CaFiles, Pair
  <2>3. CaInv'
    BY <1>2, <2>1, <2>2 DEF CaFiles
  <2>4. TypeOK'
    BY <1>1, <1>2, <1>5
       DEF FillFile, AfterFile, BootInv, TypeOK, Steps, CaFiles, Pair, dbVars, memVars, NoFault
  <2>5. QED
    BY <1>3, <2>3, <2>4 DEF BootInv
<1>6. QED
  BY <1>4, <1>5

LEMMA BootAdmin ==
    ASSUME BootInv, NoUsers \/ InsertAdmin
    PROVE  BootInv'
<1>1. CASE NoUsers
  BY <1>1 DEF NoUsers, dbVars, NoFault, BootInv, TypeOK, CaInv, SchemaInv,
              AdminInv, Steps, CaFiles
<1>2. CASE InsertAdmin
  BY <1>2, ConstantsAssumption
     DEF InsertAdmin, memVars, NoFault, BootInv, TypeOK, CaInv, SchemaInv,
         AdminInv, Steps, CaFiles
<1>3. QED
  BY <1>1, <1>2

LEMMA BootServes ==
    ASSUME BootInv, HasUsers \/ PrintPassword
    PROVE  BootInv'
<1>1. PICK c \in Cas : ca = Pair(c) /\ disk = Pair(c)
  BY DEF HasUsers, PrintPassword, BootInv, CaInv
<1>2. servedCas' = {c} /\ pc' = "serving" /\ UNCHANGED <<dbVars, disk, memVars, faults, dbErrors>>
  <2>1. servedCas' = servedCas \cup {c}
    BY <1>1 DEF HasUsers, PrintPassword, Serve, Pair
  <2>2. servedCas \subseteq {c}
    BY <1>1 DEF BootInv, CaInv, Pair
  <2>3. QED
    BY <2>1, <2>2 DEF HasUsers, PrintPassword, Serve, NoFault
<1>3. CaInv'
  BY <1>1, <1>2 DEF CaInv, CaFiles, BootInv, memVars
<1>4. SchemaInv'
  BY <1>2 DEF BootInv, SchemaInv, Steps, HasUsers, PrintPassword, dbVars
<1>5. AdminInv'
  BY <1>2, ConstantsAssumption
     DEF BootInv, AdminInv, HasUsers, PrintPassword, dbVars, memVars
<1>6. TypeOK'
  BY <1>2 DEF BootInv, TypeOK, AdminInv, Steps, HasUsers, PrintPassword, dbVars, memVars
<1>7. QED
  BY <1>3, <1>4, <1>5, <1>6 DEF BootInv

LEMMA BootFails ==
    ASSUME BootInv, StatementFails \/ Dies
    PROVE  BootInv'
<1>1. /\ Exit /\ UNCHANGED <<disk, printed, servedCas>>
      /\ faults' \in 0..MaxFaults /\ dbErrors' \in 0..MaxDbErrors
  BY ConstantsAssumption DEF StatementFails, Dies, DbError, BootInv, TypeOK
<1>2. tables' = applied' /\ applied' \subseteq Versions
  BY BlockKeeps DEF StatementFails, Dies, dbVars, BootInv, SchemaInv, TypeOK
<1>3. admin' = admin \/ (admin = None /\ admin' \in Passwords)
  BY DEF StatementFails, Dies, dbVars, BootInv, AdminInv
<1>4. QED
  BY <1>1, <1>2, <1>3, BootExit

LEMMA BootStep == BootInv /\ [Next]_vars => BootInv'
<1> SUFFICES ASSUME BootInv, [Next]_vars
             PROVE  BootInv'
  OBVIOUS
<1>1. CASE Boot
  BY <1>1, BootStarts, BootMigrates, BootLoads, BootGenerates, BootWrites,
     BootAdmin, BootServes DEF Boot
<1>2. CASE StatementFails \/ Dies
  BY <1>2, BootFails
<1>3. CASE UNCHANGED vars
  BY <1>3 DEF vars, dbVars, memVars, BootInv, TypeOK, CaInv, SchemaInv, AdminInv
<1>4. QED
  BY <1>1, <1>2, <1>3 DEF Next

LEMMA BootInvariant == Spec => []BootInv
<1>1. QED
  BY BootInit, BootStep, PTL DEF Spec

----------------------------------------------------------------------------
\* Every variable of the start keeps its type.
THEOREM BootTypes == Spec => []TypeOK
<1>1. BootInv => TypeOK
  BY DEF BootInv
<1>2. QED
  BY <1>1, BootInvariant, PTL

\* The panel never serves with a second CA.
THEOREM OneCAEver == Spec => []OneCA
<1>1. BootInv => OneCA
  <2> SUFFICES ASSUME BootInv
               PROVE  Cardinality(servedCas) <= 1
    BY DEF OneCA
  <2>1. CASE servedCas = {}
    BY <2>1, FS_EmptySet
  <2>2. CASE servedCas # {}
    <3>1. PICK c \in Cas : servedCas = {c}
      BY <2>2 DEF BootInv, CaInv
    <3>2. Cardinality({c}) = 1
      BY FS_Singleton
    <3>3. QED
      BY <3>1, <3>2
  <2>3. QED
    BY <2>1, <2>2
<1>2. QED
  BY <1>1, BootInvariant, PTL

\* A panel that serves is complete: CA, schema and administrator.
THEOREM ServesComplete == Spec => []ServesWhole
<1>1. BootInv => ServesWhole
  BY DEF BootInv, TypeOK, CaInv, SchemaInv, AdminInv, ServesWhole, Pair, Steps, Versions
<1>2. QED
  BY <1>1, BootInvariant, PTL

\* A password that was printed is the administrator's.
THEOREM PrintedIsTrue == Spec => []PrintedWorks
<1>1. BootInv => PrintedWorks
  BY DEF BootInv, AdminInv, PrintedWorks
<1>2. QED
  BY <1>1, BootInvariant, PTL

----------------------------------------------------------------------------
(* ComesUp without fairness: what a start that cannot succeed is, and why  *)
(* every other one is a bounded number of steps away from serving.         *)

\* No process writes ca.crt and it is torn: LoadOrCreate reads both files
\* and fails to parse them (ca.go:30-38).
Stuck == CaTorn /\ pc # "crt"

\* A panel with a torn ca.crt has never served, does not serve and never
\* will: no start replaces a file that is there.
TornForGood == [][Stuck => Stuck' /\ pc' # "serving" /\ servedCas' = {}]_vars

\* A start goes wrong only by a fault or for a torn ca.crt: a migration is
\* never in the way of itself, the CA files are missing or parse, and there
\* is a password and a key pair to draw.
NothingBlocks ==
    ~Stuck =>
        /\ \A v \in Versions : v \in applied \/ v \notin tables
        /\ pc = "ca" => CaMissing \/ (Parses(disk["key"]) /\ Parses(disk["crt"]))
        /\ pc = "ca" /\ CaMissing => Cas \ (servedCas \cup {disk["key"], disk["crt"]}) # {}
        /\ pc = "count" /\ admin = None => Passwords \ printed # {}

\* How far the process is from serving; a file that is to be truncated
\* takes one step more.
Distance ==
    [down |-> 13, connect |-> 12, v1 |-> 11, v2 |-> 10, ca |-> 9, key |-> 7,
     crt |-> 5, count |-> 4, insert |-> 3, print |-> 2, serving |-> 0]
ToTruncate == IF pc \in CaFiles THEN IF disk[pc] # Torn THEN 1 ELSE 0 ELSE 0
Rank == Distance[pc] + ToTruncate

\* The faults that may still come, each of which may cost a whole start.
FaultsLeft == (MaxFaults - faults) + (MaxDbErrors - dbErrors)
Work == 14 * FaultsLeft + Rank

\* The work left is a number from 0 to 14 for every fault to come and 13 for
\* the start itself.
WorkBounded == Work \in 0..(14 * (MaxFaults + MaxDbErrors) + 13)

\* Every step of the process, of the database and of systemd leaves less
\* work than before, and a natural number still, until the panel serves with
\* no fault to come or is stuck: starts are not repeated for ever.
WorkShrinks == [][~Stuck => WorkBounded' /\ Work' < Work]_vars

\* The administrator exists and the process that knew the password ended
\* before it was printed (app.go:140-147).
PasswordLost == admin # None /\ admin \notin printed /\ pc # "print"

\* A lost password stays lost: no later start inserts or prints another one,
\* so nobody ever logs in to this panel.
LostForGood == [][PasswordLost => PasswordLost' /\ admin' = admin]_vars

\* It takes a fault between the insert and the print: a start that nothing
\* interrupts prints the password.
LostByFault == PasswordLost => faults + dbErrors > 0

----------------------------------------------------------------------------
\* When ca.crt is torn nothing was ever served and the process is at a step
\* that comes before the CA is loaded.
LEMMA StuckState ==
    ASSUME BootInv, Stuck
    PROVE  /\ ~CaMissing /\ ~Parses(disk["crt"]) /\ servedCas = {}
           /\ pc \in {"down", "connect", "v1", "v2", "ca"}
<1>1. disk["key"] # None /\ disk["crt"] = Torn /\ Torn # None /\ Torn \notin Cas
  BY ConstantsAssumption DEF Stuck, CaTorn
<1>2. servedCas = {}
  BY <1>1 DEF BootInv, CaInv, Pair
<1>3. pc \notin {"key", "crt", "count", "insert", "print", "serving"}
  BY <1>1 DEF Stuck, BootInv, CaInv, Pair
<1>4. QED
  BY <1>1, <1>2, <1>3 DEF CaMissing, Parses, CaFiles, BootInv, TypeOK, Steps

LEMMA StuckStep ==
    ASSUME BootInv, Stuck, [Next]_vars
    PROVE  Stuck' /\ pc' # "serving" /\ servedCas' = {}
<1> USE StuckState
<1>1. CASE Start \/ Connect
  BY <1>1 DEF Start, Connect, Stuck, CaTorn
<1>2. CASE Migrate(1, "v1", "v2") \/ Migrate(2, "v2", "ca")
  BY <1>2 DEF Migrate, Stuck, CaTorn
<1>3. CASE LoadCA
  BY <1>3 DEF LoadCA, Exit, Stuck, CaTorn
<1>4. CASE \/ GenerateCA \/ OpenFile \/ FillFile \/ NoUsers
           \/ HasUsers \/ InsertAdmin \/ PrintPassword
  BY <1>4 DEF GenerateCA, OpenFile, FillFile, NoUsers, HasUsers, InsertAdmin,
              PrintPassword, CaFiles
<1>5. CASE StatementFails \/ Dies
  BY <1>5 DEF StatementFails, Dies, Exit, Stuck, CaTorn
<1>6. CASE UNCHANGED vars
  BY <1>6 DEF vars, Stuck, CaTorn
<1>7. QED
  BY <1>1, <1>2, <1>3, <1>4, <1>5, <1>6 DEF Next, Boot

\* A panel whose ca.crt is torn never serves, however often systemd starts it.
THEOREM TornIsForGood == Spec => TornForGood
<1>1. BootInv /\ [Next]_vars => [Stuck => Stuck' /\ pc' # "serving" /\ servedCas' = {}]_vars
  BY StuckStep
<1>2. QED
  BY <1>1, BootInvariant, PTL DEF Spec, TornForGood

\* A start fails only by a fault or a torn ca.crt.
THEOREM StartsAreNotBlocked ==
    ASSUME NEW c \in Cas, NEW d \in Cas, c # d, Passwords # {}
    PROVE  Spec => []NothingBlocks
<1>1. BootInv => NothingBlocks
  <2> SUFFICES ASSUME BootInv, ~Stuck
               PROVE  NothingBlocks
    BY DEF NothingBlocks
  <2>1. \A v \in Versions : v \in applied \/ v \notin tables
    BY DEF BootInv, SchemaInv
  <2>2. ASSUME pc = "ca", ~CaMissing
        PROVE  Parses(disk["key"]) /\ Parses(disk["crt"])
    BY <2>2, ConstantsAssumption
       DEF CaMissing, Stuck, CaTorn, Parses, CaFiles, BootInv, TypeOK, CaInv
  <2>3. ASSUME pc = "ca", CaMissing
        PROVE  Cas \ (servedCas \cup {disk["key"], disk["crt"]}) # {}
    <3>1. disk["crt"] = None
      BY <2>3, ConstantsAssumption DEF CaMissing, CaFiles, BootInv, CaInv
    <3>2. servedCas = {}
      BY <3>1, ConstantsAssumption DEF BootInv, CaInv, Pair
    <3>3. QED
      BY <3>1, <3>2, ConstantsAssumption
  <2>4. ASSUME pc = "count", admin = None
        PROVE  Passwords \ printed # {}
    BY <2>4, ConstantsAssumption DEF BootInv, AdminInv, TypeOK
  <2>5. QED
    BY <2>1, <2>2, <2>3, <2>4 DEF NothingBlocks
<1>2. QED
  BY <1>1, BootInvariant, PTL

----------------------------------------------------------------------------
LEMMA RankType ==
    ASSUME TypeOK
    PROVE  Rank \in 0..13 /\ FaultsLeft \in 0..(MaxFaults + MaxDbErrors)
<1>1. FaultsLeft \in 0..(MaxFaults + MaxDbErrors)
  BY ConstantsAssumption DEF TypeOK, FaultsLeft
<1>2. ToTruncate \in {0, 1} /\ (pc \notin CaFiles => ToTruncate = 0)
  BY DEF ToTruncate
<1>3. Rank \in 0..13
  BY <1>2 DEF TypeOK, Steps, CaFiles, Rank, Distance
<1>4. QED
  BY <1>1, <1>3

LEMMA RankTypeNext ==
    ASSUME TypeOK'
    PROVE  Rank' \in 0..13
<1>1. ToTruncate' \in {0, 1} /\ (pc' \notin CaFiles => ToTruncate' = 0)
  BY DEF ToTruncate
<1>2. QED
  BY <1>1 DEF TypeOK, Steps, CaFiles, Rank, Distance

LEMMA Weighted ==
    ASSUME NEW m \in Int, NEW n \in Int, NEW i \in 0..13, NEW j \in 0..13,
           n = m - 1 \/ (n = m /\ j < i)
    PROVE  14 * n + j < 14 * m + i
OBVIOUS

\* One fault less outweighs a whole start.
LEMMA FaultShrinks ==
    ASSUME TypeOK, TypeOK', FaultsLeft' = FaultsLeft - 1
    PROVE  Work' < Work
<1>1. Rank \in 0..13 /\ FaultsLeft \in Int
  BY RankType, ConstantsAssumption
<1>2. Rank' \in 0..13 /\ FaultsLeft' \in Int
  BY <1>1, RankTypeNext
<1>3. 14 * FaultsLeft' + Rank' < 14 * FaultsLeft + Rank
  BY <1>1, <1>2, Weighted
<1>4. QED
  BY <1>3 DEF Work

\* A step of the process or of systemd is one towards serving.
LEMMA BootShrinks ==
    ASSUME BootInv, BootInv', ~Stuck, Boot
    PROVE  Work' < Work
<1>1. /\ Rank \in 0..13 /\ Rank' \in 0..13
      /\ FaultsLeft \in Int
      /\ TypeOK
  BY RankType, RankTypeNext, ConstantsAssumption DEF BootInv
<1>2. FaultsLeft' = FaultsLeft
  BY DEF Boot, Start, Connect, Migrate, LoadCA, GenerateCA, OpenFile, FillFile,
         NoUsers, HasUsers, InsertAdmin, PrintPassword, NoFault, FaultsLeft
<1>3. Rank' < Rank
  <2>1. CASE Start \/ Connect
    BY <2>1 DEF Start, Connect, Rank, Distance, ToTruncate, CaFiles
  <2>2. CASE Migrate(1, "v1", "v2") \/ Migrate(2, "v2", "ca")
    BY <2>2 DEF Migrate, Rank, Distance, ToTruncate, CaFiles
  <2>3. CASE LoadCA
    <3>1. Parses(disk["key"]) /\ Parses(disk["crt"])
      BY <1>1, <2>3, ConstantsAssumption
         DEF LoadCA, CaMissing, Stuck, CaTorn, Parses, CaFiles, TypeOK, BootInv, CaInv
    <3>2. QED
      BY <2>3, <3>1 DEF LoadCA, Rank, Distance, ToTruncate, CaFiles
  <2>4. CASE GenerateCA
    BY <2>4 DEF GenerateCA, Rank, Distance, ToTruncate, CaFiles
  <2>5. CASE OpenFile
    <3>1. pc' = pc /\ disk[pc] # Torn /\ disk'[pc] = Torn /\ pc \in CaFiles
      BY <1>1, <2>5 DEF OpenFile, TypeOK
    <3>2. QED
      BY <3>1 DEF Rank, Distance, ToTruncate, CaFiles
  <2>6. CASE FillFile
    <3>1. /\ pc \in CaFiles /\ disk[pc] = Torn /\ pc' = AfterFile[pc]
      BY <2>6 DEF FillFile
    <3>2. QED
      BY <3>1 DEF AfterFile, Rank, Distance, ToTruncate, CaFiles
  <2>7. CASE NoUsers \/ InsertAdmin
    BY <2>7 DEF NoUsers, InsertAdmin, Rank, Distance, ToTruncate, CaFiles
  <2>8. CASE HasUsers \/ PrintPassword
    BY <2>8 DEF HasUsers, PrintPassword, Serve, Rank, Distance, ToTruncate, CaFiles
  <2>9. QED
    BY <2>1, <2>2, <2>3, <2>4, <2>5, <2>6, <2>7, <2>8 DEF Boot
<1>4. FaultsLeft' \in Int
  BY <1>1, <1>2
<1>5. 14 * FaultsLeft' + Rank' < 14 * FaultsLeft + Rank
  BY <1>1, <1>2, <1>3, <1>4, Weighted
<1>6. QED
  BY <1>5 DEF Work

LEMMA StepShrinks ==
    ASSUME BootInv, BootInv', ~Stuck, Next
    PROVE  Work' < Work
<1>1. CASE Boot
  BY <1>1, BootShrinks
<1>2. CASE StatementFails \/ Dies
  <2>1. \/ faults' = faults + 1 /\ dbErrors' = dbErrors
        \/ faults' = faults /\ dbErrors' = dbErrors + 1
    BY <1>2 DEF StatementFails, Dies, DbError
  <2>2. FaultsLeft' = FaultsLeft - 1
    <3>1. MaxFaults \in Int /\ MaxDbErrors \in Int /\ faults \in Int /\ dbErrors \in Int
      BY ConstantsAssumption DEF BootInv, TypeOK
    <3>2. FaultsLeft' = (MaxFaults - faults') + (MaxDbErrors - dbErrors')
      BY DEF FaultsLeft
    <3>3. QED
      BY <2>1, <3>1, <3>2 DEF FaultsLeft
  <2>3. QED
    BY <2>2, FaultShrinks DEF BootInv
<1>3. QED
  BY <1>1, <1>2 DEF Next

\* The measure is a natural number with a bound, by its range alone.
LEMMA WorkIsBounded == Spec => []WorkBounded
<1>1. BootInv => WorkBounded
  <2> SUFFICES ASSUME BootInv
               PROVE  WorkBounded
    OBVIOUS
  <2>1. Rank \in 0..13 /\ FaultsLeft \in 0..(MaxFaults + MaxDbErrors)
    BY RankType DEF BootInv
  <2>2. QED
    BY <2>1, ConstantsAssumption DEF WorkBounded, Work
<1>2. QED
  BY <1>1, BootInvariant, PTL

\* Every step of a start that is not stuck, faults and restarts included,
\* leaves less of a work that is a natural number (app.go:33-110).
THEOREM WorkAlwaysShrinks == Spec => WorkShrinks
<1>1. BootInv /\ BootInv' /\ [Next]_vars => [~Stuck => Work' < Work]_vars
  BY StepShrinks
<1>2. QED
  BY <1>1, BootInvariant, WorkIsBounded, PTL DEF Spec, WorkShrinks

----------------------------------------------------------------------------
LEMMA LostStep ==
    ASSUME BootInv, PasswordLost, [Next]_vars
    PROVE  PasswordLost' /\ admin' = admin
<1> USE DEF PasswordLost
<1>1. pc # "insert"
  BY DEF BootInv, AdminInv
<1>2. admin' = admin
  BY <1>1 DEF Next, Boot, Start, Connect, Migrate, LoadCA, GenerateCA, OpenFile,
              FillFile, NoUsers, HasUsers, InsertAdmin, PrintPassword,
              StatementFails, Dies, dbVars, vars
<1>3. printed' = printed
  BY DEF Next, Boot, Start, Connect, Migrate, LoadCA, GenerateCA, OpenFile,
         FillFile, NoUsers, HasUsers, InsertAdmin, PrintPassword,
         StatementFails, Dies, vars
<1>4. pc' # "print"
  BY <1>1 DEF Next, Boot, Start, Connect, Migrate, LoadCA, GenerateCA, OpenFile,
              FillFile, AfterFile, CaFiles, NoUsers, HasUsers, InsertAdmin,
              PrintPassword, StatementFails, Dies, Exit, Serve, vars
<1>5. QED
  BY <1>2, <1>3, <1>4

\* A password that was lost is lost for good.
THEOREM LostIsForGood == Spec => LostForGood
<1>1. BootInv /\ [Next]_vars => [PasswordLost => PasswordLost' /\ admin' = admin]_vars
  BY LostStep
<1>2. QED
  BY <1>1, BootInvariant, PTL DEF Spec, LostForGood

\* Without a fault the password is printed.
THEOREM LostOnlyByFault == Spec => []LostByFault
<1>1. Init => LostByFault
  BY DEF Init, LostByFault, PasswordLost
<1>2. BootInv /\ LostByFault /\ [Next]_vars => LostByFault'
  <2> SUFFICES ASSUME BootInv, LostByFault, [Next]_vars, PasswordLost'
               PROVE  faults' + dbErrors' > 0
    BY DEF LostByFault
  <2> USE DEF LostByFault, PasswordLost
  <2>1. faults \in Nat /\ dbErrors \in Nat
    BY ConstantsAssumption DEF BootInv, TypeOK
  <2>2. CASE StatementFails \/ Dies
    BY <2>1, <2>2 DEF StatementFails, Dies, DbError
  <2>3. CASE InsertAdmin \/ PrintPassword
    BY <2>3 DEF InsertAdmin, PrintPassword, dbVars, BootInv, AdminInv
  <2>4. CASE UNCHANGED vars
    BY <2>4 DEF vars, dbVars
  <2>5. CASE \/ Start \/ Connect
             \/ Migrate(1, "v1", "v2") \/ Migrate(2, "v2", "ca")
             \/ LoadCA \/ GenerateCA \/ OpenFile \/ FillFile
             \/ NoUsers \/ HasUsers
    <3>1. UNCHANGED <<admin, printed, faults, dbErrors>> /\ pc # "print"
      BY <2>5 DEF Start, Connect, Migrate, LoadCA, GenerateCA, OpenFile, FillFile,
                  NoUsers, HasUsers, NoFault, dbVars, CaFiles
    <3>2. QED
      BY <3>1
  <2>6. QED
    BY <2>2, <2>3, <2>4, <2>5 DEF Next, Boot
<1>3. QED
  BY <1>1, <1>2, BootInvariant, PTL DEF Spec

============================================================================
