----------------------------- MODULE PanelBoot -----------------------------
(***************************************************************************)
(* How the panel starts (app.go, NewApp): it connects to the database,     *)
(* migrates it (migrate.go), loads or creates its certificate authority in *)
(* two files (ca.go, LoadOrCreate), and, when there are no users, inserts  *)
(* an administrator with a random password and prints the password once    *)
(* (app.go, ensureBootstrapAdmin).  Any error ends the process, systemd    *)
(* starts it again, and database, files and what was printed are all that  *)
(* stays.                                                                  *)
(***************************************************************************)
EXTENDS Naturals, FiniteSets

CONSTANTS
    Cas,          \* key pairs the panel may generate for its CA
    Passwords,    \* passwords it may generate
    None,         \* "no value": no such row, no such file
    Torn,         \* a file that was truncated and not yet written
    MaxFaults,    \* bound: crashes and stops
    MaxDbErrors   \* bound: statements that fail

ASSUME ConstantsAssumption ==
    /\ None \notin Cas \cup Passwords
    /\ Torn \notin Cas \cup {None}
    /\ MaxFaults \in Nat
    /\ MaxDbErrors \in Nat

VARIABLES
    pc,         \* where the process is
    applied,    \* rows of schema_migrations
    tables,     \* the tables that exist, by the migration that creates them
    admin,      \* users: the password of the administrator, if there is one
    disk,       \* the files ca.key and ca.crt
    ca,         \* the CA in memory
    password,   \* the password ensureBootstrapAdmin holds
    printed,    \* history: what the journal has
    servedCas,  \* history: the CA certificates the panel has served with
    faults,
    dbErrors

dbVars == <<applied, tables, admin>>
memVars == <<ca, password>>
vars == <<pc, dbVars, disk, memVars, printed, servedCas, faults, dbErrors>>

Versions == {1, 2}
CaFiles == {"key", "crt"}
Steps == {"down", "connect", "v1", "v2", "ca", "key", "crt",
          "count", "insert", "print", "serving"}

NoCA == [key |-> None, crt |-> None]

\* Names that start with Bug are faulty variants of the definition after
\* them: mistakes the properties have to notice.  No action uses them.
BugAlwaysMissing == TRUE

\* os.ReadFile fails for one of the two files.
CaMissing == \E f \in CaFiles : disk[f] = None

\* ca.crt is left out.
BugForgetsCrt == [key |-> "count", crt |-> "count"]

\* The key is written first, then the certificate.
AfterFile == [key |-> "crt", crt |-> "count"]

\* The process ends; what it had in memory is gone.
Exit ==
    /\ pc' = "down"
    /\ ca' = NoCA
    /\ password' = None

DbError == dbErrors < MaxDbErrors /\ dbErrors' = dbErrors + 1
NoFault == UNCHANGED <<faults, dbErrors>>

----------------------------------------------------------------------------
Init ==
    /\ pc = "down"
    /\ applied = {} /\ tables = {} /\ admin = None
    /\ disk = NoCA
    /\ ca = NoCA /\ password = None
    /\ printed = {} /\ servedCas = {}
    /\ faults = 0 /\ dbErrors = 0

\* systemd starts the unit (Restart=always).
Start ==
    /\ pc = "down"
    /\ pc' = "connect"
    /\ UNCHANGED <<dbVars, disk, memVars, printed, servedCas>> /\ NoFault

\* PingContext, and the two statements that are "if not exists" throughout.
Connect ==
    /\ pc = "connect"
    /\ pc' = "v1"
    /\ UNCHANGED <<dbVars, disk, memVars, printed, servedCas>> /\ NoFault

\* The tables are created and the version is not recorded.
BugUnrecorded(v) ==
    IF v \in applied
    THEN UNCHANGED <<applied, tables>>
    ELSE /\ v \notin tables
         /\ tables' = tables \cup {v}
         /\ UNCHANGED applied

\* A DO block: one transaction that does nothing when its version is
\* recorded, and that a table it creates must not stand in the way of.
Block(v) ==
    IF v \in applied
    THEN UNCHANGED <<applied, tables>>
    ELSE /\ v \notin tables
         /\ tables' = tables \cup {v}
         /\ applied' = applied \cup {v}

Migrate(v, step, next) ==
    /\ pc = step
    /\ Block(v)
    /\ pc' = next
    /\ UNCHANGED <<admin, disk, memVars, printed, servedCas>> /\ NoFault

\* Lines 30-38: both files can be read, and parse only if they are whole.
\* Whether they belong together is not looked at.
BugNoParse(file) == TRUE

Parses(file) == file \in Cas

LoadCA ==
    /\ pc = "ca"
    /\ ~CaMissing
    /\ \/ /\ Parses(disk["key"]) /\ Parses(disk["crt"])
          /\ ca' = disk
          /\ pc' = "count"
          /\ UNCHANGED password
       \/ /\ ~(Parses(disk["key"]) /\ Parses(disk["crt"]))
          /\ Exit
    /\ UNCHANGED <<dbVars, disk, printed, servedCas>> /\ NoFault

\* Lines 39-70: a file is missing, so a new pair replaces both.
GenerateCA ==
    /\ pc = "ca"
    /\ CaMissing
    /\ \E c \in Cas \ (servedCas \cup {disk["key"], disk["crt"]}) :
         ca' = [key |-> c, crt |-> c]
    /\ pc' = "key"
    /\ UNCHANGED <<dbVars, disk, password, printed, servedCas>> /\ NoFault

\* Lines 72-77: os.WriteFile truncates the file, then writes it.
OpenFile ==
    /\ pc \in CaFiles
    /\ disk[pc] # Torn
    /\ disk' = [disk EXCEPT ![pc] = Torn]
    /\ UNCHANGED <<pc, dbVars, memVars, printed, servedCas>> /\ NoFault

FillFile ==
    /\ pc \in CaFiles
    /\ disk[pc] = Torn
    /\ disk' = [disk EXCEPT ![pc] = ca[pc]]
    /\ pc' = AfterFile[pc]
    /\ UNCHANGED <<dbVars, memVars, printed, servedCas>> /\ NoFault

\* ListenAndServe.
Serve ==
    /\ pc' = "serving"
    /\ servedCas' = servedCas \cup {ca["crt"]}

\* The password is printed before the administrator exists.
BugPrintsFirst ==
    /\ pc = "count"
    /\ admin = None
    /\ \E p \in Passwords \ printed : password' = p /\ printed' = printed \cup {p}
    /\ pc' = "insert"
    /\ UNCHANGED <<dbVars, disk, ca, servedCas>> /\ NoFault

\* Lines 122-138 of app.go: no users, so a password is drawn.
NoUsers ==
    /\ pc = "count"
    /\ admin = None
    /\ \E p \in Passwords \ printed : password' = p
    /\ pc' = "insert"
    /\ UNCHANGED <<dbVars, disk, ca, printed, servedCas>> /\ NoFault

HasUsers ==
    /\ pc = "count"
    /\ admin # None
    /\ Serve
    /\ UNCHANGED <<dbVars, disk, memVars, printed>> /\ NoFault

\* Line 140.
InsertAdmin ==
    /\ pc = "insert"
    /\ admin' = password
    /\ pc' = "print"
    /\ UNCHANGED <<applied, tables, disk, memVars, printed, servedCas>> /\ NoFault

\* Lines 146-147.
PrintPassword ==
    /\ pc = "print"
    /\ printed' = printed \cup {password}
    /\ Serve
    /\ UNCHANGED <<dbVars, disk, memVars>> /\ NoFault

\* A statement fails, or its result is lost after the database applied it:
\* NewApp returns the error.
StatementFails ==
    /\ DbError
    /\ \/ /\ pc \in {"connect", "v1", "v2", "count", "insert"}
          /\ UNCHANGED dbVars
       \/ /\ \E v \in Versions : pc = <<"v1", "v2">>[v] /\ Block(v)
          /\ UNCHANGED admin
       \/ /\ pc = "insert"
          /\ admin' = password
          /\ UNCHANGED <<applied, tables>>
    /\ Exit
    /\ UNCHANGED <<disk, printed, servedCas, faults>>

\* The process crashes or is stopped, at any point.
Dies ==
    /\ pc # "down"
    /\ faults < MaxFaults
    /\ faults' = faults + 1
    /\ Exit
    /\ UNCHANGED <<dbVars, disk, printed, servedCas, dbErrors>>

Boot ==
    \/ Start \/ Connect
    \/ Migrate(1, "v1", "v2") \/ Migrate(2, "v2", "ca")
    \/ LoadCA \/ GenerateCA \/ OpenFile \/ FillFile
    \/ NoUsers \/ HasUsers \/ InsertAdmin \/ PrintPassword

Next == Boot \/ StatementFails \/ Dies

\* systemd restarts the process and the process goes on.
Spec == Init /\ [][Next]_vars /\ WF_vars(Boot)

----------------------------------------------------------------------------
(* Properties.                                                             *)

\* Every variable has its type: the type invariant of the module.
TypeOK ==
    /\ pc \in Steps
    /\ applied \subseteq Versions /\ tables \subseteq Versions
    /\ admin \in Passwords \cup {None}
    /\ disk \in [CaFiles -> Cas \cup {None, Torn}]
    /\ ca \in [CaFiles -> Cas \cup {None}]
    /\ password \in Passwords \cup {None}
    /\ printed \subseteq Passwords
    /\ servedCas \subseteq Cas
    /\ faults \in 0..MaxFaults
    /\ dbErrors \in 0..MaxDbErrors

\* Agents keep the CA they enrolled with for ever, so the panel never serves
\* with a second one, wherever crashes hit the two writes of LoadOrCreate.
OneCA == Cardinality(servedCas) <= 1

\* A panel that serves has both halves of one CA in memory and on disk, the
\* whole schema, and a user who can log in.
ServesWhole ==
    pc = "serving" =>
        /\ \E c \in Cas : ca = [key |-> c, crt |-> c] /\ disk = ca
        /\ applied = Versions /\ tables = Versions
        /\ admin # None

\* Whoever finds a password in the journal can log in with it: printing
\* comes after the insert (app.go:140-147).
PrintedWorks == printed \subseteq {admin}

\* LoadOrCreate was interrupted while it wrote ca.crt: both files are there
\* and do not parse, at this start and at every later one.
CaTorn == disk["key"] # None /\ disk["crt"] = Torn

\* However starts are interrupted, by crashes or by the database, the panel
\* comes up in the end and stays up, unless ca.crt is torn.
ComesUp == <>[](pc = "serving" \/ CaTorn)

\* app.go:121 and app.go:149: the password of the bootstrap administrator is
\* printed.
PasswordIsPrinted == pc = "serving" => admin \in printed

============================================================================
