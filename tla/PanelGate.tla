----------------------------- MODULE PanelGate -----------------------------
(***************************************************************************)
(* What stands before every page of the panel (httpapi.go): the login and  *)
(* its sessions in the database, requireSession, requireLicense and the    *)
(* form that submits a licence key (license.go).                           *)
(*                                                                         *)
(* A login that passes draws a fresh session id, so an element of Logins   *)
(* names the request, the session row and the cookie signed for it.        *)
(* Requests are the later ones, of pages and of the licence form; between  *)
(* reading the key and acting on it lie up to three seconds in which the   *)
(* panel asks for its own address (getOutboundIP).                         *)
(***************************************************************************)
EXTENDS Naturals

CONSTANTS
    Browsers,   \* browsers of administrators
    Logins,     \* POST /login requests that have a session id
    Requests,   \* requests behind requireSession
    Keys,       \* licence keys
    GoodKeys,   \* those VerifyLicense calls valid
    None,       \* no cookie, no key, no row
    MaxFaults   \* bound: failing statements, lost replies, stops of the panel

ASSUME GateAssumption ==
    /\ GoodKeys \subseteq Keys
    /\ None \notin Browsers \cup Logins \cup Keys
    /\ MaxFaults \in Nat

VARIABLES
    longKey,  \* whether VPSPANEL_COOKIE_KEY has the 32 bytes sign asks for
    rows,     \* sessions: the ids that have a row
    expired,  \* the sessions whose expires_at has passed
    left,     \* history: the sessions whose browser has logged out
    stored,   \* settings: the value of license_key, or None
    jar,      \* the session each browser's cookie names
    lpc,      \* where each login is
    lfrom,    \* the browser that waits for it
    pc,       \* where each request is, or where it was sent
    carries,  \* the session its cookie names
    key,      \* the licence key it submits, or has read
    fresh,    \* history: its session had not expired when it was sent
    faults    \* faults so far

loginVars == <<jar, lpc, lfrom>>
requestVars == <<pc, carries, key, fresh>>
gateVars == <<longKey, rows, expired, left, stored, loginVars, requestVars, faults>>

----------------------------------------------------------------------------
(* Helpers.                                                                *)

\* VerifyLicense: the prefixes of the demo mode, whatever the address is.
Accepts(k) == k \in GoodKeys

\* A request that is not under way: never sent, or answered.
Settled == {"idle", "toLogin", "toLicence"}

Settle(r, result) ==
    /\ pc' = [pc EXCEPT ![r] = result]
    /\ carries' = [carries EXCEPT ![r] = None]
    /\ key' = [key EXCEPT ![r] = None]
    /\ fresh' = [fresh EXCEPT ![r] = FALSE]

\* The login is over and its browser has no cookie for it; without a row it
\* has left no trace, and its name is used again.
LoginEnds(l, hasRow) ==
    /\ lpc' = [lpc EXCEPT ![l] = IF hasRow THEN "failed" ELSE "free"]
    /\ lfrom' = [lfrom EXCEPT ![l] = None]

Fault == faults < MaxFaults /\ faults' = faults + 1

GateInit ==
    /\ longKey \in BOOLEAN
    /\ rows = {} /\ expired = {} /\ left = {} /\ stored = None
    /\ jar = [b \in Browsers |-> None]
    /\ lpc = [l \in Logins |-> "free"]
    /\ lfrom = [l \in Logins |-> None]
    /\ pc = [r \in Requests |-> "idle"]
    /\ carries = [r \in Requests |-> None]
    /\ key = [r \in Requests |-> None]
    /\ fresh = [r \in Requests |-> FALSE]
    /\ faults = 0

----------------------------------------------------------------------------
(* login and logout.                                                       *)

StartLogin(l, b) ==
    /\ lpc[l] = "free"
    /\ lpc' = [lpc EXCEPT ![l] = "select"]
    /\ lfrom' = [lfrom EXCEPT ![l] = b]
    /\ UNCHANGED <<longKey, left, rows, expired, stored, jar, requestVars, faults>>

\* No such user, an error of the select, or the wrong password: 401.
RefuseLogin(l) ==
    /\ lpc[l] = "select"
    /\ LoginEnds(l, FALSE)
    /\ UNCHANGED <<longKey, left, rows, expired, stored, jar, requestVars, faults>>

Authenticate(l) ==
    /\ lpc[l] = "select"
    /\ lpc' = [lpc EXCEPT ![l] = "insert"]
    /\ UNCHANGED <<longKey, left, rows, expired, stored, jar, lfrom, requestVars, faults>>

InsertSession(l) ==
    /\ lpc[l] = "insert"
    /\ rows' = rows \cup {l}
    /\ lpc' = [lpc EXCEPT ![l] = "sign"]
    /\ UNCHANGED <<longKey, left, expired, stored, jar, lfrom, requestVars, faults>>

\* The error of the insert is not looked at.
BugInsertError(l) ==
    /\ lpc[l] = "insert"
    /\ Fault
    /\ lpc' = [lpc EXCEPT ![l] = "sign"]
    /\ UNCHANGED <<longKey, left, rows, expired, stored, jar, lfrom, requestVars>>

\* The insert fails, or its result is lost after it was carried out: 500.
InsertError(l) ==
    /\ lpc[l] = "insert"
    /\ Fault
    /\ \E done \in BOOLEAN :
         /\ rows' = IF done THEN rows \cup {l} ELSE rows
         /\ LoginEnds(l, done)
    /\ UNCHANGED <<longKey, left, expired, stored, jar, requestVars>>

\* sign refuses a key of less than 32 bytes, with the row inserted; else
\* the reply with the cookie is under way.
SignCookie(l) ==
    /\ lpc[l] = "sign"
    /\ IF longKey
       THEN lpc' = [lpc EXCEPT ![l] = "sent"] /\ UNCHANGED lfrom
       ELSE LoginEnds(l, TRUE)
    /\ UNCHANGED <<longKey, left, rows, expired, stored, jar, requestVars, faults>>

ReceiveCookie(l) ==
    /\ lpc[l] = "sent"
    /\ jar' = [jar EXCEPT ![lfrom[l]] = l]
    /\ lpc' = [lpc EXCEPT ![l] = "done"]
    /\ lfrom' = [lfrom EXCEPT ![l] = None]
    /\ UNCHANGED <<longKey, left, rows, expired, stored, requestVars, faults>>

\* The browser leaves, or the reply is lost.
LoginCut(l) ==
    /\ lpc[l] \in {"select", "insert", "sign", "sent"}
    /\ Fault
    /\ LoginEnds(l, l \in rows)
    /\ UNCHANGED <<longKey, left, rows, expired, stored, jar, requestVars>>

\* Every session of the user ends.
BugLogout(b) ==
    /\ jar[b] # None
    /\ rows' = {}
    /\ jar' = [jar EXCEPT ![b] = None]
    /\ left' = left \cup {jar[b]}
    /\ UNCHANGED <<longKey, expired, stored, lpc, lfrom, requestVars, faults>>

\* logout clears the cookie, and only that; a browser does the same by
\* itself when the cookie's Expires has passed.
Logout(b) ==
    /\ jar[b] # None
    /\ jar' = [jar EXCEPT ![b] = None]
    /\ left' = left \cup {jar[b]}
    /\ UNCHANGED <<longKey, rows, expired, stored, lpc, lfrom, requestVars, faults>>

\* The 24 hours of a session pass.
ExpireSession(l) ==
    /\ l \in rows \ expired
    /\ expired' = expired \cup {l}
    /\ UNCHANGED <<longKey, left, rows, stored, loginVars, requestVars, faults>>

----------------------------------------------------------------------------
(* Requests behind requireSession: k is the key of the licence form, or    *)
(* None for a page.                                                        *)

Send(r, b, k) ==
    /\ pc[r] \in Settled
    /\ pc' = [pc EXCEPT ![r] = "session"]
    /\ carries' = [carries EXCEPT ![r] = jar[b]]
    /\ key' = [key EXCEPT ![r] = k]
    /\ fresh' = [fresh EXCEPT ![r] = jar[b] \notin {None} \cup expired]
    /\ UNCHANGED <<longKey, left, rows, expired, stored, loginVars, faults>>

\* requireSession: the cookie verifies, the row is there, the time is not up.
SessionHolds(r) == carries[r] \in rows \ expired

CheckSession(r) ==
    /\ pc[r] = "session"
    /\ IF SessionHolds(r)
       THEN /\ pc' = [pc EXCEPT ![r] = IF key[r] = None THEN "licence" ELSE "submit"]
            /\ UNCHANGED <<carries, key, fresh>>
       ELSE Settle(r, "toLogin")
    /\ UNCHANGED <<longKey, left, rows, expired, stored, loginVars, faults>>

\* An error of the select counts as "no session".
SessionError(r) ==
    /\ pc[r] = "session"
    /\ Fault
    /\ Settle(r, "toLogin")
    /\ UNCHANGED <<longKey, left, rows, expired, stored, loginVars>>

\* requireLicense reads the key.
ReadKey(r) ==
    /\ pc[r] = "licence"
    /\ IF stored = None
       THEN Settle(r, "toLicence")
       ELSE /\ key' = [key EXCEPT ![r] = stored]
            /\ pc' = [pc EXCEPT ![r] = "verify"]
            /\ UNCHANGED <<carries, fresh>>
    /\ UNCHANGED <<longKey, left, rows, expired, stored, loginVars, faults>>

\* An error of the select counts as "no key".
ReadKeyError(r) ==
    /\ pc[r] = "licence"
    /\ Fault
    /\ Settle(r, "toLicence")
    /\ UNCHANGED <<longKey, left, rows, expired, stored, loginVars>>

\* An address that cannot be found out counts against the key.
BugVerifyKey(r) ==
    /\ pc[r] = "verify"
    /\ \E addressKnown \in BOOLEAN :
         IF Accepts(key[r]) /\ addressKnown
         THEN /\ pc' = [pc EXCEPT ![r] = "served"]
              /\ UNCHANGED <<stored, carries, key, fresh>>
         ELSE stored' = None /\ Settle(r, "toLicence")
    /\ UNCHANGED <<longKey, left, rows, expired, loginVars, faults>>

\* Up to three seconds later: a key that does not pass is deleted, which
\* means whatever key is stored by then.
VerifyKey(r) ==
    /\ pc[r] = "verify"
    /\ IF Accepts(key[r])
       THEN /\ pc' = [pc EXCEPT ![r] = "served"]
            /\ UNCHANGED <<stored, carries, key, fresh>>
       ELSE stored' = None /\ Settle(r, "toLicence")
    /\ UNCHANGED <<longKey, left, rows, expired, loginVars, faults>>

\* The key is stored first and verified by the pages.
BugSubmitKey(r) ==
    /\ pc[r] = "submit"
    /\ stored' = key[r]
    /\ Settle(r, "idle")
    /\ UNCHANGED <<longKey, left, rows, expired, loginVars, faults>>

\* licenseSubmit: a key that passes replaces the one that is there.
SubmitKey(r) ==
    /\ pc[r] = "submit"
    /\ IF Accepts(key[r])
       THEN stored' = key[r] /\ Settle(r, "idle")
       ELSE UNCHANGED stored /\ Settle(r, "toLicence")
    /\ UNCHANGED <<longKey, left, rows, expired, loginVars, faults>>

\* The upsert fails, or its result is lost.
SubmitError(r) ==
    /\ pc[r] = "submit"
    /\ Accepts(key[r])
    /\ Fault
    /\ stored' \in {stored, key[r]}
    /\ Settle(r, "toLicence")
    /\ UNCHANGED <<longKey, left, rows, expired, loginVars>>

\* The page's own handler is done.
Finish(r) ==
    /\ pc[r] = "served"
    /\ Settle(r, "idle")
    /\ UNCHANGED <<longKey, left, rows, expired, stored, loginVars, faults>>

\* The browser leaves: the context is cancelled, every statement still to
\* come fails, and nobody sees the answer.
Cancel(r) ==
    /\ pc[r] \notin Settled
    /\ Settle(r, "idle")
    /\ UNCHANGED <<longKey, left, rows, expired, stored, loginVars, faults>>

\* The panel ends where it is and is started again: rows, key and cookies
\* stay, and so does the cookie key, which is in the unit's environment.
PanelStops ==
    /\ Fault
    /\ lpc' = [l \in Logins |->
                 IF lpc[l] \notin {"select", "insert", "sign"} THEN lpc[l]
                 ELSE IF l \in rows THEN "failed" ELSE "free"]
    /\ lfrom' = [l \in Logins |-> IF lpc[l] = "sent" THEN lfrom[l] ELSE None]
    /\ pc' = [r \in Requests |-> IF pc[r] \in Settled THEN pc[r] ELSE "idle"]
    /\ carries' = [r \in Requests |-> None]
    /\ key' = [r \in Requests |-> None]
    /\ fresh' = [r \in Requests |-> FALSE]
    /\ UNCHANGED <<longKey, left, rows, expired, stored, jar>>

----------------------------------------------------------------------------
LoginStep(l) ==
    \/ \E b \in Browsers : StartLogin(l, b)
    \/ RefuseLogin(l) \/ Authenticate(l) \/ InsertSession(l) \/ InsertError(l)
    \/ SignCookie(l) \/ ReceiveCookie(l) \/ LoginCut(l) \/ ExpireSession(l)

RequestStep(r) ==
    \/ CheckSession(r) \/ SessionError(r) \/ ReadKey(r) \/ ReadKeyError(r)
    \/ VerifyKey(r) \/ SubmitKey(r) \/ SubmitError(r) \/ Finish(r) \/ Cancel(r)

SendSome(r) == \E b \in Browsers, k \in Keys \cup {None} : Send(r, b, k)

\* What happens by itself, requests being sent apart.
GateStep ==
    \/ \E l \in Logins : LoginStep(l)
    \/ \E b \in Browsers : Logout(b)
    \/ \E r \in Requests : RequestStep(r)
    \/ PanelStops

GateNext == GateStep \/ \E r \in Requests : SendSome(r)

GateSpec == GateInit /\ [][GateNext]_gateVars

----------------------------------------------------------------------------
(* Properties.                                                             *)

\* Every variable has its type: the type invariant of the module.
GateTypeOK ==
    /\ longKey \in BOOLEAN
    /\ rows \subseteq Logins /\ expired \subseteq rows /\ left \subseteq Logins
    /\ stored \in Keys \cup {None}
    /\ jar \in [Browsers -> Logins \cup {None}]
    /\ lpc \in [Logins -> {"free", "select", "insert", "sign", "sent", "done", "failed"}]
    /\ lfrom \in [Logins -> Browsers \cup {None}]
    /\ pc \in [Requests -> {"session", "licence", "verify", "submit", "served"} \cup Settled]
    /\ carries \in [Requests -> Logins \cup {None}]
    /\ key \in [Requests -> Keys \cup {None}]
    /\ fresh \in [Requests -> BOOLEAN]
    /\ faults \in 0..MaxFaults

Cookies == {jar[b] : b \in Browsers} \cup {carries[r] : r \in Requests}

\* A cookie that is anywhere names a session row, however inserts fail and
\* logins overlap; and a row whose cookie nobody was sent is the work of a
\* short cookie key, which lets nobody in, or of a fault (148-168).
RowsMatchCookies ==
    /\ Cookies \subseteq rows \cup {None}
    /\ ~longKey => Cookies \subseteq {None}
    /\ longKey /\ faults = 0 => \A l \in rows : lpc[l] \in {"sign", "sent", "done"}

\* A page is served only to a request whose session had not expired when it
\* was sent and which still has its row, while a licence key is stored: the
\* check of the key is not overtaken by its deletion (182-201, 259-283).
ServedIsEntitled ==
    \A r \in Requests : pc[r] = "served" =>
        fresh[r] /\ carries[r] \in rows /\ stored # None

\* Once it has a licence key the panel never is without one: keys are
\* verified before they are stored, so requireLicense never finds one to
\* delete, least of all one submitted while it was busy (182-201, 214-244).
LicenceStays == [][stored # None => stored' # None]_gateVars

\* Nobody is turned away without cause.  A request is sent to the login
\* page only without a cookie, after the session's 24 hours, after a logout
\* of that very session, or by a failing statement: no other login, logout
\* or restart ends a session (146-176, 259-281).  It is sent to the licence
\* page only when no key was stored, when it submitted a bad one, or by a
\* failing statement (182-201, 214-244).
TurnedAwayForCause ==
    [][\A r \in Requests :
         /\ pc[r] \notin Settled /\ pc'[r] = "toLogin"
              => carries[r] \in {None} \cup expired \cup left \/ faults' # faults
         /\ pc[r] \notin Settled /\ pc'[r] = "toLicence"
              => \/ stored = None \/ faults' # faults
                 \/ pc[r] = "submit" /\ key[r] \notin GoodKeys]_gateVars

============================================================================
