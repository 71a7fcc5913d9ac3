----------------------------- MODULE FirstPanel -----------------------------
(***************************************************************************)
(* The self-contained panel (cmd/main.go): its login behind the limiter of *)
(* RateLimiter, the sessions AuthService keeps in memory (services/        *)
(* auth.go), and the gate before the /admin pages (middleware/auth.go,     *)
(* AuthRequired).                                                          *)
(*                                                                         *)
(* A POST /login is an attempt of the limiter.  It makes at most one       *)
(* session, with a random id, so the attempt also names the session.       *)
(* The browsers at one address share a limiter entry; the model lets them  *)
(* share the cookie as well.                                               *)
(***************************************************************************)
EXTENDS RateLimiter

CONSTANT None   \* no cookie

ASSUME NoneIsNoAttempt == None \notin Attempts

VARIABLES
    pc,        \* where the request of each login is, or how it was answered
    sessions,  \* AuthService.sessions
    cookie,    \* the session the cookie of each browser decodes to
    page       \* what each browser was last sent to

panelVars == <<pc, sessions, cookie, page>>
allVars == <<vars, panelVars>>

\* len("vpspanel-session-hash"), the block key of the cookie store.
BlockKeyLength == 21

\* securecookie (external): a block key that aes.NewCipher refuses makes
\* every Encode and every Decode of the store return that error.
StoreWorks == BlockKeyLength \in {16, 24, 32}

\* GetSession and DestroySession: the cookie is there and decodes.
Decodes(k) == StoreWorks /\ cookie[k] # None

PanelInit ==
    /\ Init
    /\ pc = [a \in Attempts |-> "new"]
    /\ sessions = {}
    /\ cookie = [k \in Keys |-> None]
    /\ page = [k \in Keys |-> "login"]

\* The handler runs after a refusal: Abort is missing.
BugTooMany(a) ==
    /\ Refuse(a)
    /\ pc' = [pc EXCEPT ![a] = "validate"]
    /\ UNCHANGED <<sessions, cookie, page>>

\* RateLimit answers 429 and aborts.
TooMany(a) ==
    /\ Refuse(a)
    /\ pc' = [pc EXCEPT ![a] = "refused"]
    /\ UNCHANGED <<sessions, cookie, page>>

LetThrough(a) ==
    /\ Admit(a)
    /\ pc' = [pc EXCEPT ![a] = "validate"]
    /\ UNCHANGED <<sessions, cookie, page>>

\* ValidateUser says no: the login form again.
WrongPassword(a) ==
    /\ pc[a] = "validate"
    /\ pc' = [pc EXCEPT ![a] = "invalid"]
    /\ UNCHANGED <<vars, sessions, cookie, page>>

\* ValidateUser says yes; CreateSession enters the session under its lock.
EnterSession(a) ==
    /\ pc[a] = "validate"
    /\ sessions' = sessions \cup {a}
    /\ pc' = [pc EXCEPT ![a] = "encode"]
    /\ UNCHANGED <<vars, cookie, page>>

\* Login ignores the error of CreateSession: with or without a cookie, the
\* browser is sent to the dashboard.
EncodeAndRedirect(a) ==
    /\ pc[a] = "encode"
    /\ cookie' = IF StoreWorks THEN [cookie EXCEPT ![by[a]] = a] ELSE cookie
    /\ pc' = [pc EXCEPT ![a] = "redirected"]
    /\ page' = [page EXCEPT ![by[a]] = "redirected"]
    /\ UNCHANGED <<vars, sessions>>

\* AuthRequired, before every page under /admin, where Home leads too.
Visit(k) ==
    /\ page' = [page EXCEPT ![k] =
                   IF Decodes(k) /\ cookie[k] \in sessions THEN "inside" ELSE "login"]
    /\ UNCHANGED <<vars, pc, sessions, cookie>>

\* DestroySession returns early, and leaves the cookie, when there is none
\* or it does not decode.
Logout(k) ==
    /\ page' = [page EXCEPT ![k] = "login"]
    /\ IF Decodes(k)
       THEN /\ sessions' = sessions \ {cookie[k]}
            /\ cookie' = [cookie EXCEPT ![k] = None]
       ELSE UNCHANGED <<sessions, cookie>>
    /\ UNCHANGED <<vars, pc>>

\* The program ends and starts again: sessions and requests are gone.
PanelRestarts ==
    /\ Restart
    /\ sessions' = {}
    /\ pc' = [a \in Attempts |-> IF pc[a] \in {"validate", "encode"} THEN "cut" ELSE pc[a]]
    /\ UNCHANGED <<cookie, page>>

TimePasses == Tick /\ UNCHANGED panelVars

PanelNext ==
    \/ \E a \in Attempts :
         \/ LetThrough(a) \/ TooMany(a)
         \/ WrongPassword(a) \/ EnterSession(a) \/ EncodeAndRedirect(a)
    \/ \E k \in Keys : Visit(k) \/ Logout(k)
    \/ PanelRestarts
    \/ TimePasses

PanelSpec == PanelInit /\ [][PanelNext]_allVars

----------------------------------------------------------------------------
(* Properties.                                                             *)

\* Every variable has its type, those of the limiter included.
PanelTypeOK ==
    /\ TypeOK
    /\ pc \in [Attempts -> {"new", "refused", "validate", "invalid", "encode",
                            "redirected", "cut"}]
    /\ sessions \subseteq Attempts
    /\ cookie \in [Keys -> Attempts \cup {None}]
    /\ page \in [Keys -> {"login", "redirected", "inside"}]

\* The sessions of an address grow no faster than its logins are let
\* through: the limiter bounds what any window adds to the memory, however
\* many logins are sent (middleware/auth.go:153-163, services/auth.go:55-58).
SessionsPaced ==
    \A k \in Keys, t \in 0..now :
        Cardinality({a \in sessions : by[a] = k /\ at[a] <= t /\ at[a] + Window > t})
            <= Limit

\* The logins of the running process that made a session.
LoggedIn == {a \in Attempts : pc[a] \in {"encode", "redirected"} /\ life[a] = restarts}

\* A browser that a login of the running process has sent to the dashboard.
SentInside(k) ==
    page[k] = "redirected" /\ \E a \in LoggedIn : pc[a] = "redirected" /\ by[a] = k

\* What the user name and password are for that install.sh:190-195 prints: who
\* has logged in with them gets past AuthRequired with the next request.
LoginLetsIn ==
    [][\A k \in Keys : SentInside(k) /\ Visit(k) => page'[k] = "inside"]_allVars

\* What the 21-byte key comes to (services/auth.go:26-35, 60-63): whoever
\* logs in is redirected to the dashboard and from there to the login page,
\* nobody is ever let in, and the sessions of all these logins stay in
\* memory until the process ends, logouts notwithstanding.
LoginsLeadNowhere ==
    /\ sessions = LoggedIn
    /\ \A k \in Keys : page[k] # "inside"

============================================================================
