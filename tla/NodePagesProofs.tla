-------------------------- MODULE NodePagesProofs --------------------------
(***************************************************************************)
(* Proofs about PanelGate and NodePages.  The invariant of the gate says   *)
(* what a login has left behind at each stage and what a request has       *)
(* passed; NodePages is shown to take only steps of the gate, so that      *)
(* everything proved of GateSpec holds of PageSpec.                        *)
(***************************************************************************)
EXTENDS NodePages, TLAPS

\* What each login has left: a row from the insert on, a cookie only by way
\* of "sent", and no failure while nothing goes wrong.
LoginsInv ==
    /\ \A b \in Browsers : jar[b] \in rows \cup {None} /\ (~longKey => jar[b] = None)
    /\ \A l \in Logins :
         /\ lpc[l] \in {"free", "select", "insert"} => l \notin rows
         /\ lpc[l] \in {"sign", "sent", "done"} => l \in rows
         /\ lpc[l] \in {"select", "insert", "sign", "sent"} => lfrom[l] \in Browsers
         /\ ~longKey => lpc[l] \notin {"sent", "done"}
         /\ longKey /\ faults = 0 => lpc[l] # "failed"

\* What each request has passed.
RequestsInv ==
    \A r \in Requests :
        /\ carries[r] \in rows \cup {None} /\ (~longKey => carries[r] = None)
        /\ pc[r] = "session" => fresh[r] \/ carries[r] \in {None} \cup expired
        /\ pc[r] \in {"licence", "verify", "submit", "served"} => fresh[r] /\ carries[r] \in rows
        /\ pc[r] \in {"verify", "served"} => stored # None
        /\ pc[r] = "verify" => key[r] \in GoodKeys

\* Only keys that were verified are stored.
StoredInv == stored \in GoodKeys \cup {None}

GateInv == GateTypeOK /\ LoginsInv /\ RequestsInv /\ StoredInv

----------------------------------------------------------------------------
LEMMA InitGate == GateInit => GateInv
BY GateAssumption
   DEF GateInit, GateInv, GateTypeOK, LoginsInv, RequestsInv, StoredInv, Settled

\* What a step that leaves the requests alone owes to RequestsInv.
LEMMA RequestsUntouched ==
    ASSUME GateInv, rows \subseteq rows', expired \subseteq expired',
           UNCHANGED <<longKey, stored, requestVars>>
    PROVE  RequestsInv' /\ StoredInv'
BY DEF GateInv, RequestsInv, StoredInv, requestVars

LEMMA StartKeeps ==
    ASSUME GateInv, NEW l \in Logins,
           \/ \E b \in Browsers : StartLogin(l, b)
           \/ RefuseLogin(l) \/ Authenticate(l)
    PROVE  GateInv'
<1>1. UNCHANGED <<longKey, rows, expired, left, stored, jar, requestVars, faults>>
    BY DEF StartLogin, RefuseLogin, Authenticate
<1>2. RequestsInv' /\ StoredInv'
    BY <1>1, RequestsUntouched
<1>3. GateTypeOK' /\ LoginsInv'
    BY <1>1, GateAssumption
       DEF GateInv, GateTypeOK, LoginsInv, StartLogin, RefuseLogin, Authenticate,
           LoginEnds, requestVars
<1> QED
    BY <1>2, <1>3 DEF GateInv

LEMMA InsertKeeps ==
    ASSUME GateInv, NEW l \in Logins, InsertSession(l) \/ InsertError(l)
    PROVE  GateInv'
<1>1. /\ UNCHANGED <<longKey, expired, left, stored, jar, requestVars>>
      /\ rows' \in {rows, rows \cup {l}}
    BY DEF InsertSession, InsertError
<1>2. RequestsInv' /\ StoredInv'
    BY <1>1, RequestsUntouched
<1>3. GateTypeOK' /\ LoginsInv'
    <2>1. CASE InsertSession(l)
        BY <2>1, GateAssumption
           DEF GateInv, GateTypeOK, LoginsInv, InsertSession, requestVars
    <2>2. CASE InsertError(l)
        BY <2>2, GateAssumption
           DEF GateInv, GateTypeOK, LoginsInv, InsertError, LoginEnds, Fault, requestVars
    <2> QED
        BY <2>1, <2>2
<1> QED
    BY <1>2, <1>3 DEF GateInv

LEMMA CookieKeeps ==
    ASSUME GateInv, NEW l \in Logins, SignCookie(l) \/ ReceiveCookie(l) \/ LoginCut(l)
    PROVE  GateInv'
<1>1. UNCHANGED <<longKey, rows, expired, left, stored, requestVars>>
    BY DEF SignCookie, ReceiveCookie, LoginCut
<1>2. RequestsInv' /\ StoredInv'
    BY <1>1, RequestsUntouched
<1>3. GateTypeOK' /\ LoginsInv'
    <2>1. CASE SignCookie(l)
        BY <2>1, GateAssumption
           DEF GateInv, GateTypeOK, LoginsInv, SignCookie, LoginEnds, requestVars
    <2>2. CASE ReceiveCookie(l)
        BY <2>2, GateAssumption
           DEF GateInv, GateTypeOK, LoginsInv, ReceiveCookie, requestVars
    <2>3. CASE LoginCut(l)
        BY <2>3, GateAssumption
           DEF GateInv, GateTypeOK, LoginsInv, LoginCut, LoginEnds, Fault, requestVars
    <2> QED
        BY <2>1, <2>2, <2>3
<1> QED
    BY <1>2, <1>3 DEF GateInv

LEMMA EndKeeps ==
    ASSUME GateInv, \/ \E b \in Browsers : Logout(b)
                    \/ \E l \in Logins : ExpireSession(l)
    PROVE  GateInv'
<1>1. /\ UNCHANGED <<longKey, rows, stored, requestVars, lpc, lfrom, faults>>
      /\ expired \subseteq expired'
    BY DEF Logout, ExpireSession, loginVars
<1>2. RequestsInv' /\ StoredInv'
    BY <1>1, RequestsUntouched
<1>3. GateTypeOK' /\ LoginsInv'
    BY <1>1, GateAssumption
       DEF GateInv, GateTypeOK, LoginsInv, Logout, ExpireSession, loginVars, requestVars
<1> QED
    BY <1>2, <1>3 DEF GateInv

\* What a step that leaves the logins alone owes to LoginsInv.
LEMMA LoginsUntouched ==
    ASSUME GateInv, UNCHANGED <<longKey, rows, expired, left, loginVars>>,
           faults' = faults \/ Fault
    PROVE  LoginsInv' /\ faults' \in 0..MaxFaults
BY GateAssumption DEF GateInv, GateTypeOK, LoginsInv, loginVars, Fault

\* A request that settles has nothing to show.
LEMMA SettleKeeps ==
    ASSUME GateInv, NEW r \in Requests, NEW result \in Settled, Settle(r, result),
           UNCHANGED <<longKey, rows, expired, left, loginVars>>, faults' = faults \/ Fault,
           stored' \in GoodKeys \cup {None}, stored # None => stored' # None
    PROVE  GateInv'
<1>1. LoginsInv' /\ faults' \in 0..MaxFaults
    BY LoginsUntouched
<1>2. GateTypeOK'
    BY <1>1, GateAssumption DEF GateInv, GateTypeOK, Settle, Settled, loginVars
<1>3. RequestsInv' /\ StoredInv'
    BY GateAssumption DEF GateInv, GateTypeOK, RequestsInv, StoredInv, Settle, Settled
<1> QED
    BY <1>1, <1>2, <1>3 DEF GateInv

LEMMA SendKeeps ==
    ASSUME GateInv, NEW r \in Requests, SendSome(r)
    PROVE  GateInv'
<1>1. PICK b \in Browsers, k \in Keys \cup {None} : Send(r, b, k)
    BY DEF SendSome
<1>2. UNCHANGED <<longKey, rows, expired, left, stored, loginVars, faults>>
    BY <1>1 DEF Send
<1>3. LoginsInv'
    BY <1>2, LoginsUntouched
<1>4. GateTypeOK'
    BY <1>1, <1>2 DEF GateInv, GateTypeOK, Send, Settled, loginVars
<1>5. RequestsInv' /\ StoredInv'
    BY <1>1, <1>2, GateAssumption
       DEF GateInv, GateTypeOK, LoginsInv, RequestsInv, StoredInv, Send
<1> QED
    BY <1>3, <1>4, <1>5 DEF GateInv

\* The checks: those who do not pass settle.
LEMMA CheckKeeps ==
    ASSUME GateInv, NEW r \in Requests, CheckSession(r) \/ ReadKey(r) \/ VerifyKey(r)
    PROVE  GateInv' /\ stored' = stored
<1>1. UNCHANGED <<longKey, rows, expired, left, loginVars, faults>>
    BY DEF CheckSession, ReadKey, VerifyKey
<1>2. CASE \E result \in Settled : Settle(r, result)
    <2>1. stored' = stored
        BY <1>2 DEF GateInv, RequestsInv, CheckSession, ReadKey, VerifyKey, Accepts
    <2> QED
        BY <1>1, <1>2, <2>1, SettleKeeps DEF GateInv, StoredInv
<1>3. CASE ~\E result \in Settled : Settle(r, result)
    <2>1. CASE CheckSession(r)
        <3>1. /\ SessionHolds(r) /\ UNCHANGED <<carries, key, fresh, stored>>
              /\ pc' = [pc EXCEPT ![r] = IF key[r] = None THEN "licence" ELSE "submit"]
              /\ pc[r] = "session"
            BY <1>3, <2>1 DEF CheckSession, Settled
        <3> QED
            BY <1>1, <3>1, LoginsUntouched, GateAssumption
               DEF GateInv, GateTypeOK, RequestsInv, StoredInv, SessionHolds, Settled, loginVars
    <2>2. CASE ReadKey(r)
        <3>1. /\ stored # None /\ UNCHANGED <<carries, fresh, stored>>
              /\ pc' = [pc EXCEPT ![r] = "verify"] /\ key' = [key EXCEPT ![r] = stored]
              /\ pc[r] = "licence"
            BY <1>3, <2>2 DEF ReadKey, Settled
        <3> QED
            BY <1>1, <3>1, LoginsUntouched, GateAssumption
               DEF GateInv, GateTypeOK, RequestsInv, StoredInv, Settled, loginVars
    <2>3. CASE VerifyKey(r)
        <3>1. /\ UNCHANGED <<carries, key, fresh, stored>>
              /\ pc' = [pc EXCEPT ![r] = "served"] /\ pc[r] = "verify"
            BY <1>3, <2>3 DEF VerifyKey, Settled
        <3> QED
            BY <1>1, <3>1, LoginsUntouched, GateAssumption
               DEF GateInv, GateTypeOK, RequestsInv, StoredInv, Settled, loginVars
    <2> QED
        BY <2>1, <2>2, <2>3
<1> QED
    BY <1>2, <1>3

\* The answers: every one of these settles the request.
LEMMA AnswerKeeps ==
    ASSUME GateInv, NEW r \in Requests,
           \/ SessionError(r) \/ ReadKeyError(r) \/ SubmitKey(r) \/ SubmitError(r)
           \/ Finish(r) \/ Cancel(r)
    PROVE  GateInv' /\ (stored # None => stored' # None)
<1>1. UNCHANGED <<longKey, rows, expired, left, loginVars>> /\ (faults' = faults \/ Fault)
    BY DEF SessionError, ReadKeyError, SubmitKey, SubmitError, Finish, Cancel
<1>2. PICK result \in Settled : Settle(r, result)
    BY DEF SessionError, ReadKeyError, SubmitKey, SubmitError, Finish, Cancel, Settled
<1>3. stored' = stored \/ (stored' = key[r] /\ key[r] \in GoodKeys)
    BY DEF SessionError, ReadKeyError, SubmitKey, SubmitError, Finish, Cancel, Accepts
<1>4. stored' \in GoodKeys \cup {None} /\ (stored # None => stored' # None)
    BY <1>3, GateAssumption DEF GateInv, StoredInv
<1> QED
    BY <1>1, <1>2, <1>4, SettleKeeps

LEMMA StopKeeps == ASSUME GateInv, PanelStops PROVE GateInv'
<1>1. UNCHANGED <<longKey, rows, expired, left, stored, jar>> /\ Fault
    BY DEF PanelStops
<1>2. GateTypeOK'
    BY <1>1, GateAssumption DEF GateInv, GateTypeOK, PanelStops, Fault, Settled
<1>3. LoginsInv'
    BY <1>1, GateAssumption DEF GateInv, GateTypeOK, LoginsInv, PanelStops, Fault
<1>4. RequestsInv' /\ StoredInv'
    BY <1>1 DEF GateInv, GateTypeOK, RequestsInv, StoredInv, PanelStops, Settled
<1> QED
    BY <1>2, <1>3, <1>4 DEF GateInv

LEMMA GateStepKeeps == GateInv /\ [GateNext]_gateVars => GateInv'
<1> SUFFICES ASSUME GateInv, [GateNext]_gateVars PROVE GateInv'
    OBVIOUS
<1>1. ASSUME NEW l \in Logins, LoginStep(l) PROVE GateInv'
    BY <1>1, StartKeeps, InsertKeeps, CookieKeeps, EndKeeps DEF LoginStep
<1>2. ASSUME NEW b \in Browsers, Logout(b) PROVE GateInv'
    BY <1>2, EndKeeps
<1>3. ASSUME NEW r \in Requests, RequestStep(r) PROVE GateInv'
    BY <1>3, CheckKeeps, AnswerKeeps DEF RequestStep
<1>4. CASE PanelStops
    BY <1>4, StopKeeps
<1>5. ASSUME NEW r \in Requests, SendSome(r) PROVE GateInv'
    BY <1>5, SendKeeps
<1>6. CASE UNCHANGED gateVars
    BY <1>6 DEF gateVars, loginVars, requestVars, GateInv, GateTypeOK, LoginsInv,
                RequestsInv, StoredInv
<1> QED
    BY <1>1, <1>2, <1>3, <1>4, <1>5, <1>6 DEF GateNext, GateStep

THEOREM GateInvariant == GateSpec => []GateInv
BY InitGate, GateStepKeeps, PTL DEF GateSpec

----------------------------------------------------------------------------
\* The variables of the gate always have their types (httpapi.go:122-283).
THEOREM GateTypes == GateSpec => []GateTypeOK
BY GateInvariant, PTL DEF GateInv

\* A cookie that is anywhere names a session row, and with a cookie key of 32
\* bytes only a fault leaves a row without a cookie (httpapi.go:146-163).
THEOREM CookiesNameRows == GateSpec => []RowsMatchCookies
<1>1. GateInv => RowsMatchCookies
    <2> SUFFICES ASSUME GateInv PROVE RowsMatchCookies
        OBVIOUS
    <2>1. Cookies \subseteq rows \cup {None} /\ (~longKey => Cookies \subseteq {None})
        BY DEF GateInv, LoginsInv, RequestsInv, Cookies
    <2>2. ASSUME NEW l \in rows, longKey, faults = 0
          PROVE  lpc[l] \in {"sign", "sent", "done"}
        BY <2>2 DEF GateInv, GateTypeOK, LoginsInv
    <2> QED
        BY <2>1, <2>2 DEF RowsMatchCookies
<1> QED
    BY <1>1, GateInvariant, PTL

\* A served page had a session that had not expired, and there is a licence
\* key (httpapi.go:182-201, 258-283).
THEOREM PagesAreEntitled == GateSpec => []ServedIsEntitled
<1>1. GateInv => ServedIsEntitled
    BY DEF GateInv, RequestsInv, ServedIsEntitled
<1> QED
    BY <1>1, GateInvariant, PTL

\* What every step of the gate does to the licence key and to the requests.
LEMMA StepIsJust ==
    ASSUME GateInv, GateNext
    PROVE  /\ stored # None => stored' # None
           /\ \A r \in Requests :
                /\ pc[r] \notin Settled /\ pc'[r] = "toLogin"
                     => carries[r] \in {None} \cup expired \cup left \/ faults' # faults
                /\ pc[r] \notin Settled /\ pc'[r] = "toLicence"
                     => \/ stored = None \/ faults' # faults
                        \/ pc[r] = "submit" /\ key[r] \notin GoodKeys
<1> DEFINE Just(r) ==
        /\ pc[r] \notin Settled /\ pc'[r] = "toLogin"
             => carries[r] \in {None} \cup expired \cup left \/ faults' # faults
        /\ pc[r] \notin Settled /\ pc'[r] = "toLicence"
             => \/ stored = None \/ faults' # faults
                \/ pc[r] = "submit" /\ key[r] \notin GoodKeys
<1>1. ASSUME NEW l \in Logins, LoginStep(l) PROVE UNCHANGED <<stored, pc>>
    BY <1>1 DEF LoginStep, StartLogin, RefuseLogin, Authenticate, InsertSession,
                InsertError, SignCookie, ReceiveCookie, LoginCut, ExpireSession, requestVars
<1>2. ASSUME NEW b \in Browsers, Logout(b) PROVE UNCHANGED <<stored, pc>>
    BY <1>2 DEF Logout, requestVars
<1>3. ASSUME UNCHANGED <<stored, pc>>
      PROVE  (stored # None => stored' # None) /\ \A r \in Requests : Just(r)
    BY <1>3 DEF Settled
<1>4. ASSUME NEW r \in Requests, SendSome(r)
      PROVE  (stored # None => stored' # None) /\ \A q \in Requests : Just(q)
    BY <1>4 DEF SendSome, Send, GateInv, GateTypeOK, Settled
<1>5. CASE PanelStops
    BY <1>5 DEF PanelStops, Settled
<1>6. ASSUME NEW r \in Requests, RequestStep(r)
      PROVE  (stored # None => stored' # None) /\ \A q \in Requests : Just(q)
    <2>1. stored # None => stored' # None
        BY <1>6, CheckKeeps, AnswerKeeps DEF RequestStep
    <2>2. pc \in [Requests -> {"session", "licence", "verify", "submit", "served"} \cup Settled]
        BY DEF GateInv, GateTypeOK
    <2>3. Just(r)
        <3>1. CASE CheckSession(r)
            BY <2>2, <3>1 DEF CheckSession, SessionHolds, Settle, Settled, GateInv, RequestsInv
        <3>2. CASE ReadKey(r)
            BY <2>2, <3>2 DEF ReadKey, Settle, Settled
        <3>3. CASE VerifyKey(r)
            BY <2>2, <3>3 DEF VerifyKey, Accepts, Settle, Settled, GateInv, RequestsInv
        <3>4. CASE SubmitKey(r)
            BY <2>2, <3>4 DEF SubmitKey, Accepts, Settle, Settled
        <3>5. CASE SessionError(r) \/ ReadKeyError(r) \/ SubmitError(r)
            BY <3>5 DEF SessionError, ReadKeyError, SubmitError, Fault, GateInv, GateTypeOK
        <3>6. CASE Finish(r) \/ Cancel(r)
            BY <2>2, <3>6 DEF Finish, Cancel, Settle, Settled
        <3> QED
            BY <1>6, <3>1, <3>2, <3>3, <3>4, <3>5, <3>6 DEF RequestStep
    <2>4. \A q \in Requests : q # r => pc'[q] = pc[q]
        BY <1>6, <2>2
           DEF RequestStep, CheckSession, SessionError, ReadKey, ReadKeyError, VerifyKey,
               SubmitKey, SubmitError, Finish, Cancel, Settle
    <2> QED
        BY <2>1, <2>3, <2>4 DEF Settled
<1> HIDE DEF Just
<1>7. (stored # None => stored' # None) /\ \A r \in Requests : Just(r)
    BY <1>1, <1>2, <1>3, <1>4, <1>5, <1>6 DEF GateNext, GateStep, Just
<1> QED
    BY <1>7 DEF Just

\* No step takes the licence key away without putting another in its place
\* (httpapi.go:182-201, 214-244).
THEOREM LicenceIsKept == GateSpec => LicenceStays
<1>1. GateInv /\ [GateNext]_gateVars => [stored # None => stored' # None]_gateVars
    BY StepIsJust
<1> QED
    BY <1>1, GateInvariant, PTL DEF GateSpec, LicenceStays

\* Every request sent away is sent away for a cause (httpapi.go:182-283).
THEOREM NobodyIsTurnedAway == GateSpec => TurnedAwayForCause
<1>1. GateInv /\ [GateNext]_gateVars =>
      [\A r \in Requests :
         /\ pc[r] \notin Settled /\ pc'[r] = "toLogin"
              => carries[r] \in {None} \cup expired \cup left \/ faults' # faults
         /\ pc[r] \notin Settled /\ pc'[r] = "toLicence"
              => \/ stored = None \/ faults' # faults
                 \/ pc[r] = "submit" /\ key[r] \notin GoodKeys]_gateVars
    BY StepIsJust
<1> QED
    BY <1>1, GateInvariant, PTL DEF GateSpec, TurnedAwayForCause

----------------------------------------------------------------------------
\* Whatever the pages do, they do behind the gate: every step of NodePages is
\* a step of PanelGate or leaves its variables alone (httpapi.go:72-102).
THEOREM PagesAreBehindTheGate == PageSpec => GateSpec
<1>1. PageInit => GateInit
    BY DEF PageInit
<1>2. [PageNext]_pageVars => [GateNext]_gateVars
    <2> SUFFICES ASSUME [PageNext]_pageVars PROVE [GateNext]_gateVars
        OBVIOUS
    <2>1. CASE Gate
        BY <2>1 DEF Gate, GateNext
    <2>2. ASSUME NEW r \in Requests,
                 SendOther(r) \/ \E i \in Ids, act \in {"call", "delete"} : SendPage(r, i, act)
          PROVE  SendSome(r)
        BY <2>2 DEF SendOther, SendPage, SendSome
    <2>3. ASSUME NEW r \in Requests, DeleteRow(r)
          PROVE  RequestStep(r)
        BY <2>3 DEF DeleteRow, RequestStep
    <2>4. ASSUME NEW r \in Requests, ReadNode(r)
          PROVE  UNCHANGED gateVars
        BY <2>4 DEF ReadNode
    <2>5. ASSUME NEW i \in Ids, NEW h \in Hosts, InsertRow(i, h)
          PROVE  UNCHANGED gateVars
        BY <2>5 DEF InsertRow
    <2>6. CASE UNCHANGED pageVars
        BY <2>6 DEF pageVars
    <2> QED
        BY <2>1, <2>2, <2>3, <2>4, <2>5, <2>6 DEF PageNext, GateNext, GateStep
<1> QED
    BY <1>1, <1>2, PTL DEF PageSpec, GateSpec

\* What a page request knows of its node: an id that was drawn, whose row
\* still names the host it named when the request was sent, or is gone.
WorkInv ==
    \A r \in Requests :
        /\ pc[r] \in Settled => work[r].dest = None
        /\ work[r].dest # None => work[r].dest = work[r].listed /\ pc[r] = "served"
        /\ work[r].act \in {"call", "delete"} =>
             /\ work[r].target \in spent
             /\ host[work[r].target] \in {work[r].listed, None}

PageInv == PageTypeOK /\ WorkInv

LEMMA InitPages == PageInit => PageInv
BY InitGate, NoneIsNoNode
   DEF PageInit, GateInit, PageInv, PageTypeOK, WorkInv, GateInv, NoWork, Work

\* The steps of the gate keep what the pages know: a request never comes to
\* be settled without its work being forgotten, nor leaves "served" otherwise.
LEMMA GateKeepsPages == ASSUME PageInv, GateInv', Gate PROVE PageInv'
<1>1. UNCHANGED <<host, spent>> /\ KeepWork
    BY DEF Gate, nodeVars
<1>2. PageTypeOK'
    BY <1>1, NoneIsNoNode DEF PageInv, PageTypeOK, GateInv, KeepWork, NoWork, Work
<1>3. ASSUME NEW r \in Requests, pc[r] = "served"
      PROVE  pc'[r] = "served" \/ pc'[r] \in Settled
    <2>1. ASSUME NEW l \in Logins, LoginStep(l) PROVE UNCHANGED pc
        BY <2>1 DEF LoginStep, StartLogin, RefuseLogin, Authenticate, InsertSession,
                    InsertError, SignCookie, ReceiveCookie, LoginCut, ExpireSession, requestVars
    <2>2. ASSUME NEW b \in Browsers, Logout(b) PROVE UNCHANGED pc
        BY <2>2 DEF Logout, requestVars
    <2>3. ASSUME NEW q \in Requests, RequestStep(q)
          PROVE  pc'[r] = "served" \/ pc'[r] \in Settled
        BY <1>3, <2>3
           DEF RequestStep, CheckSession, SessionError, ReadKey, ReadKeyError, VerifyKey,
               SubmitKey, SubmitError, Finish, Cancel, Settle, Settled,
               PageInv, PageTypeOK, GateTypeOK
    <2>4. CASE PanelStops
        BY <1>3, <2>4 DEF PanelStops, Settled
    <2> QED
        BY <1>3, <2>1, <2>2, <2>3, <2>4 DEF Gate, GateStep
<1>4. WorkInv'
    BY <1>1, <1>3 DEF PageInv, WorkInv, KeepWork, NoWork
<1> QED
    BY <1>2, <1>4 DEF PageInv

LEMMA SendKeepsPages ==
    ASSUME PageInv, GateInv', NEW r \in Requests,
           SendOther(r) \/ \E i \in Ids, act \in {"call", "delete"} : SendPage(r, i, act)
    PROVE  PageInv'
<1>1. /\ UNCHANGED <<host, spent>>
      /\ pc' = [pc EXCEPT ![r] = "session"]
    BY DEF SendOther, SendPage, Send, nodeVars
<1>2. CASE SendOther(r)
    BY <1>1, <1>2, NoneIsNoNode
       DEF SendOther, PageInv, PageTypeOK, GateTypeOK, GateInv, WorkInv, NoWork, Work, Settled
<1>3. ASSUME NEW i \in Ids, NEW act \in {"call", "delete"}, SendPage(r, i, act)
      PROVE  PageInv'
    BY <1>1, <1>3, NoneIsNoNode
       DEF SendPage, PageInv, PageTypeOK, GateTypeOK, GateInv, WorkInv, Work, Settled
<1> QED
    BY <1>2, <1>3

LEMMA ReadKeepsPages ==
    ASSUME PageInv, GateInv', NEW r \in Requests, ReadNode(r)
    PROVE  PageInv'
BY NoneIsNoNode
   DEF ReadNode, PageInv, PageTypeOK, GateTypeOK, GateInv, WorkInv, Work, nodeVars,
       gateVars, requestVars, Settled

LEMMA DeleteKeepsPages ==
    ASSUME PageInv, GateInv', NEW r \in Requests, DeleteRow(r)
    PROVE  PageInv'
<1>1. /\ pc' = [pc EXCEPT ![r] = "idle"]
      /\ host' = [host EXCEPT ![work[r].target] = None]
      /\ KeepWork /\ UNCHANGED spent
    BY DEF DeleteRow, Finish, Settle
<1>2. PageTypeOK'
    BY <1>1 DEF PageInv, PageTypeOK, GateInv, KeepWork, NoWork, Work
<1>3. WorkInv'
    BY <1>1 DEF PageInv, PageTypeOK, GateTypeOK, WorkInv, KeepWork, NoWork, Settled
<1> QED
    BY <1>2, <1>3 DEF PageInv

\* A fresh id is nobody's target.
LEMMA InsertKeepsPages ==
    ASSUME PageInv, GateInv', NEW i \in Ids, NEW h \in Hosts, InsertRow(i, h)
    PROVE  PageInv'
BY DEF InsertRow, PageInv, PageTypeOK, GateInv, WorkInv, gateVars, requestVars

THEOREM PageInvariant == PageSpec => [](GateInv /\ PageInv)
<1>1. GateInv' /\ PageInv /\ [PageNext]_pageVars => PageInv'
    <2> SUFFICES ASSUME GateInv', PageInv, [PageNext]_pageVars PROVE PageInv'
        OBVIOUS
    <2>1. CASE UNCHANGED pageVars
        BY <2>1 DEF pageVars, nodeVars, gateVars, requestVars, PageInv, PageTypeOK,
                    GateInv, WorkInv
    <2> QED
        BY <2>1, GateKeepsPages, SendKeepsPages, ReadKeepsPages, DeleteKeepsPages,
           InsertKeepsPages DEF PageNext
<1> QED
    BY <1>1, InitPages, PagesAreBehindTheGate, GateInvariant, PTL DEF PageSpec

\* Every variable always has its type (httpapi.go:122-283, 351-374, 601-618).
THEOREM PageTypes == PageSpec => []PageTypeOK
BY PageInvariant, PTL DEF PageInv

\* A call goes to the host the row named when the form was sent, and only
\* behind the gate (httpapi.go:351-374, 601-618).
THEOREM CallsGoWhereListed == PageSpec => []CallGoesWhereListed
<1>1. GateInv /\ PageInv => CallGoesWhereListed
    BY DEF GateInv, RequestsInv, PageInv, WorkInv, CallGoesWhereListed
<1> QED
    BY <1>1, PageInvariant, PTL

============================================================================
