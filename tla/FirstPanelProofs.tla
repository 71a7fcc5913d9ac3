-------------------------- MODULE FirstPanelProofs --------------------------
(***************************************************************************)
(* Proofs about FirstPanel.  Whatever its requests do, the limiter in it   *)
(* behaves as RateLimiter says (LimiterKept), so that everything proved of *)
(* RateLimiter holds here; with what each request has behind it at each    *)
(* stage, the sessions follow.                                             *)
(***************************************************************************)
EXTENDS FirstPanel, RateLimiterProofs

\* What a request has behind it: the limiter's answer, and, while it runs,
\* the process it runs in.
StagesInv ==
    \A a \in Attempts :
        /\ pc[a] = "new" => result[a] = "none"
        /\ pc[a] \in {"validate", "invalid", "encode", "redirected", "cut"} => result[a] = "true"
        /\ pc[a] \in {"validate", "encode"} => life[a] = restarts

\* No cookie was ever set.
NoCookie == \A k \in Keys : cookie[k] = None

PanelInv == PanelTypeOK /\ StagesInv /\ NoCookie /\ LoginsLeadNowhere

----------------------------------------------------------------------------
\* Every step of the panel is one of the limiter or leaves the limiter
\* alone (middleware/auth.go, RateLimit; cmd/main.go:26-30).
THEOREM LimiterKept == PanelSpec => Spec
<1>1. PanelInit => Init
    BY DEF PanelInit
<1>2. [PanelNext]_allVars => [Next]_vars
    <2> SUFFICES ASSUME [PanelNext]_allVars PROVE [Next]_vars
        OBVIOUS
    <2>1. ASSUME NEW a \in Attempts, LetThrough(a) \/ TooMany(a) PROVE Next
        BY <2>1 DEF LetThrough, TooMany, Next
    <2>2. ASSUME NEW a \in Attempts, WrongPassword(a) \/ EnterSession(a) \/ EncodeAndRedirect(a)
          PROVE  UNCHANGED vars
        BY <2>2 DEF WrongPassword, EnterSession, EncodeAndRedirect
    <2>3. ASSUME NEW k \in Keys, Visit(k) \/ Logout(k) PROVE UNCHANGED vars
        BY <2>3 DEF Visit, Logout
    <2>4. CASE PanelRestarts
        BY <2>4 DEF PanelRestarts, Next
    <2>5. CASE TimePasses
        BY <2>5 DEF TimePasses, Next
    <2>6. CASE UNCHANGED allVars
        BY <2>6 DEF allVars
    <2> QED
        BY <2>1, <2>2, <2>3, <2>4, <2>5, <2>6 DEF PanelNext
<1> QED
    BY <1>1, <1>2, PTL DEF PanelSpec, Spec

----------------------------------------------------------------------------
LEMMA InitPanel == PanelInit => PanelInv
<1> SUFFICES ASSUME PanelInit PROVE PanelInv
    OBVIOUS
<1>1. TypeOK
    BY InitLimiter DEF PanelInit, LimiterInv
<1>2. PanelTypeOK /\ NoCookie
    BY <1>1 DEF PanelInit, PanelTypeOK, NoCookie
<1>3. StagesInv /\ LoginsLeadNowhere
    BY DEF PanelInit, Init, StagesInv, LoginsLeadNowhere, LoggedIn
<1> QED
    BY <1>2, <1>3 DEF PanelInv

\* A login the limiter has answered.
LEMMA AnswerKeeps ==
    ASSUME PanelInv, TypeOK', NEW a \in Attempts, LetThrough(a) \/ TooMany(a)
    PROVE  PanelInv'
<1> PICK v \in {"true", "false"}, w \in {"validate", "refused"} :
        /\ (v = "true") = (w = "validate")
        /\ pc' = [pc EXCEPT ![a] = w] /\ result' = [result EXCEPT ![a] = v]
        /\ life' = [life EXCEPT ![a] = restarts] /\ restarts' = restarts /\ result[a] = "none"
    BY DEF LetThrough, TooMany, Admit, Refuse
<1>1. /\ pc \in [Attempts -> {"new", "refused", "validate", "invalid", "encode", "redirected", "cut"}]
      /\ result \in [Attempts -> {"none", "true", "false"}]
      /\ life \in [Attempts -> 0..MaxRestarts]
    BY DEF PanelInv, PanelTypeOK, TypeOK
<1>2. sessions' = sessions /\ cookie' = cookie /\ page' = page
    BY DEF LetThrough, TooMany
<1>3. /\ pc'[a] = w /\ result'[a] = v /\ life'[a] = restarts
      /\ \A b \in Attempts \ {a} : pc'[b] = pc[b] /\ result'[b] = result[b] /\ life'[b] = life[b]
    BY <1>1
<1>4. PanelTypeOK' /\ NoCookie'
    BY <1>1, <1>2 DEF PanelInv, PanelTypeOK, NoCookie
<1>5. StagesInv'
    BY <1>3 DEF PanelInv, StagesInv
<1>6. LoggedIn' = LoggedIn
    <2>1. pc[a] \notin {"encode", "redirected"}
        BY DEF PanelInv, StagesInv
    <2> QED
        BY <2>1, <1>3 DEF LoggedIn
<1>7. LoginsLeadNowhere'
    BY <1>2, <1>6 DEF PanelInv, LoginsLeadNowhere
<1> QED
    BY <1>4, <1>5, <1>7 DEF PanelInv

\* A step of the handler; the 21-byte key makes Encode fail.
LEMMA HandlerKeeps ==
    ASSUME PanelInv, NEW a \in Attempts,
           WrongPassword(a) \/ EnterSession(a) \/ EncodeAndRedirect(a)
    PROVE  PanelInv'
<1>1. /\ pc \in [Attempts -> {"new", "refused", "validate", "invalid", "encode", "redirected", "cut"}]
      /\ page \in [Keys -> {"login", "redirected", "inside"}] /\ by[a] \in Keys
      /\ TypeOK
    BY DEF PanelInv, PanelTypeOK, TypeOK
<1>2. vars' = vars
    BY DEF WrongPassword, EnterSession, EncodeAndRedirect
<1>3. ~StoreWorks
    BY DEF StoreWorks, BlockKeyLength
<1>4. cookie' = cookie
    BY <1>3 DEF WrongPassword, EnterSession, EncodeAndRedirect
<1>5. TypeOK' /\ result' = result /\ life' = life /\ restarts' = restarts
    BY <1>1, <1>2 DEF vars, TypeOK
<1>6. CASE WrongPassword(a)
    BY <1>1, <1>4, <1>5, <1>6
       DEF WrongPassword, PanelInv, PanelTypeOK, StagesInv, NoCookie, LoginsLeadNowhere, LoggedIn
<1>7. CASE EnterSession(a)
    BY <1>1, <1>4, <1>5, <1>7
       DEF EnterSession, PanelInv, PanelTypeOK, StagesInv, NoCookie, LoginsLeadNowhere, LoggedIn
<1>8. CASE EncodeAndRedirect(a)
    BY <1>1, <1>4, <1>5, <1>8
       DEF EncodeAndRedirect, PanelInv, PanelTypeOK, StagesInv, NoCookie, LoginsLeadNowhere, LoggedIn
<1> QED
    BY <1>6, <1>7, <1>8

\* Nobody has a cookie that decodes: pages and logouts lead to the login.
LEMMA BrowserKeeps ==
    ASSUME PanelInv, NEW k \in Keys, Visit(k) \/ Logout(k)
    PROVE  PanelInv'
<1>1. ~Decodes(k)
    BY DEF Decodes, StoreWorks, BlockKeyLength
<1>2. /\ page' = [page EXCEPT ![k] = "login"]
      /\ pc' = pc /\ sessions' = sessions /\ cookie' = cookie /\ vars' = vars
    BY <1>1 DEF Visit, Logout
<1> QED
    BY <1>2 DEF PanelInv, PanelTypeOK, TypeOK, StagesInv, NoCookie, LoginsLeadNowhere, LoggedIn, vars

\* The new process has no sessions and has let nobody in.
LEMMA RestartEmpties ==
    ASSUME PanelInv, LimiterInv, TypeOK', PanelRestarts
    PROVE  PanelInv'
<1>1. /\ restarts \in Nat /\ restarts' = restarts + 1 /\ result' = result /\ life' = life
      /\ \A a \in Attempts : life[a] \in Nat /\ life[a] <= restarts
    BY ConstantsAssumption DEF PanelRestarts, Restart, LimiterInv, TypeOK, NoneInFuture
<1>2. LoggedIn' = {}
    BY <1>1 DEF LoggedIn
<1>3. /\ PanelTypeOK' /\ NoCookie' /\ StagesInv'
    BY <1>1 DEF PanelRestarts, PanelInv, PanelTypeOK, NoCookie, StagesInv
<1>4. LoginsLeadNowhere'
    BY <1>2 DEF PanelRestarts, PanelInv, LoginsLeadNowhere
<1> QED
    BY <1>3, <1>4 DEF PanelInv

LEMMA NextPanel ==
    ASSUME PanelInv, LimiterInv, LimiterInv', [PanelNext]_allVars
    PROVE  PanelInv'
<1>1. TypeOK'
    BY DEF LimiterInv
<1>2. ASSUME NEW a \in Attempts, LetThrough(a) \/ TooMany(a) PROVE PanelInv'
    BY <1>1, <1>2, AnswerKeeps
<1>3. ASSUME NEW a \in Attempts, WrongPassword(a) \/ EnterSession(a) \/ EncodeAndRedirect(a)
      PROVE  PanelInv'
    BY <1>3, HandlerKeeps
<1>4. ASSUME NEW k \in Keys, Visit(k) \/ Logout(k) PROVE PanelInv'
    BY <1>4, BrowserKeeps
<1>5. CASE PanelRestarts
    BY <1>1, <1>5, RestartEmpties
<1>6. CASE TimePasses
    BY <1>1, <1>6 DEF TimePasses, Tick, panelVars, PanelInv, PanelTypeOK, StagesInv, NoCookie,
                      LoginsLeadNowhere, LoggedIn
<1>7. CASE UNCHANGED allVars
    BY <1>1, <1>7 DEF allVars, panelVars, vars, PanelInv, PanelTypeOK, StagesInv, NoCookie,
                      LoginsLeadNowhere, LoggedIn
<1> QED
    BY <1>2, <1>3, <1>4, <1>5, <1>6, <1>7 DEF PanelNext

\* The invariant holds throughout.
THEOREM PanelInvariant == PanelSpec => [](PanelInv /\ LimiterInv)
<1>1. PanelSpec => []LimiterInv
    BY LimiterKept, LimiterInvariant, PTL
<1> QED
    BY <1>1, InitPanel, NextPanel, PTL DEF PanelSpec

----------------------------------------------------------------------------
\* The variables keep their types (cmd/main.go).
THEOREM PanelTypes == PanelSpec => []PanelTypeOK
<1>1. PanelInv => PanelTypeOK
    BY DEF PanelInv
<1> QED
    BY <1>1, PanelInvariant, PTL

\* A window adds no more than the limit to the sessions of an address
\* (middleware/auth.go, RateLimit; services/auth.go, CreateSession).
THEOREM SessionsArePaced == PanelSpec => []SessionsPaced
<1>1. PanelInv /\ LimiterInv => SessionsPaced
    <2> SUFFICES ASSUME PanelInv, LimiterInv, NEW k \in Keys, NEW t \in 0..now
                 PROVE  Cardinality({a \in sessions : by[a] = k /\ at[a] <= t /\ at[a] + Window > t})
                            <= Limit
        BY DEF SessionsPaced
    <2> DEFINE S == {a \in sessions : by[a] = k /\ at[a] <= t /\ at[a] + Window > t}
    <2>1. restarts \in 0..restarts
        BY ConstantsAssumption DEF LimiterInv, TypeOK
    <2>2. S \in SUBSET InWindow(k, t, restarts) /\ InWindow(k, t, restarts) \in SUBSET Attempts
        BY DEF PanelInv, LoginsLeadNowhere, LoggedIn, StagesInv, InWindow, Admitted
    <2>3. /\ Cardinality(S) \in Nat /\ Cardinality(InWindow(k, t, restarts)) \in Nat
          /\ Cardinality(S) <= Cardinality(InWindow(k, t, restarts))
        BY <2>2, Smaller
    <2>4. Cardinality(InWindow(k, t, restarts)) <= Limit
        BY <2>1 DEF LimiterInv, WindowBounded
    <2> QED
        BY <2>3, <2>4, ConstantsAssumption
<1> QED
    BY <1>1, PanelInvariant, PTL

\* Nobody is ever let in, and every login's session stays (services/auth.go,
\* NewAuthService, CreateSession).
THEOREM LoginsLeakAndLeadNowhere == PanelSpec => []LoginsLeadNowhere
<1>1. PanelInv => LoginsLeadNowhere
    BY DEF PanelInv
<1> QED
    BY <1>1, PanelInvariant, PTL

\* What is proved of the limiter alone holds of it in the panel
\* (middleware/auth.go, RateLimit).
THEOREM PanelKeepsLimit ==
    PanelSpec => []WindowBounded /\ []VisitsBounded /\ RefusedOnlyWhenFull
BY LimiterKept, LimitHolds, MemoryHolds, RefusalJust, PTL

\* Before the panel's login stands a sliding window that forgets nothing
\* while the process runs (middleware/auth.go, RateLimit).
THEOREM PanelLimiterIsExact == PanelSpec => LimiterIsExact
BY LimiterKept, LimiterExact, PTL

============================================================================
