----------------------------- MODULE Registry -----------------------------
(***************************************************************************)
(* What enrollment promises: the abstract specification of the panel's     *)
(* enroll_tokens and nodes.                                                *)
(*                                                                         *)
(* Spending a token, granting a certificate and listing the host under     *)
(* that certificate are ONE step, possible once per token; a token that    *)
(* is spent without a grant (Burn) lists nothing.  EnrollmentRefinement    *)
(* maps Enrollment to this module.                                         *)
(***************************************************************************)
CONSTANTS Hosts, Tokens, Calls, None

VARIABLES
    status,    \* of each token: "absent", "live", "spent" or "expired"
    listing,   \* the certificate each host is listed with, or None
    granted    \* the calls that were granted a certificate

vars == <<status, listing, granted>>

Init ==
    /\ status = [t \in Tokens |-> "absent"]
    /\ listing = [h \in Hosts |-> None]
    /\ granted = {}

Become(t, old, new) ==
    /\ status[t] = old
    /\ status' = [status EXCEPT ![t] = new]

Issue(t) == Become(t, "absent", "live") /\ UNCHANGED <<listing, granted>>

Expire(t) == Become(t, "live", "expired") /\ UNCHANGED <<listing, granted>>

\* The registration failed after the token was spent.
Burn(t) == Become(t, "live", "spent") /\ UNCHANGED <<listing, granted>>

\* All of a successful registration.
Register(t, h, r) ==
    /\ Become(t, "live", "spent")
    /\ r \notin granted
    /\ listing' = [listing EXCEPT ![h] = r]
    /\ granted' = granted \cup {r}

Next ==
    \E t \in Tokens :
        \/ Issue(t) \/ Expire(t) \/ Burn(t)
        \/ \E h \in Hosts, r \in Calls : Register(t, h, r)

Spec == Init /\ [][Next]_vars

----------------------------------------------------------------------------
(* What follows from the promise; RegistrationProofs carries it over to    *)
(* the handlers of the panel.                                              *)

Spent == {t \in Tokens : status[t] = "spent"}

\* Every certificate cost a token of its own: no token bought two, and none
\* was free (used_at of enroll_tokens, httpapi.go:588-592).
GrantsArePaid ==
    \E price \in [granted -> Spent] :
        \A r, s \in granted : price[r] = price[s] => r = s

============================================================================
