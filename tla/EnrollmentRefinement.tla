----------------------- MODULE EnrollmentRefinement -----------------------
(***************************************************************************)
(* The four statements of agentRegister implement the one step of          *)
(* Registry when handlers run one at a time (MaxInFlight = 1), as long as  *)
(* no statement has failed (dbErrors) and no deletion has hit a host a     *)
(* handler had looked up (wiped).  Agents and the panel may still crash    *)
(* anywhere, replies may be lost and tokens may expire while a handler     *)
(* runs.                                                                   *)
(*                                                                         *)
(* The step of Registry is taken where the handler writes the row: until   *)
(* then a token that has passed the check counts as live.                  *)
(***************************************************************************)
EXTENDS Enrollment

\* A handler works on token t and has passed the check of line 588.
BeingSpent(t) == \E r \in Calls : tok[r] = t /\ pc[r] \in {"mark", "find", "write"}

StatusOf(t) ==
    IF t \notin issued THEN "absent"
    ELSE IF BeingSpent(t) \/ t \notin used \cup expired THEN "live"
    ELSE IF t \in used THEN "spent" ELSE "expired"

ListingOf(h) == IF Rows(h) = {} THEN None ELSE nodeCN[CHOOSE i \in Rows(h) : TRUE]

statusBar == [t \in Tokens |-> StatusOf(t)]
grantedBar == {r \in Calls : pc[r] = "ok"}
listingBar == [h \in Hosts |-> ListingOf(h)]

R == INSTANCE Registry WITH
        status <- statusBar,
        listing <- listingBar,
        granted <- grantedBar

\* No statement has failed yet and no row of a registered host was deleted.
Calm == dbErrors = 0 /\ wiped = {}

\* Registration looks atomic: as long as the database answers and nobody
\* deletes nodes, every step of the handlers is one of the abstract registry
\* or none (agentRegister, 587-622).
RegistrationIsAtomic == R!Init /\ [][Calm' => [R!Next]_(R!vars)]_vars

============================================================================
