---------------------------- MODULE RateLimiter ----------------------------
(***************************************************************************)
(* The limiter of login attempts (middleware/auth.go, RateLimiter): per    *)
(* client address, the times of the attempts it let through, cut down to   *)
(* the window at every attempt.  Allow holds the limiter's mutex from its  *)
(* first line to its last, and reads the clock under it: it is one step.   *)
(* The entries live in memory: when systemd starts the program again, the  *)
(* limiter has forgotten them.                                             *)
(*                                                                         *)
(* Several attempts may fall on one tick of the clock, so an entry of      *)
(* visits is the attempt it stands for; at holds the times.                *)
(***************************************************************************)
EXTENDS Naturals, FiniteSets

CONSTANTS
    Keys,      \* client addresses
    Attempts,  \* calls of Allow
    Limit,     \* attempts let through in a window
    Window,    \* length of the window
    MaxTime,   \* bound: end of time
    MaxRestarts \* bound: restarts of the program

ASSUME ConstantsAssumption ==
    /\ IsFiniteSet(Attempts)
    /\ Limit \in Nat
    /\ Window \in Nat
    /\ MaxTime \in Nat
    /\ MaxRestarts \in Nat

VARIABLES
    now,      \* the clock, which Go reads monotonically
    visits,   \* the entries of each address
    by,       \* history: the address of each attempt
    at,       \* the time of each attempt
    result,   \* what Allow returned: "none" before it did
    restarts, \* restarts so far
    life      \* history: the restarts there had been when Allow returned

vars == <<now, visits, by, at, result, restarts, life>>

\* Names that start with Bug are faulty variants of the definition after
\* them: mistakes the properties have to notice.  Here the oldest attempt is
\* dropped a moment too early.
BugKept(k) == {a \in visits[k] : at[a] + Window > now + 1}

\* t.After(cutoff), with cutoff = now - window.
Kept(k) == {a \in visits[k] : at[a] + Window > now}

\* One more than the limit.
BugFull(k) == Cardinality(Kept(k)) > Limit

Full(k) == Cardinality(Kept(k)) >= Limit

Init ==
    /\ now = 0
    /\ visits = [k \in Keys |-> {}]
    /\ by \in [Attempts -> Keys]
    /\ at = [a \in Attempts |-> 0]
    /\ result = [a \in Attempts |-> "none"]
    /\ restarts = 0
    /\ life = [a \in Attempts |-> 0]

\* The entry is the time at which it runs out.
BugAdmit(a) ==
    LET k == by[a] IN
    /\ result[a] = "none"
    /\ ~Full(k)
    /\ visits' = [visits EXCEPT ![k] = Kept(k) \cup {a}]
    /\ at' = [at EXCEPT ![a] = now + Window]
    /\ result' = [result EXCEPT ![a] = "true"]
    /\ life' = [life EXCEPT ![a] = restarts]
    /\ UNCHANGED <<now, by, restarts>>

Admit(a) ==
    LET k == by[a] IN
    /\ result[a] = "none"
    /\ ~Full(k)
    /\ visits' = [visits EXCEPT ![k] = Kept(k) \cup {a}]
    /\ at' = [at EXCEPT ![a] = now]
    /\ result' = [result EXCEPT ![a] = "true"]
    /\ life' = [life EXCEPT ![a] = restarts]
    /\ UNCHANGED <<now, by, restarts>>

\* Refused attempts are entered too.
BugRefuse(a) ==
    LET k == by[a] IN
    /\ result[a] = "none"
    /\ Full(k)
    /\ visits' = [visits EXCEPT ![k] = Kept(k) \cup {a}]
    /\ at' = [at EXCEPT ![a] = now]
    /\ result' = [result EXCEPT ![a] = "false"]
    /\ life' = [life EXCEPT ![a] = restarts]
    /\ UNCHANGED <<now, by, restarts>>

Refuse(a) ==
    LET k == by[a] IN
    /\ result[a] = "none"
    /\ Full(k)
    /\ visits' = [visits EXCEPT ![k] = Kept(k)]
    /\ at' = [at EXCEPT ![a] = now]
    /\ result' = [result EXCEPT ![a] = "false"]
    /\ life' = [life EXCEPT ![a] = restarts]
    /\ UNCHANGED <<now, by, restarts>>

\* The clock goes on between calls.
Tick ==
    /\ now < MaxTime
    /\ now' = now + 1
    /\ UNCHANGED <<visits, by, at, result, restarts, life>>

\* The program ends and is started again (install.sh, Restart=always):
\* NewRateLimiter makes an empty map.
Restart ==
    /\ restarts < MaxRestarts
    /\ restarts' = restarts + 1
    /\ visits' = [k \in Keys |-> {}]
    /\ UNCHANGED <<now, by, at, result, life>>

Next == Tick \/ Restart \/ \E a \in Attempts : Admit(a) \/ Refuse(a)

Spec == Init /\ [][Next]_vars

----------------------------------------------------------------------------
(* Properties.                                                             *)

\* Every variable has its type: the type invariant of the module.
TypeOK ==
    /\ now \in 0..MaxTime
    /\ visits \in [Keys -> SUBSET Attempts]
    /\ by \in [Attempts -> Keys]
    /\ at \in [Attempts -> 0..MaxTime]
    /\ result \in [Attempts -> {"none", "true", "false"}]
    /\ restarts \in 0..MaxRestarts
    /\ life \in [Attempts -> 0..MaxRestarts]

Admitted(k) == {a \in Attempts : by[a] = k /\ result[a] = "true"}

\* What k was let through in the window that ends at time t, by the process
\* that ran after n restarts.
InWindow(k, t, n) ==
    {a \in Admitted(k) : life[a] = n /\ at[a] <= t /\ at[a] + Window > t}

\* However attempts bunch at the ends of windows, in none that ended up to
\* now did one process let an address through more often than the limit: a
\* restart, and nothing else, opens the window anew
\* (middleware/auth.go:171-190).
WindowBounded ==
    \A k \in Keys, t \in 0..now, n \in 0..restarts :
        Cardinality(InWindow(k, t, n)) <= Limit

\* An attempt is refused only when the limit was really let through in the
\* window: hammering while refused does not prolong the wait, pruning keeps
\* nothing that has run out, and a restart holds nobody out.
RefusedOnlyWhenFull ==
    [][\A a \in Attempts :
         result[a] = "none" /\ result'[a] = "false"
            => Cardinality(InWindow(by[a], now, restarts)) >= Limit]_vars

\* The memory an address takes is bounded by the limit, refused or not.
VisitsBounded == \A k \in Keys : Cardinality(visits[k]) <= Limit

============================================================================
