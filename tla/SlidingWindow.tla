--------------------------- MODULE SlidingWindow ---------------------------
(***************************************************************************)
(* What a limiter promises: the abstract specification of Allow            *)
(* (middleware/auth.go).  It keeps no entries and prunes nothing: the log  *)
(* of what the running process let through only grows, and an attempt is   *)
(* let through exactly when the part of the log that is its address's and  *)
(* lies in the window ending now is short of the limit.                    *)
(* LimiterRefinement maps RateLimiter to this module.                      *)
(***************************************************************************)
EXTENDS Naturals

CONSTANTS
    Keys, Attempts, Window,
    Enough   \* the sets of attempts that are the limit or more

VARIABLES
    now,     \* the clock
    log,     \* the attempts this process let through
    by,      \* the address of each attempt
    at,      \* the time of each attempt
    result   \* how it was answered

vars == <<now, log, by, at, result>>

\* The window that ends now, which is open at its beginning.
Recent(k) == {a \in log : by[a] = k /\ at[a] + Window > now}

Init ==
    /\ now = 0
    /\ log = {}
    /\ by \in [Attempts -> Keys]
    /\ at = [a \in Attempts |-> 0]
    /\ result = [a \in Attempts |-> "none"]

Allow(a) ==
    /\ result[a] = "none"
    /\ at' = [at EXCEPT ![a] = now]
    /\ \/ /\ Recent(by[a]) \in Enough
          /\ result' = [result EXCEPT ![a] = "false"]
          /\ UNCHANGED log
       \/ /\ Recent(by[a]) \notin Enough
          /\ result' = [result EXCEPT ![a] = "true"]
          /\ log' = log \cup {a}
    /\ UNCHANGED <<now, by>>

Tick == now' = now + 1 /\ UNCHANGED <<log, by, at, result>>

\* A new process has let nothing through.
Restart == log' = {} /\ UNCHANGED <<now, by, at, result>>

Next == Tick \/ Restart \/ \E a \in Attempts : Allow(a)

Spec == Init /\ [][Next]_vars

============================================================================
