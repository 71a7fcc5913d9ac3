------------------------- MODULE LimiterRefinement -------------------------
(***************************************************************************)
(* The limiter that prunes its entries at every call implements            *)
(* SlidingWindow, which remembers everything.                              *)
(***************************************************************************)
EXTENDS RateLimiter

\* What the running process let through, entered still or pruned since.
logBar == {a \in Attempts : result[a] = "true" /\ life[a] = restarts}

Enough == {S \in SUBSET Attempts : Cardinality(S) >= Limit}

W == INSTANCE SlidingWindow WITH log <- logBar

\* Pruning is exact: every attempt is answered as if the whole history of
\* the process had been kept and looked at (middleware/auth.go:171-190).
LimiterIsExact == W!Spec

============================================================================
