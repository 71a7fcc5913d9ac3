--------------------------- MODULE MCEnrollment ---------------------------
(***************************************************************************)
(* Instances of Enrollment and EnrollmentRefinement for TLC.               *)
(***************************************************************************)
EXTENDS EnrollmentRefinement, TLC

CONSTANTS a1, a2, h1, h2

\* Every server advertises a host of its own.
OwnHost == [a \in Agents |-> IF a = a1 THEN h1 ELSE h2]

\* Tokens and calls are interchangeable, and so are the two servers together
\* with their hosts.
SwapServers == (a1 :> a2 @@ a2 :> a1 @@ h1 :> h2 @@ h2 :> h1)
Symmetry == Permutations(Calls) \cup Permutations(Tokens) \cup {SwapServers}

============================================================================
