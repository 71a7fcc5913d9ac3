---------------------------- MODULE MCNodePages ----------------------------
(***************************************************************************)
(* An instance of NodePages, and of the PanelGate in it, for TLC.          *)
(***************************************************************************)
EXTENDS NodePages, TLC

Symmetry ==
    UNION {Permutations(S) : S \in {Logins, Requests, Ids, Hosts}}

============================================================================
