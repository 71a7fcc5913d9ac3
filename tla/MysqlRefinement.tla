-------------------------- MODULE MysqlRefinement --------------------------
(***************************************************************************)
(* Panel, agent client, agent and its two mysql calls implement the forms  *)
(* of MysqlConsole, whatever crashes, fails, is lost or comes late.        *)
(*                                                                         *)
(* A form is carried out where its (first) statement runs; a grant that    *)
(* waits for its FLUSH counts as carried out, and a handler that is over   *)
(* does nothing more.                                                      *)
(***************************************************************************)
EXTENDS MysqlAdmin

FateOf == [idle |-> "none", sent |-> "open", flush |-> "carried", done |-> "over"]
fateBar == [r \in Requests |-> FateOf[pc[r]]]

C == INSTANCE MysqlConsole WITH fate <- fateBar

\* Forms look atomic: every behaviour of the pages is one of the abstract
\* console (httpapi.go:486-555, agent_client.go, mysql.go:59-133).
FormsAreAtomic == C!Spec

=============================================================================
