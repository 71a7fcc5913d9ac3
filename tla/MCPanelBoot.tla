---------------------------- MODULE MCPanelBoot ----------------------------
(***************************************************************************)
(* Instances of PanelBoot for TLC: enough key pairs for one more than the  *)
(* interrupted starts can use up, and enough passwords likewise.           *)
(***************************************************************************)
EXTENDS PanelBoot

CONSTANTS ca1, ca2, ca3, ca4, pw1, pw2

FourCas == {ca1, ca2, ca3, ca4}
TwoPasswords == {pw1, pw2}

============================================================================
