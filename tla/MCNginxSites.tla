--------------------------- MODULE MCNginxSites ---------------------------
(***************************************************************************)
(* An instance of NginxSites for TLC: "site" and "site.conf", which are    *)
(* two sites in sites-available and may be one in conf.d, and a short and  *)
(* a long text, and one that nginx refuses; a server comes with the long   *)
(* one.                                                                    *)
(***************************************************************************)
EXTENDS NginxSites, TLC

CONSTANTS site, siteConf, short, long, wrong

TwoNames == {site, siteConf}
WithSuffix == [n \in Names |-> siteConf]
TheLong == {long}
TheWrong == {wrong}
ThreeTexts == {short, long, wrong}
Lengths == [c \in Configs |-> IF c = long THEN 2 ELSE 1]

Symmetry == Permutations(Requests)

============================================================================
