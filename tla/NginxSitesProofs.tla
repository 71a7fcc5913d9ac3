------------------------- MODULE NginxSitesProofs -------------------------
(***************************************************************************)
(* What the nginx pages promise, for any number of sites, configurations,  *)
(* requests and faults.                                                    *)
(*                                                                         *)
(* What a step of a handler changes is the site it was asked for.  So the  *)
(* invariant says of every request how far it has come and what it left    *)
(* there, and of every site what may have gone wrong with it: two handlers *)
(* in the middle of one site have met, and a link without a file or a      *)
(* mixed text has such a meeting, or an unnoticed failure, behind it.      *)
(***************************************************************************)
EXTENDS NginxSites, SequenceTheorems, TLAPS

\* A request, its handler and its answer keep step.
Progress ==
    \A r \in Requests :
        /\ form[r] = None <=> pc[r] = "idle"
        /\ form[r] = None => answer[r] = None
        /\ pc[r] = "write" => Op(r) = "save"
        /\ pc[r] = "symlink" => Op(r) = "enable" /\ sitesAvailable
        /\ pc[r] = "unlink" => Op(r) = "delete"
        /\ answer[r] = "ok" => pc[r] = "done"
        /\ r \in orphans => pc[r] = "write"

WorksOn(r, n) == form[r] # None /\ Op(r) \in FileOps /\ Target(r) = n

\* The latest form for a site has it to itself.
OwnerAlone ==
    \A n \in Names, r \in Requests :
        last[n] = r =>
            /\ WorksOn(r, n)
            /\ \A s \in Requests : s # r /\ WorksOn(s, n) => pc[s] = "done"

\* How far it has come shows on the disk.
Stage(r, n) ==
    /\ pc[r] = "write" => file[n] = <<>> /\ r \notin orphans
    /\ pc[r] = "symlink" => file[n] # None
    /\ pc[r] = "unlink" => n \notin link \/ n \in ignored
    /\ answer[r] = "ok" => Effect(r)

OwnerStage == \A n \in Names, r \in Requests : last[n] = r => Stage(r, n)

\* Handlers in the middle of one site have met.
AllMeet ==
    \A r, s \in Requests :
        r # s /\ InTheMiddle(r) /\ InTheMiddle(s) /\ Target(r) = Target(s)
            => <<Target(r), {Op(r), Op(s)}>> \in met

\* What may have led to a link without a file, and to a mixed text.
LinkExcused(n) == <<n, {"enable", "delete"}>> \in met \/ n \in ignored
TextExcused(n) == <<n, {"save"}>> \in met

\* Links, and the handlers that are about to link or to remove a file.
LinkGood(n) == n \in link /\ file[n] = None => LinkExcused(n)
LinkStage(r) ==
    /\ pc[r] = "symlink" => file[Target(r)] # None \/ LinkExcused(Target(r))
    /\ pc[r] = "unlink" => Target(r) \notin link \/ LinkExcused(Target(r))

Links ==
    /\ \A n \in Names : LinkGood(n)
    /\ \A r \in Requests : LinkStage(r)
    /\ ~sitesAvailable => link = {}

\* Texts, and the handlers that are about to write one.
Writing(r, n) == pc[r] = "write" /\ r \notin orphans /\ Target(r) = n
TextGood(n) ==
    \/ file[n] = None
    \/ \E c \in Configs : file[n] = Text(c)
    \/ file[n] = <<>> /\ (n \in cut \/ \E r \in Requests : Writing(r, n))
    \/ n \in partial /\ \E c \in Configs : \E k \in 1..Size[c] : file[n] = Piece(c, k)
    \/ TextExcused(n)
TextStage(n) ==
    (\E r \in Requests : Writing(r, n)) => file[n] # None /\ (file[n] = <<>> \/ TextExcused(n))

Texts == \A n \in Names : TextGood(n) /\ TextStage(n)

IInv == TypeOK /\ Progress /\ OwnerAlone /\ OwnerStage /\ AllMeet /\ Links /\ Texts

----------------------------------------------------------------------------
(* Texts and forms.                                                        *)

\* A text, and a piece of one, is a sequence of its blocks.
LEMMA PieceType ==
    ASSUME NEW c \in Configs, NEW k \in Nat
    PROVE  Piece(c, k) \in Seq(Configs) /\ Len(Piece(c, k)) = k
<1>1. Piece(c, k) \in [1..k -> Configs]
    BY DEF Piece
<1> QED
    BY <1>1, SeqDef DEF Piece

LEMMA TextType == ASSUME NEW c \in Configs PROVE Size[c] \in Nat /\ Text(c) \in Seq(Configs)
<1>1. Size[c] \in Nat
    BY ConstantsAssumption
<1> QED
    BY <1>1, PieceType DEF Text

\* Writing over a text gives a text.
LEMMA OverwriteType ==
    ASSUME NEW old \in Seq(Configs), NEW new \in Seq(Configs)
    PROVE  Overwrite(old, new) \in Seq(Configs)
<1> DEFINE len == IF Len(old) > Len(new) THEN Len(old) ELSE Len(new)
<1>1. /\ Len(old) \in Nat /\ Len(new) \in Nat
      /\ \A i \in 1..Len(old) : old[i] \in Configs
      /\ \A i \in 1..Len(new) : new[i] \in Configs
    OBVIOUS
<1>2. len \in Nat /\ Overwrite(old, new) \in [1..len -> Configs]
    BY <1>1 DEF Overwrite
<1> QED
    BY <1>2, SeqDef

\* Writing into an empty file leaves what was written.
LEMMA OverwriteEmpty ==
    ASSUME NEW c \in Configs, NEW k \in Nat PROVE Overwrite(<<>>, Piece(c, k)) = Piece(c, k)
<1>1. Piece(c, k) \in Seq(Configs) /\ Len(Piece(c, k)) = k
    BY PieceType
<1>2. Len(<<>>) = 0
    OBVIOUS
<1> QED
    BY <1>1, <1>2 DEF Overwrite, Piece

\* A form for a file names a site, and a save has a configuration.
LEMMA FormType ==
    ASSUME TypeOK, NEW r \in Requests, form[r] # None
    PROVE  /\ form[r] \in Forms /\ Op(r) \in FileOps \cup NginxOps
           /\ Op(r) \in FileOps => Target(r) \in Names
           /\ Op(r) = "save" => form[r].config \in Configs
  BY ConstantsAssumption DEF TypeOK, Forms, FileOps, NginxOps, Op, Target, Site

LEMMA FaultType ==
    ASSUME TypeOK, Fault \/ UNCHANGED faults PROVE faults' \in 0..MaxFaults
  BY ConstantsAssumption DEF TypeOK, Fault

----------------------------------------------------------------------------
(* The invariant holds at the start, and steps that change no site keep it.*)

LEMMA InitInv == Init => IInv
<1> SUFFICES ASSUME Init PROVE IInv
    OBVIOUS
<1>1. \A c \in Found : Text(c) \in Seq(Configs)
    BY TextType, ConstantsAssumption
<1>2. TypeOK
    <2>1. file \in [Names -> Seq(Configs) \cup {None}]
        BY <1>1 DEF Init
    <2> QED
        BY <2>1, ConstantsAssumption DEF Init, TypeOK
<1>3. Progress
    BY ConstantsAssumption DEF Init, Progress
<1>4. OwnerAlone /\ OwnerStage
    BY ConstantsAssumption DEF Init, OwnerAlone, OwnerStage
<1>5. AllMeet /\ Links
    BY DEF Init, AllMeet, InTheMiddle, Links, LinkGood, LinkStage
<1>6. Texts
    <2>1. \A n \in Names : file[n] = None \/ \E c \in Configs : file[n] = Text(c)
        BY ConstantsAssumption DEF Init
    <2> QED
        BY <2>1 DEF Init, Texts, TextGood, TextStage, Writing
<1> QED
    BY <1>2, <1>3, <1>4, <1>5, <1>6 DEF IInv

\* What goes into the history stays.
HistoryGrows ==
    /\ met \subseteq met' /\ cut \subseteq cut'
    /\ partial \subseteq partial' /\ ignored \subseteq ignored'

\* An effect is a matter of one site.
LEMMA EffectStays ==
    ASSUME NEW r \in Requests, form'[r] = form[r], sitesAvailable' = sitesAvailable,
           HistoryGrows, file'[Target(r)] = file[Target(r)],
           Target(r) \in link' <=> Target(r) \in link, Effect(r), Op(r) \in FileOps
    PROVE  Effect(r)'
<1>1. Op(r)' = Op(r) /\ Target(r)' = Target(r)
    BY DEF Op, Target, Site
<1> QED
    BY <1>1 DEF Effect, HistoryGrows

\* A step that changes no file and no link: handlers may come to their end,
\* answers may be given, and "ok" only for an effect that is there.
LEMMA QuietKeeps ==
    ASSUME IInv, TypeOK', HistoryGrows, UNCHANGED <<sitesAvailable, file, link, form, last>>,
           \A r \in Requests :
              /\ pc'[r] = pc[r] \/ (pc[r] # "idle" /\ pc'[r] = "done")
              /\ r \in orphans' <=> r \in orphans /\ pc'[r] = "write"
              /\ pc[r] = "write" /\ r \notin orphans /\ pc'[r] # "write" => Target(r) \in cut'
              /\ answer'[r] = "ok" =>
                    \/ answer[r] = "ok"
                    \/ pc'[r] = "done" /\ (\A n \in Names : last[n] = r => Effect(r)')
              /\ form[r] = None => answer'[r] = answer[r]
    PROVE  IInv'
<1>1. \A r \in Requests : Op(r)' = Op(r) /\ Target(r)' = Target(r)
    BY DEF Op, Target, Site
<1>2. Progress'
    BY <1>1 DEF IInv, Progress
<1>3. OwnerAlone'
    BY <1>1 DEF IInv, OwnerAlone, WorksOn
<1>4. OwnerStage'
    <2> SUFFICES ASSUME NEW n \in Names, NEW r \in Requests, last[n] = r PROVE Stage(r, n)'
        BY DEF OwnerStage
    <2>1. Stage(r, n) /\ WorksOn(r, n)
        BY DEF IInv, OwnerStage, OwnerAlone
    <2>2. answer'[r] = "ok" => Effect(r)'
        BY <2>1, EffectStays DEF Stage, WorksOn
    <2> QED
        BY <2>1, <2>2 DEF Stage, HistoryGrows
<1>5. AllMeet'
    BY <1>1 DEF IInv, AllMeet, InTheMiddle, HistoryGrows
<1>6. Links'
    <2>1. \A n \in Names : LinkExcused(n) => LinkExcused(n)'
        BY DEF LinkExcused, HistoryGrows
    <2>2. \A r \in Requests : pc[r] \in {"symlink", "unlink"} => Target(r) \in Names
        BY FormType DEF IInv, Progress, FileOps
    <2>3. \A n \in Names : LinkGood(n)'
        BY <2>1 DEF LinkGood, IInv, Links
    <2>4. \A r \in Requests : LinkStage(r)'
        BY <1>1, <2>1, <2>2 DEF LinkStage, IInv, Links
    <2> QED
        BY <2>3, <2>4 DEF Links, IInv
<1>7. Texts'
    <2> SUFFICES ASSUME NEW n \in Names PROVE TextGood(n)' /\ TextStage(n)'
        BY DEF Texts
    <2>1. TextGood(n) /\ TextStage(n) /\ (TextExcused(n) => TextExcused(n)')
        BY DEF IInv, Texts, TextExcused, HistoryGrows
    <2>2. \A r \in Requests : Writing(r, n)' => Writing(r, n)
        BY <1>1 DEF Writing, IInv, Progress
    <2>3. \A r \in Requests : Writing(r, n) => Writing(r, n)' \/ n \in cut'
        BY <1>1 DEF Writing
    <2>4. TextStage(n)'
        BY <2>1, <2>2 DEF TextStage
    <2>5. TextGood(n)'
        BY <2>1, <2>3 DEF TextGood, HistoryGrows, Text, Piece
    <2> QED
        BY <2>4, <2>5
<1> QED
    BY <1>2, <1>3, <1>4, <1>5, <1>6, <1>7 DEF IInv

\* A handler comes to its end without having changed a file or a link.
LEMMA EndKeeps ==
    ASSUME IInv, NEW s \in Requests, pc[s] \notin {"idle", "done"},
           NEW result \in {"ok", "error"}, Finish(s, result),
           UNCHANGED <<sitesAvailable, file, link, form, met, partial>>,
           up' \in BOOLEAN, Fault \/ UNCHANGED faults,
           orphans' = orphans \ {s},
           cut' = IF pc[s] = "write" /\ s \notin orphans THEN cut \cup {Target(s)} ELSE cut,
           ignored' \subseteq Names, ignored \subseteq ignored',
           result = "ok" => \A n \in Names : last[n] = s => Effect(s)'
    PROVE  IInv'
<1>0. form[s] # None
    BY DEF IInv, Progress
<1>1. /\ pc' = [pc EXCEPT ![s] = "done"] /\ UNCHANGED last
      /\ answer' = [answer EXCEPT ![s] = IF @ = "waiting" THEN result ELSE @]
    BY DEF Finish
<1>2. pc[s] = "write" => Target(s) \in Names
    BY <1>0, FormType DEF IInv, Progress, FileOps
<1>3. TypeOK'
    BY <1>1, <1>2, FaultType DEF IInv, TypeOK
<1>4. \A r \in Requests \ {s} : pc'[r] = pc[r] /\ answer'[r] = answer[r]
    BY <1>1 DEF IInv, TypeOK
<1>5. pc'[s] = "done" /\ answer'[s] = IF answer[s] = "waiting" THEN result ELSE answer[s]
    BY <1>1 DEF IInv, TypeOK
<1>6. HistoryGrows
    BY DEF HistoryGrows
<1>7. \A r \in Requests : r \in orphans => pc[r] = "write"
    BY DEF IInv, Progress
<1> QED
    BY <1>0, <1>1, <1>3, <1>4, <1>5, <1>6, <1>7, QuietKeeps

LEMMA GiveUpKeeps == ASSUME IInv, NEW s \in Requests, GiveUp(s) PROVE IInv'
<1>1. TypeOK'
    BY DEF GiveUp, IInv, TypeOK, history
<1>2. form[s] # None
    BY ConstantsAssumption DEF GiveUp, IInv, Progress
<1>3. HistoryGrows
    BY DEF HistoryGrows, GiveUp, history
<1>4. \A r \in Requests : answer'[r] = IF r = s THEN "error" ELSE answer[r]
    BY DEF GiveUp, IInv, TypeOK
<1>5. \A r \in Requests : r \in orphans => pc[r] = "write"
    BY DEF IInv, Progress
<1> QED
    BY <1>1, <1>2, <1>3, <1>4, <1>5, QuietKeeps DEF GiveUp, history

LEMMA LoseKeeps == ASSUME IInv, NEW s \in Requests, Lose(s) PROVE IInv'
<1>1. TypeOK'
    BY DEF Lose, IInv, TypeOK, history
<1>2. HistoryGrows
    BY DEF HistoryGrows, Lose, history
<1>3. \A r \in Requests : pc'[r] = IF r = s THEN "done" ELSE pc[r]
    BY DEF Lose, IInv, TypeOK
<1>4. \A r \in Requests : r \in orphans => pc[r] = "write"
    BY DEF IInv, Progress
<1> QED
    BY <1>1, <1>2, <1>3, <1>4, QuietKeeps DEF Lose, history

LEMMA SaveFailsKeeps == ASSUME IInv, NEW s \in Requests, SaveFails(s) PROVE IInv'
  BY EndKeeps DEF SaveFails, IInv, TypeOK

LEMMA ToggleNothingKeeps == ASSUME IInv, NEW s \in Requests, ToggleNothing(s) PROVE IInv'
<1>1. Op(s) \in {"enable", "disable"} /\ pc[s] = "sent"
    BY DEF ToggleNothing, Received
<1>2. Effect(s)'
    BY <1>1 DEF ToggleNothing, Effect, Op, IInv, Links
<1>3. s \notin orphans
    BY <1>1 DEF IInv, Progress
<1> QED
    BY <1>1, <1>2, <1>3, EndKeeps DEF ToggleNothing, IInv, TypeOK

LEMMA EnableMissingKeeps == ASSUME IInv, NEW s \in Requests, EnableMissing(s) PROVE IInv'
<1>1. pc[s] = "sent" /\ s \notin orphans
    BY DEF EnableMissing, Received, IInv, Progress
<1> QED
    BY <1>1, EndKeeps DEF EnableMissing, IInv, TypeOK

LEMMA ToggleFailsKeeps == ASSUME IInv, NEW s \in Requests, ToggleFails(s) PROVE IInv'
<1>1. pc[s] \in {"sent", "symlink"} /\ s \notin orphans /\ Op(s) \in {"enable", "disable"}
    BY DEF ToggleFails, Received, IInv, Progress
<1>2. Target(s) \in Names
    BY <1>1, FormType DEF IInv, Progress, FileOps
<1>3. Effect(s)'
    BY <1>1 DEF ToggleFails, Effect, Op, Target, Site
<1> QED
    BY <1>1, <1>2, <1>3, EndKeeps DEF ToggleFails, IInv, TypeOK

LEMMA DeleteFailsKeeps == ASSUME IInv, NEW s \in Requests, DeleteFails(s) PROVE IInv'
<1>1. pc[s] = "unlink" /\ s \notin orphans
    BY DEF DeleteFails, IInv, Progress
<1> QED
    BY <1>1, EndKeeps DEF DeleteFails, IInv, TypeOK

\* Testing, reloading and restarting nginx change no site.
LEMMA NginxKeeps ==
    ASSUME IInv, NEW s \in Requests, Test(s) \/ Reload(s) \/ Restart(s) PROVE IInv'
<1>1. pc[s] = "sent" /\ Op(s) \in NginxOps /\ s \notin orphans
    BY DEF Test, Reload, Restart, Received, NginxOps, IInv, Progress
<1>2. PICK result \in {"ok", "error"} : Finish(s, result)
    BY DEF Test, Reload, Restart
<1>3. \A n \in Names : last[n] # s
    BY <1>1 DEF IInv, OwnerAlone, WorksOn, NginxOps, FileOps
<1>4. /\ UNCHANGED <<sitesAvailable, file, link, form, orphans, met, cut, partial, ignored, faults>>
      /\ up' \in BOOLEAN
    BY DEF Test, Reload, Restart, ConfigLoads, IInv, TypeOK
<1> QED
    BY <1>1, <1>2, <1>3, <1>4, EndKeeps DEF IInv, TypeOK

LEMMA AgentDiesKeeps == ASSUME IInv, AgentDies PROVE IInv'
<1>1. \A r \in Requests :
        /\ pc'[r] = IF pc[r] \notin {"idle", "done"} THEN "done" ELSE pc[r]
        /\ answer'[r] = IF pc[r] \notin {"idle", "done"} /\ answer[r] = "waiting"
                        THEN "error" ELSE answer[r]
        /\ pc[r] = "write" => Target(r) \in cut'
    BY DEF AgentDies
<1>2. \A r \in Requests : pc[r] = "write" => Target(r) \in Names
    BY FormType DEF IInv, Progress, FileOps
<1>3. TypeOK'
    <2>1. pc' \in [Requests -> {"idle", "sent", "write", "short", "symlink", "unlink", "done"}]
        BY DEF AgentDies, IInv, TypeOK
    <2>2. answer' \in [Requests -> {None, "waiting", "ok", "error"}]
        BY DEF AgentDies, IInv, TypeOK
    <2>3. cut' \subseteq Names
        BY <1>2 DEF AgentDies, IInv, TypeOK
    <2> QED
        BY <2>1, <2>2, <2>3, FaultType DEF AgentDies, IInv, TypeOK
<1>4. HistoryGrows
    BY DEF HistoryGrows, AgentDies
<1>5. orphans' = {} /\ \A r \in Requests : pc'[r] # "write"
    BY <1>1 DEF AgentDies
<1>6. \A r \in Requests : /\ pc[r] = "idle" => pc'[r] = "idle"
                          /\ form[r] = None => pc[r] = "idle"
    BY <1>1 DEF IInv, Progress
<1> QED
    BY <1>1, <1>3, <1>4, <1>5, <1>6, QuietKeeps DEF AgentDies

----------------------------------------------------------------------------
(* Steps that change a site: the other sites are as they were, and what    *)
(* works on this one is not their owner.                                   *)

\* What s may change when it works on site n.
Confined(s, n) ==
    /\ UNCHANGED <<form, last, sitesAvailable>>
    /\ \A m \in Names \ {n} : file'[m] = file[m] /\ (m \in link' <=> m \in link)
    /\ \A r \in Requests \ {s} :
         /\ pc'[r] = pc[r] /\ answer'[r] = answer[r]
         /\ Target(r) # n => (r \in orphans' <=> r \in orphans)

ProgressOf(r) ==
    /\ form[r] # None /\ pc[r] # "idle"
    /\ pc[r] = "write" => Op(r) = "save"
    /\ pc[r] = "symlink" => Op(r) = "enable" /\ sitesAvailable
    /\ pc[r] = "unlink" => Op(r) = "delete"
    /\ answer[r] = "ok" => pc[r] = "done"

LEMMA SiteKeeps ==
    ASSUME IInv, TypeOK', HistoryGrows,
           NEW s \in Requests, NEW n \in Names, WorksOn(s, n), pc[s] # "done",
           Confined(s, n), ProgressOf(s)',
           \A r \in Requests : r \in orphans' => pc'[r] = "write",
           last[n] = s => Stage(s, n)',
           InTheMiddle(s)' => InTheMiddle(s) \/ Beside(s) \subseteq met',
           LinkGood(n)', \A r \in Requests : Target(r) = n => LinkStage(r)',
           ~sitesAvailable => link' = {},
           TextGood(n)', TextStage(n)'
    PROVE  IInv'
<1>1. \A r \in Requests : Op(r)' = Op(r) /\ Target(r)' = Target(r)
    BY DEF Confined, Op, Target, Site
<1>2. Progress'
    BY <1>1 DEF IInv, Progress, ProgressOf, Confined
<1>3. OwnerAlone'
    BY <1>1 DEF IInv, OwnerAlone, WorksOn, Confined
<1>4. OwnerStage'
    <2> SUFFICES ASSUME NEW m \in Names, NEW r \in Requests, last[m] = r PROVE Stage(r, m)'
        BY DEF OwnerStage, Confined
    <2>1. Stage(r, m) /\ WorksOn(r, m)
        BY DEF IInv, OwnerStage, OwnerAlone
    <2>2. CASE r = s
        BY <2>1, <2>2 DEF WorksOn
    <2>3. CASE r # s
        <3>1. m # n
            BY <2>3 DEF IInv, OwnerAlone
        <3>2. answer'[r] = "ok" => Effect(r)'
            BY <2>1, <2>3, <3>1, EffectStays DEF Stage, WorksOn, Confined
        <3> QED
            BY <2>1, <2>3, <3>1, <3>2 DEF Stage, WorksOn, Confined, HistoryGrows
    <2> QED
        BY <2>2, <2>3
<1>5. AllMeet'
    <2> SUFFICES ASSUME NEW r \in Requests, NEW q \in Requests, r # q,
                        InTheMiddle(r)', InTheMiddle(q)', Target(r) = Target(q)
                 PROVE  <<Target(r), {Op(r), Op(q)}>> \in met'
        BY <1>1 DEF AllMeet
    <2>1. CASE InTheMiddle(r) /\ InTheMiddle(q)
        BY <2>1 DEF IInv, AllMeet, HistoryGrows
    <2>2. CASE ~InTheMiddle(r)
        <3>1. r = s /\ InTheMiddle(q)
            BY <2>2 DEF Confined, InTheMiddle
        <3> QED
            BY <2>2, <3>1 DEF Beside
    <2>3. CASE ~InTheMiddle(q)
        <3>1. q = s /\ InTheMiddle(r)
            BY <2>3 DEF Confined, InTheMiddle
        <3>2. <<Target(q), {Op(q), Op(r)}>> \in met'
            BY <2>3, <3>1 DEF Beside
        <3>3. {Op(q), Op(r)} = {Op(r), Op(q)}
            OBVIOUS
        <3> QED
            BY <3>2, <3>3
    <2> QED
        BY <2>1, <2>2, <2>3
<1>6. Links'
    <2>1. \A m \in Names : LinkExcused(m) => LinkExcused(m)'
        BY DEF LinkExcused, HistoryGrows
    <2>2. ASSUME NEW m \in Names \ {n} PROVE LinkGood(m)'
        BY <2>1 DEF LinkGood, Confined, IInv, Links
    <2>3. ASSUME NEW r \in Requests, Target(r) # n PROVE LinkStage(r)'
        <3>1. r # s
            BY <2>3 DEF WorksOn
        <3>2. pc[r] \in {"symlink", "unlink"} => Target(r) \in Names
            BY FormType DEF IInv, Progress, FileOps
        <3> QED
            BY <1>1, <2>1, <2>3, <3>1, <3>2 DEF LinkStage, Confined, IInv, Links
    <2>4. ~sitesAvailable' => link' = {}
        BY DEF Confined
    <2> QED
        BY <2>2, <2>3, <2>4 DEF Links
<1>7. Texts'
    <2> SUFFICES ASSUME NEW m \in Names \ {n} PROVE TextGood(m)' /\ TextStage(m)'
        BY DEF Texts
    <2>1. TextGood(m) /\ TextStage(m) /\ (TextExcused(m) => TextExcused(m)')
        BY DEF IInv, Texts, TextExcused, HistoryGrows
    <2>2. \A r \in Requests : Writing(r, m)' <=> Writing(r, m)
        BY <1>1 DEF Writing, Confined, WorksOn
    <2>3. file'[m] = file[m]
        BY DEF Confined
    <2>4. TextStage(m)'
        BY <2>1, <2>2, <2>3 DEF TextStage
    <2>5. TextGood(m)'
        BY <2>1, <2>2, <2>3 DEF TextGood, HistoryGrows, Text, Piece
    <2> QED
        BY <2>4, <2>5
<1> QED
    BY <1>2, <1>3, <1>4, <1>5, <1>6, <1>7 DEF IInv

\* What holds of a request that works on a site and is not done.
LEMMA AtWork ==
    ASSUME IInv, NEW s \in Requests, pc[s] \notin {"idle", "done"}, Op(s) \in FileOps
    PROVE  /\ form[s] # None /\ Target(s) \in Names /\ WorksOn(s, Target(s))
           /\ answer[s] # "ok" /\ (Op(s) = "save" => form[s].config \in Configs)
           /\ s \in orphans => pc[s] = "write"
  BY FormType DEF IInv, Progress, WorksOn

\* Not to be confused with a file that is not there.
LEMMA SeqNotNone == ASSUME NEW t \in Seq(Configs) PROVE t # None
  BY ConstantsAssumption

\* A text that nobody touches stays as good as it is.
LEMMA TextStays ==
    ASSUME IInv, HistoryGrows, NEW n \in Names, file'[n] = file[n],
           UNCHANGED <<form, sitesAvailable>>,
           \A r \in Requests : Writing(r, n)' <=> Writing(r, n)
    PROVE  TextGood(n)' /\ TextStage(n)'
<1>1. TextGood(n) /\ TextStage(n) /\ (TextExcused(n) => TextExcused(n)')
    BY DEF IInv, Texts, TextExcused, HistoryGrows
<1>2. TextStage(n)'
    BY <1>1 DEF TextStage
<1>3. TextGood(n)'
    BY <1>1 DEF TextGood, HistoryGrows, Text, Piece
<1> QED
    BY <1>2, <1>3

LEMMA SaveOpenKeeps == ASSUME IInv, NEW s \in Requests, SaveOpen(s) PROVE IInv'
<1>0. pc[s] = "sent" /\ Op(s) = "save" /\ Target(s) \in Names /\ WorksOn(s, Target(s))
    BY AtWork DEF SaveOpen, Received, FileOps
<1> PICK n \in Names : Target(s) = n
    BY <1>0
<1>1. pc[s] = "sent" /\ Op(s) = "save" /\ Target(s) = n /\ WorksOn(s, n)
    BY <1>0
<1>2. answer[s] # "ok" /\ form[s] # None /\ s \notin orphans
    BY <1>1, AtWork DEF FileOps
<1>3. /\ pc'[s] = "write" /\ file'[n] = <<>> /\ Beside(s) \subseteq met'
      /\ \A r \in Requests \ {s} : pc'[r] = pc[r]
      /\ \A m \in Names \ {n} : file'[m] = file[m]
      /\ UNCHANGED <<sitesAvailable, link, form, orphans, answer, last, cut, partial, ignored>>
      /\ met \subseteq met'
    BY <1>1 DEF SaveOpen, Goto, IInv, TypeOK
<1>4. <<>> \in Seq(Configs) /\ <<>> # None
    BY EmptySeq, SeqNotNone
<1>5. TypeOK'
    <2>1. met' \subseteq Names \X SUBSET FileOps
        BY <1>1, FormType DEF SaveOpen, Goto, Beside, InTheMiddle, IInv, Progress, TypeOK, FileOps
    <2> QED
        BY <1>3, <1>4, <2>1 DEF SaveOpen, Goto, IInv, TypeOK
<1>6. HistoryGrows
    BY <1>3 DEF HistoryGrows
<1>7. Confined(s, n)
    BY <1>3 DEF Confined
<1>8. ProgressOf(s)'
    BY <1>1, <1>2, <1>3 DEF ProgressOf, Op
<1>9. \A r \in Requests : r \in orphans' => pc'[r] = "write"
    BY <1>2, <1>3 DEF IInv, Progress
<1>10. Stage(s, n)'
    BY <1>2, <1>3 DEF Stage
<1>11. LinkGood(n)' /\ \A r \in Requests : Target(r) = n => LinkStage(r)'
    BY <1>1, <1>3, <1>4 DEF LinkGood, LinkStage, LinkExcused, Target, Site, IInv, Links
<1>12. Writing(s, n)'
    BY <1>2, <1>3 DEF Writing, Target, Site
<1>13. TextGood(n)' /\ TextStage(n)'
    BY <1>3, <1>4, <1>12 DEF TextGood, TextStage
<1>14. ~sitesAvailable => link' = {}
    BY <1>3 DEF IInv, Links
<1> QED
    BY <1>1, <1>3, <1>5, <1>6, <1>7, <1>8, <1>9, <1>10, <1>11, <1>13, <1>14, SiteKeeps

LEMMA EnableStatKeeps == ASSUME IInv, NEW s \in Requests, EnableStat(s) PROVE IInv'
<1>0. pc[s] = "sent" /\ Op(s) = "enable" /\ Target(s) \in Names /\ WorksOn(s, Target(s))
    BY AtWork DEF EnableStat, Received, FileOps
<1> PICK n \in Names : Target(s) = n
    BY <1>0
<1>1. pc[s] = "sent" /\ Op(s) = "enable" /\ Target(s) = n /\ WorksOn(s, n)
    BY <1>0
<1>2. answer[s] # "ok" /\ form[s] # None /\ s \notin orphans
    BY <1>1, AtWork DEF FileOps
<1>3. /\ pc'[s] = "symlink" /\ file[n] # None /\ sitesAvailable /\ Beside(s) \subseteq met'
      /\ \A r \in Requests \ {s} : pc'[r] = pc[r]
      /\ UNCHANGED <<sitesAvailable, file, link, form, orphans, answer, last, cut, partial, ignored>>
      /\ met \subseteq met'
    BY <1>1 DEF EnableStat, Goto, IInv, TypeOK
<1>5. TypeOK'
    <2>1. met' \subseteq Names \X SUBSET FileOps
        BY <1>1, FormType DEF EnableStat, Goto, Beside, InTheMiddle, IInv, Progress, TypeOK, FileOps
    <2> QED
        BY <1>3, <2>1 DEF EnableStat, Goto, IInv, TypeOK
<1>6. HistoryGrows
    BY <1>3 DEF HistoryGrows
<1>7. Confined(s, n)
    BY <1>3 DEF Confined
<1>8. ProgressOf(s)'
    BY <1>1, <1>2, <1>3 DEF ProgressOf, Op
<1>9. \A r \in Requests : r \in orphans' => pc'[r] = "write"
    BY <1>2, <1>3 DEF IInv, Progress
<1>10. Stage(s, n)'
    BY <1>2, <1>3 DEF Stage
<1>11. LinkGood(n)' /\ \A r \in Requests : Target(r) = n => LinkStage(r)'
    BY <1>1, <1>3 DEF LinkGood, LinkStage, LinkExcused, Target, Site, IInv, Links
<1>12. \A r \in Requests : Writing(r, n)' <=> Writing(r, n)
    BY <1>1, <1>3 DEF Writing, Target, Site
<1>13. TextGood(n)' /\ TextStage(n)'
    BY <1>1, <1>3, <1>6, <1>12, TextStays
<1>14. ~sitesAvailable => link' = {}
    BY <1>3 DEF IInv, Links
<1> QED
    BY <1>1, <1>3, <1>5, <1>6, <1>7, <1>8, <1>9, <1>10, <1>11, <1>13, <1>14, SiteKeeps

LEMMA EnableLinkKeeps == ASSUME IInv, NEW s \in Requests, EnableLink(s) PROVE IInv'
<1>0. pc[s] = "symlink" /\ Op(s) = "enable" /\ Target(s) \in Names /\ WorksOn(s, Target(s)) /\ sitesAvailable
    <2>1. pc[s] = "symlink" /\ Op(s) = "enable" /\ sitesAvailable
        BY DEF EnableLink, IInv, Progress
    <2> QED
        BY <2>1, AtWork DEF FileOps
<1> PICK n \in Names : Target(s) = n
    BY <1>0
<1>1. pc[s] = "symlink" /\ Op(s) = "enable" /\ Target(s) = n /\ WorksOn(s, n)
    BY <1>0
<1>2. answer[s] # "ok" /\ form[s] # None /\ s \notin orphans
    BY <1>1, AtWork DEF FileOps
<1>3. /\ pc'[s] = "done" /\ link' = link \cup {n}
      /\ \A r \in Requests \ {s} : pc'[r] = pc[r] /\ answer'[r] = answer[r]
      /\ UNCHANGED <<sitesAvailable, file, form, orphans, last, met, cut, partial, ignored>>
    BY <1>1 DEF EnableLink, Finish, IInv, TypeOK
<1>4. TypeOK'
    BY <1>1 DEF EnableLink, Finish, IInv, TypeOK
<1>5. HistoryGrows
    BY <1>3 DEF HistoryGrows
<1>6. Confined(s, n)
    BY <1>3 DEF Confined
<1>7. ProgressOf(s)'
    BY <1>1, <1>2, <1>3 DEF ProgressOf
<1>8. \A r \in Requests : r \in orphans' => pc'[r] = "write"
    BY <1>2, <1>3 DEF IInv, Progress
<1>9. last[n] = s => Stage(s, n)'
    <2>1. last[n] = s => file[n] # None
        BY <1>1 DEF IInv, OwnerStage, Stage
    <2> QED
        BY <1>1, <1>3, <2>1 DEF Stage, Effect, Op, Target, Site
<1>10. LinkGood(n)'
    BY <1>1, <1>3 DEF LinkGood, LinkStage, LinkExcused, IInv, Links
\* A delete that is about to remove the file has met this step.
<1>11. ASSUME NEW r \in Requests, Target(r) = n PROVE LinkStage(r)'
    <2>1. Target(r)' = n
        BY <1>3, <1>11 DEF Target, Site
    <2>2. CASE pc'[r] = "unlink"
        <3>1. r # s /\ pc[r] = "unlink" /\ Op(r) = "delete"
            BY <1>3, <2>2 DEF IInv, Progress
        <3>2. <<n, {"enable", "delete"}>> \in met
            BY <1>1, <1>11, <3>1 DEF IInv, AllMeet, InTheMiddle
        <3> QED
            BY <1>3, <2>1, <3>2 DEF LinkStage, LinkExcused
    <2>3. CASE pc'[r] = "symlink"
        BY <1>3, <1>11, <2>1, <2>3 DEF LinkStage, LinkExcused, IInv, Links
    <2> QED
        BY <2>2, <2>3 DEF LinkStage
<1>12. \A r \in Requests : Writing(r, n)' <=> Writing(r, n)
    BY <1>1, <1>3 DEF Writing, Target, Site
<1>13. TextGood(n)' /\ TextStage(n)'
    BY <1>3, <1>5, <1>12, TextStays
<1>14. ~InTheMiddle(s)'
    BY <1>3 DEF InTheMiddle
<1> QED
    BY <1>0, <1>1, <1>4, <1>5, <1>6, <1>7, <1>8, <1>9, <1>10, <1>11, <1>13, <1>14, SiteKeeps

LEMMA DisableKeeps == ASSUME IInv, NEW s \in Requests, Disable(s) PROVE IInv'
<1>0. pc[s] = "sent" /\ Op(s) = "disable" /\ Target(s) \in Names /\ WorksOn(s, Target(s))
    BY AtWork DEF Disable, Received, FileOps
<1> PICK n \in Names : Target(s) = n
    BY <1>0
<1>1. pc[s] = "sent" /\ Op(s) = "disable" /\ Target(s) = n /\ WorksOn(s, n)
    BY <1>0
<1>2. answer[s] # "ok" /\ form[s] # None /\ s \notin orphans
    BY <1>1, AtWork DEF FileOps
<1>3. /\ pc'[s] = "done" /\ link' = link \ {n} /\ sitesAvailable
      /\ \A r \in Requests \ {s} : pc'[r] = pc[r] /\ answer'[r] = answer[r]
      /\ UNCHANGED <<sitesAvailable, file, form, orphans, last, met, cut, partial, ignored>>
    BY <1>1 DEF Disable, Finish, IInv, TypeOK
<1>4. TypeOK'
    BY <1>1 DEF Disable, Finish, IInv, TypeOK
<1>5. HistoryGrows
    BY <1>3 DEF HistoryGrows
<1>6. Confined(s, n)
    BY <1>3 DEF Confined
<1>7. ProgressOf(s)'
    BY <1>1, <1>2, <1>3 DEF ProgressOf
<1>8. \A r \in Requests : r \in orphans' => pc'[r] = "write"
    BY <1>2, <1>3 DEF IInv, Progress
<1>9. Stage(s, n)'
    BY <1>1, <1>3 DEF Stage, Effect, Op, Target, Site
<1>10. LinkGood(n)' /\ \A r \in Requests : Target(r) = n => LinkStage(r)'
    BY <1>3 DEF LinkGood, LinkStage, LinkExcused, Target, Site, IInv, Links
<1>11. \A r \in Requests : Writing(r, n)' <=> Writing(r, n)
    BY <1>1, <1>3 DEF Writing, Target, Site
<1>12. TextGood(n)' /\ TextStage(n)'
    BY <1>3, <1>5, <1>11, TextStays
<1>13. ~InTheMiddle(s)'
    BY <1>3 DEF InTheMiddle
<1> QED
    BY <1>1, <1>3, <1>4, <1>5, <1>6, <1>7, <1>8, <1>9, <1>10, <1>12, <1>13, SiteKeeps

\* The link is gone, or that it could not be removed is remembered.
LEMMA DeleteLinkKeeps ==
    ASSUME IInv, NEW s \in Requests, DeleteLink(s) \/ DeleteLinkFails(s) PROVE IInv'
<1>0. pc[s] = "sent" /\ Op(s) = "delete" /\ Target(s) \in Names /\ WorksOn(s, Target(s))
    BY AtWork DEF DeleteLink, DeleteLinkFails, Received, FileOps
<1> PICK n \in Names : Target(s) = n
    BY <1>0
<1>1. pc[s] = "sent" /\ Op(s) = "delete" /\ Target(s) = n /\ WorksOn(s, n)
    BY <1>0
<1>2. answer[s] # "ok" /\ form[s] # None /\ s \notin orphans
    BY <1>1, AtWork DEF FileOps
<1>3. /\ pc'[s] = "unlink" /\ Beside(s) \subseteq met'
      /\ n \notin link' \/ n \in ignored'
      /\ link' \subseteq link /\ \A m \in Names \ {n} : m \in link' <=> m \in link
      /\ \A r \in Requests \ {s} : pc'[r] = pc[r]
      /\ UNCHANGED <<sitesAvailable, file, form, orphans, answer, last, cut, partial>>
      /\ met \subseteq met' /\ ignored \subseteq ignored'
    BY <1>1 DEF DeleteLink, DeleteLinkFails, Goto, IInv, TypeOK
<1>4. TypeOK'
    <2>1. met' \subseteq Names \X SUBSET FileOps
        <3>1. met' = met \cup Beside(s)
            BY DEF DeleteLink, DeleteLinkFails, Goto
        <3> QED
            BY <1>1, <3>1, FormType DEF Beside, InTheMiddle, IInv, Progress, TypeOK, FileOps
    <2>2. pc' = [pc EXCEPT ![s] = "unlink"] /\ ignored' \subseteq Names /\ UNCHANGED up
        BY <1>1 DEF DeleteLink, DeleteLinkFails, Goto, IInv, TypeOK
    <2>3. faults' \in 0..MaxFaults
        BY FaultType DEF DeleteLink, DeleteLinkFails, IInv
    <2> QED
        BY <1>3, <2>1, <2>2, <2>3 DEF IInv, TypeOK
<1>5. HistoryGrows
    BY <1>3 DEF HistoryGrows
<1>6. Confined(s, n)
    BY <1>3 DEF Confined
<1>7. ProgressOf(s)'
    BY <1>1, <1>2, <1>3 DEF ProgressOf, Op
<1>8. \A r \in Requests : r \in orphans' => pc'[r] = "write"
    BY <1>2, <1>3 DEF IInv, Progress
<1>9. Stage(s, n)'
    BY <1>2, <1>3 DEF Stage
<1>10. LinkGood(n)' /\ \A r \in Requests : Target(r) = n => LinkStage(r)'
    BY <1>3 DEF LinkGood, LinkStage, LinkExcused, Target, Site, IInv, Links
<1>11. \A r \in Requests : Writing(r, n)' <=> Writing(r, n)
    BY <1>1, <1>3 DEF Writing, Target, Site
<1>12. TextGood(n)' /\ TextStage(n)'
    BY <1>3, <1>5, <1>11, TextStays
<1>13. ~sitesAvailable => link' = {}
    BY <1>3 DEF IInv, Links
<1> QED
    BY <1>1, <1>3, <1>4, <1>5, <1>6, <1>7, <1>8, <1>9, <1>10, <1>12, <1>13, SiteKeeps

LEMMA DeleteFileKeeps == ASSUME IInv, NEW s \in Requests, DeleteFile(s) PROVE IInv'
<1>0. pc[s] = "unlink" /\ Op(s) = "delete" /\ Target(s) \in Names /\ WorksOn(s, Target(s))
    <2>1. pc[s] = "unlink" /\ Op(s) = "delete"
        BY DEF DeleteFile, IInv, Progress
    <2> QED
        BY <2>1, AtWork DEF FileOps
<1> PICK n \in Names : Target(s) = n
    BY <1>0
<1>1. pc[s] = "unlink" /\ Op(s) = "delete" /\ Target(s) = n /\ WorksOn(s, n)
    BY <1>0
<1>2. answer[s] # "ok" /\ form[s] # None /\ s \notin orphans
    BY <1>1, AtWork DEF FileOps
<1>3. /\ pc'[s] = "done" /\ file'[n] = None
      /\ \A m \in Names \ {n} : file'[m] = file[m]
      /\ orphans' = orphans \cup {r \in Requests : pc[r] = "write" /\ Target(r) = n}
      /\ \A r \in Requests \ {s} : pc'[r] = pc[r] /\ answer'[r] = answer[r]
      /\ UNCHANGED <<sitesAvailable, link, form, last, met, cut, partial, ignored>>
    BY <1>1 DEF DeleteFile, Finish, IInv, TypeOK
<1>4. TypeOK'
    BY <1>1 DEF DeleteFile, Finish, IInv, TypeOK
<1>5. HistoryGrows
    BY <1>3 DEF HistoryGrows
<1>6. Confined(s, n)
    BY <1>3 DEF Confined
<1>7. ProgressOf(s)'
    BY <1>1, <1>2, <1>3 DEF ProgressOf
<1>8. \A r \in Requests : r \in orphans' => pc'[r] = "write"
    BY <1>1, <1>2, <1>3 DEF IInv, Progress
<1>9. last[n] = s => Stage(s, n)'
    <2>1. last[n] = s => n \notin link \/ n \in ignored
        BY <1>1 DEF IInv, OwnerStage, Stage
    <2> QED
        BY <1>1, <1>3, <2>1 DEF Stage, Effect, Op, Target, Site
<1>10. n \notin link \/ LinkExcused(n)
    BY <1>1 DEF LinkStage, IInv, Links
\* An enable that is about to link has met this step.
<1>11. ASSUME NEW r \in Requests, Target(r) = n PROVE LinkStage(r)'
    <2>1. Target(r)' = n
        BY <1>3, <1>11 DEF Target, Site
    <2>2. CASE pc'[r] = "symlink"
        <3>1. r # s /\ pc[r] = "symlink" /\ Op(r) = "enable"
            BY <1>3, <2>2 DEF IInv, Progress
        <3>2. <<n, {"enable", "delete"}>> \in met
            BY <1>1, <1>11, <3>1 DEF IInv, AllMeet, InTheMiddle
        <3> QED
            BY <1>3, <2>1, <3>2 DEF LinkStage, LinkExcused
    <2>3. CASE pc'[r] = "unlink"
        BY <1>3, <1>10, <2>1, <2>3 DEF LinkStage, LinkExcused
    <2> QED
        BY <2>2, <2>3 DEF LinkStage
<1>12. LinkGood(n)'
    BY <1>3, <1>10 DEF LinkGood, LinkExcused
\* Every save of the site writes to a file that is no longer there.
<1>13. \A r \in Requests : ~Writing(r, n)'
    <2>1. \A r \in Requests : pc'[r] = "write" => pc[r] = "write"
        BY <1>3
    <2> QED
        BY <1>3, <2>1 DEF Writing, Target, Site
<1>14. TextGood(n)' /\ TextStage(n)'
    BY <1>3, <1>13 DEF TextGood, TextStage
<1>15. ~InTheMiddle(s)' /\ (~sitesAvailable => link' = {})
    BY <1>3 DEF InTheMiddle, IInv, Links
<1> QED
    BY <1>1, <1>4, <1>5, <1>6, <1>7, <1>8, <1>9, <1>11, <1>12, <1>14, <1>15, SiteKeeps

LEMMA SaveWriteKeeps == ASSUME IInv, NEW s \in Requests, SaveWrite(s) PROVE IInv'
<1>0. pc[s] = "write" /\ Op(s) = "save" /\ Target(s) \in Names /\ WorksOn(s, Target(s))
    <2>1. pc[s] = "write" /\ Op(s) = "save"
        BY DEF SaveWrite, IInv, Progress
    <2> QED
        BY <2>1, AtWork DEF FileOps
<1> PICK n \in Names : Target(s) = n
    BY <1>0
<1>1. pc[s] = "write" /\ Op(s) = "save" /\ Target(s) = n /\ WorksOn(s, n)
    BY <1>0
<1>2. answer[s] # "ok" /\ form[s] # None /\ form[s].config \in Configs
    BY <1>1, AtWork DEF FileOps
<1> DEFINE new == Overwrite(file[n], Text(form[s].config))
<1>3. /\ pc'[s] = "done" /\ orphans' = orphans \ {s}
      /\ s \in orphans => file' = file
      /\ s \notin orphans => file' = [file EXCEPT ![n] = new]
      /\ \A m \in Names \ {n} : file'[m] = file[m]
      /\ \A r \in Requests \ {s} : pc'[r] = pc[r] /\ answer'[r] = answer[r]
      /\ UNCHANGED <<sitesAvailable, link, form, last, met, cut, partial, ignored>>
    BY <1>1 DEF SaveWrite, Finish, IInv, TypeOK
<1>4. s \notin orphans => /\ file[n] \in Seq(Configs) /\ file'[n] = new
                          /\ file[n] = <<>> \/ TextExcused(n)
    <2>1. s \notin orphans => Writing(s, n)
        BY <1>1 DEF Writing
    <2> QED
        BY <1>3, <2>1 DEF IInv, Texts, TextStage, TypeOK
<1>5. s \notin orphans => new \in Seq(Configs) /\ new # None
    BY <1>2, <1>4, TextType, OverwriteType, SeqNotNone
<1>6. file[n] = <<>> => new = Text(form[s].config)
    BY <1>2, TextType, OverwriteEmpty DEF Text
<1>7. TypeOK'
    <2>1. file' \in [Names -> Seq(Configs) \cup {None}]
        BY <1>3, <1>5 DEF IInv, TypeOK
    <2> QED
        BY <1>3, <2>1 DEF SaveWrite, Finish, IInv, TypeOK
<1>8. HistoryGrows
    BY <1>3 DEF HistoryGrows
<1>9. Confined(s, n)
    BY <1>1, <1>3 DEF Confined
<1>10. ProgressOf(s)'
    BY <1>1, <1>2, <1>3 DEF ProgressOf
<1>11. \A r \in Requests : r \in orphans' => pc'[r] = "write"
    BY <1>3 DEF IInv, Progress
<1>12. last[n] = s => Stage(s, n)'
    <2>1. last[n] = s => file[n] = <<>> /\ s \notin orphans
        BY <1>1 DEF IInv, OwnerStage, Stage
    <2> QED
        BY <1>1, <1>3, <1>4, <1>6, <2>1 DEF Stage, Effect, Op, Target, Site
<1>13. file'[n] = None => file[n] = None
    BY <1>3, <1>4, <1>5
<1>14. LinkGood(n)' /\ \A r \in Requests : Target(r) = n => LinkStage(r)'
    BY <1>3, <1>13 DEF LinkGood, LinkStage, LinkExcused, Target, Site, IInv, Links
\* Another save that has the file open has met this one.
<1>15. ASSUME NEW r \in Requests, Writing(r, n)', s \notin orphans
       PROVE  TextExcused(n)'
    <2>1. r # s /\ pc[r] = "write" /\ Target(r) = n /\ Op(r) = "save"
        BY <1>3, <1>15 DEF Writing, Target, Site, IInv, Progress
    <2>2. <<n, {"save", "save"}>> \in met /\ {"save", "save"} = {"save"}
        BY <1>1, <2>1 DEF IInv, AllMeet, InTheMiddle
    <2> QED
        BY <1>3, <2>2 DEF TextExcused
<1>16. CASE s \in orphans
    <2>1. \A r \in Requests : Writing(r, n)' <=> Writing(r, n)
        BY <1>3, <1>16 DEF Writing, Target, Site
    <2>2. TextGood(n)' /\ TextStage(n)'
        BY <1>3, <1>8, <1>16, <2>1, TextStays
    <2> QED
        BY <1>1, <1>7, <1>8, <1>9, <1>10, <1>11, <1>12, <1>14, <2>2, <1>3, SiteKeeps
           DEF InTheMiddle, IInv, Links
<1>17. CASE s \notin orphans
    <2>1. (\E c \in Configs : file'[n] = Text(c)) \/ TextExcused(n)'
        BY <1>2, <1>3, <1>4, <1>6, <1>17 DEF TextExcused
    <2>2. TextGood(n)'
        BY <2>1 DEF TextGood, Text, Piece
    <2>3. TextStage(n)'
        BY <1>4, <1>5, <1>15, <1>17 DEF TextStage
    <2> QED
        BY <1>1, <1>7, <1>8, <1>9, <1>10, <1>11, <1>12, <1>14, <2>2, <2>3, <1>3, SiteKeeps
           DEF InTheMiddle, IInv, Links
<1> QED
    BY <1>16, <1>17

\* A piece of the text is written, and the handler writes no more.
LEMMA SaveShortKeeps == ASSUME IInv, NEW s \in Requests, SaveShort(s) PROVE IInv'
<1>0. pc[s] = "write" /\ Op(s) = "save" /\ Target(s) \in Names /\ WorksOn(s, Target(s))
    <2>1. pc[s] = "write" /\ Op(s) = "save"
        BY DEF SaveShort, IInv, Progress
    <2> QED
        BY <2>1, AtWork DEF FileOps
<1> PICK n \in Names : Target(s) = n
    BY <1>0
<1>1. pc[s] = "write" /\ Op(s) = "save" /\ Target(s) = n /\ WorksOn(s, n) /\ s \notin orphans
    BY <1>0 DEF SaveShort
<1>2. answer[s] # "ok" /\ form[s] # None /\ form[s].config \in Configs
    BY <1>1, AtWork DEF FileOps
<1>3. PICK k \in 1..(Size[form[s].config] - 1) :
        file' = [file EXCEPT ![n] = Overwrite(@, Piece(form[s].config, k))]
    BY <1>1 DEF SaveShort
<1> DEFINE piece == Piece(form[s].config, k)
<1> DEFINE new == Overwrite(file[n], piece)
<1>4. /\ pc'[s] = "short" /\ file'[n] = new /\ n \in partial'
      /\ \A m \in Names \ {n} : file'[m] = file[m]
      /\ \A r \in Requests \ {s} : pc'[r] = pc[r]
      /\ UNCHANGED <<sitesAvailable, link, form, answer, orphans, last, met, cut, ignored>>
      /\ partial \subseteq partial'
    BY <1>1, <1>3 DEF SaveShort, IInv, TypeOK
<1>5. k \in Nat /\ k \in 1..Size[form[s].config]
    BY <1>2, TextType
<1>6. file[n] \in Seq(Configs) /\ (file[n] = <<>> \/ TextExcused(n))
    <2>1. Writing(s, n)
        BY <1>1 DEF Writing
    <2> QED
        BY <2>1 DEF IInv, Texts, TextStage, TypeOK
<1>7. new \in Seq(Configs) /\ new # None
    BY <1>2, <1>5, <1>6, PieceType, OverwriteType, SeqNotNone
<1>8. file[n] = <<>> => new = piece
    BY <1>2, <1>5, OverwriteEmpty
<1>9. TypeOK'
    <2>1. file' \in [Names -> Seq(Configs) \cup {None}]
        BY <1>3, <1>7 DEF IInv, TypeOK
    <2>2. partial' \subseteq Names /\ faults' \in 0..MaxFaults
        BY <1>1, FaultType DEF SaveShort, IInv, TypeOK
    <2> QED
        BY <2>1, <2>2 DEF SaveShort, IInv, TypeOK
<1>10. HistoryGrows
    BY <1>4 DEF HistoryGrows
<1>11. Confined(s, n)
    BY <1>4 DEF Confined
<1>12. ProgressOf(s)'
    BY <1>1, <1>2, <1>4 DEF ProgressOf
<1>13. \A r \in Requests : r \in orphans' => pc'[r] = "write"
    BY <1>1, <1>4 DEF IInv, Progress
<1>14. Stage(s, n)'
    BY <1>2, <1>4 DEF Stage
<1>15. LinkGood(n)' /\ \A r \in Requests : Target(r) = n => LinkStage(r)'
    BY <1>4, <1>7 DEF LinkGood, LinkStage, LinkExcused, Target, Site, IInv, Links
\* Another save that has the file open has met this one.
<1>16. ASSUME NEW r \in Requests, Writing(r, n)' PROVE TextExcused(n)'
    <2>1. r # s /\ pc[r] = "write" /\ Target(r) = n /\ Op(r) = "save"
        BY <1>4, <1>16 DEF Writing, Target, Site, IInv, Progress
    <2>2. <<n, {"save", "save"}>> \in met /\ {"save", "save"} = {"save"}
        BY <1>1, <2>1 DEF IInv, AllMeet, InTheMiddle
    <2> QED
        BY <1>4, <2>2 DEF TextExcused
<1>17. TextStage(n)'
    BY <1>4, <1>7, <1>16 DEF TextStage
<1>18. TextGood(n)'
    <2>1. CASE file[n] = <<>>
        <3>1. \E c \in Configs : \E j \in 1..Size[c] : file'[n] = Piece(c, j)
            BY <1>2, <1>4, <1>5, <1>8, <2>1
        <3> QED
            BY <1>4, <3>1 DEF TextGood, Piece
    <2>2. CASE TextExcused(n)
        BY <1>4, <2>2 DEF TextGood, TextExcused
    <2> QED
        BY <1>6, <2>1, <2>2
<1>19. ~InTheMiddle(s)' /\ (~sitesAvailable => link' = {})
    BY <1>4 DEF InTheMiddle, IInv, Links
<1> QED
    BY <1>1, <1>9, <1>10, <1>11, <1>12, <1>13, <1>14, <1>15, <1>17, <1>18, <1>19, SiteKeeps

----------------------------------------------------------------------------
LEMMA SubmitKeeps ==
    ASSUME IInv, NEW s \in Requests, NEW f \in Forms, Submit(s, f) PROVE IInv'
<1>1. /\ form[s] = None /\ pc[s] = "idle" /\ s \notin orphans
      /\ form'[s] = f /\ pc'[s] = "sent" /\ answer'[s] = "waiting"
      /\ \A r \in Requests \ {s} :
            form'[r] = form[r] /\ pc'[r] = pc[r] /\ answer'[r] = answer[r]
      /\ UNCHANGED <<sitesAvailable, file, link, up, orphans, met, cut, partial, ignored, faults>>
    BY DEF Submit, IInv, TypeOK, Progress
<1>2. f # None /\ s # None
    BY NoneIsNoForm, ConstantsAssumption
<1>3. f.op \in FileOps => Site(f) \in Names
    BY ConstantsAssumption DEF Forms, FileOps, NginxOps, Site
<1>4. \A n \in Names :
        last'[n] = IF f.op \in FileOps /\ n = Site(f)
                   THEN IF Outstanding(n) = {} THEN s ELSE None
                   ELSE last[n]
    BY <1>3 DEF Submit, IInv, TypeOK
<1>5. TypeOK'
    <2>1. last' \in [Names -> Requests \cup {None}]
        BY <1>3 DEF Submit, IInv, TypeOK
    <2> QED
        BY <1>1, <2>1 DEF Submit, IInv, TypeOK
<1>6. Op(s)' = f.op /\ Target(s)' = Site(f)
    BY <1>1 DEF Op, Target, Site
<1>7. \A r \in Requests \ {s} :
        /\ Op(r)' = Op(r) /\ Target(r)' = Target(r)
        /\ \A n \in Names : WorksOn(r, n)' <=> WorksOn(r, n)
    BY <1>1 DEF Op, Target, Site, WorksOn
<1>8. HistoryGrows
    BY <1>1 DEF HistoryGrows
<1>9. Progress'
    BY <1>1, <1>2, <1>7 DEF IInv, Progress
<1>10. ASSUME NEW n \in Names, NEW r \in Requests, last'[n] = r, r # s
       PROVE  last[n] = r /\ ~WorksOn(s, n)'
    BY <1>1, <1>4, <1>6, <1>10, ConstantsAssumption DEF WorksOn
<1>11. ASSUME NEW n \in Names, last'[n] = s
       PROVE  Outstanding(n) = {} /\ WorksOn(s, n)'
    <2>1. last[n] # s
        BY <1>1 DEF IInv, OwnerAlone, WorksOn
    <2> QED
        BY <1>1, <1>2, <1>4, <1>6, <1>11, <2>1 DEF WorksOn
<1>12. OwnerAlone'
    <2> SUFFICES ASSUME NEW n \in Names, NEW r \in Requests, last'[n] = r
                 PROVE  /\ WorksOn(r, n)'
                        /\ \A q \in Requests : q # r /\ WorksOn(q, n)' => pc'[q] = "done"
        BY DEF OwnerAlone
    <2>1. CASE r = s
        BY <1>1, <1>7, <1>11, <2>1 DEF Outstanding, WorksOn
    <2>2. CASE r # s
        BY <1>1, <1>7, <1>10, <2>2 DEF IInv, OwnerAlone
    <2> QED
        BY <2>1, <2>2
<1>13. OwnerStage'
    <2> SUFFICES ASSUME NEW n \in Names, NEW r \in Requests, last'[n] = r PROVE Stage(r, n)'
        BY DEF OwnerStage
    <2>1. CASE r = s
        BY <1>1, <2>1 DEF Stage
    <2>2. CASE r # s
        <3>1. Stage(r, n) /\ WorksOn(r, n)
            BY <1>10, <2>2 DEF IInv, OwnerStage, OwnerAlone
        <3>2. answer'[r] = "ok" => Effect(r)'
            BY <1>1, <1>8, <2>2, <3>1, EffectStays DEF Stage, WorksOn
        <3> QED
            BY <1>1, <2>2, <3>1, <3>2 DEF Stage
    <2> QED
        BY <2>1, <2>2
<1>14. AllMeet'
    BY <1>1, <1>7 DEF IInv, AllMeet, InTheMiddle
<1>15. Links'
    <2>1. \A r \in Requests : LinkStage(r)'
        BY <1>1, <1>7 DEF IInv, Links, LinkStage, LinkExcused
    <2> QED
        BY <1>1, <2>1 DEF IInv, Links, LinkGood, LinkExcused
<1>16. Texts'
    <2> SUFFICES ASSUME NEW n \in Names PROVE TextGood(n)' /\ TextStage(n)'
        BY DEF Texts
    <2>1. TextGood(n) /\ TextStage(n)
        BY DEF IInv, Texts
    <2>2. \A r \in Requests : Writing(r, n)' <=> Writing(r, n)
        BY <1>1, <1>7 DEF Writing
    <2>3. TextStage(n)'
        BY <1>1, <2>1, <2>2 DEF TextStage, TextExcused
    <2>4. TextGood(n)'
        BY <1>1, <2>1, <2>2 DEF TextGood, TextExcused, Text, Piece
    <2> QED
        BY <2>3, <2>4
<1> QED
    BY <1>5, <1>9, <1>12, <1>13, <1>14, <1>15, <1>16 DEF IInv

LEMMA StutterKeeps == ASSUME IInv, UNCHANGED vars PROVE IInv'
<1>1. UNCHANGED <<sitesAvailable, file, link, up, form, pc, answer, orphans, last,
                  met, cut, partial, ignored, faults>>
    BY DEF vars, history
<1>2. TypeOK' /\ HistoryGrows
    BY <1>1 DEF IInv, TypeOK, HistoryGrows
<1>3. \A r \in Requests : r \in orphans => pc[r] = "write"
    BY DEF IInv, Progress
<1> QED
    BY <1>1, <1>2, <1>3, QuietKeeps

LEMMA NextKeeps == IInv /\ [Next]_vars => IInv'
<1> SUFFICES ASSUME IInv, [Next]_vars PROVE IInv'
    OBVIOUS
<1>1. CASE UNCHANGED vars
    BY <1>1, StutterKeeps
<1>2. CASE AgentDies
    BY <1>2, AgentDiesKeeps
<1>3. ASSUME NEW r \in Requests, NEW f \in Forms, Submit(r, f) PROVE IInv'
    BY <1>3, SubmitKeeps
<1>4. ASSUME NEW r \in Requests, GiveUp(r) \/ Lose(r) PROVE IInv'
    BY <1>4, GiveUpKeeps, LoseKeeps
<1>5. ASSUME NEW r \in Requests,
             SaveOpen(r) \/ SaveWrite(r) \/ SaveShort(r) \/ SaveFails(r)
      PROVE  IInv'
    BY <1>5, SaveOpenKeeps, SaveWriteKeeps, SaveShortKeeps, SaveFailsKeeps
<1>6. ASSUME NEW r \in Requests,
             ToggleNothing(r) \/ EnableStat(r) \/ EnableMissing(r) \/ EnableLink(r)
      PROVE  IInv'
    BY <1>6, ToggleNothingKeeps, EnableStatKeeps, EnableMissingKeeps, EnableLinkKeeps
<1>7. ASSUME NEW r \in Requests, Disable(r) \/ ToggleFails(r) PROVE IInv'
    BY <1>7, DisableKeeps, ToggleFailsKeeps
<1>8. ASSUME NEW r \in Requests,
             DeleteLink(r) \/ DeleteLinkFails(r) \/ DeleteFile(r) \/ DeleteFails(r)
      PROVE  IInv'
    BY <1>8, DeleteLinkKeeps, DeleteFileKeeps, DeleteFailsKeeps
<1>9. ASSUME NEW r \in Requests, Test(r) \/ Reload(r) \/ Restart(r) PROVE IInv'
    BY <1>9, NginxKeeps
<1> QED
    BY <1>1, <1>2, <1>3, <1>4, <1>5, <1>6, <1>7, <1>8, <1>9 DEF Next, HandlerStep

----------------------------------------------------------------------------
\* In every reachable state the invariant holds: types, who owns a site, who
\* has met whom, and what is wrong with a site only for a reason
\* (nginx.go:74-117).
THEOREM SitesInvariant == Spec => []IInv
  BY InitInv, NextKeeps, PTL DEF Spec

\* Every variable always has its type (httpapi.go:379-480, nginx.go:52-117).
THEOREM SitesTypes == Spec => []TypeOK
<1>1. IInv => TypeOK
    BY DEF IInv
<1> QED
    BY <1>1, SitesInvariant, PTL

\* sites-enabled links to a missing file only after an enable met a delete or
\* a link operation failed unnoticed (nginx.go:88-117).
THEOREM LinksLead == Spec => []LinkHasFile
<1>1. IInv => LinkHasFile
    BY DEF IInv, TypeOK, Links, LinkGood, LinkExcused, LinkHasFile
<1> QED
    BY <1>1, SitesInvariant, PTL

\* A file holds one submitted text unless a save of it is open, was cut short
\* or met another (nginx.go:74-86).
THEOREM FilesWhole == Spec => []FileIsWhole
<1>1. IInv => FileIsWhole
    BY DEF IInv, Texts, TextGood, TextExcused, Writing, FileIsWhole
<1> QED
    BY <1>1, SitesInvariant, PTL

\* What the administrator was told about a form submitted alone stands until
\* the next form for the site (httpapi.go:405-450, nginx.go:74-117).
THEOREM AnswersStand == Spec => []AnsweredIsOnDisk
<1>1. IInv => AnsweredIsOnDisk
    BY ConstantsAssumption DEF IInv, TypeOK, OwnerStage, Stage, AnsweredIsOnDisk
<1> QED
    BY <1>1, SitesInvariant, PTL

\* A restart takes nginx down only for a text that it refuses, a write that
\* failed, two saves that met, or a link without a file that a meeting or an
\* unnoticed failure left (nginx.go:74-117, 136-138, agent.go:314-320).
THEOREM StaysUp == Spec => NginxSurvives
<1> DEFINE Reason(n) ==
        \/ \E c \in Bad : file[n] = Text(c)
        \/ n \in partial
        \/ <<n, {"save"}>> \in met
        \/ file[n] = None /\ (<<n, {"enable", "delete"}>> \in met \/ n \in ignored)
<1>1. IInv /\ ~ConfigLoads => \E n \in Included : Reason(n)
    <2> SUFFICES ASSUME IInv, NEW n \in Included, file[n] = None \/ ~Accepted(file[n])
                 PROVE  Reason(n)
        BY DEF ConfigLoads
    <2>1. n \in Names /\ (file[n] = None => n \in link)
        BY DEF Included, IInv, TypeOK
    <2>2. LinkGood(n) /\ TextGood(n)
        BY <2>1 DEF IInv, Links, Texts
    <2>3. CASE file[n] = None
        BY <2>1, <2>2, <2>3 DEF LinkGood, LinkExcused
    <2>4. CASE file[n] # None /\ ~Accepted(file[n])
        BY <2>2, <2>4 DEF TextGood, TextExcused, Accepted, Whole
    <2> QED
        BY <2>3, <2>4
<1>2. IInv /\ [Next]_vars => [up /\ ~up' => \E n \in Included : Reason(n)]_vars
    <2> SUFFICES ASSUME IInv, Next, up, ~up' PROVE \E n \in Included : Reason(n)
        BY Zenon
    <2>1. ASSUME NEW r \in Requests, Restart(r) PROVE \E n \in Included : Reason(n)
        BY <1>1, <2>1 DEF Restart
    <2>2. CASE \A r \in Requests : ~Restart(r)
        <3>1. UNCHANGED up
            BY <2>2 DEF Next, HandlerStep, Submit, GiveUp, Lose, SaveOpen, SaveWrite,
               SaveShort, SaveFails, ToggleNothing, EnableStat, EnableMissing, EnableLink,
               Disable, ToggleFails, DeleteLink, DeleteLinkFails, DeleteFile, DeleteFails,
               Test, Reload, AgentDies
        <3> QED
            BY <3>1
    <2> QED
        BY <2>1, <2>2
<1> QED
    BY <1>2, SitesInvariant, PTL DEF Spec, NginxSurvives

============================================================================
