---------------------------- MODULE NginxSites ----------------------------
(***************************************************************************)
(* The nginx pages: an administrator's form goes through the panel         *)
(* (httpapi.go, nginxSave and its neighbours) and its agent client         *)
(* (agent_client.go, ten seconds for an answer) to the agent's handlers    *)
(* (agent.go), which change the site files (nginx.go).                     *)
(*                                                                         *)
(* The agent's handlers take no lock and do not look at the request's      *)
(* context: they run beside each other, and on when the panel has given    *)
(* up.  Every file system call is a step of its own.                       *)
(*                                                                         *)
(* A configuration is a number of equal blocks, so that a write over a     *)
(* longer file leaves the end of it behind.                                *)
(***************************************************************************)
EXTENDS Naturals, Sequences, FiniteSets

CONSTANTS
    Names,      \* names of sites
    ConfName,   \* the name with ".conf" appended, unless it ends in it
    Configs,    \* texts an administrator submits
    Size,       \* their lengths
    Bad,        \* those that nginx refuses
    Found,      \* those of the sites a server comes with
    Requests,   \* forms that are submitted
    None,       \* no such file, no request, nothing submitted
    MaxFaults   \* bound: crashes of the agent and failing file operations

ASSUME ConstantsAssumption ==
    /\ ConfName \in [Names -> Names]
    /\ \A n \in Names : ConfName[ConfName[n]] = ConfName[n]
    /\ Size \in [Configs -> Nat \ {0}]
    /\ Bad \subseteq Configs /\ Found \subseteq Configs \ Bad
    /\ None \notin Requests \cup Seq(Configs) \cup {"waiting", "ok", "error"}
    /\ MaxFaults \in Nat

VARIABLES
    sitesAvailable,  \* whether /etc/nginx/sites-available is there
    file,            \* the text of each site's file, None when there is none
    link,            \* the names that sites-enabled links to
    up,              \* whether nginx runs
    form,            \* what each request asks for, None until it is submitted
    pc,              \* where the agent's handler of a request is
    answer,          \* what the panel told the administrator
    orphans,         \* saves that write to a file that was removed meanwhile
    last,            \* history: the latest form for each site, when it was
                     \* submitted with nothing else outstanding for the site
    met,             \* history: what ran beside what on the same site
    cut,             \* history: sites whose save ended before its write
    partial,         \* history: sites whose save wrote a part of its text
    ignored,         \* history: sites with a link operation that failed
    faults

history == <<last, met, cut, partial, ignored>>
vars == <<sitesAvailable, file, link, up, form, pc, answer, orphans, history, faults>>

----------------------------------------------------------------------------
(* Helpers.  Names that start with Bug are faulty variants of the          *)
(* definition after them: mistakes the properties have to notice.          *)

FileOps == {"save", "enable", "disable", "delete"}
NginxOps == {"test", "reload", "restart"}

Forms ==
    [op : {"save"}, name : Names, config : Configs]
        \cup [op : FileOps \ {"save"}, name : Names]
        \cup [op : NginxOps]

ASSUME NoneIsNoForm == None \notin Forms

Piece(c, k) == [i \in 1..k |-> c]
Text(c) == Piece(c, Size[c])

\* write(2) at offset 0 of a file that holds old.
Overwrite(old, new) ==
    [i \in 1..(IF Len(old) > Len(new) THEN Len(old) ELSE Len(new)) |->
        IF i <= Len(new) THEN new[i] ELSE old[i]]

Op(r) == form[r].op

\* SaveSite appends ".conf" in conf.d; the other operations take the name
\* as it is.
Site(f) == IF f.op = "save" /\ ~sitesAvailable THEN ConfName[f.name] ELSE f.name

Target(r) == Site(form[r])

InTheMiddle(r) == pc[r] \in {"write", "symlink", "unlink"}

\* Requests that may still change site n.
Outstanding(n) ==
    {r \in Requests : form[r] # None /\ Op(r) \in FileOps /\ Target(r) = n /\ pc[r] # "done"}

Beside(r) ==
    {<<Target(r), {Op(r), Op(s)}>> :
        s \in {q \in Requests \ {r} : InTheMiddle(q) /\ Target(q) = Target(r)}}

\* What nginx reads: sites-enabled/* or conf.d/*.conf.
Included ==
    IF sitesAvailable THEN link ELSE {n \in Names : file[n] # None /\ ConfName[n] = n}

\* nginx accepts an empty file and every text that is not bad in itself; it
\* refuses a piece of a text, pieces of several, and a link to nothing.  The
\* texts of two sites do not contradict each other.
Whole(text) == text = <<>> \/ \E c \in Configs : text = Text(c)
Accepted(text) == Whole(text) /\ \A c \in Bad : text # Text(c)
ConfigLoads == \A n \in Included : file[n] # None /\ Accepted(file[n])

Fault == faults < MaxFaults /\ faults' = faults + 1

\* The handler answers; the panel hears it unless it has given up.
Finish(r, result) ==
    /\ pc' = [pc EXCEPT ![r] = "done"]
    /\ answer' = [answer EXCEPT ![r] = IF @ = "waiting" THEN result ELSE @]
    /\ UNCHANGED last

Goto(r, step) ==
    /\ pc' = [pc EXCEPT ![r] = step]
    /\ met' = met \cup Beside(r)
    /\ UNCHANGED <<answer, last, cut, partial, ignored>>

Received(r, op) == pc[r] = "sent" /\ Op(r) = op

----------------------------------------------------------------------------
\* A server may come with sites of its own.
Init ==
    /\ sitesAvailable \in BOOLEAN
    /\ file \in [Names -> {Text(c) : c \in Found} \cup {None}]
    /\ link \in SUBSET {n \in Names : sitesAvailable /\ file[n] # None}
    /\ up = TRUE
    /\ form = [r \in Requests |-> None]
    /\ pc = [r \in Requests |-> "idle"]
    /\ answer = [r \in Requests |-> None]
    /\ orphans = {}
    /\ last = [n \in Names |-> None]
    /\ met = {} /\ cut = {} /\ partial = {} /\ ignored = {}
    /\ faults = 0

----------------------------------------------------------------------------
(* The panel.                                                              *)

\* A form is submitted and sent on to the agent.
Submit(r, f) ==
    /\ form[r] = None
    /\ form' = [form EXCEPT ![r] = f]
    /\ pc' = [pc EXCEPT ![r] = "sent"]
    /\ answer' = [answer EXCEPT ![r] = "waiting"]
    /\ last' = IF f.op \in FileOps
               THEN [last EXCEPT ![Site(f)] = IF Outstanding(Site(f)) = {} THEN r ELSE None]
               ELSE last
    /\ UNCHANGED <<sitesAvailable, file, link, up, orphans, met, cut, partial, ignored, faults>>

\* The client's ten seconds are over, or the answer is lost: 502, and the
\* request runs on at the agent, or comes to it later.
GiveUp(r) ==
    /\ answer[r] = "waiting"
    /\ answer' = [answer EXCEPT ![r] = "error"]
    /\ UNCHANGED <<sitesAvailable, file, link, up, form, pc, orphans, history, faults>>

\* A request never comes to the agent.
Lose(r) ==
    /\ pc[r] = "sent"
    /\ answer[r] = "error"
    /\ pc' = [pc EXCEPT ![r] = "done"]
    /\ UNCHANGED <<sitesAvailable, file, link, up, form, answer, orphans, history, faults>>

----------------------------------------------------------------------------
(* SaveSite: os.WriteFile truncates or creates, then writes.               *)

\* The file is not truncated.
BugSaveOpen(r) ==
    /\ Received(r, "save")
    /\ file' = [file EXCEPT ![Target(r)] = IF @ = None THEN <<>> ELSE @]
    /\ Goto(r, "write")
    /\ UNCHANGED <<sitesAvailable, link, up, form, orphans, faults>>

SaveOpen(r) ==
    /\ Received(r, "save")
    /\ file' = [file EXCEPT ![Target(r)] = <<>>]
    /\ Goto(r, "write")
    /\ UNCHANGED <<sitesAvailable, link, up, form, orphans, faults>>

\* The name and the text are passed in the wrong order.
BugSaveWrite(r) ==
    /\ pc[r] = "write"
    /\ file' = IF r \in orphans THEN file
               ELSE [file EXCEPT ![Target(r)] = Overwrite(@, <<form[r].name>>)]
    /\ orphans' = orphans \ {r}
    /\ Finish(r, "ok")
    /\ UNCHANGED <<sitesAvailable, link, up, form, met, cut, partial, ignored, faults>>

SaveWrite(r) ==
    /\ pc[r] = "write"
    /\ file' = IF r \in orphans THEN file
               ELSE [file EXCEPT ![Target(r)] = Overwrite(@, Text(form[r].config))]
    /\ orphans' = orphans \ {r}
    /\ Finish(r, "ok")
    /\ UNCHANGED <<sitesAvailable, link, up, form, met, cut, partial, ignored, faults>>

\* A part of the text is written when the disk is full.
SaveShort(r) ==
    /\ pc[r] = "write"
    /\ r \notin orphans
    /\ Fault
    /\ \E k \in 1..(Size[form[r].config] - 1) :
          file' = [file EXCEPT ![Target(r)] = Overwrite(@, Piece(form[r].config, k))]
    /\ pc' = [pc EXCEPT ![r] = "short"]
    /\ partial' = partial \cup {Target(r)}
    /\ UNCHANGED <<sitesAvailable, link, up, form, answer, orphans, last, met, cut, ignored>>

\* The file cannot be opened, or not be written to, or not be written to any
\* further.
BugSaveErrorIgnored(r) ==
    /\ pc[r] \in {"sent", "write", "short"}
    /\ Op(r) = "save"
    /\ IF pc[r] = "short" THEN UNCHANGED faults ELSE Fault
    /\ cut' = IF pc[r] = "write" /\ r \notin orphans THEN cut \cup {Target(r)} ELSE cut
    /\ orphans' = orphans \ {r}
    /\ Finish(r, "ok")
    /\ UNCHANGED <<sitesAvailable, file, link, up, form, met, partial, ignored>>

SaveFails(r) ==
    /\ pc[r] \in {"sent", "write", "short"}
    /\ Op(r) = "save"
    /\ IF pc[r] = "short" THEN UNCHANGED faults ELSE Fault
    /\ cut' = IF pc[r] = "write" /\ r \notin orphans THEN cut \cup {Target(r)} ELSE cut
    /\ orphans' = orphans \ {r}
    /\ Finish(r, "error")
    /\ UNCHANGED <<sitesAvailable, file, link, up, form, met, partial, ignored>>

----------------------------------------------------------------------------
(* ToggleSite.                                                             *)

\* In conf.d nothing is done and the answer is "ok".
ToggleNothing(r) ==
    /\ Received(r, "enable") \/ Received(r, "disable")
    /\ ~sitesAvailable
    /\ Finish(r, "ok")
    /\ UNCHANGED <<sitesAvailable, file, link, up, form, orphans, met, cut, partial, ignored, faults>>

\* The site is not looked for.
BugEnableStat(r) ==
    /\ Received(r, "enable")
    /\ sitesAvailable
    /\ Goto(r, "symlink")
    /\ UNCHANGED <<sitesAvailable, file, link, up, form, orphans, faults>>

EnableStat(r) ==
    /\ Received(r, "enable")
    /\ sitesAvailable
    /\ file[Target(r)] # None
    /\ Goto(r, "symlink")
    /\ UNCHANGED <<sitesAvailable, file, link, up, form, orphans, faults>>

EnableMissing(r) ==
    /\ Received(r, "enable")
    /\ sitesAvailable
    /\ file[Target(r)] = None
    /\ Finish(r, "error")
    /\ UNCHANGED <<sitesAvailable, file, link, up, form, orphans, met, cut, partial, ignored, faults>>

\* The result of os.Symlink is not looked at.
EnableLink(r) ==
    /\ pc[r] = "symlink"
    /\ link' = link \cup {Target(r)}
    /\ Finish(r, "ok")
    /\ UNCHANGED <<sitesAvailable, file, up, form, orphans, met, cut, partial, ignored, faults>>

\* Nor is that of os.Remove.
Disable(r) ==
    /\ Received(r, "disable")
    /\ sitesAvailable
    /\ link' = link \ {Target(r)}
    /\ Finish(r, "ok")
    /\ UNCHANGED <<sitesAvailable, file, up, form, orphans, met, cut, partial, ignored, faults>>

ToggleFails(r) ==
    /\ pc[r] = "symlink" \/ (Received(r, "disable") /\ sitesAvailable)
    /\ Fault
    /\ ignored' = ignored \cup {Target(r)}
    /\ Finish(r, "ok")
    /\ UNCHANGED <<sitesAvailable, file, link, up, form, orphans, met, cut, partial>>

----------------------------------------------------------------------------
(* DeleteSite: the link goes first, whether it can be removed or not, then *)
(* the file.                                                               *)

\* The link is left for later.
BugDeleteLink(r) ==
    /\ Received(r, "delete")
    /\ Goto(r, "unlink")
    /\ UNCHANGED <<sitesAvailable, file, link, up, form, orphans, faults>>

DeleteLink(r) ==
    /\ Received(r, "delete")
    /\ link' = link \ {Target(r)}
    /\ Goto(r, "unlink")
    /\ UNCHANGED <<sitesAvailable, file, up, form, orphans, faults>>

DeleteLinkFails(r) ==
    /\ Received(r, "delete")
    /\ sitesAvailable
    /\ Fault
    /\ ignored' = ignored \cup {Target(r)}
    /\ pc' = [pc EXCEPT ![r] = "unlink"]
    /\ met' = met \cup Beside(r)
    /\ UNCHANGED <<sitesAvailable, file, link, up, form, answer, orphans, last, cut, partial>>

\* A save that has the file open goes on writing to it, and nobody sees it.
DeleteFile(r) ==
    /\ pc[r] = "unlink"
    /\ file' = [file EXCEPT ![Target(r)] = None]
    /\ orphans' = orphans \cup {s \in Requests : pc[s] = "write" /\ Target(s) = Target(r)}
    /\ Finish(r, IF file[Target(r)] = None THEN "error" ELSE "ok")
    /\ UNCHANGED <<sitesAvailable, link, up, form, met, cut, partial, ignored, faults>>

DeleteFails(r) ==
    /\ pc[r] = "unlink"
    /\ Fault
    /\ Finish(r, "error")
    /\ UNCHANGED <<sitesAvailable, file, link, up, form, orphans, met, cut, partial, ignored>>

----------------------------------------------------------------------------
(* nginxAction.                                                            *)

\* The agent answers 200 with what "nginx -t" found in the body, and the
\* panel drops the body.
Test(r) ==
    /\ Received(r, "test")
    /\ Finish(r, "ok")
    /\ UNCHANGED <<sitesAvailable, file, link, up, form, orphans, met, cut, partial, ignored, faults>>

\* systemctl reload: nginx keeps what it runs when the new does not load.
Reload(r) ==
    /\ Received(r, "reload")
    /\ Finish(r, IF up /\ ConfigLoads THEN "ok" ELSE "error")
    /\ UNCHANGED <<sitesAvailable, file, link, up, form, orphans, met, cut, partial, ignored, faults>>

\* systemctl restart: nginx is stopped and comes up with what is there.
Restart(r) ==
    /\ Received(r, "restart")
    /\ up' = ConfigLoads
    /\ Finish(r, IF ConfigLoads THEN "ok" ELSE "error")
    /\ UNCHANGED <<sitesAvailable, file, link, form, orphans, met, cut, partial, ignored, faults>>

----------------------------------------------------------------------------
\* The agent's process dies and is started again: its handlers end where
\* they are.  (What the system has taken from a write(2) stays: the server
\* itself does not lose power.)
AgentDies ==
    LET dying == {r \in Requests : pc[r] \notin {"idle", "done"}} IN
    /\ dying # {}
    /\ Fault
    /\ pc' = [r \in Requests |-> IF r \in dying THEN "done" ELSE pc[r]]
    /\ answer' = [r \in Requests |->
                    IF r \in dying /\ answer[r] = "waiting" THEN "error" ELSE answer[r]]
    /\ cut' = cut \cup {Target(r) : r \in {q \in dying : pc[q] = "write"}}
    /\ orphans' = {}
    /\ UNCHANGED <<sitesAvailable, file, link, up, form, last, met, partial, ignored>>

HandlerStep(r) ==
    \/ SaveOpen(r) \/ SaveWrite(r) \/ SaveShort(r) \/ SaveFails(r)
    \/ ToggleNothing(r) \/ EnableStat(r) \/ EnableMissing(r) \/ EnableLink(r)
    \/ Disable(r) \/ ToggleFails(r)
    \/ DeleteLink(r) \/ DeleteLinkFails(r) \/ DeleteFile(r) \/ DeleteFails(r)
    \/ Test(r) \/ Reload(r) \/ Restart(r)

Next ==
    \/ \E r \in Requests :
         \/ \E f \in Forms : Submit(r, f)
         \/ GiveUp(r) \/ Lose(r) \/ HandlerStep(r)
    \/ AgentDies

Spec == Init /\ [][Next]_vars

----------------------------------------------------------------------------
(* Properties.                                                             *)

\* Every variable has its type: the type invariant of the module.
TypeOK ==
    /\ sitesAvailable \in BOOLEAN /\ up \in BOOLEAN
    /\ file \in [Names -> Seq(Configs) \cup {None}]
    /\ link \subseteq Names
    /\ form \in [Requests -> Forms \cup {None}]
    /\ pc \in [Requests -> {"idle", "sent", "write", "short", "symlink", "unlink", "done"}]
    /\ answer \in [Requests -> {None, "waiting", "ok", "error"}]
    /\ orphans \subseteq Requests
    /\ last \in [Names -> Requests \cup {None}]
    /\ met \subseteq Names \X SUBSET FileOps
    /\ cut \subseteq Names /\ partial \subseteq Names /\ ignored \subseteq Names
    /\ faults \in 0..MaxFaults

\* sites-enabled links to a file that is not there only if enabling the site
\* ran beside deleting it, or removing the link failed unnoticed: crashes
\* and timeouts alone never leave such a link, because DeleteSite removes it
\* before the file (nginx.go:99-117).
LinkHasFile ==
    \A n \in link : file[n] = None => <<n, {"enable", "delete"}>> \in met \/ n \in ignored

\* A file holds one submitted text.  It is empty while it is being written,
\* and after a save that ended before its write; it holds a part of a text
\* after a write that failed on the way, and anything only after two saves of
\* it ran beside each other (nginx.go:82).
FileIsWhole ==
    \A n \in Names :
        \/ file[n] = None
        \/ \E c \in Configs : file[n] = Text(c)
        \/ /\ file[n] = <<>>
           /\ n \in cut \/ \E r \in Requests : pc[r] = "write" /\ Target(r) = n
        \/ n \in partial /\ \E c \in Configs : \E k \in 1..Size[c] : file[n] = Piece(c, k)
        \/ <<n, {"save"}>> \in met

\* What a request leaves behind when it is answered with success.
Effect(r) ==
    LET n == Target(r) IN
    /\ Op(r) = "save"    => file[n] = Text(form[r].config)
    /\ Op(r) = "delete"  => file[n] = None /\ (n \notin link \/ n \in ignored)
    /\ Op(r) = "enable"  => (sitesAvailable => n \in link /\ file[n] # None) \/ n \in ignored
    /\ Op(r) = "disable" => n \notin link \/ n \in ignored

\* What the administrator was told stands: a form that was submitted when no
\* other for the same site was outstanding, at the panel or at the agent, and
\* was answered with success keeps its effect until the next form for the
\* site (httpapi.go:405-450, agent_client.go:157-184, nginx.go:74-118).
AnsweredIsOnDisk ==
    \A n \in Names :
        last[n] # None /\ answer[last[n]] = "ok" => Effect(last[n])

\* A restart from the panel takes nginx down for one of four reasons only: a
\* site that it reads has a text that nginx refuses, or a part of one after a
\* write that failed; two saves of the site ran beside each other; it is a
\* link without a file, and enabling the site ran beside deleting it, or the
\* link could not be removed.  No crash of the agent, no timeout and no order
\* of the panel's operations does it alone (nginx.go:74-138).
NginxSurvives ==
    [][up /\ ~up' =>
        \E n \in Included :
            \/ \E c \in Bad : file[n] = Text(c)
            \/ n \in partial
            \/ <<n, {"save"}>> \in met
            \/ file[n] = None /\ (<<n, {"enable", "delete"}>> \in met \/ n \in ignored)]_vars

============================================================================
