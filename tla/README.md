# vpspanel: a verification project

vpspanel is a control panel for servers. The *panel* (`cmd/panel`) is a web
application over PostgreSQL; the *agent* (`cmd/agent`) runs as a systemd unit
on every managed server. An administrator issues an enrollment token, runs an
install command with it on a server, the agent enrolls with the panel, and from
then on the panel drives nginx and MySQL on that server through the agent. An
older, self-contained panel (`cmd/main.go`, gin) lives in the same repository.

The modules here are translated from the source; line numbers in comments and
in `PROJECT.json` are those of `src/`. `PROJECT.json` lists for every definition
the lines it stands for, for every property a faulty variant of the code that
it notices, and every hazard with the properties aimed at it.

## 1. The system

| Part | State | Operations | Hard behaviour | Correct when |
|---|---|---|---|---|
| Enrollment, panel side (`httpapi.go:572-684`) | tables `enroll_tokens`, `nodes` | issue token, register (4 statements, no transaction), delete node | handlers interleave with each other and with deletes; the mark's error and row count are ignored; the handler outlives its client; the panel stops in the middle | a token is spent once; a host is listed once; who got a certificate is listed under it |
| Enrollment, agent side (`agent.go:112-192`) | `agent.crt`, `agent.key`, `panel-ca.crt` | skip when the files exist, else key, CSR, POST, three writes; load | crash in or between writes; lost reply; retries by systemd with the same token | never stuck with half an identity; an identity is kept; a good token gets the server attached |
| Start of the panel (`app.go`, `ca.go`, `migrate.go`) | schema, `ca.key`, `ca.crt`, first user, journal | connect, migrate, load or create CA, bootstrap administrator | crash between any two steps and inside file writes; a statement whose result is lost | one CA for ever; nothing half-made is served; the printed password works |
| nginx pages (`httpapi.go:367-450`, `agent_client.go`, `agent.go:249-320`, `nginx.go`) | site files, links, the running nginx | list, save, enable, disable, delete, test, reload, restart | the agent's handlers take no lock and run on when the panel gives up after 10 s; file calls fail; errors ignored | links lead to files, files hold one text, an answer is worth something, nginx survives |
| MySQL pages (`httpapi.go:452-555`, `agent.go:322-407`, `mysql.go`) | databases, accounts, grants | list, create, drop, grant (two statements) | late and repeated statements; grants that outlive databases; ignored errors of drops | answers hold; no privilege without an account; passwords do not change |
| Login, sessions, licence (`httpapi.go:111-283`, `license.go`) | tables `users`, `sessions`, `settings` | log in, log out, check session, check and submit licence | session row before cookie; logout leaves the row; requests overtaken by expiry, logout, a stop; licence deleted after a slow call | a cookie names a row; a page is served on a good session and a stored key; nobody is turned away without cause |
| Node pages (`httpapi.go:345-555`) | table `nodes` | read the row and call the agent, delete the row | rows deleted or registered anew under a request | a call goes where the list said, or nowhere |
| First panel (`cmd/main.go`, `internal/handlers`, `internal/services`, `internal/middleware`) | sessions in memory, login attempts per address | login, logout, rate limit, gate, shell commands | shared maps under locks; window edges; memory; a restart forgets both | the limit holds, a refusal is just, sessions do not outrun the limiter |
| Configuration, installers, templates | none at run time | - | - | not modelled, but for the installer's effect on the agent |

How they interact: the installer writes the token into the agent's environment;
the agent posts to the panel's register handler; the reply fills the agent's
files; the panel's CA, made at its start, signs the agent's certificate and is
what the agent trusts; the nginx and MySQL pages call the agent over TLS at the
address of the node's row.

## 2. The modules

| Module | What it is |
|---|---|
| `Enrollment` | the register handler statement by statement, the agent's process and files, administrators, faults |
| `Registry` | what enrollment promises: spending a token, granting a certificate and listing the host in one step |
| `EnrollmentRefinement` | the mapping of `Enrollment` to `Registry` |
| `MCEnrollment` | constants and symmetry for TLC |
| `EnrollmentProofs` | theorems about `Enrollment` |
| `PanelBoot`, `MCPanelBoot`, `PanelBootProofs` | the start of the panel |
| `NginxSites`, `MCNginxSites`, `NginxSitesProofs` | the nginx pages down to the file system calls |
| `MysqlAdmin`, `MCMysqlAdmin`, `MysqlAdminProofs` | the MySQL pages down to the statements |
| `MysqlConsole`, `MysqlRefinement` | what the MySQL pages promise (a form is carried out in one step, once or never), and the mapping of `MysqlAdmin` to it |
| `RegistrationProofs` | theorems about the node list, and that `Enrollment` implements `Registry` |
| `PanelGate` | login, sessions, licence: what stands before every page of the panel |
| `NodePages`, `MCNodePages`, `NodePagesProofs` | the pages of a node: `PanelGate` composed with the node list |
| `RateLimiter`, `RateLimiterProofs` | the limiter of login attempts of the first panel |
| `SlidingWindow`, `LimiterRefinement` | what the limiter promises: the whole history of the process decides; and the mapping of `RateLimiter` to it |
| `FirstPanel`, `MCFirstPanel`, `FirstPanelProofs` | the first panel: `RateLimiter` composed with its login, sessions and gate |

In every module a definition whose name starts with `Bug` is a faulty variant of
the definition after it (a dropped guard, a swapped order, an ignored error). No
action uses it; putting it in place of its target must violate a property.

### Enrollment

A call of the register endpoint is an element of `Calls`. The key pair, the
certificate name (`"node-" + uuid`) and the row id are all drawn afresh for it,
so the same element names them: `nodeCN[i] = r` reads "row `i` names the
certificate signed in call `r`", and `files[a]["key"] = r` "the key of call `r`".

| Code | Model |
|---|---|
| `enroll_tokens` | `issued`, `used` (`used_at`), `expired` (`expires_at` passed) |
| `nodes` | `nodeHost`, `nodeCN` by id |
| a running handler | `pc`, `tok`, `from`, `found` (`existingID`) |
| the unit's environment, process, open request, state directory | `env`, `phase`, `cur`, `files` |
| 587-591 | `Admit`, `Refuse`, `LookupError` |
| 592 | `Mark`, `MarkError` (its error and its row count are ignored) |
| 594-604 | `SignAndFind`, `SignError`, `FindError` (an error of the select inserts) |
| 605-618 | `UpdateNode` (changes nothing if the row is gone), `InsertNode`, `WriteError` (the statement fails, or its result is lost) |
| request context | `Cancel`: the agent has gone, statements fail from some moment on, or the handler finishes unheard |
| `cmd/panel/main.go:26-40` | `PanelStops`: handlers end where they are |
| `agent.go:112-192` | `StartEnrolled`, `Register`, `OnReply`, `OnError`, `OpenFile`/`FillFile` (`os.WriteFile` truncates, then writes), `LoadTLS` |

Signing changes no state, so it shares a step with the select that follows. A
refused call leaves no trace and its name is used again. The agent's requests
are complete, so the answers 400 of lines 574-581 do not occur. `Install` stands
for an installation that succeeds (the script as it is stops at line 38 on a
server that has no user `vpspanel-agent` yet). Not in the model: two agents that
advertise one host in the runs (the theorems allow it), expiry of certificates.
`Register` takes the token from the environment file when it posts; the code has
read it when the process started, and no property tells the two apart.

`wiped` and `late` are history: the calls past their select when a row of their host
was deleted, and those whose handler wrote the row after their agent had given them
up. `ServedCertIsListed` is stated against them.

### PanelBoot

`pc` walks through `NewApp`: connect, the two `DO` blocks, the CA, the count of
users, the insert, the print, serving. A block is one transaction. `disk` holds
the two CA files; a file is absent, torn (truncated) or whole. `Exit` drops what
is in memory; `StatementFails` includes a statement that was carried out and
whose result was lost. Deletion of the files by others is not in the model.

### NginxSites and MysqlAdmin

A form is an element of `Requests`, submitted once. `answer` is what the panel
told the administrator, `pc` where the agent's handler is. They are separate
because `GiveUp` (the client's 10 s, or a lost answer) ends the first and not
the second. `NginxSites` takes every file system call as a step: `os.WriteFile`
truncates, then writes at offset 0; a text is a number of blocks, so a short
write over a long file leaves its end; a save whose file was removed meanwhile
writes to nothing (`orphans`). The layout (`sites-available` or `conf.d`) is
chosen in `Init` as `NewManager` does. `met`, `cut`, `ignored` and `last` are
history, and so is `partial`: what ran beside what on one site, saves that ended
before their write, link operations whose error was ignored, the form that has the
last word about a site, and writes that failed on the way. The properties are stated
against them: they say exactly which damage has which cause. `SaveShort` is a disk
that fills up: a piece of the text is in the file, and `SaveFails` answers afterwards.
`Bad` are texts that nginx refuses; the panel takes them like any other. nginx
accepts an empty file and a whole text that is not bad, and nothing else; that two
texts contradict each other is not in the model. `AgentDies` is the end of the
process; a loss of power that takes back what was written (there is no fsync) is
not in the model, nor is a kill in the middle of a write of more than a page.

`MysqlAdmin` models the server (external) from its statements: `IF NOT EXISTS`
and `IF EXISTS` are no errors, `CREATE USER IF NOT EXISTS` keeps a password,
`DROP USER` drops grants, `DROP DATABASE` does not, `GRANT` needs the account
(MariaDB's default `NO_AUTO_CREATE_USER`) but not the database. A statement may
fail, or be carried out with its result lost. Names and quoting are abstracted.

`MysqlRefinement` maps the handler's place to the fate of a form: open until its
first statement runs, carried out from there (a grant waits for its `FLUSH`), then
over. `MysqlConsole` may answer a checked form with success only in or after the
step that carried it out, and promises nothing about "error" and about the two drops
the panel does not look at.

### PanelGate and NodePages

A login that passes draws a fresh session id, so an element of `Logins` names the
request, the row of `sessions` and the cookie signed for it. Requests are used
again once answered.

| Code | Model |
|---|---|
| `sessions`, `expires_at` passed, `settings` | `rows`, `expired`, `stored` |
| the browser's cookie, the cookie a request came with | `jar`, `carries` |
| history: sessions whose browser has logged out | `left` |
| 122-171 | `StartLogin`, `RefuseLogin`, `Authenticate`, `InsertSession`, `InsertError`, `SignCookie`, `ReceiveCookie` |
| `sign`, 625-628 | `longKey`: a cookie key under 32 bytes makes every login fail after its insert |
| 173-176 | `Logout`: clears the cookie only; there is no statement that deletes a session |
| 258-283 | `CheckSession`, `SessionError` (an error of the select reads as "no session") |
| 182-201 | `ReadKey`, `ReadKeyError`, then `VerifyKey` up to three seconds later |
| 214-244 | `SubmitKey`, `SubmitError` |
| request context, `cmd/panel/main.go:26-40` | `LoginCut`, `Cancel`, `PanelStops` |
| 345-374, 357-365, 601-618 | `ReadNode`, `DeleteRow`, `InsertRow` |

`VerifyKey` carries the delete of line 194. `VerifyLicense` is a stub that judges a
key by its prefix alone, so a key that was accepted stays accepted: `LicenceStays`
proves that the delete is dead code. Were the stub replaced by a service whose
answers change, a newer, valid key submitted during the three seconds would be
deleted. `BugVerifyKey`, which lets an unknown address count against the key, is enough
to violate `LicenceStays`.

`NodePages` extends the gate: its steps are the gate's steps with the work a request
is about, and steps on the node list that leave the gate alone. `InsertRow` is all
that `agentRegister` does to a row that matters here; `Enrollment` has the rest. An
update by `agentRegister` changes name, port and certificate name, never the
host. The certificate name a page reads is passed to the agent client, which
ignores it, so a call is described by its host.

### RateLimiter and FirstPanel

`Allow` runs under its mutex and reads the clock there, so it is one step,
`Admit` or `Refuse`. Entries are attempts, because several may share a tick.
`Restart` is systemd's: the entries are in memory.
`SlidingWindow` has no entries: its log is all the running process let through, and
the part of it in the window decides. `LimiterRefinement` reads that log off the
history variables `result` and `life`.

In `FirstPanel` a POST of the login form is an attempt of the limiter and names the
session it may make. `EnterSession` is the map write of `CreateSession` under its
lock, `EncodeAndRedirect` the rest of the handler. The cookie store is external:
`securecookie.New` is given the 21 bytes of `"vpspanel-session-hash"` as its block
key, AES takes 16, 24 or 32, and from then on every `Encode` and `Decode` returns
that error. `Login` ignores the error of `CreateSession`, so this shows up nowhere.
The filters before the handlers are not in the model: behind `Referrer-Policy:
no-referrer` a browser posts the login form with `Origin: null`, which
`SameOriginProtection` answers with 403, so a browser may not even come so far.

## 3. The runs

| Run | Question | Bounds |
|---|---|---|
| `enroll_concurrent` | how far can unlocked check-then-act go, and who stays locked out? | 2 agents, 2 tokens, 3 calls, 2 handlers at once, 2 faults, no database errors, deletes |
| `enroll_db_errors` | what do ignored errors do, who is listed, is registration atomic when handlers do not overlap? | 1 handler at once, 1 failing statement, 2 faults, expiry, deletes |
| `enroll_live` | does a good token attach the server? | 2 agents, 2 tokens, 2 calls, 2 handlers at once, no faults, expiry, deletes |
| `enroll_lost_reply` | does installing attach the server? (violated) | 1 agent, 1 token, 2 calls, 1 fault |
| `boot` | do interrupted starts do harm? | 2 crashes, 2 failing statements, 4 CA pairs, 2 passwords |
| `boot_password` | is the password printed? (violated) | 1 crash |
| `nginx` | which damage has which cause, what is an answer worth? | 2 names, 3 texts (a short, a long, a bad one), 3 forms at once, 1 fault, both layouts |
| `mysql` | what is an answer worth, what do late statements do, are forms atomic? | 2 databases, 1 user, 2 passwords, 3 forms at once, 1 fault |
| `mysql_grant` | does a grant ensure that both exist? (violated) | 1 database, 1 user, 2 forms |
| `first_panel` | does any window exceed the limit, is pruning exact, how fast do sessions pile up? | 2 addresses, 4 attempts, limit 2, window 2, 5 ticks, 1 restart |
| `first_panel_login` | does logging in let anybody in? (violated) | the same |
| `gate` | what do a cookie, a served page, a call to an agent stand for? | 1 browser, 2 logins, 2 requests, 2 keys, 2 nodes, 2 hosts, 1 fault |

Why these bounds are enough to be interesting. Three calls are one more than can
run at once, so a late handler meets a finished one; two agents with two tokens
give a token used by both and an agent with both; two faults cut an enrollment,
its retry, and a file write in it. In `boot` two crashes and two lost statements
reach every mixture of half-written files; four key pairs are one more than such
starts use up. In `nginx` a server comes with sites, so three forms suffice for
enable, delete and restart, and for two saves and a restart; one fault is one write
that a full disk cuts short, or one crash, before that restart. The first panel's four
attempts over five ticks fill, overrun, empty and refill a window, and the restart
falls anywhere in it. In `gate` two requests are one whose page is overtaken and
one that overtakes it (a submitted key, a deleted node, a second page), two logins
are an old session and a new one, and the second node is what a deleted one
becomes when its host registers anew. Every `Max...` constant is a
bound of the model only, not of the code.

What they show:

- `TokenUseBounded`, `RowsBounded`: a token buys as many certificates as there
  were handlers between check and mark at once, plus marks that failed, never
  more; likewise for rows of a host. One handler at a time and a database that
  answers give exactly one.
- `RowBelongsToHost`, `ServedCertIsListed`: what rows and agents say of each other
  under every interleaving, with handlers side by side, failing statements and
  deletes. The row of a serving agent's host names the certificate it serves with;
  the three ways in which it does not are named: a handler that ran on for an agent
  that had given up, another agent of the same host, a row deleted after the handler
  had looked for it (the code then updates nothing and answers 200).
- `GhostsBounded`: whoever was told that enrolling failed is not listed, but for one
  row per failing statement, whose write was applied and its result lost.
- `NoBrickedAgent`, `IdentityIsStable`: because the CA file is written last, an
  agent that skips enrollment has a key pair that loads. A crash inside that last
  write leaves an agent that serves and trusts nobody, which lasts.
- `RegistrationIsAtomic`: with one handler at a time, and as long as no statement has
  failed and no registered row was deleted (`Calm`), the four statements implement
  `Registry`. The abstract step is the write of the row; a token past the check
  counts as live until then, and as burnt when the call fails.
- `LockedOutStays`: an agent that lacks a file, whose token is spent or expired and
  whose open call can no longer succeed stays so until it is installed with another
  token; this is what makes the lost reply below final.
- `LiveTokenAttaches`: liveness without faults.
- `InstallAttaches` is violated: the token is spent before the reply is safe, and
  the agent retries with the same token for ever (`nodes.html:58` promises that
  the command attaches the server).
- `OneCA`, `ServesWhole`, `PrintedWorks`, `ComesUp`: starts may be cut anywhere;
  the one trap is a torn `ca.crt` (`CaTorn`), after which the panel never starts.
- `PasswordIsPrinted` is violated by a crash between insert and print.
- `LinkHasFile`, `FileIsWhole`: only an enable beside a delete or an ignored error
  leaves a link to nothing; a file is empty or holds a part of a text only after a
  save that was cut short, and anything else only after two saves side by side.
- `NginxSurvives`, an action property: when a restart takes nginx down, a site that it
  reads has the reason in it: a text nginx refuses, a write that failed on the way,
  two saves that met, or a link whose file is gone for a reason of `LinkHasFile`.
  A crash of the agent, a time-out or the order of the operations is none.
- `AnsweredIsOnDisk`, `AnsweredHolds`: an answer of success can be relied on when
  no other request for the same thing was outstanding, given-up ones included.
- `GrantsHaveAccounts`: no order of late and repeated statements leaves a privilege
  without its account.
- `FormsAreAtomic`: page, client, agent and statements together implement
  `MysqlConsole!Spec`. `BugCreateUser`, a late create that changes a password,
  violates it, and so do a grant that needs no user and an answer of success for a
  form that was given up.
- `GrantEnsuresBoth` is violated (`mysql.go:115` claims it).
- `RowsMatchCookies`: no cookie without a row, though inserts fail and logins overlap;
  a row whose cookie nobody got needs a short cookie key or a fault.
- `ServedIsEntitled`, `LicenceStays`: the check of the key is never overtaken by its
  deletion.
- `TurnedAwayForCause`: other logins, logouts of other sessions and restarts end no
  session under a request in flight; only the 24 hours, its own logout, a missing key
  or a failing statement do. In the code not even its own logout does; the property
  allows a logout that deletes its row, and `BugLogout`, one that deletes every
  session of the user, violates it.
- `CallGoesWhereListed`: because ids are never drawn again and updates keep the host,
  a page that is overtaken calls the server its sender meant, or none.
- `WindowBounded`, `VisitsBounded`, `LimiterIsExact`: within the life of a process the
  limiter answers as if it had kept everything (`SlidingWindow!Spec`), though it keeps
  no more than the limit; a restart opens the window anew.
- `SessionsPaced`: sessions come no faster than the limiter lets logins through.
- `LoginLetsIn` is violated: a right password is answered with a redirect to the
  dashboard, which redirects to the login page, and leaves a session in memory until
  the process ends. `install.sh:190-195` prints a user and a password to log in with.
  With a block key of a length AES accepts the property holds on the same instance.

`CHECK_DEADLOCK FALSE` throughout: when calls, requests and faults are used up,
or all agents serve, nothing more happens, as in the program.

Symmetry is used only in runs without liveness. `enroll_db_errors` uses it with
`RegistrationIsAtomic`, a safety property whose mapping is symmetric because a
host has at most one row as long as it says anything; `mysql` and `first_panel` with `FormsAreAtomic` and
`LimiterIsExact`, whose mappings treat every request and every attempt alike.

### Fairness

`FairSpec` of `Enrollment` and `Spec` of `PanelBoot` use weak fairness of the
handlers' steps (a goroutine that can run does) and of the agent's and the
panel's own steps, the restart included: both units have `Restart=always`
(`agent-alma9.sh:126`, `panel-alma9.sh:111`). systemd gives a unit up after five
starts in ten seconds; `PanelBoot` stays within that with its four faults, and
enabling the unit (`Install`) starts a failed agent again. Administrators, the
clock and faults owe nothing.

## 4. The proofs

All for every value of the constants, from the assumptions of the module:
`ConstantsAssumption` (finite sets of calls, distinct special values, natural
bounds) and, where they apply, `GateAssumption`
(accepted keys are keys, `None` is nothing else), `NoneIsNoForm`, `NoneIsNoNode` and
`NoneIsNoAttempt`.

- `EnrollmentProofs`. `TypeCorrect`, from which four invariants are built up.
  `FilesInv` (files name the call the agent is storing, or one whole identity,
  or are torn in the order of the writes) gives `NeverBricked` and `IdentityKept`.
  `UseInv` counts, per token, the granted calls together with the handlers past
  the check: once the token is marked no handler joins them, and until then at
  most `MaxInFlight` run, plus one per mark that failed. It gives `TokenUse`;
  without the handlers in the count the bound is not inductive. `RowsInv` does
  the same for rows of a host and handlers about to insert, and gives `RowsFew`.
- `PanelBootProofs`. `BootInv` is `TypeOK` with what the files and memory hold at each
  step of the start (`CaInv`), tables and versions in step (`SchemaInv`) and what
  was printed (`AdminInv`). It gives `OneCAEver`, `ServesComplete`, `PrintedIsTrue`.
  The rest is about `ComesUp` and the finding. `TornIsForGood`: a torn `ca.crt` is a
  trap that no start leaves. `StartsAreNotBlocked`: it is the only one; in every other
  state the data the next statement looks at (versions and tables, CA files, drawn
  keys and passwords) let it succeed. It assumes two CA pairs and a password to draw.
  `WorkAlwaysShrinks`: `Work` (fourteen for each fault to come, plus the distance of the
  process from serving), a natural number, falls at every step, so starts are not
  repeated for ever. `LostIsForGood` and `LostOnlyByFault`: a password that was
  not printed is never printed or replaced, and that takes a fault.
- `RegistrationProofs`. `ListInv`: a row names its own host and a certificate signed for
  that host, and the row a handler has found is one of its host, there unless
  deleted. `OwnInv`: an agent's files and open request are calls of its own. Both
  rest on `CallMoves`, that an answered call keeps agent and token for ever; they
  give `RowsBelong`. `NamedInv` follows the call whose certificate an agent waits for,
  stores or has, from the write of the row on: the list names it, or shows why it does
  not. It gives `ServedCertIsTheListed`, for any number of handlers at once. That a row
  of a granted call never becomes a ghost but by a failing statement (`GhostMoves`)
  gives `GhostsAreFew`. Two theorems assume `SerialPanel` (`MaxInFlight = 1`):
  `RegistrationAtomic` maps the initial states and, one lemma per action, every step
  that stays `Calm` to a step of `Registry` or a stutter; `TokenInv` says which tokens
  handlers hold, and that a host has at most one row (`RowsInv`) makes the `CHOOSE` of
  the mapping a function of the row. `CertificatesArePaid` (a one-to-one price in spent
  tokens) is carried over from `Registry`. `LockedOutForGood` needs no such assumption:
  an open call that was refused, or is about to be because its token is spent, stays
  hopeless whatever handlers do. `LostReplyLocksOut` assumes only a database that answers
  (`MaxDbErrors = 0`): an agent interrupted between the grant and its third file is
  locked out by that very step (`SpentInv`: an answered call has spent its token).
- `NodePagesProofs`. `GateInv`: `LoginsInv` ties each login to its row and cookie,
  `RequestsInv` says what a request has passed at each stage, `StoredInv` that only
  accepted keys are stored. It gives `CookiesNameRows`, `PagesAreEntitled` and, as action
  properties, `LicenceIsKept` and `NobodyIsTurnedAway`. `PagesAreBehindTheGate`: the
  composition implements the gate, so all of these hold of it. `WorkInv` (the row of a
  page's node names the host it named when the form was sent, or is gone) gives
  `CallsGoWhereListed`.
- `FirstPanelProofs`. `LimiterKept`: the composition implements `RateLimiter`, so its
  theorems hold there (`PanelKeepsLimit`). `PanelInv` adds that a request past the
  limiter has been let through, by the process it runs in, and that no cookie was
  ever set; it gives `SessionsArePaced` and `LoginsLeakAndLeadNowhere`, the reason
  why `LoginLetsIn` is violated: nobody is ever let in.
- `RateLimiterProofs`. `LimiterInv`: the entries of an address are attempts let
  through, at most `Limit`, and contain the whole window that ends now. It gives
  `LimitHolds`, `MemoryHolds` and, as an action property, `RefusalJust`
  (`RefusedOnlyWhenFull`, which no run repeats because `LimiterIsExact` contains it).
  `PruningIsExact`, that what `Allow` keeps is what the whole log has in the window, is
  the lemma behind `LimiterExact`, the implementation of `SlidingWindow`, and
  `PanelLimiterIsExact` carries it to the whole first panel.
- `NginxSitesProofs`. None of the properties is inductive: each depends on how far
  the handlers are. `IInv` adds that handlers in the middle of one site have met
  (`AllMeet`), that an open save finds its file empty or has met another
  (`TextStage`), that an enable about to link finds the file and a delete about to
  remove it no link, or an excuse (`LinkStage`), and that the latest form for a site
  has it to itself (`OwnerAlone`) and has left what its stage says (`OwnerStage`).
  A step of a handler changes one site (`Confined`), so `SiteKeeps` reduces every
  action to that site. `StaysUp` is then a matter of the one step that changes `up`:
  what `ConfigLoads` misses, the invariant has an excuse for, at that very site.
  It gives `LinksLead`, `FilesWhole`, `AnswersStand`, `StaysUp`.
- `MysqlAdminProofs`. `OwnerAlone` and `OwnerHolds` say the same of the databases and
  users a form names: what it owns no other request is working on, and a grant
  that waits for its `FLUSH` has been made. It gives `AnswersStand`, and from the
  types `NoOrphanGrants` and, as an action property, `PasswordsKept`. `FormsAtomic`
  takes each action to a step of `MysqlConsole`; a crash ends several forms at once,
  for which `Conclude` takes a set. `GrantsAreToUsers` is the half of the comment at
  `mysql.go:115` that holds: the user is there when a grant runs. No run repeats
  `PasswordsStay`, which `FormsAreAtomic` contains.

`IInv` of `NginxSites` was checked by TLC on the constants of `nginx` before it was
proved; so were, on the constants of `enroll_concurrent` and `boot`, the properties
about locked-out agents, torn files, lost passwords and the measure. Every property of the
passing runs is proved but two: `LiveTokenAttaches` and `ComesUp` are liveness under
fairness, which the prover does not reach, and stay with TLC. What is left of
`ComesUp` to TLC is that steps which can be taken are taken; of `LiveTokenAttaches`
the theorems give the safety half only (`LockedOutForGood`: what a locked-out agent
can never do).

## 5. Not modelled

- Metrics, listings and other reads; templates, HTML, package installation,
  configuration parsing. They change no state.
- TLS itself: certificates are names. The agent client checks that a certificate was
  signed by the panel's CA and ignores the name it is handed with a node, so any
  enrolled agent at the right address is taken for the node. Certificates expire
  after a year and are not renewed.
- The `/admin` handlers of the first panel run one command each and keep no state; as
  `LoginsLeakAndLeadNowhere` shows, none of them can be reached. Its origin, address and
  safe-mode filters are functions of one request.
- The loss of a single CA file, after which the next start makes a new CA; power loss
  that takes back written data. The two pages that ignore the outcome of a call
  (`httpapi.go:397`, `508`), and other damage the code does and nothing denies: the
  hazards list says for each why no property is aimed at it.
- Liveness of pages and logins: every statement is bounded by its request, and an
  administrator owes no retry, so there is nothing to promise beyond the 10 seconds of
  the agent client, which `GiveUp` has.
- A node's row deleted while forms for its server run: `NodePages` shows where calls
  go, and `NginxSites` and `MysqlAdmin` that the agent's work does not depend on the
  row. A product of the three would add states and no question.
