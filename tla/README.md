# Verification of agent-filter

TLA+ models of agent-filter, the TLC runs that check them on small instances,
and theorems about them that TLAPS proves for every instance. File and line
references are to the repository.

## 1. The system

agent-filter decides which destinations an AI agent may reach. Squid asks for
every connection (`bin/acl-helper`), the **broker** answers from an allowlist,
the **panel** is where the operator approves what was refused, and
**brokerctl** is the command line. All state is one SQLite file in WAL mode
that the three processes open independently; the only locks are inside the
broker process and inside the panel process.

| Component | State | Operations | Talks to |
| --- | --- | --- | --- |
| Database (`db.py`) | tables `allowlist`, `requests`, `decisions`, `settings`, `panel_sessions` | queries and commits | everyone, by direct access |
| Broker (`broker.py`) | one lock, one connection, `_recent_log` | `submit`, `acl_check`; a thread per connection | database; Squid's helper and the agent, by sockets |
| Panel (`panel.py`) | one lock, one connection, `login_failures` | `decide`, `manual_add`, `confirm_wildcard`, `revoke`, `erase_all_entries`, `remove_defaults`, `pause_enforcement`, `resume_enforcement`, imports, login | database; the operator's browsers, a thread per request |
| brokerctl | none | `pause`, `resume`, `set-password`, `load-starter` | database, from a process of its own |
| ACL helper, Squid | the phase of a connection | CONNECT check, then SNI check with `final` | broker |
| Hostnames (`validation.py`) | three lists read at start | normalise, fold `www.`, block, match | called by broker, panel, imports |
| Start-up (`_migrate`, `merge_www_rows`, `resolve_bind_ip`) | schema, old rows | run by each process that opens the file; the merge by the two services | database |
| Logins (`panel.py`, `brokerctl set-password`) | `panel_sessions`, the password's hash, `login_failures` | login, look-up, logout, set-password | database, by the panel's one connection and brokerctl's own |
| Text log | rotated files | append | written by three processes |

What makes it hard:

* A handler of the broker is a series of statements, each of which sees what
  the panel or brokerctl committed just before; the broker's lock does not
  hold them off. Reads are made early and used late (the standing denial, the
  count of pending requests, the row to bump, the entry to spend).
* An operation of the panel is up to three commits; a crash, or brokerctl, can
  come between any two.
* Time decides: expiry and the pause are evaluated at `ts`, read once.
* The broker has one sqlite3 connection for good, and sqlite3 opens a
  transaction by itself before a write: a write that raises leaves it open.
* An import is a look-up and a write per line, from two processes.
* A `once` grant has to survive the first of a connection's two checks and not
  the second, and the helper that asks gives up after 2.5 s while the broker
  goes on.
* Two services migrate and fold the same table at the same moment, on reads
  made before the write lock is theirs.
* A login takes as long as argon2 does, and set-password may run meanwhile.

What makes each part correct:

* Broker: no answer rests on an entry or a pause that was not in force since
  the check began; blocked domains and other ports are never let through; a
  `once` entry admits one connection; the queue holds a destination once and
  stays within its cap; a decided request is never touched again; the lock is
  always given back.
* Panel: approved requests have their entry; one approval makes one entry;
  what is stamped is true; entries added together go together.
* Decision log: every answer has its row, repeats and budgets bound the table,
  an exhausted budget is stamped once an hour, and no answer is read from a
  database that is not the present one.
* Imports: complete when run again, nothing doubled, the operator's words kept.
* Start-up: no service serves on a table of before; no approval is lost or
  widened by the rebuild and the fold; both services come up.
* Hostnames: the fold leaves an entry with the owner of its name; a wildcard is
  stamped as an override exactly when strangers can register below it.
* Logins: a new password ends the logins of the old one; no operation for an
  ended session; the stored password is never refused.
* Connections: each name was admitted by what covers it; a `once` entry splices
  one connection; every client gets an answer.
* All together: what is let through is what `Gate` allows.

## 2. Modules

| Module | Models | Extends |
| --- | --- | --- |
| `Store` | the allowlist, the queue, the pause setting and the clock, with the queries and commits of `db.py` | community modules |
| `Broker` | `broker.py`: both handlers, one action per SELECT and per commit | `Store` |
| `Panel` | `panel.py` operations and `brokerctl pause/resume`, one action per commit | `Store` |
| `AgentFilter` | the processes together, restarts, the properties | `Broker`, `Panel` |
| `Gate` | the abstract promise: grants, withdrawals, checks | standard modules |
| `DecisionLog` | the broker's rows of `decisions`, coalescing, the hourly budgets, and the connection they are written on | community modules |
| `Imports` | bulk imports by the panel and `brokerctl load-starter` | `Store` |
| `Hostnames` | `validation.py` on names as sequences of labels, and the meaning of a public suffix list | community modules |
| `Startup` | `open_db`, `_migrate`, `merge_www_rows`, `resolve_bind_ip` by three processes at once | `Hostnames` |
| `Sessions` | logins, session look-ups, logout, `brokerctl set-password`, the panel's connection | community modules |
| `ProxyPath` | Squid, the helper and the broker's socket, above the broker that `Gate` promises | instantiates `Gate` |
| `MCDecisionLog`, `MCImports`, `MCStartup`, `MCSessions`, `MCProxyPath` | traffic mixes, lists of lines, databases of earlier versions and suffix rules, passwords, entries for TLC | the module of that name |
| `MCAgentFilter` | hosts, lifetimes and initial rows for TLC | `AgentFilter` |
| `AgentFilterTypes` | lemmas on the queries and commits, type correctness, and that blocked domains stay out | `AgentFilter`, TLAPS |
| `AgentFilterProofs` | the answers of the broker, and that the composition implements `Gate` | `AgentFilterTypes` |
| `PanelProofs` | the queue of requests and the operator's operations | `AgentFilterProofs` |
| `DecisionLogProofs` | answers are logged and current, coalescing, budgets and their trips | `DecisionLog`, TLAPS |
| `ImportsProofs` | bulk imports | `Imports`, TLAPS |
| `StartupProofs` | the migration is complete before a service serves; the fold and the public suffix list; no approval is lost or gained by a merge | `Startup`, TLAPS |
| `SessionsProofs` | logins and passwords | `Sessions`, TLAPS |
| `ProxyPathProofs` | connections and once grants | `ProxyPath`, TLAPS |

### State and actions against the code

`Store`: `allowlist` and `requests` are sequences of rows, a row's id its index
(nothing modelled deletes rows); `consumed`, `expires` and `group` are the
nullable columns; `paused_until` is the setting, `Off` the text "off"; `clock` is
`time.time()` in seconds. `active_match`, `standing_denial`, `pending_count`,
`retire`, `spend`, `decide_request` are the functions of those names or the
statements in them. The order of `active_match` (exact before wildcard, then
id) and the tie of `ORDER BY decided_at DESC LIMIT 1` are kept.

`Broker`: `pc[t]` is where thread `t` is in `_submit_locked` or `_acl_locked`,
`job[t]` its local variables, `lock` is `Broker.lock`. `AclCheck` and `Submit`
take the lock, read `ts` and apply the gates that need no database; then
`ReadPause`, `Match`, `Consume`, `ReadDenial`, `ReadExisting`, `ReadCount`,
`Find`, `Bump`, `Insert` are the statements in the order of either handler;
`Reply` logs, unlocks and answers. `BrokerRestart` is a statement that raises
(the handler answers `BROKER_UNAVAILABLE`) or the death of the process.

`Panel`: `tab_pc[u]` is the next commit of the operation tab `u` runs and
`task[u]` its local variables. `Begin` takes the lock and reads `ts`, with the
guards of the operation; `AddRow`, `Resolve`, `Retire`, `SetPause`, `LogEvent`
are its commits, ordered by `next_commit`. `cli_pc` and `cli` are the same for
brokerctl, which takes no lock. `decisions` keeps the stamps of decisions and
of entries added by hand, `gate_stamp` what the last pause or resume stamp
says.

`AgentFilter` adds two history variables. `seen[t]` is what held when thread
`t` took the lock: the rows that were dead, whether the pause was in force then
or since, whether a denial of its destination stood then and has stood since.
`finals[i]` counts the final checks that the once entry `i` let through.

`Gate` has no database, lock or clock. A grant may admit a check if it was not
withdrawn when the check began, or was made since; a grant for one use admits
one final check; an open gate admits checks it was open to; forbidden
destinations are never admitted. The decision is a step of its own and the
check carries the answer from then on, so that the answer given is the answer
decided. `AgentFilter!KeepsPromise` maps entries to grants, rows with
`consumed` set to used grants, threads to checks, and the pause to the open
gate; a decision is taken where the handler reads or spends what it rests on.

`DecisionLog` follows one handler at a time (the broker's lock): `at` is where
it is and `job` its local variables. `BudgetHit` is `_budget_hit`, with the trip
as the event to be logged next; `Match` and `Queue` are the reads and the write of
`Broker`, reduced to whether the destination is admitted; `Log` is `_log` with
`log_event`. `decisions` is the sequence of rows, `recent` the map `_recent_log` with its
sweep. `tx` is the connection: `closed`; `open`, in a transaction that has read
nothing; `frozen`, with the snapshot `view`; `stale`, with a snapshot another
process has committed past, on which SQLite refuses every write. `Raise` is a
write that fails, `Commit` one that succeeds, `Select` what a read does to the
transaction, `OtherCommit` a commit of the panel or brokerctl.

`Imports` has a process `panel` and a process `brokerctl`, each at a line of its
list. `Begin` reads the clock (and validates a shipped file as a whole),
`LookUp` is the SELECT of a line, `Add` and `Describe` its two possible writes,
`Finish` the last commit. `draft` holds the descriptions of pasted text that
`import_user_text` has written and not committed: the panel sees them,
brokerctl does not and cannot write meanwhile. `Crash` ends an import
anywhere. `ManualAdd` and `Withdraw` are the operator's other operations on the
table, each one commit here.

`Hostnames` has no state: `canonical_host`, `wildcard_psl_conflict`,
`is_blocked`, `matches` and `normalize_hostname` are the functions of those
names over sequences of labels. `suffix_length`, `registered` and `owner` are
what publicsuffix.org means by a list, against which they are judged.

`Startup`: `pc[p]` is the statement process `p` is at. A DDL statement commits by
itself; `Alter` exits when its column has been added since; `Rebuild` is the one
script of `_migrate`. `Select` and `Dup` are the reads of `merge_www_rows`, `Write`
its DELETE or UPDATE, the first of which takes the write lock (`writer`, with
`draft` the rows as the writer sees them), `Commit` its commit, `Exit` a process
that ends without one. A row's id is free again after its deletion when it was
the last, as SQLite has it; `row.entry` tells entries apart across that. `typed`,
`standing`, `override` and `merged` are history: what an entry was approved for,
whether it still counts, its stamp, what became of it in a merge. `AddByHand`
and `End` are the operator's operations of `Panel`, one commit each.

`Sessions`: a request is at `verify` while argon2 runs, at `create` before its
session is written, at `csrf` and `in` after the look-ups, at `stamp` between the
first commit of an operation and its line of the log, with the panel's lock held.
`Login`, `Authorize` and `Csrf` read through the connection (`tx`, `view`, as in
`DecisionLog`); `CreateSession`, `Operate`, `Stamp` and `DropSession` write, or
raise and leave the transaction open. `ImportNothing` is a pasted import with
nothing to add: `db.py:443` commits all the same, on any snapshot, and the
connection reads the stored state again. `set_password` lists the two commits of
brokerctl. History: `overtaken` says that the snapshot is a raised write's and
that another process has committed since; `behind` that a request came then,
`during` that set-password met a login.

`ProxyPath`: `conn[c].at` is where a connection is in Squid, `sent` the questions
in the broker's listening socket, which systemd keeps across restarts. The
helper's `GiveUp` withdraws nothing: `Take` hands the question to the broker
all the same. The broker, the operator and the clock are the actions of `Gate`,
which `AgentFilter` implements (`KeepsPromise`), so that what holds here holds
of the program: that refinement is proved (`PromiseKept`).

### What is abstracted

Hostnames are model values with a subdomain relation `Below`, already
normalised and folded; a name that is rejected is `Malformed`, which stands
for `INVALID_HOSTNAME`, `IP_LITERAL_REJECTED` and `WILDCARD_NOT_PERMITTED`
alike. `count`, `first_seen`, `last_seen` and messages are left out. A thread that
waits for the lock has read nothing and is idle. The clock does not step back.

`AgentFilter` takes the hourly budgets as a free choice to answer
`RATE_LIMITED`, keeps no log rows of the broker, and takes a failed write to
leave no transaction open. `DecisionLog` models all three, and tells entries,
pause and queue apart no further than admitted or not. What `AgentFilter` shows
of the answers therefore holds as long as no write of the broker process has
raised (`CurrentUnlessFailed`); the run `frozen` shows what happens after.

In `DecisionLog` the clock ticks between handlers only: a handler reads it once.
In `Imports` a list names exact hosts on one port: wildcards are refused like
malformed names, and an import that ends by an error loses the descriptions it has
not committed, as one that dies does (in the code they stay in the panel's
transaction until its next commit). `Startup` keeps of a row what folding and
matching look at, and of spent, revoked and expired only that they are not
active. `Sessions` tells
neither tokens nor csrf values apart, and lets a request race nothing but the
password and the sessions. `ProxyPath` has one port; what Squid refuses before
it asks is one action.

## 3. Runs

Runs use `MCAgentFilter` but where the run is named after its own module. There,
hosts are `base`, `api` and `evil`, the latter two below `base`. Every length of
time is one tick.

| Run | Properties | What it shows, and its bounds |
| --- | --- | --- |
| `admission` | `TypeOK`, `VerdictFresh`, `OnceSpentOnce` | 2 threads, 1 tab, 2 hosts (one below the other), 2 entries of exact, wildcard, once and permanent kind: enough for an exact entry to shadow a wildcard, for a second thread to meet an entry being spent, and for an entry to expire or be revoked under a check |
| `promise` | `BlockedNeverAdmitted`, `KeepsPromise` | the refinement of `Gate`, with a blocked host under a wildcard, once entries, two ports, a pause that brokerctl sets and ends and that runs out, errors of the broker. One thread: a second one is idle whenever the first is not, and with it the run has the same states up to symmetry |
| `queue` | `PendingUnique`, `PendingWithinCap`, `DenialHonoured`, `ResolvedIsFinal` | 2 threads on both sockets, 2 hosts, a cap of 1, 2 requests: the cap is reached, the open request is closed and another opened while a handler is under way |
| `operator` | `LogNeverLies`, `OneEntryPerApproval`, `GateMatchesLog`, `GroupDiesTogether` | 2 tabs and a crash between any two commits, over a database with a group of two rows and a row without one; one request and one more entry, one tick |
| `progress` | `LocksReleased` | 2 threads, 2 tabs, a brokerctl, a crash, `FairSpec`, no symmetry |
| `log` | `TypeOK`, `NoFlood`, `BudgetsHold`, `OneTripPerWindow`, `AnswerLogged`, `CurrentUnlessFailed` | one destination and one rejected name; a window of 2 ticks, an hour of 3 and a clock of 3, so that both end; budgets of 1; `_recent_log` swept beyond 1 key; 4 rows; a restart; failing writes without bound. Three mixes of two handlers: each pair that meets in the log, in the map or in the trips |
| `imports` | `ImportComplete`, `NothingTwice`, `WordsKeptAlone` | two imports at once or one after the other, crashes anywhere; a file that names a host twice, a file with a blocked host, pasted text with a repeated and a blocked line, a group with a bad one; an entry by hand, of limited or unlimited life, before or between |
| `startup` | `TypeOK`, `SchemaCurrent`, `NothingLost`, `NothingGained`, `FoldKeepsOwner`, `WildcardJudged`, `BothUp` | three processes on seven databases: none, three earlier versions, the current one; both spellings, one spelling twice, a spent row of either, another port. Two failures, so that one can hit the other's restart; one entry added (16 spellings), ended, or a run of brokerctl. Four public suffix rules: a plain one, two wildcard rules, an exception |
| `sessions` | `TypeOK`, `OnlySignedIn`, `PasswordEndsLogins`, `CorrectPasswordWins` | 2 requests, 2 sessions, 2 passwords, a run of set-password, one failure before the lockout, a restart, logins of 2 ticks in a clock of 2, failing writes and imports of nothing without bound |
| `proxy` | `SplicedChecked`, `OnceOneConnection`, `SpentIsUsed`, `ConnectionResolved` | 2 connections to a destination that may be admitted and one that is blocked, one grant (exact or a wildcard above both, once or not), one turn of the pause, restarts of the broker without bound |

The runs that find a disagreement with what the repository says (section 4) have
the smallest instance that shows it: `frozen` (`MCDecisionLog`) and `twin_lost`
(`MCStartup`).

**Bounds.** `MaxTime` ticks, `MaxRequests` and `MaxRows` rows, `MaxRestarts`
crashes of the panel and brokerctl; errors and restarts of the broker are not
bounded. `DecisionLog` bounds its table, clock and restarts in the guards of
`Start`, `Tick` and `BrokerRestart`; `Imports` bounds entries made by hand
(`MaxByHand`) and imports begun (`MaxImports`); `Startup` failures of any kind
(`MaxFailures`) and what the operator does (`MaxOperations`, one: with two the code
violates `NothingLost` and `FoldKeepsOwner`, section 4); `Sessions` sessions,
wrong passwords remembered, runs of set-password, ticks and restarts;
`ProxyPath` grants and turns of the pause. Two threads and two tabs suffice for
the interleavings because each process has one lock, so that at most one thread
and one tab are under way: the second is there to be kept out, and for the
mutants without the lock. `SYMMETRY` permutes threads, tabs and requests and is
not used with liveness. `startup` and `proxy` really stop, when all is up or
closed and the bounds are used up: there, and only there, deadlock is not
checked.

**Fairness.** `FairSpec` gives weak fairness to the steps of a handler that
holds the broker's lock and of an operation that holds the panel's. SQLite
answers every statement or raises after `busy_timeout`, and both are steps
here. Nothing is assumed of clients, the operator, the clock, or of who gets a
lock next, so no property says that a given request is ever answered: Python's
locks are not fair. In `Startup` a process that opens the database goes on and a
service that is down is started again (`Restart=always` in both units); `BothUp`
holds although either may make starts of the other fail, because failures from
outside are bounded and a start that finds the other's column does not fail
twice on it. In `ProxyPath` the helper's time-out comes and Squid does not wait for
a ClientHello for ever; nothing is assumed of the broker.

## 4. Where the code and its documentation differ

| Run | What the run shows |
| --- | --- |
| `frozen` | A write of the broker raises and leaves its transaction open; the next check freezes a snapshot, and repeats of an allowed check are coalesced, write nothing and go on being answered from it. A destination revoked since stays ALLOWED until the broker restarts, where `squid.conf:34-35` has revocation take effect immediately. |
| `twin_lost` | `merge_www_rows` looks for a twin without asking whether it is alive (`db.py:566-570`). An active `www.X` row whose bare twin is spent, revoked or expired is deleted at the next start, and `X` is admitted no more, where `db.py:553-555` says "the bare row carries the approval". |

Seen while modelling, with no run of their own:

* With a full queue `acl_check` answers PENDING, "queued, awaiting a human
  decision" (`codes.py:12`), and queues nothing (`broker.py:251`).
* Both handlers look for an entry before a standing denial (`broker.py:146`, `230`):
  an entry added by hand while a request was pending goes on admitting the
  destination after the request is denied, although `db.py:677` says a denied
  destination stays denied until a (later) manual add.
* A handler that read no denial inserts a request after the operator denied the
  pending one, so that it is back in the queue (`db.py:640`, against
  `tests/test_broker.py:221`).
* If the proxy queued a destination first, its NULL rationale is kept and the
  agent's first rationale is dropped (`db.py:627-639`).
* brokerctl and the panel stamp the pause without a common lock: a resume in the
  panel sets, `pause off` sets and stamps, the resume stamps, and the gate is off
  with "resumed" as the last stamp (`panel.py:673`).
* An import that looked an entry up before the operator described it overwrites
  the description (`db.py:373`, against the comment at `db.py:368`), which is why
  `WordsKeptAlone` asks that no other process writes meanwhile.
* A merge that read its rows before the other service merged them can delete an
  entry that is not a www row at all, wildcards included ("Wildcard rows are
  never touched", `db.py:557`): the other service deletes the last row, the operator
  adds an entry, SQLite gives it the same id, and the late merge deletes that id.
  `NothingLost` leaves this case out by name (`mistaken`); without it the
  invariant does not hold. If the operator has added two entries, the late merge
  may delete the twin of the second before it looks for it, and then renames the
  second: rows `a.co.uk`, `www.a.com`, `www.a.co.uk`, `www.a.com` (ids 1 to 4); the panel
  merges and deletes 3 and 4; the operator adds `a.com` (id 3) and `z.com` (id 4); the
  broker, which read before, deletes 2 and 3 and makes the row of `z.com` one of
  `a.com`. `NothingLost` and `FoldKeepsOwner` fail on it. Likewise a late merge deletes a row that was renamed
  already when the operator has added its name again, and keeps the newer row,
  which may have a shorter life.
* An entry for `www.www.X` is folded once when it is added and once more at the
  next start, after which look-ups, which fold once, miss it; and a wildcard on
  `www.X` does not reach `www.X` itself, which look-ups fold to `X`.
* `www.nom.br` is a zone under `*.nom.br` and is folded to `nom.br` all the same: the
  test looks at what is left, not at the name.
* A login that verified the old password while set-password ran keeps its
  session, although brokerctl says that "every signed-in device must log in
  again" (`brokerctl:58`). `PasswordEndsLogins` excepts it (`during`).
* A panel whose write has raised reads a snapshot until one of its commits
  succeeds. Once another process has committed, every write raises, ended
  sessions and the old password live on in the snapshot, and what helps is a
  restart or an import with nothing to add, whose commit writes nothing
  (`db.py:443`).
* That import also lets an old password back in: a login reads the old hash from
  the snapshot when set-password is already over, someone whose cleared session
  still shows in the snapshot posts such an import, and the login's session is
  then written beside the new password. It lives for its whole term.
  `PasswordEndsLogins` excepts it as well (`behind`): without that disjunct TLC
  finds this behaviour. A panel that runs no such import makes no session of an
  old password from the snapshot, as writing it raises.
* A `once` entry is spent on the name of the ClientHello: the one that let the
  CONNECT past is not, when the two names differ.

## 5. Proofs

All theorems are of the form `Spec => []Inv`, `Spec => [][A]_vars` or, of the
refinement, `Spec => Promise!Spec` (four of `Startup` add a hypothesis on the
behaviour, see below). Those of `AgentFilter` hold for every value of
the constants that satisfies `StoreAssumption`, `GroupAssumption`,
`BrokerAssumption`, `PanelAssumption` and `RestartAssumption` (blocked hosts are
hosts, `PendingMax` is a natural number, locks nobody holds are no thread, the
rows of a group found at the start are alike, and so on; TLC evaluates them in
every run).

* `AgentFilterTypes` begins with lemmas on `Store`. `active_match` returns an
  active matching entry of the table or 0; `pending_request` a pending row or 0;
  commits keep the tables typed; closing a request removes exactly its id from
  the pending ones, inserting adds exactly the new one; there are finitely many
  pending ones. `TypeInv` is `TypeOK` together with `Gated`: what is past the gates
  has passed them. `TypeOK` alone is inductive but not enough for
  `BlockedStayOut`, which needs to know at the answer what was tested at the
  start. One step per action.
* `AgentFilterProofs`. `AnswerInv` adds
  `Held` (a thread under way holds the lock, so there is one),
  `ViewSound` (what a check saw dead stays dead at its `ts`: nothing revives an
  expired or spent row),
  `HitSound` (the entry found matches and was not dead, and if it is to be spent
  it is unspent as nobody else spends),
  `OnceInv` (an entry's count of final checks is tied to its `consumed` column and
  to the thread that is about to answer).
  `VerdictFresh` and `OnceSpentOnce` follow. With `CheckSound` (the check that `Gate`
  sees of a thread has the answer the handler is about to give) every step is one
  of `Gate`'s: a handler that takes the lock begins a check; one that passes the
  open gate is admitted by it, one that passes on an entry, or spends it, is
  admitted by that grant, one that is refused is refused; giving the lock back
  delivers; adding a row makes a grant; a revocation, or a tick that ends an
  entry, lets grants lapse; setting the pause, or a tick that ends it, sets the
  gate; a restart of the broker loses the check; all else stutters. That is
  `PromiseKept`.
* `PanelProofs`. `DecisionsFinal` needs only types: the bump does not write the
  status and `decide_request` tests it. `QueueInv` adds `WriterSound`: a handler on
  its way to write has found room or a request to bump, and one about to insert
  knows that its destination has none. This is what survives the panel closing
  a request between the count and the insert: the count then goes down by one.
  `PendingUnique` and `PendingWithinCap` are not inductive without it, and it
  needs `Held`: only the holder of the lock opens requests. `DenialHonoured` rests on
  `DenialInv`: while the denial a check began under stands, `ReadDenial` finds it,
  so the check never gets past that statement. `PanelInv` says that the operation
  under way holds the panel's lock, that the request it decides is pending until
  it is resolved, and that what it will stamp is true; then every stamp is.
  `GroupInv` (the id of a group is that of one of its rows, a group has one source)
  shows that each commit that retires entries takes a whole group.
  `ApprovalsMatch` counts: entries of approvals exceed approved requests by the
  operation that is between its two commits and by those a crash cut short. Its
  hypothesis `NothingApproved` is that the table found has no such entries, as the
  requests they came from are not modelled. `StampTellsPause` has the hypothesis
  `OneWriter`: no brokerctl, or one brokerctl and a panel that does not pause. It
  is needed (section 4, the common lock that is not there).
* `ImportsProofs`, from `StoreAssumption` and `ImportAssumption`. `ImportInv` says what
  an import knows as long as no other process has written since it began: the
  lines behind it are provided for, what it has just looked up is still so, and
  the row it will describe has the words it read. All three theorems follow
  for every list, repeated and refused lines included.
* `StartupProofs`, from `StartupAssumption` (the tables found are tables of some
  version, the rows found a sequence of entries). `SchemaInv` says for every process
  what it knows of the table at each statement, and `SchemaCurrent` is one part of
  it: not inductive alone, since a service comes to `select` by way of `check` and
  `alter`, and what it noted there must still be so after the other two have
  written. The table only grows (`Grows`), so what was known stays known.
  `RowsInv` is what `TypeOK` needs of the rows: ids and entries in use are bounded,
  so the next is new; the writer's draft holds no entry that the rows do not.
  Two lemmas relate `is_zone`, which the code tests, to what publicsuffix.org means
  by a list: `FoldingKeepsOwner` (whoever owns a registered name owns what it folds
  to) and `ConflictMeansSpan` (`wildcard_psl_conflict` warns exactly of wildcards that
  admit names of several owners).
  `NameInv` says what a row keeps of the entry it was made for, however often its
  pattern is folded (`Carries`), and what a merge keeps of the rows it has read
  (`TodoSound`, from `SortedListing`: the SELECT lists every row to be folded, once).
  `OwnersKept`, `NothingIsGained` and `WildcardsJudged` follow.
  `KeepInv` is for `NothingLost`. Only entries found at the start are ever unfolded
  (`Spelled`), and a merge has read all that are (`Reads`), so that none is left when
  the broker serves. Two merges may interleave: what one found of a row's twin
  must still be so when it writes (`TwinKept`), and it is, because only rows that
  were themselves to be folded are ever deleted, and of those on one name one is
  left (`Phase`, `DraftKept`); from the commit on, what a merge deleted is carried by
  a row that admits it and that no later merge deletes if there is such a one
  (`Carriers`). TLC checked `KeepInv` first, on 84 databases of three or four rows with
  two operations and one failure.
* `SessionsProofs`, from `SessionsAssumption`. `SessionInv` adds to the types
  `Tokens` (ids of sessions are never used again, ended ones are not in the
  table, every expiry is its login's),
  `ViewSound` (no write raised since the last commit, no transaction; a snapshot
  that is not overtaken is the stored state),
  `LoginSound` (a login's hash is the stored one, or set-password ran meanwhile, or
  the login came on an overtaken snapshot), `RequestSound` (the session of an
  operation was alive when it came, or it came on an overtaken snapshot) and
  `SweptSound` (how far set-password has come). `PasswordEndsLogins` is inductive
  only with them: what a login carries to its session was right when it was read
  and has met every set-password since, however the connection's transactions were
  ended in between. `SessionsTyped` has a counting argument of its own: sessions
  ever created and logins on their way are at most `MaxTokens` together.
* `ProxyPathProofs`, with no assumption on the constants. `AskInv` relates a
  question, wherever it is, to its connection: it is about the name at hand as
  long as the connection waits for it, and what may admit it may admit the
  connection. `SpendInv` says who has spent what: only a connection's SNI check
  spends, it is put once, and no grant is spent twice. `OnceOneConnection` then
  maps each spliced connection to the grant it spent, which is one to one, and
  compares cardinalities. As `ProxyPath` runs on `Gate`, and `PromiseKept` says that
  the processes implement it, these results rest on proofs alone.
* `DecisionLogProofs`, from `LogAssumption`. `LogInv` is `AnswerLogged` and the
  types it needs (`Typed`), with
  `NothingOpen` (while no write has raised, the connection is in no transaction
  between steps),
  `Watched` and `Found` (what the handler's history and its answer say of the
  destination it looks at),
  `RecentLogged` (while no write has raised, whatever `recent` remembers has its row).
  `AnswerLogged` and `CurrentUnlessFailed` follow; neither needs the budgets.
  `CountInv` is about numbers of rows: they are stamped in order (`Timely`), those
  charged to a budget are the ones its query counts (`Charged`), a submission about
  to be logged has room (`Room`), hence `Budgets`; a trip about to be stamped has
  none in its hour (`Trips`), whoever is told has one (`Told`); and of two rows of
  one key in a window the map has forgotten the first (`Coalesced`).

Only model-checked, as liveness is out of the prover's reach: `LocksReleased`,
`BothUp`, `ConnectionResolved`.

Four theorems about `Startup` have hypotheses beside its assumptions, in their
statements:

* `IdsKept`, of the behaviour: no entry is added under the id of a row that a merge
  under way has read. Without it the code does what section 4 says of a late
  merge, and `FoldKeepsOwner` and `NothingLost` are false. The run `startup` does not
  have the hypothesis: there one operation is allowed, which may well take such
  an id, and TLC finds the invariants to hold.
* `ListSound`, of the suffix list: an exception is one to a wildcard rule, has no
  rule below it and begins with `www` only if it has two labels. The shipped list
  is so (`www.ck` is its one exception with `www`); without it a fold could change
  the owner.
* `RichNames`: for every rule there is a name below it in `Names`, as spans of a
  wildcard are judged by these names.
* `FoldOnce` and `FoundValid`: no name has a second `www` to lose (section 4,
  `www.www.X`), and the names found in the database are names.

All of them hold of the instance of the run, but for `IdsKept`.

## 6. Not modelled

* The text logs and their rotation; the panel's listings, filters and counts;
  export (it only reads).
* Rendering of pages, parsing of forms, list files and names (characters, IDNA,
  lengths), the configuration file (its values are CONSTANTS).
* Installers, service units, shell profile, data lists: no state of the running
  system; of systemd the models have that it restarts and keeps the sockets.
* Squid is external: the models have what `squid.conf` makes of a connection. Its
  pool of helpers and their queue are left out.
* The submit socket under time-outs: a client of it that gives up loses nothing.

`PROJECT.json` lists every component and, under `hazards`, what could go wrong in
it.

## 7. Plan

In this order; each module gets its run, and its theorems where named.

1. `TextLog`: rotation of one set of files by three processes.
2. `Listing`: the panel's filters and counts against `active_match`, and export
   followed by import.
3. `Startup` without `IdsKept`: what exactly a late merge can do to entries added
   meanwhile, as an invariant of its own.
