------------------------------- MODULE Panel -------------------------------
(***************************************************************************)
(* The operator's side: the panel's operations (approval_broker/panel.py,  *)
(* PanelApp) and brokerctl pause and resume (bin/brokerctl).  The panel    *)
(* serves each HTTP request in a thread, a tab here, and runs every        *)
(* operation under one lock of its own; brokerctl is another process and   *)
(* takes no lock.                                                          *)
(*                                                                         *)
(* An operation reads ts once, under the lock, then makes its commits one  *)
(* after the other, the stamp in the decisions table last; each is a step, *)
(* so that a crash or another process can come between them.               *)
(***************************************************************************)
EXTENDS Store

CONSTANTS
  Tab,        \* threads of the panel
  NoTab,      \* the panel's lock when nobody holds it
  Terminal,   \* brokerctl processes
  Menu,       \* the operations the operator uses
  MaxRows     \* bound on the allowlist table

Operation == {"none", "approve", "deny", "add", "wildcard", "refuse",
              "revoke", "erase", "remove_defaults", "pause", "resume"}

ASSUME PanelAssumption ==
  /\ NoTab \notin Tab
  /\ Menu \subseteq Operation \ {"none"}
  /\ MaxRows \in Nat

\* What a tab or a terminal holds in its local variables: the operation, its
\* ts, the request or entry it is about, the entry it adds and the value it
\* sets the pause to.
Task == [op : Operation, ts : Nat, id : Nat, host : Host, port : Port,
         kind : Kind, scope : Scope, until : Nat \cup {Off}]

NoTask == [op |-> "none", ts |-> 0, id |-> 0,
           host |-> CHOOSE h \in Host : TRUE, port |-> PanelPort,
           kind |-> "exact", scope |-> "permanent", until |-> 0]

TaskLabel == {"idle", "add", "resolve", "retire", "set", "log"}

\* The stamps of the decisions table that record a decision on a request or
\* an entry added by hand; of the pause stamps, the last one.
Stamp == [event : {"approved", "denied", "manual_add"}, id : Nat]

VARIABLES
  tab_pc, task,  \* each tab's place and local variables
  panel_lock,    \* PanelApp.lock
  cli_pc, cli,   \* each terminal's
  decisions,     \* stamps written
  gate_stamp     \* the value the last pause or resume stamp reports

panelVars == <<tab_pc, task, panel_lock, cli_pc, cli, decisions, gate_stamp>>
tabVars   == <<tab_pc, task, panel_lock>>
cliVars   == <<cli_pc, cli>>
stampVars == <<decisions, gate_stamp>>

PanelTypeOK ==
  /\ tab_pc \in [Tab -> TaskLabel]
  /\ task \in [Tab -> Task]
  /\ panel_lock \in Tab \cup {NoTab}
  /\ cli_pc \in [Terminal -> TaskLabel]
  /\ cli \in [Terminal -> Task]
  /\ decisions \subseteq Stamp
  /\ gate_stamp \in Nat \cup {Off}

PanelInit ==
  /\ tab_pc = [u \in Tab |-> "idle"]
  /\ task = [u \in Tab |-> NoTask]
  /\ panel_lock = NoTab
  /\ cli_pc = [c \in Terminal |-> "idle"]
  /\ cli = [c \in Terminal |-> NoTask]
  /\ decisions = {}
  /\ gate_stamp = 0

----------------------------------------------------------------------------

scope_expiry(scope, ts) ==
  IF Lifetime[scope] = Null THEN Null ELSE ts + Lifetime[scope]

\* Room in the table for every entry under way.
RoomForRow ==
  Len(allowlist) + Cardinality({u \in Tab : tab_pc[u] = "add"}) < MaxRows

\* The order of an operation's commits: what follows place at.
next_commit(op, at) ==
  CASE op = "approve" /\ at = "idle"              -> "add"
    [] op = "approve" /\ at = "add"               -> "resolve"
    [] op = "deny" /\ at = "idle"                 -> "resolve"
    [] op \in {"add", "wildcard"} /\ at = "idle"   -> "add"
    [] op \in {"revoke", "erase", "remove_defaults"} /\ at = "idle"
                                                  -> "retire"
    [] op \in {"pause", "resume"} /\ at = "idle"  -> "set"
    [] OTHER                                      -> "log"

\* Tab u goes on with operation k at its next commit.
Proceed(u, k) ==
  /\ task' = [task EXCEPT ![u] = k]
  /\ tab_pc' = [tab_pc EXCEPT ![u] = next_commit(k.op, tab_pc[u])]

\* Mutant of Begin: the operation runs without the lock.
BeginUnlocked(u, k) ==
  /\ tab_pc[u] = "idle"
  /\ k.op \in Menu
  /\ panel_lock' = u
  /\ Proceed(u, [k EXCEPT !.ts = clock])
  /\ UNCHANGED <<storeVars, cliVars, stampVars>>

\* Tab u takes the lock, reads the clock and begins operation k.
Begin(u, k) ==
  /\ tab_pc[u] = "idle"
  /\ k.op \in Menu
  /\ panel_lock = NoTab
  /\ panel_lock' = u
  /\ Proceed(u, [k EXCEPT !.ts = clock])
  /\ UNCHANGED <<storeVars, cliVars, stampVars>>

\* Mutants of DecideApprove and DecideDeny: the status is not looked at.
DecideApproveAny(u) ==
  /\ RoomForRow
  /\ \E id \in DOMAIN requests, s \in Scope :
       Begin(u, [NoTask EXCEPT !.op = "approve", !.id = id, !.scope = s,
                               !.host = requests[id].host,
                               !.port = requests[id].port])

DecideDenyAny(u) ==
  \E id \in DOMAIN requests :
    Begin(u, [NoTask EXCEPT !.op = "deny", !.id = id,
                            !.host = requests[id].host,
                            !.port = requests[id].port])

\* decide: only a request that is still pending can be decided; a blocked
\* domain is not looked for again here, nor is the port.
DecideApprove(u) ==
  /\ RoomForRow
  /\ \E id \in DOMAIN requests, s \in Scope :
       /\ requests[id].status = "pending"
       /\ Begin(u, [NoTask EXCEPT !.op = "approve", !.id = id, !.scope = s,
                                  !.host = requests[id].host,
                                  !.port = requests[id].port])

DecideDeny(u) ==
  \E id \in DOMAIN requests :
    /\ requests[id].status = "pending"
    /\ Begin(u, [NoTask EXCEPT !.op = "deny", !.id = id,
                               !.host = requests[id].host,
                               !.port = requests[id].port])

\* manual_add of an exact entry, and confirm_wildcard, which takes only two
\* of the scopes.
ManualAdd(u) ==
  /\ RoomForRow
  /\ \E h \in Host, s \in Scope :
       /\ ~is_blocked(h)
       /\ Begin(u, [NoTask EXCEPT !.op = "add", !.host = h, !.scope = s])

ConfirmWildcard(u) ==
  /\ RoomForRow
  /\ \E h \in Host, s \in Scope \cap {"24h", "permanent"} :
       /\ ~is_blocked(h)
       /\ Begin(u, [NoTask EXCEPT !.op = "wildcard", !.host = h, !.scope = s,
                                  !.kind = "wildcard"])

\* A blocked domain is refused and the refusal stamped.
RefuseBlocked(u) ==
  \E h \in Host :
    /\ is_blocked(h)
    /\ Begin(u, [NoTask EXCEPT !.op = "refuse", !.host = h])

Revoke(u) ==
  \E id \in DOMAIN allowlist :
    Begin(u, [NoTask EXCEPT !.op = "revoke", !.id = id])

EraseAll(u) == Begin(u, [NoTask EXCEPT !.op = "erase"])

RemoveDefaults(u) ==
  Begin(u, [NoTask EXCEPT !.op = "remove_defaults"])

PauseEnforcement(u) ==
  \E until \in {Off} \cup {clock + n : n \in PauseLength} :
    Begin(u, [NoTask EXCEPT !.op = "pause", !.until = until])

ResumeEnforcement(u) == Begin(u, [NoTask EXCEPT !.op = "resume"])

----------------------------------------------------------------------------
(* The commits of an operation under way.                                  *)

AddRow(u) ==
  LET k == task[u]
  IN  /\ tab_pc[u] = "add"
      /\ add_allowlist(new_row(k.host, k.kind, k.port, k.scope,
                               scope_expiry(k.scope, k.ts),
                               IF k.op = "approve" THEN "approval"
                                                   ELSE "manual"))
      /\ Proceed(u, IF k.op = "approve" THEN k
                    ELSE [k EXCEPT !.id = Len(allowlist) + 1])
      /\ UNCHANGED <<requests, paused_until, clock, panel_lock, cliVars,
                     stampVars>>

Resolve(u) ==
  /\ tab_pc[u] = "resolve"
  /\ decide_request(task[u].id,
                    IF task[u].op = "approve" THEN "approved" ELSE "denied",
                    task[u].ts)
  /\ Proceed(u, task[u])
  /\ UNCHANGED <<allowlist, paused_until, clock, panel_lock, cliVars,
                 stampVars>>

retired_by(k) ==
  CASE k.op = "revoke" -> group_of(k.id)
    [] k.op = "remove_defaults" -> rows_of_source("default")
    [] OTHER -> DOMAIN allowlist

Retire(u) ==
  /\ tab_pc[u] = "retire"
  /\ retire(retired_by(task[u]), task[u].ts)
  /\ Proceed(u, task[u])
  /\ UNCHANGED <<requests, paused_until, clock, panel_lock, cliVars,
                 stampVars>>

SetPause(u) ==
  /\ tab_pc[u] = "set"
  /\ set_pause(task[u].until)
  /\ Proceed(u, task[u])
  /\ UNCHANGED <<allowlist, requests, clock, panel_lock, cliVars,
                 stampVars>>

\* The stamp is written and the lock released.
stamps_of(k) ==
  CASE k.op = "approve" -> {[event |-> "approved", id |-> k.id]}
    [] k.op = "deny"    -> {[event |-> "denied", id |-> k.id]}
    [] k.op \in {"add", "wildcard"} ->
                           {[event |-> "manual_add", id |-> k.id]}
    [] OTHER            -> {}

LogEvent(u) ==
  /\ tab_pc[u] = "log"
  /\ decisions' = decisions \cup stamps_of(task[u])
  /\ gate_stamp' = IF task[u].op \in {"pause", "resume"} THEN task[u].until
                                                         ELSE gate_stamp
  /\ task' = [task EXCEPT ![u] = NoTask]
  /\ tab_pc' = [tab_pc EXCEPT ![u] = "idle"]
  /\ panel_lock' = NoTab
  /\ UNCHANGED <<storeVars, cliVars>>

\* An operation raises, which releases the lock, or the process dies and is
\* started again: between two commits, or at any other time.
PanelRestart ==
  /\ \E u \in Tab : tab_pc[u] # "idle"
  /\ tab_pc' = [u \in Tab |-> "idle"]
  /\ task' = [u \in Tab |-> NoTask]
  /\ panel_lock' = NoTab
  /\ UNCHANGED <<storeVars, cliVars, stampVars>>

OperationStep(u) ==
  AddRow(u) \/ Resolve(u) \/ Retire(u) \/ SetPause(u) \/ LogEvent(u)

----------------------------------------------------------------------------
(* brokerctl pause 15|60|off and resume: the same commits, without the     *)
(* panel's lock.                                                           *)

CliBegin(c, op, until) ==
  /\ cli_pc[c] = "idle"
  /\ cli' = [cli EXCEPT ![c] = [NoTask EXCEPT !.op = op, !.ts = clock,
                                              !.until = until]]
  /\ cli_pc' = [cli_pc EXCEPT ![c] = "set"]
  /\ UNCHANGED <<storeVars, tabVars, stampVars>>

CliPause(c) == \E until \in {Off} \cup {clock + n : n \in PauseLength} :
                 CliBegin(c, "pause", until)

CliResume(c) == CliBegin(c, "resume", 0)

CliSet(c) ==
  /\ cli_pc[c] = "set"
  /\ set_pause(cli[c].until)
  /\ cli_pc' = [cli_pc EXCEPT ![c] = "log"]
  /\ UNCHANGED <<allowlist, requests, clock, cli, tabVars, stampVars>>

CliLog(c) ==
  /\ cli_pc[c] = "log"
  /\ gate_stamp' = cli[c].until
  /\ cli' = [cli EXCEPT ![c] = NoTask]
  /\ cli_pc' = [cli_pc EXCEPT ![c] = "idle"]
  /\ UNCHANGED <<storeVars, tabVars, decisions>>

\* The command is interrupted.
CliKilled(c) ==
  /\ cli_pc[c] # "idle"
  /\ cli' = [cli EXCEPT ![c] = NoTask]
  /\ cli_pc' = [cli_pc EXCEPT ![c] = "idle"]
  /\ UNCHANGED <<storeVars, tabVars, stampVars>>
=============================================================================
