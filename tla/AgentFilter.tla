---------------------------- MODULE AgentFilter ----------------------------
(***************************************************************************)
(* agent-filter as a whole: the broker, the panel and brokerctl over one   *)
(* database and one clock, with restarts of the two services.              *)
(*                                                                         *)
(* Two history variables say what the properties need and no process       *)
(* knows: what was true when a check took the lock and since (seen), and   *)
(* how often an entry has admitted the final check of a connection         *)
(* (finals).                                                               *)
(***************************************************************************)
EXTENDS Broker, Panel

CONSTANT MaxRestarts   \* bound on crashes of the panel and of brokerctl

ASSUME RestartAssumption == MaxRestarts \in Nat

VARIABLES
  seen,      \* per thread: dead rows, gate and denial as the check saw them
  finals,    \* per once entry: final checks it admitted
  restarts   \* crashes of the panel and of brokerctl so far

vars == <<storeVars, brokerVars, panelVars, seen, finals, restarts>>

\* dead: entries no longer active when the check took the lock; open: the
\* pause was in force for it then or at some time since; denied: a denial of
\* its destination stood then and has stood since.
View == [dead : SUBSET Nat, open : BOOLEAN, denied : BOOLEAN]

Unseen == [dead |-> {}, open |-> FALSE, denied |-> FALSE]

TypeOK ==
  /\ StoreTypeOK
  /\ BrokerTypeOK
  /\ PanelTypeOK
  /\ seen \in [Worker -> View]
  /\ finals \in Seq(Nat)
  /\ restarts \in Nat

Init ==
  /\ StoreInit
  /\ BrokerInit
  /\ PanelInit
  /\ seen = [t \in Worker |-> Unseen]
  /\ finals = [i \in DOMAIN InitialRows |-> 0]
  /\ restarts = 0

----------------------------------------------------------------------------

dead_rows(ts) == {i \in DOMAIN allowlist : ~active(allowlist[i], ts)}

denial_stands(j) == standing_denial(j.host, j.port) # 0

\* What a step adds to the view of every check that holds the lock.
Watch ==
  seen' = [t \in Worker |->
    IF pc'[t] = "idle" THEN Unseen
    ELSE IF pc[t] = "idle"
    THEN [dead   |-> dead_rows(clock),
          open   |-> pause_active(clock),
          denied |-> denial_stands(job'[t])]
    ELSE [dead   |-> seen[t].dead,
          open   |-> seen[t].open \/ pause_active(job[t].ts)',
          denied |-> seen[t].denied /\ denial_stands(job[t])']]

\* A final check admitted by a once entry.
Admission(t) ==
  finals' = IF /\ job[t].code = "ALLOWED" /\ job[t].final
               /\ allowlist[job[t].hit].scope = "once"
            THEN [finals EXCEPT ![job[t].hit] = @ + 1]
            ELSE finals

\* A new entry has admitted nothing.
NewEntry == finals' = Append(finals, 0)

InBroker == UNCHANGED <<panelVars, finals, restarts>> /\ Watch
InPanel  == UNCHANGED <<brokerVars, finals, restarts>> /\ Watch
Restarting == restarts < MaxRestarts /\ restarts' = restarts + 1

Next ==
  \/ \E t \in Worker : AclCheck(t) /\ InBroker
  \/ \E t \in Worker : Submit(t) /\ InBroker
  \/ \E t \in Worker : ReadPause(t) /\ InBroker
  \/ \E t \in Worker : Match(t) /\ InBroker
  \/ \E t \in Worker : Consume(t) /\ InBroker
  \/ \E t \in Worker : ReadDenial(t) /\ InBroker
  \/ \E t \in Worker : ReadExisting(t) /\ InBroker
  \/ \E t \in Worker : ReadCount(t) /\ InBroker
  \/ \E t \in Worker : Find(t) /\ InBroker
  \/ \E t \in Worker : Bump(t) /\ InBroker
  \/ \E t \in Worker : Insert(t) /\ InBroker
  \/ \E t \in Worker : /\ Reply(t) /\ Admission(t)
                       /\ UNCHANGED <<panelVars, restarts>> /\ Watch
  \/ \E u \in Tab : DecideApprove(u) /\ InPanel
  \/ \E u \in Tab : DecideDeny(u) /\ InPanel
  \/ \E u \in Tab : ManualAdd(u) /\ InPanel
  \/ \E u \in Tab : ConfirmWildcard(u) /\ InPanel
  \/ \E u \in Tab : RefuseBlocked(u) /\ InPanel
  \/ \E u \in Tab : Revoke(u) /\ InPanel
  \/ \E u \in Tab : EraseAll(u) /\ InPanel
  \/ \E u \in Tab : RemoveDefaults(u) /\ InPanel
  \/ \E u \in Tab : PauseEnforcement(u) /\ InPanel
  \/ \E u \in Tab : ResumeEnforcement(u) /\ InPanel
  \/ \E u \in Tab : /\ AddRow(u) /\ NewEntry
                    /\ UNCHANGED <<brokerVars, restarts>> /\ Watch
  \/ \E u \in Tab : Resolve(u) /\ InPanel
  \/ \E u \in Tab : Retire(u) /\ InPanel
  \/ \E u \in Tab : SetPause(u) /\ InPanel
  \/ \E u \in Tab : LogEvent(u) /\ InPanel
  \/ \E c \in Terminal : CliPause(c) /\ InPanel
  \/ \E c \in Terminal : CliResume(c) /\ InPanel
  \/ \E c \in Terminal : CliSet(c) /\ InPanel
  \/ \E c \in Terminal : CliLog(c) /\ InPanel
  \/ BrokerRestart /\ InBroker
  \/ /\ PanelRestart /\ Restarting
     /\ UNCHANGED <<brokerVars, finals>> /\ Watch
  \/ \E c \in Terminal : /\ CliKilled(c) /\ Restarting
                         /\ UNCHANGED <<brokerVars, finals>> /\ Watch
  \/ Tick /\ UNCHANGED <<brokerVars, panelVars, finals, restarts>> /\ Watch

Spec == Init /\ [][Next]_vars

\* A handler and an operation under way go on: SQLite answers every
\* statement, after the busy timeout at the latest.  Nothing is assumed of
\* clients, of the operator, of the clock, or of who gets the lock.
Fairness ==
  /\ \A t \in Worker : WF_vars(HandlerStep(t) /\ Next)
  /\ \A u \in Tab : WF_vars(OperationStep(u) /\ Next)

FairSpec == Spec /\ Fairness

----------------------------------------------------------------------------
(* Safety of the answers.                                                  *)

deciding(t, code) == pc[t] = "reply" /\ job[t].code = code

\* No check is allowed by an entry that was revoked, erased, spent or
\* expired before the check took the broker's lock: active_match reads the
\* table afresh on every check and ts after the lock.
VerdictFresh ==
  \A t \in Worker : deciding(t, "ALLOWED") =>
    /\ job[t].hit \in DOMAIN allowlist
    /\ job[t].hit \notin seen[t].dead
    /\ allowlist[job[t].hit].port = job[t].port
    /\ matches(allowlist[job[t].hit], job[t].host)

\* Neither a wildcard entry above it nor the pause admits a blocked domain,
\* and neither opens another port.
BlockedNeverAdmitted ==
  \A t \in Worker :
    deciding(t, "ALLOWED") \/ deciding(t, "PAUSED_ALLOW") =>
      /\ job[t].host \in Host
      /\ ~is_blocked(job[t].host)
      /\ job[t].port \in Permitted

\* A once entry admits the final check of one connection at most, whatever
\* the threads, the panel and restarts do between reading and spending it.
OnceSpentOnce ==
  \A i \in DOMAIN allowlist : allowlist[i].scope = "once" => finals[i] <= 1

\* While the denial of a destination stands, no check of it that began
\* under the denial puts it back in the queue or finds the queue full.
DenialHonoured ==
  \A t \in Worker : seen[t].denied =>
    ~ deciding(t, "PENDING") /\ ~ deciding(t, "QUEUE_FULL")

\* The abstract view of the state.  A check may be admitted by every entry
\* not dead when it took the lock, those added since included.
covered(row) == {d \in Host \X Port : d[2] = row.port /\ matches(row, d[1])}

GrantsMade ==
  [i \in DOMAIN allowlist |-> [covers |-> covered(allowlist[i]),
                               once |-> allowlist[i].scope = "once"]]

LiveGrants == {i \in DOMAIN allowlist : active(allowlist[i], clock)}

UsedGrants == {i \in DOMAIN allowlist : allowlist[i].consumed # Null}

CheckOf(t) ==
  [dest   |-> IF job[t].host = Malformed THEN Malformed
              ELSE <<job[t].host, job[t].port>>,
   final  |-> job[t].final,
   may    |-> IF pc[t] = "idle" THEN {} ELSE DOMAIN allowlist \ seen[t].dead,
   open   |-> seen[t].open,
   answer |-> IF pc[t] # "reply" THEN "none"
              ELSE IF job[t].code \in {"ALLOWED", "PAUSED_ALLOW"}
              THEN "admitted" ELSE "refused",
   on     |-> pc[t] # "idle"]

ChecksUnderWay == [t \in Worker |-> CheckOf(t)]

Forbidden == {d \in Host \X Port : is_blocked(d[1]) \/ d[2] \notin Permitted}

Promise == INSTANCE Gate WITH
  Check   <- Worker,
  Dest    <- Host \X Port,
  Nowhere <- Malformed,
  grants  <- GrantsMade,
  live    <- LiveGrants,
  used    <- UsedGrants,
  gate    <- pause_active(clock),
  check   <- ChecksUnderWay

\* Broker, panel, brokerctl and restarts together keep the promise of Gate,
\* for the proxy's checks and for what the agent is told alike.
KeepsPromise == Promise!Spec

(* Safety of the queue.                                                    *)

\* A destination has at most one pending request, although upsert_pending
\* looks and inserts in two transactions.
PendingUnique ==
  \A r, q \in DOMAIN requests :
    /\ requests[r].status = "pending" /\ requests[q].status = "pending"
    /\ requests[r].host = requests[q].host
    /\ requests[r].port = requests[q].port
    => r = q

\* The queue never exceeds limits.pending_max, although both handlers count
\* it in one transaction and insert in another.
PendingWithinCap == pending_count <= PendingMax

DecidedStays ==
  \A r \in DOMAIN requests :
    /\ r \in DOMAIN requests'
    /\ requests'[r].rationale = requests[r].rationale
    /\ requests[r].status # "pending" => requests'[r] = requests[r]

\* A decided request is never opened again or decided otherwise, whatever the
\* handler that found it pending writes; and a retry does not replace the
\* rationale it came with.
ResolvedIsFinal == [][DecidedStays]_vars

(* Safety of the operator's operations.                                    *)

\* Entries added together are revoked together: of two permanent entries of
\* one group, neither is ever retired without the other, not even by a crash
\* in the middle of a revoke, an erase or a removal of the defaults.
GroupDiesTogether ==
  \A i, j \in DOMAIN allowlist :
    /\ allowlist[i].group = allowlist[j].group
    /\ allowlist[i].group # Null
    /\ allowlist[i].scope = "permanent" /\ allowlist[j].scope = "permanent"
    => allowlist[i].expires = allowlist[j].expires

approvals(h, p) ==
  {i \in DOMAIN allowlist : /\ allowlist[i].source = "approval"
                            /\ allowlist[i].pattern = h
                            /\ allowlist[i].port = p}

approved_requests(h, p) ==
  {r \in DOMAIN requests : /\ requests[r].status = "approved"
                           /\ requests[r].host = h
                           /\ requests[r].port = p}

\* A request reads approved only once its entry exists: decide commits the
\* entry first, so a crash between the commits never leaves an approval that
\* approves nothing.  And one approval makes one entry, so revoking that entry
\* undoes it: two tabs deciding the same request do not approve it twice, and
\* only a crash in the middle of decide leaves an entry whose request is
\* pending.
OneEntryPerApproval ==
  \A h \in Host, p \in Port :
    LET entries  == Cardinality(approvals(h, p))
        approved == Cardinality(approved_requests(h, p))
    IN  /\ approved > 0 => entries > 0
        /\ panel_lock = NoTab => entries \in approved .. approved + restarts

\* The log never lies: a human_decision stamp says what the request's row
\* says, and a manual_add stamp names an entry added by hand, whatever two
\* tabs and crashes do.
LogNeverLies ==
  \A s \in decisions :
    CASE s.event \in {"approved", "denied"} ->
           s.id \in DOMAIN requests /\ requests[s.id].status = s.event
      [] OTHER ->
           s.id \in DOMAIN allowlist /\ allowlist[s.id].source = "manual"

\* With no operation under way the last pause or resume stamp tells what the
\* setting is, unless an operation was cut short: two tabs take turns.  (The
\* panel and brokerctl do not: with both of them at work it does not hold.)
GateMatchesLog ==
  /\ panel_lock = NoTab
  /\ \A c \in Terminal : cli_pc[c] = "idle"
  /\ restarts = 0
  => paused_until = gate_stamp

(* Liveness.                                                               *)

\* A thread that holds the broker's lock gives it up, so one check never
\* stops the others for good; and an operation that has the panel's lock
\* finishes and is stamped, or its process dies.
LocksReleased ==
  /\ \A t \in Worker : lock = t ~> lock # t
  /\ \A u \in Tab : panel_lock = u ~> panel_lock # u
=============================================================================
