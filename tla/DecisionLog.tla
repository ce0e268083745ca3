---------------------------- MODULE DecisionLog ----------------------------
(***************************************************************************)
(* How the broker stamps its decisions: the rows it writes to the          *)
(* decisions table, the coalescing of repeated proxy events, the hourly    *)
(* budgets that are counted in the table, and the one sqlite3 connection   *)
(* all of it is read and written on.                                       *)
(*                                                                         *)
(* Python's sqlite3 opens a transaction before a write and leaves it open  *)
(* when the write raises, which it does when another process keeps the     *)
(* write lock beyond busy_timeout.  Nothing rolls back.  The next SELECT   *)
(* then takes a snapshot, which the connection keeps until a write         *)
(* commits; and no write can, once another process has committed.          *)
(*                                                                         *)
(* The broker's lock admits one handler at a time, so there is one here.   *)
(* Of the rest of the database it matters which destinations are allowed:  *)
(* by an entry or a pause, module Broker tells them apart.                 *)
(***************************************************************************)
EXTENDS Integers, Sequences, FiniteSetsExt, Functions

CONSTANTS
  Dest,            \* destinations, past the gates that need no database
  Rejected,        \* what is stopped by those gates
  Window,          \* COALESCE_WINDOW
  Hour,            \* 3600
  SubmissionCap,   \* config limits.submissions_per_hour
  RejectCap,       \* config limits.auto_rejects_per_hour
  RecentMax,       \* size at which _recent_log is swept
  Mixes,           \* sets of handlers that clients may call together
  MaxRows,         \* bound on the decisions table
  MaxTime,         \* bound on the clock
  MaxRestarts      \* bound on restarts of the broker

ASSUME LogAssumption ==
  /\ Rejected \notin Dest
  /\ Mixes \subseteq
       SUBSET {"acl_check", "acl_reject", "submit", "auto_reject"}
  /\ {Window, Hour, SubmissionCap, RejectCap} \subseteq Nat \ {0}
  /\ {RecentMax, MaxRows, MaxTime, MaxRestarts} \subseteq Nat

Label == {"submissions", "auto_rejects"}

Event == {"submission", "auto_reject", "rate_limit_trip",
          "proxy_allow", "proxy_deny"}

Code == {"NONE", "ALLOWED", "PENDING", "REJECTED", "RATE_LIMITED",
         "BROKER_UNAVAILABLE"}

\* What coalescing compares.  The label of a trip is its detail column.
Key == [event : Event, about : Dest \cup {Rejected} \cup Label, code : Code]

Row == [ts : Nat, key : Key]

Job == [actor : {"agent", "proxy"}, dest : Dest \cup {Rejected}, ts : Nat,
        event : Event, code : Code]

NoJob == [actor |-> "agent", dest |-> Rejected, ts |-> 0,
          event |-> "auto_reject", code |-> "NONE"]

VARIABLES
  traffic,    \* the handlers called in this behaviour
  allowed,    \* destinations the committed database admits
  decisions,  \* the rows of the decisions table; a row's id is its index
  clock,      \* time.time()
  tx,         \* the broker's connection: no transaction; one that has read
              \* nothing; one with a snapshot; one whose snapshot is behind
  view,       \* the snapshot
  recent,     \* _recent_log
  at, job,    \* the handler under way and its local variables
  seen,       \* history: job.dest was allowed since the handler began
  failed,     \* history: a write of this broker process has raised
  restarts    \* restarts of the broker so far

vars == <<traffic, allowed, decisions, clock, tx, view, recent, at, job, seen,
          failed, restarts>>

TypeOK ==
  /\ traffic \in Mixes
  /\ allowed \subseteq Dest
  /\ decisions \in Seq(Row)
  /\ clock \in Nat
  /\ tx \in {"closed", "open", "frozen", "stale"}
  /\ view \subseteq Dest
  /\ DOMAIN recent \subseteq Key /\ Range(recent) \subseteq Nat
  /\ at \in {"idle", "budget", "match", "queue", "log", "reply"}
  /\ job \in Job
  /\ seen \in BOOLEAN
  /\ failed \in BOOLEAN
  /\ restarts \in Nat

NothingRecent == [k \in {} |-> 0]

Init ==
  /\ traffic \in Mixes
  /\ allowed \in SUBSET Dest
  /\ decisions = <<>>
  /\ clock = 0
  /\ tx = "closed" /\ view = {}
  /\ recent = NothingRecent
  /\ at = "idle" /\ job = NoJob
  /\ seen = FALSE /\ failed = FALSE /\ restarts = 0

----------------------------------------------------------------------------
(* The connection.                                                         *)

\* What a SELECT sees, and what it does to an open transaction.
visible == IF tx \in {"frozen", "stale"} THEN view ELSE allowed

Select ==
  IF tx = "open" THEN tx' = "frozen" /\ view' = allowed
                 ELSE UNCHANGED <<tx, view>>

\* Mutant of Commit: the commit is forgotten.
CommitForgotten ==
  /\ tx # "stale"
  /\ tx' = "frozen" /\ view' = allowed
  /\ UNCHANGED failed

\* A write and its commit, which ends whatever transaction was open.
Commit ==
  /\ tx # "stale"
  /\ tx' = "closed" /\ view' = {}
  /\ UNCHANGED failed

\* The write raises: it must on a snapshot that is behind, and may at any
\* time, another process having kept the write lock for busy_timeout.
Raise ==
  /\ tx' = IF tx = "closed" THEN "open" ELSE tx
  /\ failed' = TRUE
  /\ UNCHANGED view

\* The handler goes on with job j at label.
Go(j, label) == job' = j /\ at' = label

Unavailable == Go([job EXCEPT !.code = "BROKER_UNAVAILABLE"], "reply")

----------------------------------------------------------------------------
(* Queries on the decisions table.                                         *)

last_hour(ts) == {i \in DOMAIN decisions : decisions[i].ts > ts - Hour}

of_event(ids, event) == {i \in ids : decisions[i].key.event = event}

trips_of(ids, label) ==
  {i \in of_event(ids, "rate_limit_trip") : decisions[i].key.about = label}

events_last_hour(event, ts) == Cardinality(of_event(last_hour(ts), event))

trips(label, ts) == Cardinality(trips_of(last_hour(ts), label))

cap(event) == IF event = "submission" THEN SubmissionCap ELSE RejectCap

label_of(event) ==
  IF event = "submission" THEN "submissions" ELSE "auto_rejects"

\* Mutant of key_of: the reason code is left out.
key_uncoded(j) == [event |-> j.event, about |-> j.dest]

key_of(j) ==
  [event |-> j.event,
   about |-> IF j.event = "rate_limit_trip"
             THEN IF j.dest = Rejected THEN "auto_rejects" ELSE "submissions"
             ELSE j.dest,
   code  |-> j.code]

\* Mutant of coalesced: off by one second.
coalesced_less(j) ==
  /\ j.actor = "proxy"
  /\ key_of(j) \in DOMAIN recent
  /\ j.ts - recent[key_of(j)] < Window - 1

coalesced(j) ==
  /\ j.actor = "proxy"
  /\ key_of(j) \in DOMAIN recent
  /\ j.ts - recent[key_of(j)] < Window

\* _recent_log[key] = ts, then the sweep.
noted(key, ts) ==
  LET noticed == [k \in DOMAIN recent \cup {key} |->
                    IF k = key THEN ts ELSE recent[k]]
  IN  IF Cardinality(DOMAIN noticed) > RecentMax
      THEN Restrict(noticed,
                    {k \in DOMAIN noticed : ts - noticed[k] < Window})
      ELSE noticed

----------------------------------------------------------------------------
(* The handlers.                                                           *)

\* MaxRows leaves room for the row the handler may write.
Start(handler, j, label) ==
  /\ at = "idle"
  /\ handler \in traffic
  /\ Len(decisions) < MaxRows
  /\ Go([j EXCEPT !.ts = clock], label)
  /\ seen' = (j.dest \in allowed)
  /\ UNCHANGED <<traffic, allowed, decisions, clock, tx, view, recent, failed,
                 restarts>>

AclCheck ==
  \E d \in Dest :
    Start("acl_check", [NoJob EXCEPT !.actor = "proxy", !.dest = d,
                                     !.event = "proxy_deny"], "match")

AclReject ==
  Start("acl_reject", [NoJob EXCEPT !.actor = "proxy", !.event = "proxy_deny",
                                    !.code = "REJECTED"], "log")

Submit ==
  \E d \in Dest :
    Start("submit", [NoJob EXCEPT !.dest = d, !.event = "submission"],
          "budget")

AutoReject ==
  Start("auto_reject", [NoJob EXCEPT !.code = "REJECTED"], "budget")

\* Mutant of BudgetHit: one too many.
BudgetHitLate ==
  /\ at = "budget"
  /\ LET limited == [job EXCEPT !.code = "RATE_LIMITED"]
     IN  IF events_last_hour(job.event, job.ts) <= cap(job.event)
         THEN Go(job, IF job.event = "submission" THEN "match" ELSE "log")
         ELSE IF trips(label_of(job.event), job.ts) = 0
         THEN Go([limited EXCEPT !.event = "rate_limit_trip"], "log")
         ELSE Go(limited, "reply")
  /\ Select
  /\ UNCHANGED <<traffic, allowed, decisions, clock, recent, seen, failed,
                 restarts>>

\* Mutant of BudgetHit: every refused attempt is a trip.
BudgetHitEach ==
  /\ at = "budget"
  /\ LET limited == [job EXCEPT !.code = "RATE_LIMITED"]
     IN  IF events_last_hour(job.event, job.ts) < cap(job.event)
         THEN Go(job, IF job.event = "submission" THEN "match" ELSE "log")
         ELSE Go([limited EXCEPT !.event = "rate_limit_trip"], "log")
  /\ Select
  /\ UNCHANGED <<traffic, allowed, decisions, clock, recent, seen, failed,
                 restarts>>

\* The hourly budget; its exhaustion is stamped once a window.
BudgetHit ==
  /\ at = "budget"
  /\ LET limited == [job EXCEPT !.code = "RATE_LIMITED"]
     IN  IF events_last_hour(job.event, job.ts) < cap(job.event)
         THEN Go(job, IF job.event = "submission" THEN "match" ELSE "log")
         ELSE IF trips(label_of(job.event), job.ts) = 0
         THEN Go([limited EXCEPT !.event = "rate_limit_trip"], "log")
         ELSE Go(limited, "reply")
  /\ Select
  /\ UNCHANGED <<traffic, allowed, decisions, clock, recent, seen, failed,
                 restarts>>

\* Pause and allowlist.  What is not admitted is queued, unless the queue
\* is full or a denial stands.
Match ==
  /\ at = "match"
  /\ IF job.dest \in visible
     THEN Go([job EXCEPT !.code = "ALLOWED",
                         !.event = IF job.actor = "proxy" THEN "proxy_allow"
                                                          ELSE @], "log")
     ELSE \E label \in {"queue", "log"} :
            Go([job EXCEPT !.code = "PENDING"], label)
  /\ Select
  /\ UNCHANGED <<traffic, allowed, decisions, clock, recent, seen, failed,
                 restarts>>

\* upsert_pending.  (The write that spends a once entry fails in the same
\* way; entries are not told apart here.)
Queue ==
  /\ at = "queue"
  /\ \/ Commit /\ Go(job, "log")
     \/ Raise /\ Unavailable
  /\ UNCHANGED <<traffic, allowed, decisions, clock, recent, seen, restarts>>

\* Mutant of Log: noticed destinations are not told apart.
LogAnyKey ==
  /\ at = "log"
  /\ IF job.actor = "proxy" /\ \E k \in DOMAIN recent :
          k.event = job.event /\ job.ts - recent[k] < Window
     THEN Go(job, "reply") /\ UNCHANGED <<decisions, recent, tx, view, failed>>
     ELSE /\ recent' = IF job.actor = "proxy" THEN noted(key_of(job), job.ts)
                                              ELSE recent
          /\ \/ /\ Commit
                /\ decisions' = Append(decisions,
                                       [ts |-> job.ts, key |-> key_of(job)])
                /\ Go(job, "reply")
             \/ Raise /\ Unavailable /\ UNCHANGED decisions
  /\ UNCHANGED <<traffic, allowed, clock, seen, restarts>>

\* _log: a repeat is dropped before the write, and counts as a repeat
\* whether or not the write it repeats succeeded.
Log ==
  /\ at = "log"
  /\ IF coalesced(job)
     THEN Go(job, "reply") /\ UNCHANGED <<decisions, recent, tx, view, failed>>
     ELSE /\ recent' = IF job.actor = "proxy" THEN noted(key_of(job), job.ts)
                                              ELSE recent
          /\ \/ /\ Commit
                /\ decisions' = Append(decisions,
                                       [ts |-> job.ts, key |-> key_of(job)])
                /\ Go(job, "reply")
             \/ Raise /\ Unavailable /\ UNCHANGED decisions
  /\ UNCHANGED <<traffic, allowed, clock, seen, restarts>>

Reply ==
  /\ at = "reply"
  /\ Go(NoJob, "idle")
  /\ seen' = FALSE
  /\ UNCHANGED <<traffic, allowed, decisions, clock, tx, view, recent, failed,
                 restarts>>

\* The process ends and is started again: a new connection, nothing recent.
BrokerRestart ==
  /\ restarts < MaxRestarts
  /\ restarts' = restarts + 1
  /\ tx' = "closed" /\ view' = {} /\ recent' = NothingRecent
  /\ Go(NoJob, "idle")
  /\ seen' = FALSE /\ failed' = FALSE
  /\ UNCHANGED <<traffic, allowed, decisions, clock>>

----------------------------------------------------------------------------
(* The other processes: the panel, brokerctl, whatever opens the file.     *)

OtherCommit ==
  /\ allowed' \in SUBSET Dest
  /\ tx' = IF tx = "frozen" THEN "stale" ELSE tx
  /\ seen' = (seen \/ (at # "idle" /\ job.dest \in allowed'))
  /\ UNCHANGED <<traffic, decisions, clock, view, recent, at, job, failed,
                 restarts>>

\* A handler reads the clock once, as it starts: time that passes while it
\* runs is time that passes before the next one.
Tick ==
  /\ at = "idle"
  /\ clock < MaxTime
  /\ clock' = clock + 1
  /\ UNCHANGED <<traffic, allowed, decisions, tx, view, recent, at, job, seen,
                 failed, restarts>>

Next ==
  \/ AclCheck \/ AclReject \/ Submit \/ AutoReject
  \/ BudgetHit \/ Match \/ Queue \/ Log \/ Reply
  \/ BrokerRestart \/ OtherCommit \/ Tick

Spec == Init /\ [][Next]_vars

----------------------------------------------------------------------------

in_span(first, length) ==
  {i \in DOMAIN decisions : decisions[i].ts \in first .. first + length - 1}

of_key(ids, key) == {i \in ids : decisions[i].key = key}

proxied == {"proxy_allow", "proxy_deny"}

\* Repeats of a proxy event cannot fill the disk: one row a key in any
\* COALESCE_WINDOW, and one more for every time the broker forgot what it
\* had logged.
NoFlood ==
  \A i \in DOMAIN decisions : decisions[i].key.event \in proxied =>
    Cardinality(of_key(in_span(decisions[i].ts, Window), decisions[i].key))
      <= 1 + restarts

\* A submit loop cannot grow the table either: in any hour there are no more
\* rows of a kind than its budget, across restarts and failed writes.
BudgetsHold ==
  \A i \in DOMAIN decisions, event \in {"submission", "auto_reject"} :
    Cardinality(of_event(in_span(decisions[i].ts, Hour), event)) <= cap(event)

\* An exhausted budget is stamped once an hour: nobody is told RATE_LIMITED
\* without a trip of that very budget in the table, which is what the panel's
\* compromise banner reads, and there is no second one to fill the table.
OneTripPerWindow ==
  /\ \A i \in DOMAIN decisions, label \in Label :
       Cardinality(trips_of(in_span(decisions[i].ts, Hour), label)) <= 1
  /\ at = "reply" /\ job.code = "RATE_LIMITED" =>
       trips_of(last_hour(job.ts), IF job.dest = Rejected THEN "auto_rejects"
                                   ELSE "submissions") # {}

\* Every decision is in the log when it is answered: the agent's by a row of
\* its own, the proxy's by a row of the last window, unless a write of this
\* broker process has failed.
AnswerLogged ==
  /\ at = "reply"
  /\ job.code \notin {"RATE_LIMITED", "BROKER_UNAVAILABLE"}
  /\ job.actor = "proxy" => ~ failed
  => \E i \in DOMAIN decisions :
       /\ decisions[i].key = key_of(job)
       /\ IF job.actor = "proxy" THEN decisions[i].ts > job.ts - Window
                                 ELSE decisions[i].ts = job.ts

\* As long as no write of this process has raised, every handler reads the
\* database as it is: what is allowed was allowed while it was being decided.
CurrentUnlessFailed ==
  at = "reply" /\ job.code = "ALLOWED" /\ ~ failed => seen

\* squid.conf: "ttl=0 keeps every decision live so expiry and revocation
\* take effect immediately."
RevocationIsImmediate ==
  at = "reply" /\ job.code = "ALLOWED" => seen
=============================================================================
