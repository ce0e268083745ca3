------------------------------- MODULE Broker -------------------------------
(***************************************************************************)
(* The broker daemon (approval_broker/broker.py).  Each connection to      *)
(* submit.sock or acl.sock is served by a thread of its own; one lock      *)
(* serialises the two handlers, but not against the panel or brokerctl,    *)
(* which write the same database from other processes.  So every SELECT    *)
(* and every commit of a handler is a step.                                *)
(*                                                                         *)
(* A job's path:                                                           *)
(*   submit: match - denial - exists - (count) - find - write              *)
(*   acl:    pause - match - (consume) - denial - count -                  *)
(*           (exists) - find - write                                       *)
(* and from any of them to reply, where the decision is logged, the lock   *)
(* released and the answer sent.                                           *)
(*                                                                         *)
(* Left out: the hourly budgets appear as a free choice to answer          *)
(* RATE_LIMITED, the decision log and its coalescing as no state, a        *)
(* request's count and its first_seen and last_seen not at all.            *)
(***************************************************************************)
EXTENDS Store

CONSTANTS
  Worker,       \* the threads serving connections at one time
  Traffic,      \* which of the two sockets is used: "submit", "acl"
  Free,         \* a lock nobody holds
  Malformed,    \* a hostname that normalize_hostname rejects
  MaxRequests   \* bound on the requests table

ASSUME BrokerAssumption ==
  /\ Free \notin Worker
  /\ Traffic \subseteq {"submit", "acl"}
  /\ Malformed \notin Host
  /\ MaxRequests \in Nat

Code == {"NONE", "ALLOWED", "PAUSED_ALLOW", "PENDING", "DENIED_BY_ADMIN",
         "INVALID_HOSTNAME", "PORT_NOT_PERMITTED",
         "DOMAIN_PERMANENTLY_BLOCKED", "RATE_LIMITED", "QUEUE_FULL"}

Label == {"idle", "pause", "match", "consume", "denial",
          "exists", "count", "find", "write", "reply"}

\* What a handler holds in its local variables: the payload, ts, the
\* allowlist row active_match returned, the request row it will bump (0 for
\* none) and the code it answers.
Job == [op : {"submit", "acl"}, host : Host \cup {Malformed}, port : Port,
        final : BOOLEAN, why : Reason \cup {NoReason}, ts : Nat,
        hit : Nat, req : Nat, code : Code]

NoJob == [op |-> "acl", host |-> Malformed, port |-> PanelPort,
          final |-> FALSE, why |-> NoReason, ts |-> 0, hit |-> 0,
          req |-> 0, code |-> "NONE"]

VARIABLES
  pc,    \* where each thread is
  job,   \* what each thread holds
  lock   \* Broker.lock

brokerVars == <<pc, job, lock>>

BrokerTypeOK ==
  /\ pc \in [Worker -> Label]
  /\ job \in [Worker -> Job]
  /\ lock \in Worker \cup {Free}

BrokerInit ==
  /\ pc = [t \in Worker |-> "idle"]
  /\ job = [t \in Worker |-> NoJob]
  /\ lock = Free

----------------------------------------------------------------------------

\* Thread t goes on at label with its local variables as in j.
Go(t, j, label) ==
  /\ job' = [job EXCEPT ![t] = j]
  /\ pc' = [pc EXCEPT ![t] = label]

Answer(t, code) == Go(t, [job[t] EXCEPT !.code = code], "reply")

\* Mutant of gate_code: the blocked list is left to the allowlist.
gate_code_unblocked(h, p) ==
  IF h = Malformed          THEN "INVALID_HOSTNAME"
  ELSE IF p \notin Permitted THEN "PORT_NOT_PERMITTED"
  ELSE "NONE"

\* The gates that need no database, in the order both handlers apply them.
gate_code(h, p) ==
  IF h = Malformed          THEN "INVALID_HOSTNAME"
  ELSE IF is_blocked(h)     THEN "DOMAIN_PERMANENTLY_BLOCKED"
  ELSE IF p \notin Permitted THEN "PORT_NOT_PERMITTED"
  ELSE "NONE"

\* Mutant of TakeLock: the handlers run without the lock.
TakeNoLock(t, payload, code, label) ==
  /\ pc[t] = "idle"
  /\ payload.op \in Traffic
  /\ Len(requests) < MaxRequests
  /\ lock' = t
  /\ Go(t, [payload EXCEPT !.ts = clock, !.code = code],
        IF code = "NONE" THEN label ELSE "reply")
  /\ UNCHANGED storeVars

\* Thread t obtains the lock, reads the clock after it, and starts on a
\* payload.  (A thread that waits for the lock has read nothing yet and is
\* idle here.)  MaxRequests leaves room for the row the job may insert.
TakeLock(t, payload, code, label) ==
  /\ pc[t] = "idle"
  /\ payload.op \in Traffic
  /\ lock = Free
  /\ Len(requests) < MaxRequests
  /\ lock' = t
  /\ Go(t, [payload EXCEPT !.ts = clock, !.code = code],
        IF code = "NONE" THEN label ELSE "reply")
  /\ UNCHANGED storeVars

\* A check of the proxy: final on the SNI check of a connection, not on the
\* CONNECT check before it.
AclCheck(t) ==
  \E h \in Host \cup {Malformed}, p \in Port, final \in BOOLEAN :
    TakeLock(t, [NoJob EXCEPT !.host = h, !.port = p, !.final = final],
          gate_code(h, p), "pause")

\* A submission of the agent, rejected or not, is first charged to one of
\* the hourly budgets.
Submit(t) ==
  \E h \in Host \cup {Malformed}, p \in Port, why \in Reason \cup {NoReason} :
    \E code \in {gate_code(h, p), "RATE_LIMITED"} :
      TakeLock(t, [NoJob EXCEPT !.op = "submit", !.host = h, !.port = p,
                             !.why = why], code, "match")

ReadPause(t) ==
  /\ pc[t] = "pause"
  /\ IF pause_active(job[t].ts) THEN Answer(t, "PAUSED_ALLOW")
                                ELSE Go(t, job[t], "match")
  /\ UNCHANGED <<storeVars, lock>>

\* Mutant of Match: consume is never passed on.
MatchUnspent(t) ==
  /\ pc[t] = "match"
  /\ LET hit == active_match(job[t].host, job[t].port, job[t].ts)
         j   == [job[t] EXCEPT !.hit = hit]
     IN  IF hit = 0 THEN Go(t, j, "denial")
                    ELSE Go(t, [j EXCEPT !.code = "ALLOWED"], "reply")
  /\ UNCHANGED <<storeVars, lock>>

Match(t) ==
  /\ pc[t] = "match"
  /\ LET hit == active_match(job[t].host, job[t].port, job[t].ts)
         j   == [job[t] EXCEPT !.hit = hit]
     IN  CASE hit = 0 -> Go(t, j, "denial")
           [] hit # 0 /\ j.final /\ allowlist[hit].scope = "once"
                      -> Go(t, j, "consume")
           [] OTHER   -> Go(t, [j EXCEPT !.code = "ALLOWED"], "reply")
  /\ UNCHANGED <<storeVars, lock>>

Consume(t) ==
  /\ pc[t] = "consume"
  /\ spend(job[t].hit, job[t].ts)
  /\ Answer(t, "ALLOWED")
  /\ UNCHANGED <<requests, paused_until, clock, lock>>

\* Mutant of ReadDenial: acl_check does not ask for a standing denial.
ReadDenialOfSubmit(t) ==
  /\ pc[t] = "denial"
  /\ CASE job[t].op = "submit" /\ standing_denial(job[t].host, job[t].port) # 0
            -> Answer(t, "DENIED_BY_ADMIN")
       [] OTHER
            -> Go(t, job[t], IF job[t].op = "submit" THEN "exists"
                                                     ELSE "count")
  /\ UNCHANGED <<storeVars, lock>>

ReadDenial(t) ==
  /\ pc[t] = "denial"
  /\ CASE standing_denial(job[t].host, job[t].port) # 0
            -> Answer(t, "DENIED_BY_ADMIN")
       [] OTHER
            -> Go(t, job[t], IF job[t].op = "submit" THEN "exists"
                                                     ELSE "count")
  /\ UNCHANGED <<storeVars, lock>>

\* submit looks for an open request first and counts when there is none;
\* acl_check counts first and looks when the queue is full.
ReadExisting(t) ==
  /\ pc[t] = "exists"
  /\ CASE pending_request(job[t].host, job[t].port) # 0
            -> Go(t, job[t], "find")
       [] OTHER
            -> IF job[t].op = "submit" THEN Go(t, job[t], "count")
                                       ELSE Answer(t, "PENDING")
  /\ UNCHANGED <<storeVars, lock>>

\* Mutant of ReadCount: <= for <.
ReadCountOneMore(t) ==
  /\ pc[t] = "count"
  /\ CASE pending_count <= PendingMax -> Go(t, job[t], "find")
       [] OTHER
            -> IF job[t].op = "submit" THEN Answer(t, "QUEUE_FULL")
                                       ELSE Go(t, job[t], "exists")
  /\ UNCHANGED <<storeVars, lock>>

ReadCount(t) ==
  /\ pc[t] = "count"
  /\ CASE pending_count < PendingMax -> Go(t, job[t], "find")
       [] OTHER
            -> IF job[t].op = "submit" THEN Answer(t, "QUEUE_FULL")
                                       ELSE Go(t, job[t], "exists")
  /\ UNCHANGED <<storeVars, lock>>

\* upsert_pending reads once more ...
Find(t) ==
  /\ pc[t] = "find"
  /\ Go(t, [job[t] EXCEPT !.req =
              pending_request(job[t].host, job[t].port)], "write")
  /\ UNCHANGED <<storeVars, lock>>

\* Mutant of Bump: the row is stored back as pending.
BumpReopens(t) ==
  /\ pc[t] = "write"
  /\ job[t].req # 0
  /\ requests' = [requests EXCEPT ![job[t].req].status = "pending"]
  /\ Answer(t, "PENDING")
  /\ UNCHANGED <<allowlist, paused_until, clock, lock>>

\* ... and bumps the row it found, whatever its status is by now, or
\* inserts a new one.
Bump(t) ==
  /\ pc[t] = "write"
  /\ job[t].req # 0
  /\ Answer(t, "PENDING")
  /\ UNCHANGED <<storeVars, lock>>

Insert(t) ==
  /\ pc[t] = "write"
  /\ job[t].req = 0
  /\ insert_pending(job[t].host, job[t].port, job[t].why)
  /\ Go(t, [job[t] EXCEPT !.req = Len(requests) + 1, !.code = "PENDING"],
        "reply")
  /\ UNCHANGED <<allowlist, paused_until, clock, lock>>

\* Mutant of Reply: an early return forgets to release the lock.
ReplyHolding(t) ==
  /\ pc[t] = "reply"
  /\ Go(t, NoJob, "idle")
  /\ lock' = IF job[t].code = "RATE_LIMITED" THEN t ELSE Free
  /\ UNCHANGED storeVars

\* The decision is logged, the lock released, the answer sent.
Reply(t) ==
  /\ pc[t] = "reply"
  /\ Go(t, NoJob, "idle")
  /\ lock' = Free
  /\ UNCHANGED storeVars

\* A statement of the handler that holds the lock raises and it answers
\* BROKER_UNAVAILABLE, or the process dies and is started again: what was
\* committed stays.  (A write that raises is taken to leave no transaction
\* open on the broker's connection.)
BrokerRestart ==
  /\ \E t \in Worker : pc[t] # "idle"
  /\ pc' = [t \in Worker |-> "idle"]
  /\ job' = [t \in Worker |-> NoJob]
  /\ lock' = Free
  /\ UNCHANGED storeVars

\* The steps of a thread that holds the lock.
HandlerStep(t) ==
  \/ ReadPause(t) \/ Match(t) \/ Consume(t) \/ ReadDenial(t)
  \/ ReadExisting(t) \/ ReadCount(t) \/ Find(t) \/ Bump(t) \/ Insert(t)
  \/ Reply(t)
=============================================================================
