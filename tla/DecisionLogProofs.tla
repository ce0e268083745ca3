------------------------- MODULE DecisionLogProofs -------------------------
(***************************************************************************)
(* Proofs about the decision log.  While no write of the broker has        *)
(* raised, its connection reads the database as it is, and every answer    *)
(* has its row; and whatever fails and however often the broker starts     *)
(* anew, the table grows no faster than the budgets and the coalescing     *)
(* window let it.                                                          *)
(*                                                                         *)
(*   Typed     types;                                                      *)
(*   LogInv    the connection, the history variable, the rows of answers;  *)
(*   CountInv  what the handler under way has counted is still so when it  *)
(*             writes, and so much of the table is full.                   *)
(***************************************************************************)
EXTENDS DecisionLog, FiniteSetTheorems, TLAPS

----------------------------------------------------------------------------
(* Types.                                                                  *)

Typed == TypeOK /\ recent \in [DOMAIN recent -> Nat]

\* Remembering an event keeps that event, and forgets others at most once
\* their window is over.
LEMMA NotedProperties ==
  ASSUME NEW key, NEW ts \in Nat, recent \in [DOMAIN recent -> Nat]
  PROVE  /\ noted(key, ts) \in [DOMAIN noted(key, ts) -> Nat]
         /\ key \in DOMAIN noted(key, ts) /\ noted(key, ts)[key] = ts
         /\ \A k \in DOMAIN noted(key, ts) :
              k # key => k \in DOMAIN recent /\ noted(key, ts)[k] = recent[k]
         /\ \A k \in DOMAIN recent :
              k \notin DOMAIN noted(key, ts) => ts - recent[k] >= Window
<1> USE LogAssumption
<1> DEFINE noticed == [k \in DOMAIN recent \cup {key} |->
                         IF k = key THEN ts ELSE recent[k]]
           kept == {k \in DOMAIN noticed : ts - noticed[k] < Window}
<1>1. /\ DOMAIN noticed = DOMAIN recent \cup {key} /\ noticed[key] = ts
      /\ \A k \in DOMAIN noticed : noticed[k] \in Nat
      /\ \A k \in DOMAIN noticed \ {key} : noticed[k] = recent[k]
  OBVIOUS
<1>2. key \in kept
  BY <1>1
<1>3. \A k \in DOMAIN recent : k \notin kept => ts - recent[k] >= Window
  <2> SUFFICES ASSUME NEW k \in DOMAIN recent, k \notin kept
               PROVE  ts - recent[k] >= Window
    OBVIOUS
  <2>1. k # key /\ noticed[k] = recent[k] /\ recent[k] \in Nat
    BY <1>1, <1>2
  <2>2. ~ (ts - recent[k] < Window)
    BY <1>1, <2>1
  <2> QED
    BY <2>1, <2>2
<1>4. \/ noted(key, ts) = noticed
      \/ noted(key, ts) = [k \in kept |-> noticed[k]]
  BY DEF noted, Restrict
<1>5. noticed = [k \in DOMAIN noticed |-> noticed[k]]
  OBVIOUS
<1>6. kept \subseteq DOMAIN noticed
  OBVIOUS
<1> HIDE DEF noticed, kept
<1>7. CASE noted(key, ts) = noticed
  BY <1>1, <1>5, <1>7
<1>8. CASE noted(key, ts) = [k \in kept |-> noticed[k]]
  <2>1. DOMAIN noted(key, ts) = kept
        /\ \A k \in kept : noted(key, ts)[k] = noticed[k]
    BY <1>8
  <2> QED
    BY <1>1, <1>2, <1>3, <1>6, <1>8, <2>1
<1> QED
  BY <1>4, <1>7, <1>8

\* The key of a decision is a key.
LEMMA KeyType == ASSUME NEW j \in Job PROVE key_of(j) \in Key
BY DEF key_of, Key, Job, Label

\* Appending a row to the table.
LEMMA AppendRow ==
  ASSUME Typed, NEW row \in Row, decisions' = Append(decisions, row)
  PROVE  LET new == Len(decisions) + 1
         IN  /\ decisions' \in Seq(Row)
             /\ new \notin DOMAIN decisions
             /\ DOMAIN decisions' = DOMAIN decisions \cup {new}
             /\ decisions'[new] = row
             /\ \A i \in DOMAIN decisions : decisions'[i] = decisions[i]
BY DEF Typed, TypeOK

\* A call that begins, whatever handler it is for.
LEMMA StartsAt ==
  ASSUME AclCheck \/ AclReject \/ Submit \/ AutoReject, clock \in Nat
  PROVE  /\ at = "idle" /\ job' \in Job /\ job'.ts = clock
         /\ seen' = (job'.dest \in allowed)
         /\ UNCHANGED <<traffic, allowed, decisions, clock, tx, view, recent,
                        failed, restarts>>
         /\ \/ /\ at' = "match" /\ job'.actor = "proxy"
               /\ job'.event = "proxy_deny" /\ job'.code = "NONE"
            \/ /\ at' = "log" /\ job'.actor = "proxy"
               /\ job'.event = "proxy_deny" /\ job'.code = "REJECTED"
            \/ /\ at' = "budget" /\ job'.actor = "agent"
               /\ job'.code = "NONE"
               /\ job'.event = "submission" /\ job'.dest # Rejected
            \/ /\ at' = "budget" /\ job'.actor = "agent"
               /\ job'.code = "REJECTED"
               /\ job'.event = "auto_reject" /\ job'.dest = Rejected
<1> USE LogAssumption
<1>1. CASE AclCheck
  <2>1. PICK d \in Dest :
          Start("acl_check", [NoJob EXCEPT !.actor = "proxy", !.dest = d,
                                           !.event = "proxy_deny"], "match")
    BY <1>1 DEF AclCheck
  <2>2. job' = [actor |-> "proxy", dest |-> d, ts |-> clock,
                event |-> "proxy_deny", code |-> "NONE"]
    BY <2>1 DEF Start, Go, NoJob
  <2>3. job' \in Job
    BY <2>2 DEF Job, Event, Code
  <2> QED
    BY <2>1, <2>2, <2>3 DEF Start, Go, NoJob
<1>2. CASE AclReject
  BY <1>2 DEF AclReject, Start, Go, NoJob, Job, Event, Code
<1>3. CASE Submit
  <2>1. PICK d \in Dest :
          Start("submit", [NoJob EXCEPT !.dest = d, !.event = "submission"],
                "budget")
    BY <1>3 DEF Submit
  <2>2. job' = [actor |-> "agent", dest |-> d, ts |-> clock,
                event |-> "submission", code |-> "NONE"]
    BY <2>1 DEF Start, Go, NoJob
  <2>3. job' \in Job
    BY <2>2 DEF Job, Event, Code
  <2> QED
    BY <2>1, <2>2, <2>3 DEF Start, Go, NoJob
<1>4. CASE AutoReject
  BY <1>4 DEF AutoReject, Start, Go, NoJob, Job, Event, Code
<1> QED
  BY <1>1, <1>2, <1>3, <1>4

\* The budget: within it, at its first refusal of the hour, and after that.
LEMMA BudgetMoves ==
  ASSUME Typed, BudgetHit
  PROVE  /\ at = "budget" /\ job' \in Job
         /\ job'.actor = job.actor /\ job'.dest = job.dest /\ job'.ts = job.ts
         /\ UNCHANGED <<traffic, allowed, decisions, clock, recent, seen,
                        failed, restarts>>
         /\ \/ /\ job' = job
               /\ at' = IF job.event = "submission" THEN "match" ELSE "log"
               /\ events_last_hour(job.event, job.ts) < cap(job.event)
            \/ /\ job'.event = "rate_limit_trip"
               /\ job'.code = "RATE_LIMITED" /\ at' = "log"
               /\ trips(label_of(job.event), job.ts) = 0
            \/ /\ job'.event = job.event
               /\ job'.code = "RATE_LIMITED" /\ at' = "reply"
               /\ trips(label_of(job.event), job.ts) # 0
<1>1. job \in Job
  BY DEF Typed, TypeOK
<1>2. \/ /\ job' = job
         /\ at' = IF job.event = "submission" THEN "match" ELSE "log"
         /\ events_last_hour(job.event, job.ts) < cap(job.event)
      \/ /\ job' = [[job EXCEPT !.code = "RATE_LIMITED"]
                     EXCEPT !.event = "rate_limit_trip"]
         /\ at' = "log" /\ trips(label_of(job.event), job.ts) = 0
      \/ /\ job' = [job EXCEPT !.code = "RATE_LIMITED"]
         /\ at' = "reply" /\ trips(label_of(job.event), job.ts) # 0
  BY DEF BudgetHit, Go
<1>3. /\ at = "budget"
      /\ UNCHANGED <<traffic, allowed, decisions, clock, recent, seen, failed,
                     restarts>>
  BY DEF BudgetHit
<1> QED
  BY <1>1, <1>2, <1>3 DEF Job, Event, Code

\* The match decides the code, and which event of the proxy it is.
LEMMA MatchMoves ==
  ASSUME Typed, Match
  PROVE  /\ at = "match" /\ at' \in {"queue", "log"} /\ job' \in Job
         /\ job'.actor = job.actor /\ job'.dest = job.dest /\ job'.ts = job.ts
         /\ UNCHANGED <<traffic, allowed, decisions, clock, recent, seen,
                        failed, restarts>>
         /\ \/ /\ job.dest \in visible /\ job'.code = "ALLOWED"
               /\ job'.event = IF job.actor = "proxy" THEN "proxy_allow"
                                                      ELSE job.event
            \/ job'.code = "PENDING" /\ job'.event = job.event
<1>1. job \in Job
  BY DEF Typed, TypeOK
<1>2. /\ at = "match"
      /\ UNCHANGED <<traffic, allowed, decisions, clock, recent, seen, failed,
                     restarts>>
  BY DEF Match
<1>3. CASE job.dest \in visible
  <2> DEFINE event == IF job.actor = "proxy" THEN "proxy_allow" ELSE job.event
  <2>1. job' = [[job EXCEPT !.code = "ALLOWED"] EXCEPT !.event = event]
        /\ at' = "log"
    BY <1>1, <1>3 DEF Match, Go, Job
  <2>2. event \in Event
    BY <1>1 DEF Job, Event
  <2> HIDE DEF event
  <2>3. /\ job'.event = event /\ job'.code = "ALLOWED" /\ job' \in Job
        /\ job'.actor = job.actor /\ job'.dest = job.dest /\ job'.ts = job.ts
    BY <1>1, <2>1, <2>2 DEF Job, Code
  <2> QED
    BY <1>2, <1>3, <2>1, <2>3 DEF event
<1>4. CASE job.dest \notin visible
  BY <1>1, <1>2, <1>4 DEF Match, Go, Job, Code
<1> QED
  BY <1>3, <1>4

\* A write that raises answers that the broker is unavailable.
LEMMA RaiseMoves ==
  ASSUME Typed, Raise, Unavailable
  PROVE  /\ at' = "reply" /\ job' \in Job /\ job'.event = job.event
         /\ job'.code = "BROKER_UNAVAILABLE"
         /\ job'.actor = job.actor /\ job'.dest = job.dest /\ job'.ts = job.ts
         /\ failed' = TRUE /\ tx' \in {"open", "frozen", "stale"}
         /\ UNCHANGED view
BY DEF Typed, TypeOK, Job, Code, Raise, Unavailable, Go

\* The queue, which the job leaves as it came unless its write raises.
LEMMA QueueMoves ==
  ASSUME Queue
  PROVE  /\ at = "queue"
         /\ UNCHANGED <<traffic, allowed, decisions, clock, recent, seen,
                        restarts>>
         /\ \/ Commit /\ job' = job /\ at' = "log"
            \/ Raise /\ Unavailable
BY DEF Queue, Go

\* The row: coalesced, written, or lost with the connection left open.
LEMMA LogMoves ==
  ASSUME Log
  PROVE  /\ at = "log"
         /\ UNCHANGED <<traffic, allowed, clock, seen, restarts>>
         /\ \/ /\ coalesced(job) /\ job' = job /\ at' = "reply"
               /\ UNCHANGED <<decisions, recent, tx, view, failed>>
            \/ /\ ~ coalesced(job)
               /\ recent' = IF job.actor = "proxy"
                            THEN noted(key_of(job), job.ts) ELSE recent
               /\ \/ /\ Commit /\ job' = job /\ at' = "reply"
                     /\ decisions' = Append(decisions,
                                        [ts |-> job.ts, key |-> key_of(job)])
                  \/ Raise /\ Unavailable /\ UNCHANGED decisions
BY DEF Log, Go

\* The end of a handler, and the start of a process, forget the job.
LEMMA NoJobType == NoJob \in Job
BY DEF NoJob, Job, Event, Code

LEMMA TypedInit == Init => Typed
<1> SUFFICES ASSUME Init PROVE Typed
  OBVIOUS
<1>1. DOMAIN recent = {} /\ Range(recent) = {}
      /\ recent \in [DOMAIN recent -> Nat]
  BY DEF Init, NothingRecent, Range
<1>2. traffic \in Mixes /\ allowed \subseteq Dest /\ decisions \in Seq(Row)
      /\ clock \in Nat /\ restarts \in Nat
  BY DEF Init
<1> QED
  BY <1>1, <1>2, NoJobType DEF Init, Typed, TypeOK

\* The values of a function into a set are in it.
LEMMA RecentValues ==
  ASSUME recent' \in [DOMAIN recent' -> Nat]
  PROVE  Range(recent') \subseteq Nat
BY DEF Range

LEMMA RecentKept ==
  ASSUME Typed, UNCHANGED recent
  PROVE  /\ recent' \in [DOMAIN recent' -> Nat]
         /\ DOMAIN recent' \subseteq Key /\ Range(recent') \subseteq Nat
<1>1. recent' \in [DOMAIN recent' -> Nat] /\ DOMAIN recent' \subseteq Key
  BY DEF Typed, TypeOK
<1> QED
  BY <1>1, RecentValues

LEMMA TypedStep == ASSUME Typed, [Next]_vars PROVE Typed'
<1> USE LogAssumption
<1>0. job \in Job /\ clock \in Nat
  BY DEF Typed, TypeOK
<1>1. CASE AclCheck \/ AclReject \/ Submit \/ AutoReject
  <2>1. /\ job' \in Job
        /\ at' \in {"idle", "budget", "match", "queue", "log", "reply"}
        /\ UNCHANGED <<traffic, allowed, decisions, clock, tx, view, recent,
                       failed, restarts>>
    BY <1>0, <1>1, StartsAt
  <2>2. seen' = (job'.dest \in allowed)
    BY <1>0, <1>1, StartsAt
  <2>3. seen' \in BOOLEAN
    BY <2>2
  <2> QED
    BY <2>1, <2>3, RecentKept DEF Typed, TypeOK
<1>2. CASE BudgetHit
  <2>1. tx' \in {"closed", "open", "frozen", "stale"} /\ view' \subseteq Dest
    BY <1>2 DEF BudgetHit, Select, Typed, TypeOK
  <2> QED
    BY <1>2, <2>1, BudgetMoves DEF Typed, TypeOK
<1>3. CASE Match
  <2>1. tx' \in {"closed", "open", "frozen", "stale"} /\ view' \subseteq Dest
    BY <1>3 DEF Match, Select, Typed, TypeOK
  <2> QED
    BY <1>3, <2>1, MatchMoves DEF Typed, TypeOK
<1>4. CASE Queue
  <2>1. CASE Commit /\ job' = job /\ at' = "log"
    BY <1>4, <2>1, QueueMoves DEF Typed, TypeOK, Commit
  <2>2. CASE Raise /\ Unavailable
    BY <1>4, <2>2, QueueMoves, RaiseMoves DEF Typed, TypeOK
  <2> QED
    BY <1>4, <2>1, <2>2, QueueMoves
<1>5. CASE Log
  <2>1. key_of(job) \in Key
    BY <1>0, KeyType
  <2>2. /\ UNCHANGED <<traffic, allowed, clock, seen, restarts>>
        /\ recent' \in [DOMAIN recent' -> Nat] /\ DOMAIN recent' \subseteq Key
    <3>1. CASE recent' = recent
      BY <1>5, <3>1, LogMoves DEF Typed, TypeOK
    <3>2. CASE recent' = noted(key_of(job), job.ts)
      <4>1. job.ts \in Nat
        BY <1>0 DEF Job
      <4> QED
        BY <1>5, <2>1, <3>2, <4>1, LogMoves, NotedProperties
           DEF Typed, TypeOK
    <3> QED
      BY <1>5, <3>1, <3>2, LogMoves
  <2>3. Range(recent') \subseteq Nat
    BY <2>2, RecentValues
  <2>4. /\ job' \in Job /\ at' = "reply" /\ failed' \in BOOLEAN
        /\ tx' \in {"closed", "open", "frozen", "stale"}
        /\ view' \subseteq Dest
    BY <1>0, <1>5, LogMoves, RaiseMoves DEF Typed, TypeOK, Commit
  <2>5. decisions' \in Seq(Row)
    <3> DEFINE row == [ts |-> job.ts, key |-> key_of(job)]
    <3>1. row \in Row
      BY <1>0, <2>1 DEF Row, Job
    <3>2. decisions \in Seq(Row)
      BY DEF Typed, TypeOK
    <3>3. UNCHANGED decisions \/ decisions' = Append(decisions, row)
      BY <1>5, LogMoves
    <3> HIDE DEF row
    <3>4. Append(decisions, row) \in Seq(Row)
      BY <3>1, <3>2
    <3> QED
      BY <3>2, <3>3, <3>4
  <2> QED
    BY <2>2, <2>3, <2>4, <2>5 DEF Typed, TypeOK
<1>6. CASE Reply
  BY <1>6, NoJobType, RecentKept DEF Typed, TypeOK, Reply, Go
<1>7. CASE BrokerRestart
  <2>1. recent' \in [DOMAIN recent' -> Nat] /\ DOMAIN recent' \subseteq Key
    BY <1>7 DEF BrokerRestart, NothingRecent
  <2>2. Range(recent') \subseteq Nat
    BY <2>1, RecentValues
  <2>3. restarts' \in Nat
    BY <1>7 DEF Typed, TypeOK, BrokerRestart
  <2>4. /\ tx' = "closed" /\ view' = {} /\ job' = NoJob /\ at' = "idle"
        /\ seen' = FALSE /\ failed' = FALSE
        /\ UNCHANGED <<traffic, allowed, decisions, clock>>
    BY <1>7 DEF BrokerRestart, Go
  <2> QED
    BY <2>1, <2>2, <2>3, <2>4, NoJobType DEF Typed, TypeOK
<1>8. CASE OtherCommit
  <2>1. seen' \in BOOLEAN /\ UNCHANGED recent /\ allowed' \subseteq Dest
    BY <1>8 DEF Typed, TypeOK, OtherCommit
  <2>2. tx' \in {"closed", "open", "frozen", "stale"}
    BY <1>8 DEF Typed, TypeOK, OtherCommit
  <2> QED
    BY <1>8, <2>1, <2>2, RecentKept DEF Typed, TypeOK, OtherCommit
<1>9. CASE Tick
  BY <1>9, RecentKept DEF Typed, TypeOK, Tick
<1>10. CASE UNCHANGED vars
  BY <1>10, RecentKept DEF Typed, TypeOK, vars
<1> QED
  BY <1>1, <1>2, <1>3, <1>4, <1>5, <1>6, <1>7, <1>8, <1>9, <1>10 DEF Next

\* Every variable of the decision log keeps its type: what the handlers hand
\* from one step to the next is always a job, and what they write a row.
THEOREM LogTyped == Spec => []TypeOK
<1>1. Typed => TypeOK
  BY DEF Typed
<1> QED
  BY TypedInit, TypedStep, <1>1, PTL DEF Spec
----------------------------------------------------------------------------
(* The connection, and the rows of answers.                                *)

\* No transaction is open unless a write has raised.
NothingOpen == ~ failed => tx = "closed"

\* What the history variable promises.
Watched == at # "idle" /\ job.dest \in allowed => seen

\* An entry is found by the match, and was there.
Found ==
  /\ at \in {"budget", "match"} => job.code # "ALLOWED"
  /\ job.code = "ALLOWED" /\ ~ failed => seen

\* Each event remembered has its row.
RecentLogged ==
  ~ failed => \A k \in DOMAIN recent : \E i \in DOMAIN decisions :
                decisions[i].key = k /\ decisions[i].ts = recent[k]

LogInv == NothingOpen /\ Watched /\ Found /\ RecentLogged /\ AnswerLogged

\* A new connection and an empty _recent_log satisfy the invariant.
LEMMA LogInvInit == Init => LogInv
<1> SUFFICES ASSUME Init PROVE LogInv
  OBVIOUS
<1> QED
  BY DEF Init, LogInv, NothingOpen, Watched, Found, RecentLogged,
         AnswerLogged, NothingRecent, NoJob

\* Every step preserves the invariant.
LEMMA LogInvStep == ASSUME Typed, LogInv, [Next]_vars PROVE LogInv'
<1> USE LogAssumption
<1>0. job \in Job /\ clock \in Nat /\ failed \in BOOLEAN
  BY DEF Typed, TypeOK
<1>1. CASE AclCheck \/ AclReject \/ Submit \/ AutoReject
  <2>1. /\ job'.code # "ALLOWED" /\ at' \in {"budget", "match", "log"}
        /\ UNCHANGED <<allowed, decisions, clock, tx, recent, failed>>
    BY <1>0, <1>1, StartsAt
  <2>2. seen' = (job'.dest \in allowed)
    BY <1>0, <1>1, StartsAt
  <2>3. NothingOpen' /\ RecentLogged'
    BY <2>1 DEF LogInv, NothingOpen, RecentLogged
  <2>4. Watched' /\ Found' /\ AnswerLogged'
    BY <2>1, <2>2 DEF LogInv, Watched, Found, AnswerLogged
  <2> QED
    BY <2>3, <2>4 DEF LogInv
<1>2. CASE BudgetHit
  <2>1. (UNCHANGED tx) \/ tx = "open"
    BY <1>2 DEF BudgetHit, Select
  <2>2. NothingOpen' /\ RecentLogged'
    BY <1>2, <2>1, BudgetMoves DEF LogInv, NothingOpen, RecentLogged
  <2>3. Watched' /\ Found' /\ AnswerLogged'
    BY <1>2, BudgetMoves DEF LogInv, Watched, Found, AnswerLogged
  <2> QED
    BY <2>2, <2>3 DEF LogInv
<1>3. CASE Match
  <2>1. (UNCHANGED tx) \/ tx = "open"
    BY <1>3 DEF Match, Select
  <2>2. NothingOpen' /\ RecentLogged'
    BY <1>3, <2>1, MatchMoves DEF LogInv, NothingOpen, RecentLogged
  <2>3. Watched' /\ AnswerLogged'
    BY <1>3, MatchMoves DEF LogInv, Watched, AnswerLogged
  <2>4. Found'
    BY <1>0, <1>3, MatchMoves DEF LogInv, NothingOpen, Watched, Found, visible
  <2> QED
    BY <2>2, <2>3, <2>4 DEF LogInv
<1>4. CASE Queue
  <2>1. /\ at = "queue" /\ job'.dest = job.dest
        /\ UNCHANGED <<allowed, decisions, clock, recent, seen>>
        /\ \/ /\ job' = job /\ at' = "log" /\ tx' = "closed"
              /\ failed' = failed
           \/ /\ job'.code = "BROKER_UNAVAILABLE" /\ at' = "reply"
              /\ failed' = TRUE
    BY <1>4, QueueMoves, RaiseMoves DEF Commit
  <2> QED
    BY <2>1 DEF LogInv, NothingOpen, Watched, Found, RecentLogged,
                AnswerLogged
<1>5. CASE Log
  <2> USE DEF LogInv
  <2>1. at = "log" /\ UNCHANGED <<traffic, allowed, clock, seen, restarts>>
    BY <1>5, LogMoves
  <2>2. CASE /\ coalesced(job) /\ job' = job /\ at' = "reply"
             /\ UNCHANGED <<decisions, recent, tx, view, failed>>
    <3>1. AnswerLogged'
      <4> SUFFICES ASSUME ~ failed
                   PROVE  \E i \in DOMAIN decisions :
                            /\ decisions[i].key = key_of(job)
                            /\ decisions[i].ts > job.ts - Window
        BY <2>2 DEF AnswerLogged, coalesced, key_of
      <4>1. /\ key_of(job) \in DOMAIN recent
            /\ job.ts - recent[key_of(job)] < Window
        BY <2>2 DEF coalesced
      <4>2. PICK i \in DOMAIN decisions :
              /\ decisions[i].key = key_of(job)
              /\ decisions[i].ts = recent[key_of(job)]
        BY <4>1 DEF RecentLogged
      <4>3. recent[key_of(job)] \in Nat /\ job.ts \in Nat
        BY <1>0, <4>1 DEF Typed, Job
      <4> QED
        BY <4>1, <4>2, <4>3
    <3> QED
      BY <2>1, <2>2, <3>1 DEF NothingOpen, Watched, Found, RecentLogged
  <2>3. CASE Raise /\ Unavailable
    BY <2>1, <2>3, RaiseMoves DEF NothingOpen, Watched, Found, RecentLogged,
                                  AnswerLogged
  <2>4. CASE /\ ~ coalesced(job)
             /\ recent' = IF job.actor = "proxy"
                          THEN noted(key_of(job), job.ts) ELSE recent
             /\ Commit /\ job' = job /\ at' = "reply"
             /\ decisions' = Append(decisions,
                                    [ts |-> job.ts, key |-> key_of(job)])
    <3> DEFINE row == [ts |-> job.ts, key |-> key_of(job)]
               new == Len(decisions) + 1
    <3>1. row \in Row /\ row.ts = job.ts /\ row.key = key_of(job)
      BY <1>0, KeyType DEF Row, Job
    <3>2. decisions' = Append(decisions, row)
      BY <2>4
    <3> HIDE DEF row
    <3>3. /\ DOMAIN decisions' = DOMAIN decisions \cup {new}
          /\ decisions'[new] = row
          /\ \A i \in DOMAIN decisions : decisions'[i] = decisions[i]
      BY <3>1, <3>2, AppendRow
    <3> HIDE DEF new
    <3>4. \A k \in DOMAIN recent' :
            \/ k = key_of(job) /\ recent'[k] = job.ts
            \/ k \in DOMAIN recent /\ recent'[k] = recent[k]
      <4>1. job.ts \in Nat
        BY <1>0 DEF Job
      <4> QED
        BY <2>4, <4>1, NotedProperties DEF Typed
    <3>5. RecentLogged'
      <4> SUFFICES ASSUME ~ failed', NEW k \in DOMAIN recent'
                   PROVE  \E i \in DOMAIN decisions' :
                            /\ decisions'[i].key = k
                            /\ decisions'[i].ts = recent'[k]
        BY DEF RecentLogged
      <4>1. CASE k = key_of(job) /\ recent'[k] = job.ts
        BY <3>1, <3>3, <4>1
      <4>2. CASE k \in DOMAIN recent /\ recent'[k] = recent[k]
        <5>1. PICK i \in DOMAIN decisions :
                decisions[i].key = k /\ decisions[i].ts = recent[k]
          BY <2>4, <4>2 DEF RecentLogged, Commit
        <5> QED
          BY <3>3, <4>2, <5>1
      <4> QED
        BY <3>4, <4>1, <4>2
    <3>6. AnswerLogged'
      <4>1. job.ts \in Nat /\ Window \in Nat \ {0}
        BY <1>0 DEF Job
      <4>2. job.ts > job.ts - Window
        BY <4>1
      <4>3. key_of(job)' = key_of(job) /\ job' = job
        BY <2>4 DEF key_of
      <4> QED
        BY <3>1, <3>3, <4>2, <4>3 DEF AnswerLogged
    <3> QED
      BY <2>1, <2>4, <3>5, <3>6 DEF Commit, NothingOpen, Watched, Found
  <2> QED
    BY <1>5, <2>2, <2>3, <2>4, LogMoves
<1>6. CASE Reply
  BY <1>6 DEF LogInv, Reply, Go, NoJob, NothingOpen, Watched, Found,
              RecentLogged, AnswerLogged
<1>7. CASE BrokerRestart
  BY <1>7 DEF LogInv, BrokerRestart, Go, NoJob, NothingRecent, NothingOpen,
              Watched, Found, RecentLogged, AnswerLogged
<1>8. CASE OtherCommit
  BY <1>8 DEF LogInv, OtherCommit, NothingOpen, Watched, Found,
              RecentLogged, AnswerLogged, key_of
<1>9. CASE Tick
  BY <1>9 DEF LogInv, Tick, NothingOpen, Watched, Found, RecentLogged,
              AnswerLogged, key_of
<1>10. CASE UNCHANGED vars
  BY <1>10 DEF LogInv, vars, NothingOpen, Watched, Found, RecentLogged,
               AnswerLogged, key_of
<1> QED
  BY <1>1, <1>2, <1>3, <1>4, <1>5, <1>6, <1>7, <1>8, <1>9, <1>10 DEF Next

\* Coalescing loses no decision, and every answer of the broker has its row,
\* while writes succeed: the proof shows which failure breaks it, the one
\* between remembering an event and writing it.
THEOREM EveryAnswerLogged == Spec => []AnswerLogged
<1>1. LogInv => AnswerLogged
  BY DEF LogInv
<1> QED
  BY TypedInit, TypedStep, LogInvInit, LogInvStep, <1>1, PTL DEF Spec

\* While writes succeed the broker reads the database as it is, so that what
\* it allows was allowed while it decided.
THEOREM AnswersCurrent == Spec => []CurrentUnlessFailed
<1>1. LogInv => CurrentUnlessFailed
  BY DEF LogInv, Found, CurrentUnlessFailed
<1> QED
  BY TypedInit, TypedStep, LogInvInit, LogInvStep, <1>1, PTL DEF Spec

----------------------------------------------------------------------------
(* What is counted in the table.                                           *)

Capped == {"submission", "auto_reject"}

\* No row and nothing remembered is from the future, and a handler is never
\* behind the clock it read.
Timely ==
  /\ \A i \in DOMAIN decisions : decisions[i].ts <= clock
  /\ \A k \in DOMAIN recent : recent[k] <= clock
  /\ at # "idle" => job.ts = clock

\* What a handler has decided of its event by the time it gets anywhere.
Charged ==
  /\ job.actor = "proxy" <=> job.event \in proxied
  /\ at = "budget" => job.event = IF job.dest = Rejected THEN "auto_reject"
                                                         ELSE "submission"
  /\ at \in {"match", "queue"} => job.event \in proxied \cup {"submission"}
  /\ at \in {"budget", "match", "queue"} => job.code # "RATE_LIMITED"
  /\ at = "log" => (job.code = "RATE_LIMITED" <=>
                    job.event = "rate_limit_trip")

\* The budget still has room when the row is written, and the window no trip.
Room ==
  /\ at \in {"match", "queue", "log"} /\ job.event \in Capped =>
       Cardinality(of_event(last_hour(job.ts), job.event)) < cap(job.event)
  /\ at = "log" /\ job.event = "rate_limit_trip" =>
       trips_of(last_hour(job.ts), key_of(job).about) = {}

\* No hour has more rows of a kind than the budget.
Budgets ==
  \A s \in Nat, event \in Capped :
    Cardinality(of_event(in_span(s, Hour), event)) <= cap(event)

\* Two trips of one budget are an hour apart.
Trips ==
  \A i, j \in DOMAIN decisions :
    /\ i # j /\ decisions[i].key.event = "rate_limit_trip"
    /\ decisions[j].key.event = "rate_limit_trip"
    /\ decisions[i].key.about = decisions[j].key.about
    => \/ decisions[i].ts >= decisions[j].ts + Hour
       \/ decisions[j].ts >= decisions[i].ts + Hour

\* Who is told of an exhausted budget finds its trip in the table.
Told ==
  at = "reply" /\ job.code = "RATE_LIMITED" =>
    trips_of(last_hour(job.ts), IF job.dest = Rejected THEN "auto_rejects"
                                ELSE "submissions") # {}

\* The window that starts at s is not over, and nothing of key in it is
\* remembered.
due(s, key) ==
  /\ s + Window > clock
  /\ ~ (key \in DOMAIN recent /\ recent[key] >= s)

\* A window has a row of each key, one more for each restart, and one less
\* while the next row of the key is still to come.
Coalesced ==
  \A s \in Nat, key \in Key : key.event \in proxied =>
    Cardinality(of_key(in_span(s, Window), key)) <=
      restarts + (IF due(s, key) THEN 0 ELSE 1)

CountInv ==
  /\ Timely /\ Charged /\ Room /\ Budgets /\ Trips /\ Told /\ Coalesced

\* What is in the table is a row.
LEMMA RowType ==
  ASSUME Typed, NEW i \in DOMAIN decisions
  PROVE  decisions[i] \in Row /\ decisions[i].ts \in Nat
<1>1. decisions[i] \in Row
  BY DEF Typed, TypeOK
<1> QED
  BY <1>1 DEF Row

\* The queries return sets of indices, whose size is a number.
LEMMA Countable ==
  ASSUME Typed, NEW a, NEW b, NEW event, NEW key, NEW label
  PROVE  /\ IsFiniteSet(of_event(in_span(a, b), event))
         /\ IsFiniteSet(of_event(last_hour(a), event))
         /\ IsFiniteSet(of_key(in_span(a, b), key))
         /\ IsFiniteSet(trips_of(in_span(a, b), label))
         /\ IsFiniteSet(trips_of(last_hour(a), label))
<1>1. IsFiniteSet(DOMAIN decisions)
  <2>1. DOMAIN decisions = 1 .. Len(decisions) /\ Len(decisions) \in Nat
    BY DEF Typed, TypeOK
  <2> QED
    BY <2>1, FS_Interval
<1>2. /\ of_event(in_span(a, b), event) \subseteq DOMAIN decisions
      /\ of_event(last_hour(a), event) \subseteq DOMAIN decisions
      /\ of_key(in_span(a, b), key) \subseteq DOMAIN decisions
      /\ trips_of(in_span(a, b), label) \subseteq DOMAIN decisions
      /\ trips_of(last_hour(a), label) \subseteq DOMAIN decisions
  BY DEF in_span, last_hour, of_event, of_key, trips_of
<1> QED
  BY <1>1, <1>2, FS_Subset

\* A table that stays as it is keeps its counts.
LEMMA CountsStay ==
  ASSUME UNCHANGED decisions,
         NEW CONSTANT a, NEW CONSTANT b, NEW CONSTANT c
  PROVE  /\ of_event(in_span(a, b), c)' = of_event(in_span(a, b), c)
         /\ of_event(last_hour(a), c)' = of_event(last_hour(a), c)
         /\ of_key(in_span(a, b), c)' = of_key(in_span(a, b), c)
         /\ trips_of(last_hour(a), c)' = trips_of(last_hour(a), c)
BY DEF in_span, last_hour, of_event, of_key, trips_of

\* A set grown by one is larger by one at most.
LEMMA OneMore ==
  ASSUME NEW S, NEW x, IsFiniteSet(S)
  PROVE  /\ Cardinality(S) \in Nat /\ Cardinality(S \cup {x}) \in Nat
         /\ Cardinality(S \cup {x}) <= Cardinality(S) + 1
<1>1. /\ IsFiniteSet(S \cup {x}) /\ Cardinality(S) \in Nat
      /\ \/ Cardinality(S \cup {x}) = Cardinality(S)
         \/ Cardinality(S \cup {x}) = Cardinality(S) + 1
  BY FS_AddElement, FS_CardinalityType
<1> QED
  BY <1>1

\* A row more in the table is one more for the queries that select it.
LEMMA CountsGrow ==
  ASSUME Typed, NEW row \in Row, decisions' = Append(decisions, row),
         NEW CONSTANT a, NEW CONSTANT b, NEW CONSTANT c
  PROVE  /\ of_event(in_span(a, b), c)' =
              IF row.ts \in a .. a + b - 1 /\ row.key.event = c
              THEN of_event(in_span(a, b), c) \cup {Len(decisions) + 1}
              ELSE of_event(in_span(a, b), c)
         /\ of_key(in_span(a, b), c)' =
              IF row.ts \in a .. a + b - 1 /\ row.key = c
              THEN of_key(in_span(a, b), c) \cup {Len(decisions) + 1}
              ELSE of_key(in_span(a, b), c)
<1> DEFINE new == Len(decisions) + 1
<1>1. /\ new \notin DOMAIN decisions
      /\ DOMAIN decisions' = DOMAIN decisions \cup {new}
      /\ decisions'[new] = row
      /\ \A i \in DOMAIN decisions : decisions'[i] = decisions[i]
  BY AppendRow
<1> HIDE DEF new
<1>2. /\ in_span(a, b)' = {i \in DOMAIN decisions' :
                             decisions'[i].ts \in a .. a + b - 1}
      /\ in_span(a, b) = {i \in DOMAIN decisions :
                            decisions[i].ts \in a .. a + b - 1}
  BY DEF in_span
<1>3. /\ of_event(in_span(a, b), c)' =
           {i \in in_span(a, b)' : decisions'[i].key.event = c}
      /\ of_event(in_span(a, b), c) =
           {i \in in_span(a, b) : decisions[i].key.event = c}
      /\ of_key(in_span(a, b), c)' =
           {i \in in_span(a, b)' : decisions'[i].key = c}
      /\ of_key(in_span(a, b), c) =
           {i \in in_span(a, b) : decisions[i].key = c}
  BY DEF of_event, of_key
<1>4. in_span(a, b)' = in_span(a, b) \cup (IF row.ts \in a .. a + b - 1 THEN {new}
                                                               ELSE {})
  BY <1>1, <1>2
<1>5. in_span(a, b) \subseteq DOMAIN decisions
  BY <1>2
<1> HIDE DEF in_span
<1>6. of_event(in_span(a, b), c)' =
        IF row.ts \in a .. a + b - 1 /\ row.key.event = c
        THEN of_event(in_span(a, b), c) \cup {new}
        ELSE of_event(in_span(a, b), c)
  BY <1>1, <1>3, <1>4, <1>5
<1>7. of_key(in_span(a, b), c)' =
        IF row.ts \in a .. a + b - 1 /\ row.key = c
        THEN of_key(in_span(a, b), c) \cup {new}
        ELSE of_key(in_span(a, b), c)
  BY <1>1, <1>3, <1>4, <1>5
<1> QED
  BY <1>6, <1>7 DEF new

LEMMA CountInvInit == Init => CountInv
<1> SUFFICES ASSUME Init PROVE CountInv
  OBVIOUS
<1> USE LogAssumption
<1>1. decisions = <<>> /\ DOMAIN decisions = {} /\ DOMAIN recent = {}
  BY DEF Init, NothingRecent
<1>2. \A a, b, c : of_event(in_span(a, b), c) = {}
                   /\ of_key(in_span(a, b), c) = {}
  BY <1>1 DEF of_event, of_key, in_span
<1>3. Budgets
  <2> SUFFICES ASSUME NEW s \in Nat, NEW event \in Capped
               PROVE  Cardinality(of_event(in_span(s, Hour), event))
                        <= cap(event)
    BY DEF Budgets
  <2>1. cap(event) \in Nat
    BY DEF cap
  <2>2. of_event(in_span(s, Hour), event) = {}
    BY <1>2
  <2> QED
    BY <2>1, <2>2, FS_EmptySet
<1>4. Coalesced
  <2> SUFFICES ASSUME NEW s \in Nat, NEW key \in Key
               PROVE  Cardinality(of_key(in_span(s, Window), key)) <=
                        restarts + (IF due(s, key) THEN 0 ELSE 1)
    BY DEF Coalesced
  <2>1. restarts = 0
    BY DEF Init
  <2>2. of_key(in_span(s, Window), key) = {}
    BY <1>2
  <2> QED
    BY <2>1, <2>2, FS_EmptySet
<1> QED
  BY <1>1, <1>3, <1>4 DEF Init, CountInv, Timely, Charged, Room, Trips, Told,
                          NoJob, proxied

\* Only a row can break a budget or the distance of two trips.
LEMMA TableStays ==
  ASSUME Typed, CountInv, UNCHANGED decisions
  PROVE  Budgets' /\ Trips'
<1>1. Budgets'
  <2> SUFFICES ASSUME NEW s \in Nat, NEW event \in Capped
               PROVE  Cardinality(of_event(in_span(s, Hour), event)')
                        <= cap(event)
    BY DEF Budgets
  <2>1. of_event(in_span(s, Hour), event)' =
          of_event(in_span(s, Hour), event)
    BY CountsStay
  <2> QED
    BY <2>1 DEF CountInv, Budgets
<1>2. Trips'
  BY DEF CountInv, Trips
<1> QED
  BY <1>1, <1>2

\* Nor can coalescing fail but by a row, or by the broker forgetting one.
LEMMA WindowStays ==
  ASSUME Typed, CountInv, UNCHANGED decisions, restarts' \in Nat,
         \/ restarts' >= restarts + 1
         \/ /\ restarts' = restarts
            /\ \A s \in Nat, key \in Key :
                 key.event \in proxied /\ due(s, key)' => due(s, key)
  PROVE  Coalesced'
<1> USE LogAssumption
<1> SUFFICES ASSUME NEW s \in Nat, NEW key \in Key, key.event \in proxied
             PROVE  Cardinality(of_key(in_span(s, Window), key)') <=
                      restarts' + (IF due(s, key)' THEN 0 ELSE 1)
  BY DEF Coalesced, proxied
<1>1. of_key(in_span(s, Window), key)' =
        of_key(in_span(s, Window), key)
  BY CountsStay
<1>2. Cardinality(of_key(in_span(s, Window), key)) <=
        restarts + (IF due(s, key) THEN 0 ELSE 1)
  BY DEF CountInv, Coalesced
<1>3. /\ Cardinality(of_key(in_span(s, Window), key)) \in Nat
      /\ restarts \in Nat
  BY Countable, FS_CardinalityType DEF Typed, TypeOK
<1>4. CASE restarts' >= restarts + 1
  BY <1>1, <1>2, <1>3, <1>4
<1>5. CASE restarts' = restarts /\ (due(s, key)' => due(s, key))
  BY <1>1, <1>2, <1>3, <1>5
<1> QED
  BY <1>4, <1>5

\* What nobody touches stays due.
LEMMA DueStays ==
  ASSUME UNCHANGED <<clock, recent>>,
         NEW CONSTANT s \in Nat, NEW CONSTANT key
  PROVE  due(s, key)' = due(s, key)
BY DEF due

\* The steps that leave the table, the clock and _recent_log alone.
LEMMA QuietStep ==
  ASSUME Typed, CountInv, UNCHANGED <<decisions, clock, recent, restarts>>
  PROVE  /\ Budgets' /\ Trips' /\ Coalesced'
         /\ (at' # "idle" => job'.ts = clock) => Timely'
<1>1. \A s \in Nat, key \in Key : due(s, key)' = due(s, key)
  BY DueStays
<1>2. restarts' \in Nat /\ restarts' = restarts
  BY DEF Typed, TypeOK
<1>3. Coalesced'
  BY <1>1, <1>2, WindowStays
<1>4. (at' # "idle" => job'.ts = clock) => Timely'
  BY DEF CountInv, Timely
<1> QED
  BY <1>3, <1>4, TableStays

\* What a write of the log remembers: an event of now, and of the others all
\* that may still be repeated.
LEMMA Remembering ==
  ASSUME Typed, CountInv, at = "log", ~ coalesced(job),
         recent' = IF job.actor = "proxy" THEN noted(key_of(job), job.ts)
                                          ELSE recent,
         clock' = clock
  PROVE  /\ \A k \in DOMAIN recent' : recent'[k] <= clock'
         /\ job.actor = "proxy" =>
              key_of(job) \in DOMAIN recent' /\ recent'[key_of(job)] = clock
         /\ \A s \in Nat, key \in Key : due(s, key)' => due(s, key)
         /\ \A s \in Nat : job.actor = "proxy" /\ s <= clock
              /\ clock <= s + Window - 1 => due(s, key_of(job))
<1> USE LogAssumption
<1>1. job.ts = clock /\ clock \in Nat
  BY DEF CountInv, Timely, Typed, TypeOK
<1>2. \A k \in DOMAIN recent : recent[k] <= clock /\ recent[k] \in Nat
  BY DEF CountInv, Timely, Typed
<1>3. CASE job.actor = "proxy"
  <2>1. /\ key_of(job) \in DOMAIN recent' /\ recent'[key_of(job)] = clock
        /\ \A k \in DOMAIN recent' :
             k # key_of(job) => k \in DOMAIN recent /\ recent'[k] = recent[k]
        /\ \A k \in DOMAIN recent :
             k \notin DOMAIN recent' => clock - recent[k] >= Window
    BY <1>1, <1>3, NotedProperties DEF Typed
  <2>2. key_of(job) \in DOMAIN recent => clock - recent[key_of(job)] >= Window
    <3>1. key_of(job) \in DOMAIN recent =>
            ~ (clock - recent[key_of(job)] < Window)
      BY <1>1, <1>3 DEF coalesced
    <3> QED
      BY <1>1, <1>2, <3>1
  <2>3. ASSUME NEW s \in Nat, NEW key \in Key, due(s, key)'
        PROVE  due(s, key)
    <3>1. /\ s + Window > clock
          /\ ~ (key \in DOMAIN recent' /\ recent'[key] >= s)
      BY <2>3 DEF due
    <3>2. SUFFICES ASSUME key \in DOMAIN recent, recent[key] >= s PROVE FALSE
      BY <3>1 DEF due
    <3>3. recent[key] \in Nat /\ recent[key] <= clock
      BY <1>2, <3>2
    <3>4. CASE key = key_of(job)
      BY <1>1, <2>1, <3>1, <3>2, <3>3, <3>4
    <3>5. CASE key # key_of(job) /\ key \in DOMAIN recent'
      BY <2>1, <3>1, <3>2, <3>5
    <3>6. CASE key \notin DOMAIN recent'
      <4>1. clock - recent[key] >= Window
        BY <2>1, <3>2, <3>6
      <4> QED
        BY <1>1, <3>1, <3>2, <3>3, <4>1
    <3> QED
      BY <3>4, <3>5, <3>6
  <2>4. ASSUME NEW s \in Nat, s <= clock, clock <= s + Window - 1
        PROVE  due(s, key_of(job))
    <3>1. s + Window > clock
      BY <1>1, <2>4
    <3>2. key_of(job) \in DOMAIN recent => ~ (recent[key_of(job)] >= s)
      BY <1>1, <1>2, <2>2, <2>4
    <3> QED
      BY <3>1, <3>2 DEF due
  <2>5. \A k \in DOMAIN recent' : recent'[k] <= clock
    BY <1>1, <1>2, <2>1
  <2> QED
    BY <1>3, <2>1, <2>3, <2>4, <2>5
<1>4. CASE job.actor # "proxy"
  <2>1. recent' = recent
    BY <1>4
  <2> QED
    BY <1>2, <1>4, <2>1 DEF due
<1> QED
  BY <1>3, <1>4

\* A row is written where its event has room and its window nothing of it.
LEMMA RowStep ==
  ASSUME Typed, CountInv, Log, ~ coalesced(job),
         Commit, job' = job, at' = "reply",
         recent' = IF job.actor = "proxy" THEN noted(key_of(job), job.ts)
                                          ELSE recent,
         decisions' = Append(decisions,
                             [ts |-> job.ts, key |-> key_of(job)])
  PROVE  CountInv'
<1> USE LogAssumption
<1> DEFINE row == [ts |-> job.ts, key |-> key_of(job)]
           new == Len(decisions) + 1
<1>1. /\ at = "log" /\ job.ts = clock /\ clock \in Nat /\ job \in Job
      /\ restarts \in Nat /\ UNCHANGED <<clock, restarts>>
  BY DEF Log, CountInv, Timely, Typed, TypeOK
<1>2. row \in Row /\ row.ts = clock /\ row.key = key_of(job)
      /\ row.key.event = job.event
  BY <1>1, KeyType DEF Row, Job, key_of
<1>3. decisions' = Append(decisions, row)
  OBVIOUS
<1> HIDE DEF row
<1>4. /\ new \notin DOMAIN decisions
      /\ DOMAIN decisions' = DOMAIN decisions \cup {new}
      /\ decisions'[new] = row
      /\ \A i \in DOMAIN decisions : decisions'[i] = decisions[i]
  BY <1>2, <1>3, AppendRow
<1> HIDE DEF new
<1>6. Timely'
  BY <1>1, <1>2, <1>4, Remembering DEF CountInv, Timely
<1>7. Charged' /\ Room'
  BY DEF CountInv, Charged, Room, proxied
<1>8. Budgets'
  <2> SUFFICES ASSUME NEW s \in Nat, NEW event \in Capped
               PROVE  Cardinality(of_event(in_span(s, Hour), event)')
                        <= cap(event)
    BY DEF Budgets
  <2> DEFINE before == of_event(in_span(s, Hour), event)
  <2>0. cap(event) \in Nat
    BY DEF cap
  <2>1. of_event(in_span(s, Hour), event)' =
          IF row.ts \in s .. (s + Hour - 1) /\ row.key.event = event
          THEN before \cup {Len(decisions) + 1} ELSE before
    BY <1>2, <1>3, CountsGrow
  <2>2. IsFiniteSet(before) /\ Cardinality(before) <= cap(event)
    BY Countable DEF CountInv, Budgets
  <2>3. CASE row.ts \in s .. (s + Hour - 1) /\ row.key.event = event
    <3> DEFINE counted == of_event(last_hour(clock), event)
    <3>1. before \subseteq counted
      <4> SUFFICES ASSUME NEW i \in DOMAIN decisions,
                          decisions[i].ts \in s .. (s + Hour - 1)
                   PROVE  decisions[i].ts > clock - Hour
        BY DEF of_event, in_span, last_hour
      <4>1. decisions[i].ts \in Nat
        BY RowType
      <4> QED
        BY <1>1, <1>2, <2>3, <4>1
    <3>2. Cardinality(counted) < cap(event) /\ IsFiniteSet(counted)
      BY <1>1, <1>2, <2>3, Countable DEF CountInv, Room
    <3> HIDE DEF counted, before
    <3>3. /\ Cardinality(before) <= Cardinality(counted)
          /\ Cardinality(counted) \in Nat
      BY <3>1, <3>2, FS_Subset, FS_CardinalityType
    <3>4. /\ Cardinality(before) \in Nat
          /\ Cardinality(before \cup {Len(decisions) + 1}) \in Nat
          /\ Cardinality(before \cup {Len(decisions) + 1}) <=
               Cardinality(before) + 1
      BY <2>2, OneMore
    <3>5. of_event(in_span(s, Hour), event)' =
            before \cup {Len(decisions) + 1}
      BY <2>1, <2>3
    <3> QED
      BY <2>0, <3>2, <3>3, <3>4, <3>5
  <2> QED
    BY <2>1, <2>2, <2>3
<1>9. Trips'
  <2>1. ASSUME NEW i \in DOMAIN decisions, job.event = "rate_limit_trip",
               decisions[i].key.event = "rate_limit_trip",
               decisions[i].key.about = row.key.about
        PROVE  row.ts >= decisions[i].ts + Hour
    <3>1. i \notin trips_of(last_hour(clock), row.key.about)
      BY <1>1, <1>2, <2>1 DEF CountInv, Room
    <3>2. ~ (decisions[i].ts > clock - Hour)
      BY <2>1, <3>1 DEF trips_of, of_event, last_hour
    <3>3. decisions[i].ts \in Nat
      BY RowType
    <3> QED
      BY <1>1, <1>2, <3>2, <3>3
  <2> SUFFICES ASSUME NEW i \in DOMAIN decisions', NEW j \in DOMAIN decisions',
                      i # j,
                      decisions'[i].key.event = "rate_limit_trip",
                      decisions'[j].key.event = "rate_limit_trip",
                      decisions'[i].key.about = decisions'[j].key.about
               PROVE  \/ decisions'[i].ts >= decisions'[j].ts + Hour
                      \/ decisions'[j].ts >= decisions'[i].ts + Hour
    BY DEF Trips
  <2>2. CASE i = new
    BY <1>2, <1>4, <2>1, <2>2
  <2>3. CASE j = new
    BY <1>2, <1>4, <2>1, <2>3
  <2>4. CASE i # new /\ j # new
    BY <1>4, <2>4 DEF CountInv, Trips
  <2> QED
    BY <2>2, <2>3, <2>4
<1>10. Told'
  <2> SUFFICES ASSUME job.code = "RATE_LIMITED"
               PROVE  \E i \in DOMAIN decisions' :
                        /\ decisions'[i].ts > job.ts - Hour
                        /\ decisions'[i].key.event = "rate_limit_trip"
                        /\ decisions'[i].key.about =
                             IF job.dest = Rejected THEN "auto_rejects"
                                                    ELSE "submissions"
    BY DEF Told, trips_of, of_event, last_hour
  <2>1. row.key.event = "rate_limit_trip"
    BY <1>1, <1>2 DEF CountInv, Charged
  <2>2. row.key.about = IF job.dest = Rejected THEN "auto_rejects"
                                               ELSE "submissions"
    BY <1>2, <2>1 DEF key_of
  <2>3. row.ts > job.ts - Hour
    BY <1>1, <1>2
  <2> QED
    BY <1>4, <2>1, <2>2, <2>3
<1>11. Coalesced'
  <2> SUFFICES ASSUME NEW s \in Nat, NEW key \in Key, key.event \in proxied
               PROVE  Cardinality(of_key(in_span(s, Window), key)') <=
                        restarts' + (IF due(s, key)' THEN 0 ELSE 1)
    BY DEF Coalesced, proxied
  <2> DEFINE before == of_key(in_span(s, Window), key)
  <2>1. of_key(in_span(s, Window), key)' =
          IF row.ts \in s .. (s + Window - 1) /\ row.key = key
          THEN before \cup {Len(decisions) + 1} ELSE before
    BY <1>2, <1>3, CountsGrow
  <2>2. IsFiniteSet(before) /\ Cardinality(before) \in Nat
        /\ Cardinality(before) <= restarts + (IF due(s, key) THEN 0 ELSE 1)
    BY Countable, FS_CardinalityType DEF CountInv, Coalesced
  <2>3. due(s, key)' => due(s, key)
    BY <1>1, Remembering
  <2> HIDE DEF before
  <2>4. CASE row.ts \in s .. (s + Window - 1) /\ row.key = key
    <3>1. job.actor = "proxy"
      BY <1>2, <2>4 DEF CountInv, Charged
    <3>2. due(s, key)
      BY <1>1, <1>2, <2>4, <3>1, Remembering
    <3>3. ~ due(s, key)'
      <4>1. key \in DOMAIN recent' /\ recent'[key] = clock
        BY <1>1, <1>2, <2>4, <3>1, Remembering
      <4> QED
        BY <1>1, <1>2, <2>4, <4>1 DEF due
    <3>4. /\ Cardinality(before \cup {Len(decisions) + 1}) \in Nat
          /\ Cardinality(before \cup {Len(decisions) + 1}) <=
               Cardinality(before) + 1
      BY <2>2, OneMore
    <3> QED
      BY <1>1, <2>1, <2>2, <2>4, <3>2, <3>3, <3>4
  <2>5. CASE ~ (row.ts \in s .. (s + Window - 1) /\ row.key = key)
    BY <1>1, <2>1, <2>2, <2>3, <2>5
  <2> QED
    BY <2>4, <2>5
<1> QED
  BY <1>6, <1>7, <1>8, <1>9, <1>10, <1>11 DEF CountInv

\* What the clock does to the window.
LEMMA TickStep ==
  ASSUME Typed, CountInv, Tick
  PROVE  CountInv'
<1> USE LogAssumption
<1>1. /\ at = "idle" /\ clock' = clock + 1 /\ clock \in Nat
      /\ UNCHANGED <<decisions, recent, at, job, restarts>>
  BY DEF Tick, Typed, TypeOK
<1>2. Timely'
  <2>1. \A i \in DOMAIN decisions :
          decisions[i].ts \in Nat /\ decisions[i].ts <= clock
    BY RowType DEF CountInv, Timely
  <2>2. \A k \in DOMAIN recent : recent[k] \in Nat /\ recent[k] <= clock
    BY DEF CountInv, Timely, Typed
  <2> QED
    BY <1>1, <2>1, <2>2 DEF Timely
<1>3. Coalesced'
  <2>1. \A s \in Nat, key \in Key : due(s, key)' => due(s, key)
    BY <1>1 DEF due
  <2>2. restarts' \in Nat /\ restarts' = restarts
    BY <1>1 DEF Typed, TypeOK
  <2> QED
    BY <1>1, <2>1, <2>2, WindowStays
<1>4. Charged' /\ Room' /\ Told'
  BY <1>1 DEF CountInv, Charged, Room, Told, proxied
<1> QED
  BY <1>1, <1>2, <1>3, <1>4, TableStays DEF CountInv

\* What a restart forgets is counted.
LEMMA RestartStep ==
  ASSUME Typed, CountInv, BrokerRestart
  PROVE  CountInv'
<1>1. /\ restarts' = restarts + 1 /\ DOMAIN recent' = {}
      /\ at' = "idle" /\ job' = NoJob /\ UNCHANGED <<decisions, clock>>
  BY DEF BrokerRestart, Go, NothingRecent
<1>2. restarts' \in Nat /\ restarts' >= restarts + 1
  BY <1>1 DEF Typed, TypeOK
<1>3. Timely'
  BY <1>1 DEF CountInv, Timely
<1>4. Charged' /\ Room' /\ Told'
  BY <1>1 DEF Charged, Room, Told, proxied, NoJob
<1> QED
  BY <1>1, <1>2, <1>3, <1>4, TableStays, WindowStays DEF CountInv

\* The budget is counted in the step that decides on it.
LEMMA BudgetStep ==
  ASSUME Typed, CountInv, BudgetHit
  PROVE  CountInv'
<1>1. /\ at = "budget" /\ job \in Job
      /\ job.event = IF job.dest = Rejected THEN "auto_reject"
                                            ELSE "submission"
      /\ job.code # "RATE_LIMITED" /\ job.actor # "proxy"
  BY BudgetMoves DEF CountInv, Charged, proxied, Typed, TypeOK
<1>2. /\ UNCHANGED <<decisions, clock, recent, restarts>>
      /\ job'.ts = job.ts /\ job'.dest = job.dest /\ job'.actor = job.actor
  BY BudgetMoves
<1>3. Budgets' /\ Trips' /\ Coalesced' /\ Timely'
  BY <1>1, <1>2, QuietStep DEF CountInv, Timely
<1>4. label_of(job.event) = IF job.dest = Rejected THEN "auto_rejects"
                                                   ELSE "submissions"
  BY <1>1 DEF label_of
<1>5. \A ts, c : /\ of_event(last_hour(ts), c)' = of_event(last_hour(ts), c)
                 /\ trips_of(last_hour(ts), c)' = trips_of(last_hour(ts), c)
  BY <1>2, CountsStay
<1> DEFINE label == label_of(job.event)
<1>6. CASE /\ job' = job
           /\ at' = IF job.event = "submission" THEN "match" ELSE "log"
           /\ events_last_hour(job.event, job.ts) < cap(job.event)
  <2>1. Charged' /\ Told'
    BY <1>1, <1>6 DEF CountInv, Charged, Told, proxied
  <2>2. Room'
    BY <1>1, <1>5, <1>6 DEF Room, events_last_hour, Capped, cap
  <2> QED
    BY <1>3, <2>1, <2>2 DEF CountInv
<1>7. CASE /\ job'.event = "rate_limit_trip"
           /\ job'.code = "RATE_LIMITED" /\ at' = "log"
           /\ trips(label, job.ts) = 0
  <2>1. Charged' /\ Told'
    BY <1>1, <1>2, <1>7 DEF Charged, Told, proxied
  <2>2. trips_of(last_hour(job.ts), label) = {}
    BY <1>7, Countable, FS_EmptySet DEF trips
  <2>3. key_of(job)'.about = label
    BY <1>2, <1>4, <1>7 DEF key_of
  <2>4. Room'
    <3> SUFFICES ASSUME NEW ts, ts = job'.ts,
                        NEW about, about = key_of(job)'.about
                 PROVE  trips_of(last_hour(ts), about)' = {}
      BY <1>7 DEF Room, Capped
    <3>1. ts = job.ts /\ about = label
      BY <1>2, <2>3
    <3> QED
      BY <1>5, <2>2, <3>1
  <2> QED
    BY <1>3, <2>1, <2>4 DEF CountInv
<1>8. CASE /\ job'.event = job.event
           /\ job'.code = "RATE_LIMITED" /\ at' = "reply"
           /\ trips(label, job.ts) # 0
  <2>1. Charged' /\ Room'
    BY <1>1, <1>2, <1>8 DEF Charged, Room, proxied
  <2>2. trips_of(last_hour(job.ts), label) # {}
    BY <1>8, FS_EmptySet DEF trips
  <2>3. Told'
    BY <1>2, <1>4, <1>5, <2>2 DEF Told
  <2> QED
    BY <1>3, <2>1, <2>3 DEF CountInv
<1> QED
  BY <1>6, <1>7, <1>8, BudgetMoves

LEMMA CountInvStep == ASSUME Typed, CountInv, [Next]_vars PROVE CountInv'
<1> USE LogAssumption
<1>0. job \in Job /\ clock \in Nat /\ (at # "idle" => job.ts = clock)
  BY DEF Typed, TypeOK, CountInv, Timely
<1>1. CASE AclCheck \/ AclReject \/ Submit \/ AutoReject
  <2>1. /\ job'.ts = clock
        /\ UNCHANGED <<decisions, clock, recent, restarts>>
        /\ \/ /\ at' = "match" /\ job'.actor = "proxy"
              /\ job'.event = "proxy_deny" /\ job'.code = "NONE"
           \/ /\ at' = "log" /\ job'.actor = "proxy"
              /\ job'.event = "proxy_deny" /\ job'.code = "REJECTED"
           \/ /\ at' = "budget" /\ job'.actor = "agent"
              /\ job'.code = "NONE"
              /\ job'.event = "submission" /\ job'.dest # Rejected
           \/ /\ at' = "budget" /\ job'.actor = "agent"
              /\ job'.code = "REJECTED"
              /\ job'.event = "auto_reject" /\ job'.dest = Rejected
    BY <1>0, <1>1, StartsAt
  <2>2. Budgets' /\ Trips' /\ Coalesced' /\ Timely'
    BY <2>1, QuietStep
  <2>3. Charged' /\ Room' /\ Told'
    BY <2>1 DEF Charged, Room, Told, proxied, Capped
  <2> QED
    BY <2>2, <2>3 DEF CountInv
<1>2. CASE BudgetHit
  BY <1>2, BudgetStep
<1>3. CASE Match
  <2>1. /\ at = "match" /\ at' \in {"queue", "log"}
        /\ job'.actor = job.actor /\ job'.ts = job.ts
        /\ UNCHANGED <<decisions, clock, recent, restarts>>
        /\ job'.code \in {"ALLOWED", "PENDING"}
        /\ job'.event \in {job.event, "proxy_allow"}
        /\ job'.event = "proxy_allow" => job.event \in proxied
        /\ job'.code = "ALLOWED" \/ job'.event = job.event
    <3>1. job.actor = "proxy" => job.event \in proxied
      BY DEF CountInv, Charged
    <3> QED
      BY <1>3, <3>1, MatchMoves DEF proxied
  <2>2. Budgets' /\ Trips' /\ Coalesced' /\ Timely'
    BY <1>0, <2>1, QuietStep
  <2>3. Charged' /\ Told'
    BY <1>3, <2>1, MatchMoves DEF CountInv, Charged, Told, proxied
  <2>4. Room'
    <3>1. job'.event # "rate_limit_trip"
      BY <2>1 DEF CountInv, Charged, proxied
    <3> SUFFICES ASSUME NEW ts, ts = job'.ts, NEW event \in Capped,
                        event = job'.event
                 PROVE  Cardinality(of_event(last_hour(ts), event)')
                          < cap(event)
      BY <3>1 DEF Room
    <3>2. ts = job.ts /\ event = job.event
      BY <2>1 DEF Capped
    <3>3. Cardinality(of_event(last_hour(ts), event)) < cap(event)
      BY <2>1, <3>2 DEF CountInv, Room
    <3>4. of_event(last_hour(ts), event)' = of_event(last_hour(ts), event)
      BY <2>1, CountsStay
    <3> QED
      BY <3>3, <3>4
  <2> QED
    BY <2>2, <2>3, <2>4 DEF CountInv
<1>4. CASE Queue
  <2>1. /\ at = "queue" /\ UNCHANGED <<decisions, clock, recent, restarts>>
        /\ job'.actor = job.actor /\ job'.event = job.event
        /\ job'.ts = job.ts
        /\ \/ job' = job /\ at' = "log"
           \/ job'.code = "BROKER_UNAVAILABLE" /\ at' = "reply"
    BY <1>4, QueueMoves, RaiseMoves
  <2>2. Budgets' /\ Trips' /\ Coalesced' /\ Timely'
    BY <1>0, <2>1, QuietStep
  <2>3. Charged' /\ Room' /\ Told'
    BY <2>1 DEF CountInv, Charged, Room, Told, proxied, Capped, of_event,
                trips_of, last_hour
  <2> QED
    BY <2>2, <2>3 DEF CountInv
<1>5. CASE Log
  <2>1. at = "log" /\ UNCHANGED <<clock, restarts>>
    BY <1>5, LogMoves
  <2>2. CASE /\ coalesced(job) /\ job' = job /\ at' = "reply"
             /\ UNCHANGED <<decisions, recent>>
    <3>1. Budgets' /\ Trips' /\ Coalesced' /\ Timely'
      BY <1>0, <2>1, <2>2, QuietStep
    <3>2. Charged' /\ Room'
      BY <2>1, <2>2 DEF CountInv, Charged, Room, proxied
    <3>3. Told'
      BY <2>1, <2>2 DEF CountInv, Charged, Told, proxied, coalesced
    <3> QED
      BY <3>1, <3>2, <3>3 DEF CountInv
  <2>3. CASE /\ ~ coalesced(job) /\ Raise /\ Unavailable
             /\ UNCHANGED decisions
             /\ recent' = IF job.actor = "proxy"
                          THEN noted(key_of(job), job.ts) ELSE recent
    <3>1. /\ job'.actor = job.actor /\ job'.event = job.event
          /\ job'.ts = job.ts /\ at' = "reply"
          /\ job'.code = "BROKER_UNAVAILABLE"
      BY <2>3, RaiseMoves
    <3>2. Timely'
      BY <1>0, <2>1, <2>3, <3>1, Remembering DEF CountInv, Timely
    <3>3. Coalesced'
      <4>1. \A s \in Nat, key \in Key : due(s, key)' => due(s, key)
        BY <2>1, <2>3, Remembering
      <4>2. restarts' \in Nat /\ restarts' = restarts
        BY <2>1 DEF Typed, TypeOK
      <4> QED
        BY <2>3, <4>1, <4>2, WindowStays
    <3>4. Charged' /\ Room' /\ Told'
      BY <3>1 DEF CountInv, Charged, Room, Told, proxied
    <3> QED
      BY <2>3, <3>2, <3>3, <3>4, TableStays DEF CountInv
  <2>4. CASE /\ ~ coalesced(job) /\ Commit /\ job' = job /\ at' = "reply"
             /\ recent' = IF job.actor = "proxy"
                          THEN noted(key_of(job), job.ts) ELSE recent
             /\ decisions' = Append(decisions,
                                    [ts |-> job.ts, key |-> key_of(job)])
    BY <1>5, <2>4, RowStep
  <2> QED
    BY <1>5, <2>2, <2>3, <2>4, LogMoves
<1>6. CASE Reply
  <2>1. /\ at' = "idle" /\ job' = NoJob
        /\ UNCHANGED <<decisions, clock, recent, restarts>>
    BY <1>6 DEF Reply, Go
  <2>2. Charged' /\ Room' /\ Told'
    BY <2>1 DEF Charged, Room, Told, NoJob, proxied
  <2> QED
    BY <2>1, <2>2, QuietStep DEF CountInv
<1>7. CASE BrokerRestart
  BY <1>7, RestartStep
<1>8. CASE OtherCommit \/ UNCHANGED vars
  <2>1. UNCHANGED <<decisions, clock, recent, restarts, at, job>>
    BY <1>8 DEF OtherCommit, vars
  <2>2. Charged' /\ Room' /\ Told'
    BY <2>1 DEF CountInv, Charged, Room, Told, proxied, Capped, of_event,
                trips_of, last_hour, key_of
  <2> QED
    BY <1>0, <2>1, <2>2, QuietStep DEF CountInv
<1>9. CASE Tick
  BY <1>9, TickStep
<1> QED
  BY <1>1, <1>2, <1>3, <1>4, <1>5, <1>6, <1>7, <1>8, <1>9 DEF Next

----------------------------------------------------------------------------

\* Repeats of a proxy event leave one row a window and one more a restart:
\* a write that fails cannot add to them, and the sweep of _recent_log
\* forgets nothing that could still be repeated.
THEOREM ProxyCannotFlood == Spec => []NoFlood
<1>1. Typed /\ CountInv => NoFlood
  <2> SUFFICES ASSUME Typed, CountInv, NEW i \in DOMAIN decisions,
                      decisions[i].key.event \in proxied
               PROVE  Cardinality(of_key(in_span(decisions[i].ts, Window),
                                         decisions[i].key)) <= 1 + restarts
    BY DEF NoFlood
  <2> DEFINE s == decisions[i].ts
             key == decisions[i].key
  <2>1. decisions[i] \in Row /\ restarts \in Nat
    BY DEF Typed, TypeOK
  <2>2. s \in Nat /\ key \in Key /\ key.event \in proxied
    BY <2>1 DEF Row
  <2> HIDE DEF s, key
  <2>3. /\ Cardinality(of_key(in_span(s, Window), key)) <=
             restarts + (IF due(s, key) THEN 0 ELSE 1)
        /\ Cardinality(of_key(in_span(s, Window), key)) \in Nat
    BY <2>2, Countable, FS_CardinalityType DEF CountInv, Coalesced
  <2>4. Cardinality(of_key(in_span(s, Window), key)) <= 1 + restarts
    BY <2>1, <2>3
  <2> QED
    BY <2>4 DEF s, key
<1> QED
  BY TypedInit, TypedStep, CountInvInit, CountInvStep, <1>1, PTL DEF Spec

\* No hour of the table holds more submissions or rejections than the budget
\* of that event, however often the broker is started again.
THEOREM BudgetsAreKept == Spec => []BudgetsHold
<1>1. Typed /\ CountInv => BudgetsHold
  <2> SUFFICES ASSUME Typed, CountInv, NEW i \in DOMAIN decisions,
                      NEW event \in Capped
               PROVE  Cardinality(of_event(in_span(decisions[i].ts, Hour),
                                           event)) <= cap(event)
    BY DEF BudgetsHold, Capped
  <2>1. decisions[i].ts \in Nat
    BY RowType
  <2> QED
    BY <2>1 DEF CountInv, Budgets
<1> QED
  BY TypedInit, TypedStep, CountInvInit, CountInvStep, <1>1, PTL DEF Spec

\* An exhausted budget has its trip, once an hour, in the table when the
\* first caller is told of it and as long as any is.
THEOREM TripOncePerHour == Spec => []OneTripPerWindow
<1> USE LogAssumption
<1>1. Typed /\ CountInv => OneTripPerWindow
  <2> SUFFICES ASSUME Typed, CountInv PROVE OneTripPerWindow
    OBVIOUS
  <2>1. ASSUME NEW i \in DOMAIN decisions, NEW label \in Label
        PROVE  Cardinality(trips_of(in_span(decisions[i].ts, Hour), label))
                 <= 1
    <3> DEFINE found == trips_of(in_span(decisions[i].ts, Hour), label)
    <3>1. \A j, k \in found : j = k
      <4> SUFFICES ASSUME NEW j \in found, NEW k \in found, j # k
                   PROVE  FALSE
        OBVIOUS
      <4>1. /\ j \in DOMAIN decisions /\ k \in DOMAIN decisions
            /\ decisions[j].key.event = "rate_limit_trip"
            /\ decisions[k].key.event = "rate_limit_trip"
            /\ decisions[j].key.about = decisions[k].key.about
            /\ decisions[j].ts \in decisions[i].ts .. decisions[i].ts + Hour - 1
            /\ decisions[k].ts \in decisions[i].ts .. decisions[i].ts + Hour - 1
        BY DEF trips_of, of_event, in_span
      <4>2. \/ decisions[j].ts >= decisions[k].ts + Hour
            \/ decisions[k].ts >= decisions[j].ts + Hour
        BY <4>1 DEF CountInv, Trips
      <4>3. /\ decisions[i].ts \in Nat /\ decisions[j].ts \in Nat
            /\ decisions[k].ts \in Nat
        BY <4>1, RowType
      <4> QED
        BY <4>1, <4>2, <4>3
    <3> HIDE DEF found
    <3>2. found = {} \/ \E j : found = {j}
      BY <3>1
    <3>3. Cardinality(found) = 0 \/ Cardinality(found) = 1
      BY <3>2, FS_EmptySet, FS_Singleton
    <3>4. Cardinality(found) <= 1
      BY <3>3
    <3> QED
      BY <3>4 DEF found
  <2> QED
    BY <2>1 DEF OneTripPerWindow, CountInv, Told
<1> QED
  BY TypedInit, TypedStep, CountInvInit, CountInvStep, <1>1, PTL DEF Spec
=============================================================================
