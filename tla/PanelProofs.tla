---------------------------- MODULE PanelProofs ----------------------------
(***************************************************************************)
(* Proofs about the queue of requests and about the operator's operations, *)
(* which the broker's handlers and a crash may come between.               *)
(*                                                                         *)
(*   QueueInv     joins the queue to the handler about to write to it: it  *)
(*                counts and looks in one transaction and inserts in       *)
(*                another, and between them the panel may close requests   *)
(*                but only the holder of the broker's lock opens one;      *)
(*   PanelInv     an operation under way holds PanelApp.lock, the request  *)
(*                it decides is pending until it is resolved, and what it  *)
(*                will stamp is true;                                      *)
(*   ApprovalInv  a destination has an entry of source approval for every  *)
(*                approved request, one more while an approval is halfway, *)
(*                and one more for every one that was cut short;           *)
(*   GateInv      the pause setting is what the last stamp says, or what   *)
(*                an operation about to stamp it has set it to;            *)
(*   GroupInv     the rows of a group have one source and one fate.        *)
(***************************************************************************)
EXTENDS AgentFilterProofs

----------------------------------------------------------------------------
(* How a step changes the requests.                                        *)

\* A step leaves the requests alone, or is the INSERT of a thread or the
\* decision of a tab.
LEMMA RequestSteps ==
  ASSUME TypeInv, Next
  PROVE  \/ requests' = requests
         \/ \E t \in Worker : BrokerStep(t) /\ Insert(t)
         \/ UNCHANGED brokerVars /\ \E u \in Tab : Resolve(u)
<1> USE DEF InBroker, InPanel, storeVars
<1>1. ASSUME NEW t \in Worker, AclCheck(t) \/ Submit(t)
      PROVE  requests' = requests
  BY <1>1 DEF AclCheck, Submit, TakeLock
<1>2. ASSUME NEW t \in Worker,
             \/ ReadPause(t) \/ Match(t) \/ ReadDenial(t) \/ ReadExisting(t)
             \/ ReadCount(t) \/ Find(t) \/ Bump(t) \/ Consume(t) \/ Reply(t)
      PROVE  requests' = requests
  BY <1>2 DEF ReadPause, Match, ReadDenial, ReadExisting, ReadCount, Find,
              Bump, Consume, Reply
<1>3. ASSUME NEW u \in Tab, Starts(u) PROVE requests' = requests
  BY <1>3, StartsBegin DEF TypeInv, TypeOK, Begin
<1>4. ASSUME NEW u \in Tab,
             AddRow(u) \/ Retire(u) \/ SetPause(u) \/ LogEvent(u)
      PROVE  requests' = requests
  BY <1>4 DEF AddRow, Retire, SetPause, LogEvent
<1>5. ASSUME NEW c \in Terminal,
             \/ CliPause(c) \/ CliResume(c) \/ CliSet(c) \/ CliLog(c)
             \/ CliKilled(c)
      PROVE  requests' = requests
  BY <1>5 DEF CliPause, CliResume, CliBegin, CliSet, CliLog, CliKilled
<1>6. BrokerRestart \/ PanelRestart \/ Tick => requests' = requests
  BY DEF BrokerRestart, PanelRestart, Tick
<1> QED
  BY <1>1, <1>2, <1>3, <1>4, <1>5, <1>6
     DEF Next, Starts, BrokerStep, HandlerStep

\* A decision of the panel closes the request it is about and no other.
LEMMA ResolveCloses ==
  ASSUME TypeInv, NEW u \in Tab, Resolve(u)
  PROVE  /\ DOMAIN requests' = DOMAIN requests
         /\ pending_ids' = pending_ids \ {task[u].id}
         /\ task[u].id \in pending_ids =>
              requests'[task[u].id].status =
                IF task[u].op = "approve" THEN "approved" ELSE "denied"
         /\ \A r \in DOMAIN requests :
              /\ requests'[r].host = requests[r].host
              /\ requests'[r].port = requests[r].port
              /\ requests'[r].rationale = requests[r].rationale
              /\ requests[r].status # "pending" => requests'[r] = requests[r]
BY DecideRequestCloses DEF Resolve, TypeInv, TypeOK

\* The INSERT of a thread opens a request of its destination.
LEMMA InsertOpens ==
  ASSUME TypeInv, NEW t \in Worker, Insert(t)
  PROVE  LET new == Len(requests) + 1
         IN  /\ new \notin DOMAIN requests
             /\ DOMAIN requests' = DOMAIN requests \cup {new}
             /\ requests'[new].host = job[t].host
             /\ requests'[new].port = job[t].port
             /\ pending_ids' = pending_ids \cup {new}
             /\ \A r \in DOMAIN requests : requests'[r] = requests[r]
BY InsertPendingOpens DEF Insert, TypeInv, TypeOK

\* Every step leaves a decided request as it was decided.
LEMMA DecidedStaysStep ==
  ASSUME TypeInv, Next
  PROVE  DecidedStays
<1>1. CASE requests' = requests
  BY <1>1 DEF DecidedStays
<1>2. CASE \E t \in Worker : Insert(t)
  BY <1>2, InsertOpens DEF DecidedStays
<1>3. CASE \E u \in Tab : Resolve(u)
  BY <1>3, ResolveCloses DEF DecidedStays
<1> QED
  BY <1>1, <1>2, <1>3, RequestSteps

\* A decided request stays as it was decided.
THEOREM DecisionsFinal == Spec => ResolvedIsFinal
<1>1. TypeInv /\ [Next]_vars => [DecidedStays]_vars
  BY DecidedStaysStep
<1> QED
  BY <1>1, TypeInvariant, PTL DEF Spec, ResolvedIsFinal

----------------------------------------------------------------------------
(* The invariant of the queue.                                             *)

\* The requests of the destination of t that are pending.
Open(t) == pending_rows(job[t].host, job[t].port)

\* A handler on its way to write has found room in the queue or a request
\* to bump; the one about to insert knows that there is no request.
WriterSound ==
  \A t \in Worker :
    /\ pc[t] \in {"find", "write"} =>
         pending_count < PendingMax \/ Open(t) # {}
    /\ pc[t] = "write" /\ job[t].req = 0 => Open(t) = {}

QueueInv == PendingUnique /\ PendingWithinCap /\ WriterSound

\* Open, in terms of the ids of pending requests.
LEMMA OpenIds ==
  ASSUME NEW t
  PROVE  Open(t) = {r \in pending_ids : /\ requests[r].host = job[t].host
                                        /\ requests[r].port = job[t].port}
BY DEF Open, pending_rows, pending_ids

\* PendingUnique, in terms of the ids of pending requests.
LEMMA UniqueIds ==
  PendingUnique <=> \A r, q \in pending_ids :
                      /\ requests[r].host = requests[q].host
                      /\ requests[r].port = requests[q].port
                      => r = q
BY DEF PendingUnique, pending_ids

\* How a thread comes to write, and to insert.
LEMMA WriterMoves ==
  ASSUME TypeInv, NEW t \in Worker, BrokerStep(t),
         pc'[t] \in {"find", "write"}
  PROVE  /\ UNCHANGED storeVars
         /\ job'[t].host = job[t].host /\ job'[t].port = job[t].port
         /\ \/ /\ pc[t] = "exists" /\ pc'[t] = "find"
               /\ pending_request(job[t].host, job[t].port) # 0
            \/ pc[t] = "count" /\ pc'[t] = "find" /\ pending_count < PendingMax
            \/ /\ pc[t] = "find" /\ pc'[t] = "write"
               /\ job'[t].req = pending_request(job[t].host, job[t].port)
<1>1. job[t] \in Job
  BY DEF TypeInv, TypeOK, BrokerTypeOK
<1>2. ~ Takes(t) /\ ~ GivesBack(t)
  BY DEF Takes, GivesBack
<1>3. HandlerStep(t) /\ ~ Reply(t)
  <2>1. ASSUME AclCheck(t) \/ Submit(t) \/ Reply(t) PROVE FALSE
    <3>1. pc[t] = "idle" \/ pc'[t] = "idle"
      BY <2>1, GoStays DEF AclCheck, Submit, TakeLock, Reply
    <3> QED
      BY <1>2, <3>1, BrokerMoves DEF GoesOn
  <2> QED
    BY <2>1 DEF BrokerStep
<1>4. ASSUME NEW code, Answer(t, code) PROVE FALSE
  BY <1>4, GoStays DEF Answer
<1>5. ASSUME NEW j, NEW label, label \notin {"find", "write"}, Go(t, j, label)
      PROVE  FALSE
  BY <1>5, GoStays
<1>6. CASE ReadPause(t)
  BY <1>4, <1>5, <1>6 DEF ReadPause
<1>7. CASE Match(t)
  BY <1>5, <1>7 DEF Match
<1>8. CASE Consume(t) \/ Bump(t)
  BY <1>4, <1>8 DEF Consume, Bump
<1>9. CASE ReadDenial(t)
  BY <1>4, <1>5, <1>9 DEF ReadDenial
<1>10. CASE ReadExisting(t)
  <2>1. /\ pc[t] = "exists" /\ UNCHANGED storeVars
        /\ Go(t, job[t], "find")
        /\ pending_request(job[t].host, job[t].port) # 0
    BY <1>4, <1>5, <1>10 DEF ReadExisting
  <2> QED
    BY <2>1, GoStays
<1>11. CASE ReadCount(t)
  <2>1. /\ pc[t] = "count" /\ UNCHANGED storeVars
        /\ Go(t, job[t], "find") /\ pending_count < PendingMax
    BY <1>4, <1>5, <1>11 DEF ReadCount
  <2> QED
    BY <2>1, GoStays
<1>12. CASE Find(t)
  <2> DEFINE r == pending_request(job[t].host, job[t].port)
             j == [job[t] EXCEPT !.req = r]
  <2>1. j.req = r /\ j.host = job[t].host /\ j.port = job[t].port
    BY <1>1 DEF Job
  <2>2. pc[t] = "find" /\ Go(t, j, "write") /\ UNCHANGED storeVars
    BY <1>12 DEF Find
  <2> HIDE DEF j
  <2> QED
    BY <2>1, <2>2, GoStays
<1>13. CASE Insert(t)
  BY <1>5, <1>13 DEF Insert
<1> QED
  BY <1>3, <1>6, <1>7, <1>8, <1>9, <1>10, <1>11, <1>12, <1>13
     DEF HandlerStep

\* A thread's step that opens no request.
LEMMA WriterSoundThread ==
  ASSUME TypeInv, QueueInv, NEW t \in Worker, BrokerStep(t),
         requests' = requests
  PROVE  WriterSound'
<1>1. OthersStay(t)
  BY BrokerMoves
<1>2. pending_count' = pending_count
  BY DEF pending_count
<1> SUFFICES ASSUME NEW o \in Worker
             PROVE  /\ pc'[o] \in {"find", "write"} =>
                         pending_count < PendingMax \/ Open(o)' # {}
                    /\ pc'[o] = "write" /\ job'[o].req = 0 => Open(o)' = {}
  BY <1>2 DEF WriterSound
<1>3. CASE o # t
  <2>1. pc'[o] = pc[o] /\ job'[o] = job[o] /\ Open(o)' = Open(o)
    BY <1>1, <1>3 DEF OthersStay, Open, pending_rows
  <2> QED
    BY <2>1 DEF QueueInv, WriterSound
<1>4. CASE o = t /\ pc'[t] \in {"find", "write"}
  <2> DEFINE r == pending_request(job[t].host, job[t].port)
  <2>1. /\ r = 0 => Open(t) = {}
        /\ r # 0 => Open(t) # {}
    BY PendingRequestIsPending DEF Open, TypeInv, TypeOK
  <2>2. Open(t)' = Open(t)
    BY <1>4, WriterMoves DEF Open, pending_rows
  <2>3. CASE pc[t] = "exists" /\ pc'[t] = "find" /\ r # 0
    BY <1>4, <2>1, <2>2, <2>3
  <2>4. CASE pc[t] = "count" /\ pc'[t] = "find" /\ pending_count < PendingMax
    BY <1>4, <2>4
  <2>5. CASE pc[t] = "find" /\ pc'[t] = "write" /\ job'[t].req = r
    BY <1>4, <2>1, <2>2, <2>5 DEF QueueInv, WriterSound
  <2> HIDE DEF r
  <2> QED
    BY <1>4, <2>3, <2>4, <2>5, WriterMoves DEF r
<1> QED
  BY <1>3, <1>4

\* The INSERT keeps the invariant: the thread that inserts knows that there is
\* room and that its destination has no request.
LEMMA QueueInsert ==
  ASSUME TypeInv, Held, QueueInv, NEW t \in Worker, BrokerStep(t), Insert(t)
  PROVE  QueueInv'
<1> DEFINE new == Len(requests) + 1
<1>1. /\ new \notin DOMAIN requests
      /\ requests'[new].host = job[t].host
      /\ requests'[new].port = job[t].port
      /\ pending_ids' = pending_ids \cup {new}
      /\ \A r \in DOMAIN requests : requests'[r] = requests[r]
  BY InsertOpens
<1>2. /\ pc[t] = "write" /\ job[t].req = 0 /\ Open(t) = {}
      /\ pending_count < PendingMax
  BY DEF Insert, QueueInv, WriterSound
<1>3. pending_ids \subseteq DOMAIN requests
  BY DEF pending_ids
<1> HIDE DEF new
<1>4. PendingUnique'
  <2>1. \A r \in pending_ids : ~ (/\ requests[r].host = job[t].host
                                  /\ requests[r].port = job[t].port)
    BY <1>2, OpenIds
  <2>2. \A r, q \in pending_ids :
          /\ requests[r].host = requests[q].host
          /\ requests[r].port = requests[q].port
          => r = q
    BY UniqueIds DEF QueueInv
  <2>3. \A r, q \in pending_ids' :
          /\ requests'[r].host = requests'[q].host
          /\ requests'[r].port = requests'[q].port
          => r = q
    BY <1>1, <1>3, <2>1, <2>2
  <2> QED
    BY <2>3 DEF PendingUnique, pending_ids
<1>5. PendingWithinCap'
  <2>1. IsFiniteSet(pending_ids) /\ pending_count = Cardinality(pending_ids)
        /\ pending_count \in Nat
    BY PendingFinite DEF TypeInv, TypeOK
  <2>2. Cardinality(pending_ids') = Cardinality(pending_ids) + 1
    BY <1>1, <1>3, <2>1, FS_AddElement
  <2>3. pending_count' = Cardinality(pending_ids')
    BY DEF pending_count, pending_ids
  <2> QED
    BY <1>2, <2>1, <2>2, <2>3, StoreAssumption DEF PendingWithinCap
<1>6. WriterSound'
  <2>1. \A o \in Worker \ {t} : pc'[o] = "idle"
    BY <1>2, BrokerMoves DEF OthersStay, Held
  <2>2. pc'[t] = "reply"
    BY GoStays DEF Insert
  <2> QED
    BY <2>1, <2>2 DEF WriterSound
<1> QED
  BY <1>4, <1>5, <1>6 DEF QueueInv

\* The panel closes a request between two transactions of a handler: then
\* the queue has room for the one the handler may now insert.
LEMMA QueueResolve ==
  ASSUME TypeInv, QueueInv, NEW u \in Tab, Resolve(u), UNCHANGED brokerVars
  PROVE  QueueInv'
<1> DEFINE id == task[u].id
<1>1. /\ DOMAIN requests' = DOMAIN requests
      /\ pending_ids' = pending_ids \ {id}
      /\ \A r \in DOMAIN requests : /\ requests'[r].host = requests[r].host
                                    /\ requests'[r].port = requests[r].port
  BY ResolveCloses
<1>2. pending_ids \subseteq DOMAIN requests
  BY DEF pending_ids
<1>3. /\ IsFiniteSet(pending_ids) /\ pending_count = Cardinality(pending_ids)
      /\ pending_count \in Nat
  BY PendingFinite DEF TypeInv, TypeOK
<1>4. pending_count' = Cardinality(pending_ids')
  BY DEF pending_count, pending_ids
<1> HIDE DEF id
<1>5. pending_count' = IF id \in pending_ids THEN pending_count - 1
                                             ELSE pending_count
  <2>1. CASE id \in pending_ids
    BY <1>1, <1>3, <1>4, <2>1, FS_RemoveElement
  <2>2. CASE id \notin pending_ids
    <3>1. pending_ids' = pending_ids
      BY <1>1, <2>2
    <3> QED
      BY <1>3, <1>4, <2>2, <3>1
  <2> QED
    BY <2>1, <2>2
<1>6. PendingUnique'
  <2>1. \A r, q \in pending_ids :
          /\ requests[r].host = requests[q].host
          /\ requests[r].port = requests[q].port
          => r = q
    BY UniqueIds DEF QueueInv
  <2>2. \A r, q \in pending_ids' :
          /\ requests'[r].host = requests'[q].host
          /\ requests'[r].port = requests'[q].port
          => r = q
    BY <1>1, <1>2, <2>1
  <2> QED
    BY <2>2 DEF PendingUnique, pending_ids
<1>7. PendingWithinCap'
  BY <1>3, <1>5, StoreAssumption DEF QueueInv, PendingWithinCap
<1>8. WriterSound'
  <2> SUFFICES ASSUME NEW t \in Worker
               PROVE  /\ pc[t] \in {"find", "write"} =>
                           pending_count' < PendingMax \/ Open(t)' # {}
                      /\ pc[t] = "write" /\ job[t].req = 0 => Open(t)' = {}
    BY DEF WriterSound, brokerVars
  <2>1. Open(t)' = Open(t) \ {id}
    <3>1. Open(t)' = {r \in pending_ids' : /\ requests'[r].host = job[t].host
                                           /\ requests'[r].port = job[t].port}
      BY DEF Open, pending_rows, pending_ids, brokerVars
    <3> QED
      BY <1>1, <1>2, <3>1, OpenIds
  <2>2. ASSUME pc[t] \in {"find", "write"}
        PROVE  pending_count' < PendingMax \/ Open(t)' # {}
    <3>1. pending_count < PendingMax \/ Open(t) # {}
      BY <2>2 DEF QueueInv, WriterSound
    <3>2. CASE id \in pending_ids
      BY <1>3, <1>5, <3>2, StoreAssumption DEF QueueInv, PendingWithinCap
    <3>3. CASE id \notin pending_ids
      <4>1. Open(t)' = Open(t)
        BY <2>1, <3>3, OpenIds
      <4> QED
        BY <1>5, <3>1, <3>3, <4>1
    <3> QED
      BY <3>2, <3>3
  <2>3. pc[t] = "write" /\ job[t].req = 0 => Open(t)' = {}
    BY <2>1 DEF QueueInv, WriterSound
  <2> QED
    BY <2>2, <2>3
<1> QED
  BY <1>6, <1>7, <1>8 DEF QueueInv

\* Every step keeps the invariant of the queue.
LEMMA QueueInvStep ==
  ASSUME TypeInv, Held, QueueInv, [Next]_vars
  PROVE  QueueInv'
<1>1. ASSUME UNCHANGED brokerVars, requests' = requests PROVE WriterSound'
  BY <1>1 DEF QueueInv, WriterSound, brokerVars, Open, pending_rows,
     pending_count
<1>2. ASSUME requests' = requests
      PROVE  PendingUnique' /\ PendingWithinCap'
  BY <1>2 DEF QueueInv, PendingUnique, PendingWithinCap, pending_count
<1>3. CASE UNCHANGED vars
  <2>1. UNCHANGED brokerVars /\ requests' = requests
    BY <1>3 DEF vars, brokerVars, storeVars
  <2> QED
    BY <1>1, <1>2, <2>1 DEF QueueInv
<1>4. CASE Next
  <2>1. ASSUME requests' = requests PROVE WriterSound'
    <3>1. CASE UNCHANGED brokerVars
      BY <1>1, <2>1, <3>1
    <3>2. CASE \A t \in Worker : pc'[t] = "idle"
      BY <3>2 DEF WriterSound
    <3>3. CASE \E t \in Worker : BrokerStep(t)
      BY <2>1, <3>3, WriterSoundThread
    <3> QED
      BY <1>4, <3>1, <3>2, <3>3, OtherMoves
  <2>2. CASE requests' = requests
    BY <1>2, <2>1, <2>2 DEF QueueInv
  <2>3. CASE \E t \in Worker : BrokerStep(t) /\ Insert(t)
    BY <2>3, QueueInsert
  <2>4. CASE UNCHANGED brokerVars /\ \E u \in Tab : Resolve(u)
    BY <2>4, QueueResolve
  <2> QED
    BY <1>4, <2>2, <2>3, <2>4, RequestSteps
<1> QED
  BY <1>3, <1>4

\* The queue is empty when the services start.
LEMMA QueueInvInit == Init => QueueInv
<1> SUFFICES ASSUME Init PROVE QueueInv
  OBVIOUS
<1>1. requests = <<>> /\ \A t \in Worker : pc[t] = "idle"
  BY DEF Init, StoreInit, BrokerInit
<1>2. pending_ids = {}
  BY <1>1 DEF pending_ids
<1>3. pending_count = 0
  BY <1>2, FS_EmptySet DEF pending_count, pending_ids
<1> QED
  BY <1>1, <1>2, <1>3, StoreAssumption, UniqueIds
     DEF QueueInv, PendingWithinCap, WriterSound

\* In every reachable state the queue holds a destination once, is within its
\* cap, and a handler between upsert_pending's SELECT and INSERT has room for
\* what it is about to insert.
THEOREM QueueSound == Spec => []QueueInv
<1>1. AnswerInv /\ QueueInv /\ [Next]_vars => QueueInv'
  BY QueueInvStep DEF AnswerInv
<1> QED
  BY <1>1, QueueInvInit, AnswersSound, PTL DEF Spec

\* A destination has one pending request at most.
THEOREM OnePending == Spec => []PendingUnique
<1>1. QueueInv => PendingUnique
  BY DEF QueueInv
<1> QED
  BY <1>1, QueueSound, PTL

\* The queue stays within limits.pending_max, also when a request is closed
\* between the look that found it and the write that would bump it.
THEOREM QueueWithinCap == Spec => []PendingWithinCap
<1>1. QueueInv => PendingWithinCap
  BY DEF QueueInv
<1> QED
  BY <1>1, QueueSound, PTL

----------------------------------------------------------------------------
(* Denials.                                                                *)

\* While the denial a check began under stands, ReadDenial finds it: the
\* check never gets past it to the queue, nor has an answer from there.
DenialInv ==
  \A t \in Worker : pc[t] # "idle" /\ seen[t].denied =>
    /\ denial_stands(job[t])
    /\ pc[t] \notin {"exists", "count", "find", "write"}
    /\ pc[t] = "reply" => job[t].code \notin {"PENDING", "QUEUE_FULL"}

\* A thread under way after a step came to where it is by that step, or did
\* not move.
LEMMA ThreadKinds ==
  ASSUME TypeInv, Next, NEW t \in Worker, pc'[t] # "idle"
  PROVE  \/ BrokerStep(t)
         \/ pc'[t] = pc[t] /\ job'[t] = job[t]
<1>1. ASSUME NEW o \in Worker, o # t, BrokerStep(o)
      PROVE  pc'[t] = pc[t] /\ job'[t] = job[t]
  BY <1>1, BrokerMoves DEF OthersStay
<1>2. UNCHANGED brokerVars => pc'[t] = pc[t] /\ job'[t] = job[t]
  BY DEF brokerVars
<1> QED
  BY <1>1, <1>2, OtherMoves

\* A check whose view says denied has its denial before it now, and had it
\* in its view before, unless it has just begun.
LEMMA WatchDenied ==
  ASSUME TypeInv, Next, NEW t \in Worker, pc'[t] # "idle", seen'[t].denied
  PROVE  /\ pc[t] # "idle" => seen[t].denied
         /\ denial_stands(job[t])'
<1>1. Watch
  BY StepKinds
<1>2. CASE pc[t] = "idle"
  <2>1. denial_stands(job'[t])
    BY <1>1, <1>2, Zenon DEF Watch
  <2>2. Takes(t)
    BY <1>2, ThreadMoves
  <2> QED
    BY <1>2, <2>1, <2>2 DEF Takes, storeVars, denial_stands,
       standing_denial, resolved_rows, latest_resolved
<1>3. CASE pc[t] # "idle"
  <2>1. seen[t].denied /\ denial_stands(job[t])'
    BY <1>1, <1>3, Zenon DEF Watch
  <2> QED
    BY <1>3, <2>1
<1> QED
  BY <1>2, <1>3

\* A thread under a denial goes from the pause and the match to the denial,
\* or answers without the queue.
LEMMA DeniedMoves ==
  ASSUME TypeInv, NEW t \in Worker, BrokerStep(t),
         pc[t] \in {"pause", "match", "consume", "denial"},
         standing_denial(job[t].host, job[t].port) # 0
  PROVE  \/ pc'[t] \in {"match", "consume", "denial"}
         \/ pc'[t] = "reply" /\ job'[t].code \notin {"PENDING", "QUEUE_FULL"}
<1>1. job[t] \in Job
  BY DEF TypeInv, TypeOK, BrokerTypeOK
<1>2. ASSUME NEW code \in {"ALLOWED", "PAUSED_ALLOW", "DENIED_BY_ADMIN"},
             NEW j \in Job, Go(t, [j EXCEPT !.code = code], "reply")
      PROVE  pc'[t] = "reply" /\ job'[t].code \notin {"PENDING", "QUEUE_FULL"}
  <2> DEFINE a == [j EXCEPT !.code = code]
  <2>1. a.code = code
    BY DEF Job
  <2> HIDE DEF a
  <2> QED
    BY <1>2, <2>1, GoStays DEF a
<1>3. ASSUME NEW j, NEW label \in {"match", "consume", "denial"},
             Go(t, j, label)
      PROVE  pc'[t] \in {"match", "consume", "denial"}
  BY <1>3, GoStays
<1>4. CASE ReadPause(t)
  BY <1>1, <1>2, <1>3, <1>4 DEF ReadPause, Answer
<1>5. CASE Match(t)
  <2> DEFINE hit == active_match(job[t].host, job[t].port, job[t].ts)
             j   == [job[t] EXCEPT !.hit = hit]
  <2>1. hit \in Nat
    BY ActiveMatchType DEF TypeInv, TypeOK
  <2>2. j \in Job
    BY <1>1, <2>1 DEF Job
  <2>3. \/ Go(t, j, "denial") \/ Go(t, j, "consume")
        \/ Go(t, [j EXCEPT !.code = "ALLOWED"], "reply")
    BY <1>5 DEF Match
  <2> HIDE DEF j
  <2> QED
    BY <1>2, <1>3, <2>2, <2>3
<1>6. CASE Consume(t)
  BY <1>1, <1>2, <1>6 DEF Consume, Answer
<1>7. CASE ReadDenial(t)
  BY <1>1, <1>2, <1>7 DEF ReadDenial, Answer
<1> QED
  BY <1>4, <1>5, <1>6, <1>7
     DEF BrokerStep, HandlerStep, AclCheck, Submit, TakeLock, ReadExisting,
         ReadCount, Find, Bump, Insert, Reply

\* Every step keeps the invariant.
LEMMA DenialInvStep ==
  ASSUME TypeInv, DenialInv, [Next]_vars
  PROVE  DenialInv'
<1>1. CASE UNCHANGED vars
  BY <1>1 DEF vars, storeVars, brokerVars, DenialInv, denial_stands,
     standing_denial, resolved_rows, latest_resolved
<1>2. CASE Next
  <2> SUFFICES ASSUME NEW t \in Worker, pc'[t] # "idle", seen'[t].denied
               PROVE  /\ denial_stands(job[t])'
                      /\ pc'[t] \notin {"exists", "count", "find", "write"}
                      /\ pc'[t] = "reply" =>
                           job'[t].code \notin {"PENDING", "QUEUE_FULL"}
    BY DEF DenialInv
  <2>1. /\ denial_stands(job[t])'
        /\ pc[t] # "idle" => seen[t].denied
    BY <1>2, WatchDenied
  <2>2. CASE Takes(t)
    BY <2>1, <2>2 DEF Takes, Verdict
  <2>3. CASE pc[t] # "idle" /\ pc'[t] = pc[t] /\ job'[t] = job[t]
    BY <2>1, <2>3 DEF DenialInv
  <2>4. CASE pc[t] # "idle" /\ BrokerStep(t)
    <3>1. /\ standing_denial(job[t].host, job[t].port) # 0
          /\ pc[t] \notin {"exists", "count", "find", "write"}
      BY <2>1, <2>4 DEF DenialInv, denial_stands
    <3>2. pc[t] # "reply"
      <4>1. pc[t] = "reply" => Reply(t)
        BY <2>4 DEF BrokerStep, HandlerStep, AclCheck, Submit, TakeLock,
           ReadPause, Match, Consume, ReadDenial, ReadExisting, ReadCount,
           Find, Bump, Insert
      <4> QED
        BY <4>1, GoStays DEF Reply
    <3>3. pc[t] \in {"pause", "match", "consume", "denial"}
      BY <2>4, <3>1, <3>2 DEF TypeInv, TypeOK, BrokerTypeOK, Label
    <3> QED
      BY <2>1, <2>4, <3>1, <3>3, DeniedMoves
  <2>5. pc[t] = "idle" => Takes(t)
    BY <1>2, ThreadMoves
  <2> QED
    BY <1>2, <2>2, <2>3, <2>4, <2>5, ThreadKinds
<1> QED
  BY <1>1, <1>2

\* No check that began under a denial puts its destination back in the queue
\* or finds the queue full while that denial stands.
THEOREM DenialsHonoured == Spec => []DenialHonoured
<1>1. Init => DenialInv
  BY DEF Init, BrokerInit, DenialInv
<1>2. TypeInv /\ DenialInv /\ [Next]_vars => DenialInv'
  BY DenialInvStep
<1>3. DenialInv => DenialHonoured
  BY DEF DenialInv, DenialHonoured, deciding
<1> QED
  BY <1>1, <1>2, <1>3, TypeInvariant, PTL DEF Spec

----------------------------------------------------------------------------
(* How a step changes the panel's state.                                   *)

\* Tab u goes to label holding k, and every other tab is idle.
TabGoes(u, k, label) ==
  /\ tab_pc'[u] = label /\ task'[u] = k
  /\ \A o \in Tab \ {u} : tab_pc'[o] = "idle"

PanelHeld == \A u \in Tab : tab_pc[u] # "idle" => panel_lock = u

\* The commits an operation consists of.
CanBe(op, at) ==
  CASE at = "add"     -> op \in {"approve", "add", "wildcard"}
    [] at = "resolve" -> op \in {"approve", "deny"}
    [] at = "retire"  -> op \in {"revoke", "erase", "remove_defaults"}
    [] at = "set"     -> op \in {"pause", "resume"}
    [] OTHER          -> TRUE

\* A tab that proceeds moves to its next commit.
LEMMA ProceedGoes ==
  ASSUME TypeInv, NEW u \in Tab, NEW k, Proceed(u, k),
         \A o \in Tab \ {u} : tab_pc[o] = "idle"
  PROVE  TabGoes(u, k, next_commit(k.op, tab_pc[u]))
BY DEF Proceed, TabGoes, TypeInv, TypeOK, PanelTypeOK

\* An operation begins when no other is under way.
LEMMA BeginGoes ==
  ASSUME TypeInv, PanelHeld, NEW u \in Tab, Starts(u)
  PROVE  \E k \in Task :
           /\ Asks(k) /\ k.op \in Menu
           /\ \A o \in Tab : tab_pc[o] = "idle"
           /\ TabGoes(u, k, next_commit(k.op, "idle"))
           /\ panel_lock' = u
           /\ UNCHANGED <<storeVars, cliVars, stampVars>>
<1>1. PICK c \in Task : Begin(u, c) /\ Asks(c)
  BY StartsBegin DEF TypeInv, TypeOK
<1> DEFINE k == [c EXCEPT !.ts = clock]
<1>2. /\ k \in Task /\ k.op = c.op /\ k.id = c.id
      /\ k.host = c.host /\ k.port = c.port
  BY DEF Task, TypeInv, TypeOK, StoreTypeOK
<1>3. Asks(k) /\ k.op \in Menu
  <2>1. c.op \in Menu
    BY <1>1 DEF Begin
  <2> HIDE DEF k
  <2> QED
    BY <1>1, <1>2, <2>1 DEF Asks
<1>4. \A o \in Tab : tab_pc[o] = "idle"
  BY <1>1, PanelAssumption DEF Begin, PanelHeld
<1>5. Proceed(u, k)
  BY <1>1 DEF Begin
<1> HIDE DEF k
<1>6. TabGoes(u, k, next_commit(k.op, "idle"))
  BY <1>4, <1>5, ProceedGoes
<1> QED
  BY <1>1, <1>2, <1>3, <1>4, <1>6 DEF Begin

\* Every step leaves the tabs alone, begins an operation, makes a commit of
\* the one under way, or stops them all.
LEMMA TabSteps ==
  ASSUME TypeInv, Next
  PROVE  \/ UNCHANGED <<tabVars, decisions>>
         \/ (\E u \in Tab : Starts(u)) /\ UNCHANGED <<brokerVars, restarts>>
         \/ /\ \E u \in Tab : OperationStep(u)
            /\ UNCHANGED <<brokerVars, restarts>>
         \/ PanelRestart /\ UNCHANGED brokerVars /\ restarts' = restarts + 1
<1> USE DEF InBroker, InPanel, panelVars, tabVars
<1>1. ASSUME NEW c \in Terminal,
             \/ CliPause(c) \/ CliResume(c) \/ CliSet(c) \/ CliLog(c)
             \/ CliKilled(c)
      PROVE  UNCHANGED <<tabVars, decisions>>
  BY <1>1 DEF CliPause, CliResume, CliBegin, CliSet, CliLog, CliKilled,
              stampVars
<1> QED
  BY <1>1 DEF Next, Starts, OperationStep, Restarting

\* A commit moves its tab.
LEMMA CommitMoves ==
  ASSUME TypeInv, NEW u \in Tab, OperationStep(u)
  PROVE  ~ UNCHANGED tabVars
<1>1. ASSUME NEW k, NEW at \in {"add", "resolve", "retire", "set"},
             tab_pc[u] = at, Proceed(u, k)
      PROVE  tab_pc'[u] # tab_pc[u]
  BY <1>1 DEF Proceed, next_commit, TypeInv, TypeOK, PanelTypeOK
<1>2. ASSUME LogEvent(u) PROVE tab_pc'[u] # tab_pc[u]
  BY <1>2 DEF LogEvent, TypeInv, TypeOK, PanelTypeOK
<1> QED
  BY <1>1, <1>2
     DEF OperationStep, AddRow, Resolve, Retire, SetPause, tabVars

----------------------------------------------------------------------------
(* What an operation under way knows.                                      *)

\* What a stamp says is so.
Truthful(s) ==
  IF s.event \in {"approved", "denied"}
  THEN s.id \in DOMAIN requests /\ requests[s.id].status = s.event
  ELSE s.id \in DOMAIN allowlist /\ allowlist[s.id].source = "manual"

TabSound(u) ==
  /\ CanBe(task[u].op, tab_pc[u])
  /\ tab_pc[u] # "idle" => task[u].op \in Menu
  /\ tab_pc[u] \in {"add", "resolve"} => Asks(task[u])
  /\ tab_pc[u] = "log" => \A s \in stamps_of(task[u]) : Truthful(s)

PanelInv ==
  /\ PanelHeld
  /\ \A u \in Tab : TabSound(u)
  /\ \A s \in decisions : Truthful(s)

\* What a stamp says stays so: decided requests and the columns of an entry
\* do not change.
LEMMA TruthStays ==
  ASSUME TypeInv, Next, NEW s, Truthful(s)
  PROVE  Truthful(s)'
<1>1. DecidedStays /\ RowsKept
  BY DecidedStaysStep, RowsKeptStep
<1> QED
  BY <1>1 DEF DecidedStays, RowsKept, Ages, Truthful

\* An idle tab has nothing to know.
LEMMA IdleSound ==
  ASSUME NEW u \in Tab, tab_pc[u] = "idle"
  PROVE  TabSound(u)
BY DEF TabSound, CanBe

\* A request that is asked about stays pending when one is inserted.
LEMMA AsksStays ==
  ASSUME TypeInv, NEW k, Asks(k),
         requests' = requests \/ \E t \in Worker : Insert(t)
  PROVE  Asks(k)'
BY InsertOpens DEF Asks

\* After a step that moves no tab.
LEMMA TabsStay ==
  ASSUME TypeInv, PanelInv, Next, UNCHANGED <<tabVars, decisions>>
  PROVE  PanelInv'
<1>1. requests' = requests \/ \E t \in Worker : Insert(t)
  BY RequestSteps, CommitMoves DEF OperationStep
<1>2. ASSUME NEW u \in Tab PROVE TabSound(u)'
  <2>1. PICK k : k = task[u] /\ k = task'[u]
    BY DEF tabVars
  <2>2. tab_pc'[u] = tab_pc[u] /\ TabSound(u)
    BY DEF tabVars, PanelInv
  <2>3. tab_pc[u] \in {"add", "resolve"} => Asks(k)'
    BY <1>1, <2>1, <2>2, AsksStays DEF TabSound
  <2>4. ASSUME tab_pc[u] = "log", NEW s \in stamps_of(k) PROVE Truthful(s)'
    BY <2>1, <2>2, <2>4, TruthStays DEF TabSound
  <2> QED
    BY <2>1, <2>2, <2>3, <2>4 DEF TabSound, Asks
<1>3. PanelHeld'
  BY DEF PanelHeld, PanelInv, tabVars
<1>4. \A s \in decisions' : Truthful(s)'
  BY TruthStays DEF PanelInv
<1> QED
  BY <1>2, <1>3, <1>4 DEF PanelInv

\* After a step that leaves one tab under way and stamps nothing.
LEMMA TabGoesSound ==
  ASSUME TypeInv, PanelInv, Next, NEW u \in Tab, NEW k, NEW label,
         TabGoes(u, k, label), panel_lock' = u, decisions' = decisions,
         TabSound(u)'
  PROVE  PanelInv'
<1>1. \A o \in Tab : TabSound(o)'
  BY IdleSound DEF TabGoes, TabSound, CanBe
<1>2. PanelHeld'
  BY DEF PanelHeld, TabGoes
<1>3. \A s \in decisions' : Truthful(s)'
  BY TruthStays DEF PanelInv
<1> QED
  BY <1>1, <1>2, <1>3 DEF PanelInv

\* An operation begins.
LEMMA BeginSound ==
  ASSUME TypeInv, PanelInv, Next, NEW u \in Tab, Starts(u)
  PROVE  PanelInv'
<1> DEFINE label(k) == next_commit(k.op, "idle")
<1>1. PICK k \in Task :
        /\ Asks(k) /\ k.op \in Menu
        /\ TabGoes(u, k, label(k)) /\ panel_lock' = u
        /\ UNCHANGED <<storeVars, cliVars, stampVars>>
  BY BeginGoes DEF PanelInv
<1>2. CanBe(k.op, label(k))
  BY DEF CanBe, next_commit
<1>3. Asks(k)'
  BY <1>1 DEF Asks, storeVars
<1>4. label(k) = "log" => stamps_of(k) = {}
  BY <1>1, PanelAssumption DEF next_commit, stamps_of, Operation
<1> HIDE DEF label
<1>5. TabSound(u)'
  BY <1>1, <1>2, <1>3, <1>4 DEF TabGoes, TabSound, Asks
<1> QED
  BY <1>1, <1>5, TabGoesSound DEF stampVars

\* The entry that is added.
LEMMA AddRowEntry ==
  ASSUME TypeInv, NEW u \in Tab, AddRow(u)
  PROVE  LET new == Len(allowlist) + 1
         IN  /\ new \notin DOMAIN allowlist
             /\ DOMAIN allowlist' = DOMAIN allowlist \cup {new}
             /\ \A i \in DOMAIN allowlist : allowlist'[i] = allowlist[i]
             /\ allowlist'[new].pattern = task[u].host
             /\ allowlist'[new].port = task[u].port
             /\ allowlist'[new].group = new
             /\ allowlist'[new].source = IF task[u].op = "approve"
                                         THEN "approval" ELSE "manual"
<1> DEFINE k == task[u]
           row == new_row(k.host, k.kind, k.port, k.scope,
                          scope_expiry(k.scope, k.ts),
                          IF k.op = "approve" THEN "approval" ELSE "manual")
           new == Len(allowlist) + 1
<1>1. allowlist \in Seq(Row) /\ allowlist' = Append(allowlist, row)
  BY DEF AddRow, add_allowlist, TypeInv, TypeOK, StoreTypeOK
<1>2. /\ row.pattern = k.host /\ row.port = k.port /\ row.group = new
      /\ row.source = IF k.op = "approve" THEN "approval" ELSE "manual"
  BY DEF new_row
<1> HIDE DEF row
<1>3. /\ new \notin DOMAIN allowlist
      /\ DOMAIN allowlist' = DOMAIN allowlist \cup {new}
      /\ \A i \in DOMAIN allowlist : allowlist'[i] = allowlist[i]
      /\ allowlist'[new] = row
  BY <1>1
<1> HIDE DEF new
<1> QED
  BY <1>2, <1>3 DEF new

\* What a commit does to the tabs: its own goes to the next one.
LEMMA CommitGoes ==
  ASSUME TypeInv, PanelHeld, NEW u \in Tab, OperationStep(u)
  PROVE  /\ tab_pc[u] # "idle" /\ panel_lock = u
         /\ \A o \in Tab \ {u} : tab_pc[o] = "idle"
<1>1. tab_pc[u] # "idle"
  BY DEF OperationStep, AddRow, Resolve, Retire, SetPause, LogEvent
<1> QED
  BY <1>1 DEF PanelHeld

\* A new entry: the approval is about to close its request, what was added
\* by hand is about to be stamped.
LEMMA AddRowSound ==
  ASSUME TypeInv, PanelInv, Next, NEW u \in Tab, AddRow(u)
  PROVE  PanelInv'
<1> DEFINE new == Len(allowlist) + 1
           k == IF task[u].op = "approve" THEN task[u]
                ELSE [task[u] EXCEPT !.id = new]
           label == next_commit(k.op, "add")
<1>1. \A o \in Tab \ {u} : tab_pc[o] = "idle"
  BY CommitGoes DEF OperationStep, PanelInv
<1>2. /\ tab_pc[u] = "add" /\ Proceed(u, k) /\ requests' = requests
      /\ panel_lock' = panel_lock /\ decisions' = decisions
  BY DEF AddRow, stampVars
<1>3. /\ k.op = task[u].op
      /\ k.op = "approve" => k = task[u]
      /\ k.op # "approve" => k.id = new
  BY DEF TypeInv, TypeOK, PanelTypeOK, Task
<1>4. /\ new \in DOMAIN allowlist'
      /\ k.op # "approve" => allowlist'[new].source = "manual"
  BY <1>3, AddRowEntry
<1>5. /\ k.op \in {"approve", "add", "wildcard"} /\ k.op \in Menu
      /\ Asks(task[u])
  BY <1>2, <1>3 DEF PanelInv, TabSound, CanBe
<1> HIDE DEF k, new
<1>6. TabGoes(u, k, label)
  BY <1>1, <1>2, ProceedGoes
<1>7. TabSound(u)'
  <2>1. CASE k.op = "approve"
    <3>1. label = "resolve"
      BY <2>1 DEF next_commit
    <3> QED
      BY <1>2, <1>3, <1>5, <1>6, <2>1, <3>1
         DEF TabGoes, TabSound, CanBe, Asks
  <2>2. CASE k.op # "approve"
    <3>1. label = "log"
      BY <1>5, <2>2 DEF next_commit
    <3>2. stamps_of(k) = {[event |-> "manual_add", id |-> new]}
      BY <1>3, <1>5, <2>2 DEF stamps_of
    <3>3. \A s \in stamps_of(k) : Truthful(s)'
      BY <1>4, <2>2, <3>2 DEF Truthful
    <3> QED
      BY <1>5, <1>6, <3>1, <3>3 DEF TabGoes, TabSound, CanBe
  <2> QED
    BY <2>1, <2>2
<1>8. panel_lock' = u
  BY <1>2, CommitGoes DEF OperationStep, PanelInv
<1> HIDE DEF label
<1> QED
  BY <1>2, <1>6, <1>7, <1>8, TabGoesSound

\* A decision: what is about to be stamped is what the row says now.
LEMMA ResolveSound ==
  ASSUME TypeInv, PanelInv, Next, NEW u \in Tab, Resolve(u)
  PROVE  PanelInv'
<1> DEFINE event == IF task[u].op = "approve" THEN "approved" ELSE "denied"
<1>1. \A o \in Tab \ {u} : tab_pc[o] = "idle"
  BY CommitGoes DEF OperationStep, PanelInv
<1>2. /\ tab_pc[u] = "resolve" /\ Proceed(u, task[u])
      /\ panel_lock' = panel_lock /\ decisions' = decisions
  BY DEF Resolve, stampVars
<1>3. /\ task[u].op \in {"approve", "deny"} /\ task[u].op \in Menu
      /\ Asks(task[u])
  BY <1>2 DEF PanelInv, TabSound, CanBe
<1>4. /\ task[u].id \in DOMAIN requests'
      /\ requests'[task[u].id].status = event
  BY <1>3, ResolveCloses DEF Asks, pending_ids
<1>5. next_commit(task[u].op, "resolve") = "log"
  BY <1>3 DEF next_commit
<1>6. TabGoes(u, task[u], "log")
  BY <1>1, <1>2, <1>5, ProceedGoes
<1>7. stamps_of(task[u]) = {[event |-> event, id |-> task[u].id]}
  BY <1>3 DEF stamps_of
<1>8. \A s \in stamps_of(task[u]) : Truthful(s)'
  BY <1>4, <1>7 DEF Truthful
<1>9. TabSound(u)'
  BY <1>3, <1>6, <1>8 DEF TabGoes, TabSound, CanBe
<1>10. panel_lock' = u
  BY <1>2, CommitGoes DEF OperationStep, PanelInv
<1> QED
  BY <1>2, <1>6, <1>9, <1>10, TabGoesSound

\* A revocation, or the setting of the pause: neither stamps a decision.
LEMMA OtherCommitSound ==
  ASSUME TypeInv, PanelInv, Next, NEW u \in Tab, Retire(u) \/ SetPause(u)
  PROVE  PanelInv'
<1>1. \A o \in Tab \ {u} : tab_pc[o] = "idle"
  BY CommitGoes DEF OperationStep, PanelInv
<1>2. /\ tab_pc[u] \in {"retire", "set"} /\ Proceed(u, task[u])
      /\ panel_lock' = panel_lock /\ decisions' = decisions
  BY DEF Retire, SetPause, stampVars
<1>3. /\ task[u].op \in {"revoke", "erase", "remove_defaults",
                           "pause", "resume"}
      /\ task[u].op \in Menu
  BY <1>2 DEF PanelInv, TabSound, CanBe
<1>4. next_commit(task[u].op, tab_pc[u]) = "log" /\ stamps_of(task[u]) = {}
  BY <1>2, <1>3 DEF next_commit, stamps_of
<1>5. TabGoes(u, task[u], "log")
  BY <1>1, <1>2, <1>4, ProceedGoes
<1>6. TabSound(u)'
  BY <1>3, <1>4, <1>5 DEF TabGoes, TabSound, CanBe
<1>7. panel_lock' = u
  BY <1>2, CommitGoes DEF OperationStep, PanelInv
<1> QED
  BY <1>2, <1>5, <1>6, <1>7, TabGoesSound

\* The stamp, which gives the lock back.
LEMMA LogEventSound ==
  ASSUME TypeInv, PanelInv, Next, NEW u \in Tab, LogEvent(u)
  PROVE  PanelInv'
<1>1. \A o \in Tab : tab_pc'[o] = "idle"
  <2>1. \A o \in Tab \ {u} : tab_pc[o] = "idle"
    BY CommitGoes DEF OperationStep, PanelInv
  <2> QED
    BY <2>1 DEF LogEvent, TypeInv, TypeOK, PanelTypeOK
<1>2. \A o \in Tab : TabSound(o)'
  BY <1>1, IdleSound DEF TabSound, CanBe
<1>3. \A s \in decisions' : Truthful(s)
  BY DEF LogEvent, PanelInv, TabSound
<1>4. \A s \in decisions' : Truthful(s)'
  BY <1>3, TruthStays
<1> QED
  BY <1>1, <1>2, <1>4 DEF PanelInv, PanelHeld

\* Every step keeps the invariant.
LEMMA PanelInvStep ==
  ASSUME TypeInv, PanelInv, [Next]_vars
  PROVE  PanelInv'
<1>1. CASE UNCHANGED vars
  BY <1>1 DEF vars, storeVars, panelVars, PanelInv, PanelHeld, TabSound,
     Asks, Truthful
<1>2. CASE Next
  <2>1. ASSUME PanelRestart PROVE PanelInv'
    <3>1. \A o \in Tab : tab_pc'[o] = "idle" /\ TabSound(o)'
      BY <2>1 DEF PanelRestart, TabSound, CanBe
    <3>2. \A s \in decisions' : Truthful(s)'
      BY <1>2, <2>1, TruthStays DEF PanelRestart, stampVars, PanelInv
    <3> QED
      BY <3>1, <3>2 DEF PanelInv, PanelHeld
  <2>2. ASSUME NEW u \in Tab, OperationStep(u) PROVE PanelInv'
    BY <1>2, <2>2, AddRowSound, ResolveSound, OtherCommitSound, LogEventSound
       DEF OperationStep
  <2> QED
    BY <1>2, <2>1, <2>2, TabSteps, TabsStay, BeginSound
<1> QED
  BY <1>1, <1>2

\* In every reachable state the operation under way holds PanelApp.lock, its
\* request is pending until it is resolved, and every stamp is true.
THEOREM PanelSound == Spec => []PanelInv
<1>1. Init => PanelInv
  BY DEF Init, PanelInit, PanelInv, PanelHeld, TabSound, CanBe
<1>2. TypeInv /\ PanelInv /\ [Next]_vars => PanelInv'
  BY PanelInvStep
<1> QED
  BY <1>1, <1>2, TypeInvariant, PTL DEF Spec

\* A human_decision stamp says what the request's row says, and a manual_add
\* stamp names an entry added by hand, for any number of tabs and crashes.
THEOREM LogIsTrue == Spec => []LogNeverLies
<1>1. PanelInv => LogNeverLies
  BY DEF PanelInv, Truthful, LogNeverLies
<1> QED
  BY <1>1, PanelSound, PTL

----------------------------------------------------------------------------
(* Groups of entries.                                                      *)

SameGroup(i, j) ==
  /\ allowlist[i].group = allowlist[j].group /\ allowlist[i].group # Null

\* A group bears the id of one of its rows, so that the group of a new row is
\* new; its rows have one source, so that a removal by source takes all of
\* them, as a revocation and an erase do.
GroupInv ==
  /\ \A i \in DOMAIN allowlist :
       allowlist[i].group # Null => allowlist[i].group \in DOMAIN allowlist
  /\ \A i, j \in DOMAIN allowlist :
       SameGroup(i, j) => allowlist[i].source = allowlist[j].source
  /\ GroupDiesTogether

\* A step that leaves ids, groups, sources, scopes and expiries alone.
LEMMA GroupsStay ==
  ASSUME GroupInv, DOMAIN allowlist' = DOMAIN allowlist,
         \A i \in DOMAIN allowlist :
           /\ Ages(allowlist[i], allowlist'[i])
           /\ allowlist'[i].expires = allowlist[i].expires
  PROVE  GroupInv'
BY DEF GroupInv, SameGroup, GroupDiesTogether, Ages

\* A new row is a group of its own.
LEMMA GroupOfNewRow ==
  ASSUME TypeInv, GroupInv, NEW u \in Tab, AddRow(u)
  PROVE  GroupInv'
<1> DEFINE new == Len(allowlist) + 1
<1>1. /\ new \notin DOMAIN allowlist
      /\ DOMAIN allowlist' = DOMAIN allowlist \cup {new}
      /\ \A i \in DOMAIN allowlist : allowlist'[i] = allowlist[i]
      /\ allowlist'[new].group = new
  BY AddRowEntry
<1>2. \A i \in DOMAIN allowlist : allowlist[i].group # new
  <2>1. new # Null
    BY DEF Null, TypeInv, TypeOK, StoreTypeOK
  <2> QED
    BY <1>1, <2>1 DEF GroupInv
<1> HIDE DEF new
<1>3. ASSUME NEW i \in DOMAIN allowlist', NEW j \in DOMAIN allowlist',
             SameGroup(i, j)'
      PROVE  i = j \/ (i \in DOMAIN allowlist /\ j \in DOMAIN allowlist)
  BY <1>1, <1>2, <1>3 DEF SameGroup
<1> QED
  BY <1>1, <1>3 DEF GroupInv, SameGroup, GroupDiesTogether

\* An operation that retires one row of a group retires them all.
LEMMA RetiredTogether ==
  ASSUME GroupInv, NEW k, NEW i \in DOMAIN allowlist,
         NEW j \in DOMAIN allowlist, SameGroup(i, j)
  PROVE  i \in retired_by(k) <=> j \in retired_by(k)
<1>1. CASE k.op = "revoke"
  BY <1>1 DEF retired_by, group_of, SameGroup
<1>2. CASE k.op = "remove_defaults"
  BY <1>2 DEF retired_by, rows_of_source, GroupInv
<1>3. CASE k.op \notin {"revoke", "remove_defaults"}
  BY <1>3 DEF retired_by
<1> QED
  BY <1>1, <1>2, <1>3

\* An UPDATE of expires_at finds two permanent rows of a group both unexpired,
\* or neither.
LEMMA GroupRetires ==
  ASSUME TypeInv, GroupInv, NEW u \in Tab, Retire(u)
  PROVE  GroupInv'
<1>1. DOMAIN allowlist' = DOMAIN allowlist
  BY DEF Retire, retire
<1>2. \A i \in DOMAIN allowlist :
        /\ Ages(allowlist[i], allowlist'[i])
        /\ allowlist'[i].expires =
             IF /\ i \in retired_by(task[u])
                /\ unexpired(allowlist[i], task[u].ts)
             THEN task[u].ts ELSE allowlist[i].expires
  BY RetireKeeps
<1>3. \A i, j \in DOMAIN allowlist : SameGroup(i, j)' => SameGroup(i, j)
  BY <1>2 DEF SameGroup, Ages
<1>4. GroupDiesTogether'
  <2> SUFFICES ASSUME NEW i \in DOMAIN allowlist, NEW j \in DOMAIN allowlist,
                      SameGroup(i, j)',
                      allowlist'[i].scope = "permanent",
                      allowlist'[j].scope = "permanent"
               PROVE  allowlist'[i].expires = allowlist'[j].expires
    BY <1>1 DEF GroupDiesTogether, SameGroup
  <2>1. /\ SameGroup(i, j)
        /\ allowlist[i].scope = "permanent" /\ allowlist[j].scope = "permanent"
    BY <1>2, <1>3 DEF Ages
  <2>2. allowlist[i].expires = allowlist[j].expires
    BY <2>1 DEF GroupInv, GroupDiesTogether, SameGroup
  <2>3. i \in retired_by(task[u]) <=> j \in retired_by(task[u])
    BY <2>1, RetiredTogether
  <2> QED
    BY <1>2, <2>2, <2>3 DEF unexpired
<1> QED
  BY <1>1, <1>2, <1>3, <1>4 DEF GroupInv, SameGroup, Ages

\* Every step keeps the invariant.
LEMMA GroupInvStep ==
  ASSUME TypeInv, GroupInv, [Next]_vars
  PROVE  GroupInv'
<1>1. CASE allowlist' = allowlist
  BY <1>1 DEF GroupInv, SameGroup, GroupDiesTogether
<1>2. ASSUME NEW t \in Worker, Consume(t) PROVE GroupInv'
  <2>1. DOMAIN allowlist' = DOMAIN allowlist
    BY <1>2 DEF Consume, spend
  <2> QED
    BY <1>2, <2>1, ConsumeKeeps, GroupsStay
<1> QED
  BY <1>1, <1>2, AllowlistSteps, GroupOfNewRow, GroupRetires
     DEF vars, storeVars

\* Of two permanent entries of a group neither is ever retired without the
\* other, whatever operations and crashes come.
THEOREM GroupsDieTogether == Spec => []GroupDiesTogether
<1>1. Init => GroupInv
  BY GroupAssumption
     DEF Init, StoreInit, GroupInv, SameGroup, GroupDiesTogether
<1>2. TypeInv /\ GroupInv /\ [Next]_vars => GroupInv'
  BY GroupInvStep
<1>3. GroupInv => GroupDiesTogether
  BY DEF GroupInv
<1> QED
  BY <1>1, <1>2, <1>3, TypeInvariant, PTL DEF Spec

----------------------------------------------------------------------------
(* Approvals and the entries they make.                                    *)

\* An approval that has made its entry and not yet closed its request.
HalfwayOf(u, h, p) ==
  /\ tab_pc[u] = "resolve" /\ task[u].op = "approve"
  /\ task[u].host = h /\ task[u].port = p

halfway(h, p) == IF \E u \in Tab : HalfwayOf(u, h, p) THEN 1 ELSE 0

entry_count(h, p) == Cardinality(approvals(h, p))

approved_count(h, p) == Cardinality(approved_requests(h, p))

\* Every approved request has its entry; an approval that is halfway has one
\* already, and so may one that a crash cut short.
ApprovalOf(h, p) ==
  entry_count(h, p) - halfway(h, p)
    \in approved_count(h, p) .. approved_count(h, p) + restarts

ApprovalInv == \A h \in Host, p \in Port : ApprovalOf(h, p)

\* Entries and approved requests can be counted.
LEMMA ApprovalsFinite ==
  ASSUME TypeInv, NEW h, NEW p
  PROVE  /\ IsFiniteSet(approvals(h, p)) /\ entry_count(h, p) \in Nat
         /\ IsFiniteSet(approved_requests(h, p))
         /\ approved_count(h, p) \in Nat
<1>1. /\ DOMAIN requests = 1 .. Len(requests) /\ Len(requests) \in Nat
      /\ DOMAIN allowlist = 1 .. Len(allowlist) /\ Len(allowlist) \in Nat
  BY DEF TypeInv, TypeOK, StoreTypeOK
<1>2. IsFiniteSet(1 .. Len(requests)) /\ IsFiniteSet(1 .. Len(allowlist))
  BY <1>1, FS_Interval
<1>3. /\ approvals(h, p) \subseteq 1 .. Len(allowlist)
      /\ approved_requests(h, p) \subseteq 1 .. Len(requests)
  BY <1>1 DEF approvals, approved_requests
<1>4. IsFiniteSet(approvals(h, p)) /\ IsFiniteSet(approved_requests(h, p))
  BY <1>2, <1>3, FS_Subset
<1> QED
  BY <1>4, FS_CardinalityType DEF entry_count, approved_count

\* Rows that only age keep their part in the count.
LEMMA ApprovalsStay ==
  ASSUME DOMAIN allowlist' = DOMAIN allowlist, RowsKept, NEW h, NEW p
  PROVE  approvals(h, p)' = approvals(h, p)
<1>1. \A i \in DOMAIN allowlist :
        /\ allowlist'[i].source = allowlist[i].source
        /\ allowlist'[i].pattern = allowlist[i].pattern
        /\ allowlist'[i].port = allowlist[i].port
  BY DEF RowsKept, Ages
<1> QED
  BY <1>1 DEF approvals

\* A request that is inserted is not approved.
LEMMA ApprovedStay ==
  ASSUME TypeInv, NEW h, NEW p,
         requests' = requests \/ \E t \in Worker : Insert(t)
  PROVE  approved_requests(h, p)' = approved_requests(h, p)
<1>1. CASE requests' = requests
  BY <1>1 DEF approved_requests
<1>2. ASSUME NEW t \in Worker, Insert(t)
      PROVE  approved_requests(h, p)' = approved_requests(h, p)
  <2> DEFINE new == Len(requests) + 1
  <2>1. /\ new \notin DOMAIN requests
        /\ DOMAIN requests' = DOMAIN requests \cup {new}
        /\ pending_ids' = pending_ids \cup {new}
        /\ \A r \in DOMAIN requests : requests'[r] = requests[r]
    BY <1>2, InsertOpens
  <2> HIDE DEF new
  <2>2. requests'[new].status = "pending"
    BY <2>1 DEF pending_ids
  <2> QED
    BY <2>1, <2>2 DEF approved_requests
<1> QED
  BY <1>1, <1>2

\* A step that moves no approval and neither adds an entry of one nor
\* approves a request.
LEMMA ApprovalStays ==
  ASSUME TypeInv, NEW h, NEW p, ApprovalOf(h, p),
         approvals(h, p)' = approvals(h, p),
         approved_requests(h, p)' = approved_requests(h, p),
         halfway(h, p)' = halfway(h, p),
         restarts' \in {restarts, restarts + 1}
  PROVE  ApprovalOf(h, p)'
<1>1. /\ entry_count(h, p)' = entry_count(h, p)
      /\ approved_count(h, p)' = approved_count(h, p)
  BY DEF entry_count, approved_count
<1>2. /\ entry_count(h, p) \in Nat /\ approved_count(h, p) \in Nat
      /\ halfway(h, p) \in {0, 1} /\ restarts \in Nat
  BY ApprovalsFinite DEF halfway, TypeInv, TypeOK
<1> QED
  BY <1>1, <1>2 DEF ApprovalOf

\* With the other tabs idle one tab can be halfway.
LEMMA HalfwayAlone ==
  ASSUME NEW u \in Tab, NEW h, NEW p,
         \A o \in Tab \ {u} : tab_pc[o] = "idle"
  PROVE  halfway(h, p) = IF HalfwayOf(u, h, p) THEN 1 ELSE 0
BY DEF halfway, HalfwayOf

\* The commit of an entry.
LEMMA AddRowApproval ==
  ASSUME TypeInv, PanelInv, NEW u \in Tab, AddRow(u),
         NEW h, NEW p, ApprovalOf(h, p), restarts' = restarts
  PROVE  ApprovalOf(h, p)'
<1> DEFINE new == Len(allowlist) + 1
           mine == /\ task[u].op = "approve"
                   /\ task[u].host = h /\ task[u].port = p
<1>1. /\ new \notin DOMAIN allowlist
      /\ DOMAIN allowlist' = DOMAIN allowlist \cup {new}
      /\ \A i \in DOMAIN allowlist : allowlist'[i] = allowlist[i]
      /\ allowlist'[new].pattern = task[u].host
      /\ allowlist'[new].port = task[u].port
      /\ allowlist'[new].source = IF task[u].op = "approve"
                                  THEN "approval" ELSE "manual"
  BY AddRowEntry
<1> HIDE DEF new
<1>2. approvals(h, p)' = IF mine THEN approvals(h, p) \cup {new}
                                 ELSE approvals(h, p)
  BY <1>1 DEF approvals
<1>3. new \notin approvals(h, p)
  BY <1>1 DEF approvals
<1>4. approved_count(h, p)' = approved_count(h, p)
  BY DEF AddRow, approved_count, approved_requests
<1>5. \A o \in Tab \ {u} : tab_pc[o] = "idle" /\ tab_pc'[o] = "idle"
  BY CommitGoes DEF OperationStep, PanelInv, AddRow, Proceed, TypeInv,
     TypeOK, PanelTypeOK
<1>6. halfway(h, p) = 0
  BY <1>5, HalfwayAlone DEF HalfwayOf, AddRow
<1>7. halfway(h, p)' = IF mine THEN 1 ELSE 0
  <2>1. PICK k : /\ tab_pc'[u] = next_commit(k.op, "add") /\ task'[u] = k
                 /\ k.op = task[u].op
                 /\ k.op = "approve" => k = task[u]
    <3> DEFINE k == IF task[u].op = "approve" THEN task[u]
                    ELSE [task[u] EXCEPT !.id = Len(allowlist) + 1]
    <3>1. k.op = task[u].op /\ (k.op = "approve" => k = task[u])
      BY DEF TypeInv, TypeOK, PanelTypeOK, Task
    <3>2. tab_pc[u] = "add" /\ Proceed(u, k)
      BY DEF AddRow
    <3> HIDE DEF k
    <3>3. TabGoes(u, k, next_commit(k.op, "add"))
      BY <1>5, <3>2, ProceedGoes
    <3> QED
      BY <3>1, <3>3 DEF TabGoes
  <2>2. HalfwayOf(u, h, p)' <=> mine
    BY <2>1 DEF HalfwayOf, next_commit
  <2> QED
    BY <1>5, <2>2, HalfwayAlone DEF halfway, HalfwayOf
<1>8. entry_count(h, p)' = IF mine THEN entry_count(h, p) + 1
                                   ELSE entry_count(h, p)
  BY <1>2, <1>3, ApprovalsFinite, FS_AddElement DEF entry_count
<1> HIDE DEF mine
<1> QED
  BY <1>4, <1>6, <1>7, <1>8, ApprovalsFinite DEF ApprovalOf, TypeInv, TypeOK

\* The commit of a decision.
LEMMA ResolveApproval ==
  ASSUME TypeInv, PanelInv, NEW u \in Tab, Resolve(u),
         NEW h, NEW p, ApprovalOf(h, p), restarts' = restarts
  PROVE  ApprovalOf(h, p)'
<1> DEFINE id == task[u].id
           mine == /\ task[u].op = "approve"
                   /\ task[u].host = h /\ task[u].port = p
<1>1. task[u].op \in {"approve", "deny"} /\ Asks(task[u])
  BY DEF Resolve, PanelInv, TabSound, CanBe
<1>2. /\ id \in DOMAIN requests /\ requests[id].status = "pending"
      /\ requests[id].host = task[u].host /\ requests[id].port = task[u].port
  BY <1>1 DEF Asks
<1>3. /\ DOMAIN requests' = DOMAIN requests
      /\ requests'[id].status = IF task[u].op = "approve" THEN "approved"
                                                          ELSE "denied"
      /\ \A r \in DOMAIN requests : /\ requests'[r].host = requests[r].host
                                    /\ requests'[r].port = requests[r].port
      /\ \A r \in DOMAIN requests \ {id} :
           requests'[r].status = "approved" <=> requests[r].status = "approved"
  BY <1>2, ResolveCloses DEF pending_ids
<1> HIDE DEF id
<1>4. approved_requests(h, p)' = IF mine THEN approved_requests(h, p) \cup {id}
                                         ELSE approved_requests(h, p)
  BY <1>1, <1>2, <1>3 DEF approved_requests
<1>5. id \notin approved_requests(h, p)
  BY <1>2 DEF approved_requests
<1>6. entry_count(h, p)' = entry_count(h, p)
  BY DEF Resolve, entry_count, approvals
<1>7. \A o \in Tab \ {u} : tab_pc[o] = "idle"
  BY CommitGoes DEF OperationStep, PanelInv
<1>8. halfway(h, p) = IF mine THEN 1 ELSE 0
  BY <1>7, HalfwayAlone DEF HalfwayOf, Resolve
<1>9. halfway(h, p)' = 0
  <2>1. TabGoes(u, task[u], next_commit(task[u].op, "resolve"))
    BY <1>7, ProceedGoes DEF Resolve
  <2>2. \A o \in Tab : tab_pc'[o] # "resolve"
    BY <1>1, <2>1 DEF TabGoes, next_commit
  <2> QED
    BY <2>2 DEF halfway, HalfwayOf
<1>10. approved_count(h, p)' = IF mine THEN approved_count(h, p) + 1
                                       ELSE approved_count(h, p)
  BY <1>4, <1>5, ApprovalsFinite, FS_AddElement DEF approved_count
<1> HIDE DEF mine
<1> QED
  BY <1>6, <1>8, <1>9, <1>10, ApprovalsFinite DEF ApprovalOf, TypeInv, TypeOK

\* A step that leaves the tabs where they are.
LEMMA TabsStayApproval ==
  ASSUME TypeInv, Next, UNCHANGED tabVars, NEW h, NEW p, ApprovalOf(h, p)
  PROVE  ApprovalOf(h, p)'
<1>1. requests' = requests \/ \E t \in Worker : Insert(t)
  BY RequestSteps, CommitMoves DEF OperationStep
<1>2. allowlist' = allowlist \/ \E t \in Worker : Consume(t)
  BY AllowlistSteps, CommitMoves DEF OperationStep
<1>3. DOMAIN allowlist' = DOMAIN allowlist
  BY <1>2 DEF Consume, spend
<1>4. approvals(h, p)' = approvals(h, p)
  BY <1>3, RowsKeptStep, ApprovalsStay
<1>5. approved_requests(h, p)' = approved_requests(h, p)
  BY <1>1, ApprovedStay
<1>6. halfway(h, p)' = halfway(h, p)
  BY DEF halfway, HalfwayOf, tabVars
<1>7. restarts' \in {restarts, restarts + 1}
  BY DEF Next, InBroker, InPanel, Restarting
<1> QED
  BY <1>4, <1>5, <1>6, <1>7, ApprovalStays

\* A step of a tab that neither adds an entry nor decides a request.
LEMMA OtherApproval ==
  ASSUME TypeInv, PanelInv, Next, NEW u \in Tab,
         Starts(u) \/ Retire(u) \/ SetPause(u) \/ LogEvent(u),
         restarts' = restarts, NEW h, NEW p, ApprovalOf(h, p)
  PROVE  ApprovalOf(h, p)'
<1>1. requests' = requests /\ DOMAIN allowlist' = DOMAIN allowlist
  <2>1. CASE Starts(u)
    BY <2>1, BeginGoes DEF PanelInv, storeVars
  <2>2. CASE Retire(u) \/ SetPause(u) \/ LogEvent(u)
    BY <2>2 DEF Retire, retire, SetPause, LogEvent, storeVars
  <2> QED
    BY <2>1, <2>2
<1>2. \A o \in Tab : tab_pc[o] # "resolve" \/ task[o].op # "approve"
  <2>1. CASE Starts(u)
    BY <2>1, BeginGoes DEF PanelInv
  <2>2. CASE Retire(u) \/ SetPause(u) \/ LogEvent(u)
    <3>1. \A o \in Tab \ {u} : tab_pc[o] = "idle"
      BY <2>2, CommitGoes DEF OperationStep, PanelInv
    <3> QED
      BY <2>2, <3>1 DEF Retire, SetPause, LogEvent
  <2> QED
    BY <2>1, <2>2
<1>3. \A o \in Tab : tab_pc'[o] # "resolve" \/ task'[o].op # "approve"
  <2>1. CASE Starts(u)
    <3>1. PICK k \in Task : TabGoes(u, k, next_commit(k.op, "idle"))
      BY <2>1, BeginGoes DEF PanelInv
    <3> QED
      BY <3>1 DEF TabGoes, next_commit
  <2>2. CASE Retire(u) \/ SetPause(u)
    <3>1. \A o \in Tab \ {u} : tab_pc[o] = "idle"
      BY <2>2, CommitGoes DEF OperationStep, PanelInv
    <3>2. tab_pc[u] \in {"retire", "set"} /\ Proceed(u, task[u])
      BY <2>2 DEF Retire, SetPause
    <3>3. TabGoes(u, task[u], next_commit(task[u].op, tab_pc[u]))
      BY <3>1, <3>2, ProceedGoes
    <3> QED
      BY <3>2, <3>3 DEF TabGoes, next_commit
  <2>3. CASE LogEvent(u)
    <3>1. \A o \in Tab \ {u} : tab_pc[o] = "idle"
      BY <2>3, CommitGoes DEF OperationStep, PanelInv
    <3> QED
      BY <2>3, <3>1 DEF LogEvent, TypeInv, TypeOK, PanelTypeOK
  <2> QED
    BY <2>1, <2>2, <2>3
<1>4. halfway(h, p)' = halfway(h, p)
  BY <1>2, <1>3 DEF halfway, HalfwayOf
<1>5. approvals(h, p)' = approvals(h, p)
  BY <1>1, RowsKeptStep, ApprovalsStay
<1>6. approved_requests(h, p)' = approved_requests(h, p)
  BY <1>1, ApprovedStay
<1> QED
  BY <1>4, <1>5, <1>6, ApprovalStays

\* A crash: the approval that was halfway never closes its request.
LEMMA RestartApproval ==
  ASSUME TypeInv, PanelRestart, restarts' = restarts + 1,
         NEW h, NEW p, ApprovalOf(h, p)
  PROVE  ApprovalOf(h, p)'
<1>1. /\ entry_count(h, p)' = entry_count(h, p)
      /\ approved_count(h, p)' = approved_count(h, p)
  BY DEF PanelRestart, storeVars, entry_count, approvals, approved_count,
     approved_requests
<1>2. halfway(h, p)' = 0 /\ halfway(h, p) \in {0, 1}
  BY DEF PanelRestart, halfway, HalfwayOf
<1> QED
  BY <1>1, <1>2, ApprovalsFinite DEF ApprovalOf, TypeInv, TypeOK

\* Every step keeps the invariant.
LEMMA ApprovalInvStep ==
  ASSUME TypeInv, PanelInv, ApprovalInv, [Next]_vars
  PROVE  ApprovalInv'
<1> SUFFICES ASSUME NEW h \in Host, NEW p \in Port
             PROVE  ApprovalOf(h, p)'
  BY DEF ApprovalInv
<1>1. ApprovalOf(h, p)
  BY DEF ApprovalInv
<1>2. CASE UNCHANGED vars
  BY <1>1, <1>2 DEF vars, storeVars, panelVars, ApprovalOf, entry_count,
     approved_count, approvals, approved_requests, halfway, HalfwayOf
<1>3. CASE Next
  <2>1. ASSUME NEW u \in Tab, OperationStep(u), restarts' = restarts
        PROVE  ApprovalOf(h, p)'
    BY <1>1, <1>3, <2>1, AddRowApproval, ResolveApproval, OtherApproval
       DEF OperationStep
  <2>2. ASSUME NEW u \in Tab, Starts(u), restarts' = restarts
        PROVE  ApprovalOf(h, p)'
    BY <1>1, <1>3, <2>2, OtherApproval
  <2>3. ASSUME PanelRestart, restarts' = restarts + 1
        PROVE  ApprovalOf(h, p)'
    BY <1>1, <2>3, RestartApproval
  <2>4. ASSUME UNCHANGED tabVars PROVE ApprovalOf(h, p)'
    BY <1>1, <1>3, <2>4, TabsStayApproval
  <2> QED
    BY <1>3, <2>1, <2>2, <2>3, <2>4, TabSteps
<1> QED
  BY <1>2, <1>3

\* The requests table is empty when the services of the model start, and
\* then no row of the allowlist stems from an approval.
NothingApproved ==
  \A i \in DOMAIN InitialRows : InitialRows[i].source # "approval"

\* Every approved request has its entry, and there is one more entry at most
\* for every crash, for any number of tabs, requests and crashes.
THEOREM ApprovalsMatch ==
  ASSUME NothingApproved
  PROVE  Spec => []OneEntryPerApproval
<1>1. Init => ApprovalInv
  <2> SUFFICES ASSUME Init, NEW h \in Host, NEW p \in Port
               PROVE  ApprovalOf(h, p)
    BY DEF ApprovalInv
  <2>1. approvals(h, p) = {} /\ approved_requests(h, p) = {}
    BY NothingApproved
       DEF Init, StoreInit, NothingApproved, approvals, approved_requests
  <2>2. halfway(h, p) = 0 /\ restarts = 0
    BY DEF Init, PanelInit, halfway, HalfwayOf
  <2> QED
    BY <2>1, <2>2, FS_EmptySet DEF ApprovalOf, entry_count, approved_count
<1>2. TypeInv /\ PanelInv /\ ApprovalInv /\ [Next]_vars => ApprovalInv'
  BY ApprovalInvStep
<1>3. TypeInv /\ PanelInv /\ ApprovalInv => OneEntryPerApproval
  <2> SUFFICES ASSUME TypeInv, PanelInv, ApprovalInv,
                      NEW h \in Host, NEW p \in Port
               PROVE  /\ approved_count(h, p) > 0 => entry_count(h, p) > 0
                      /\ panel_lock = NoTab =>
                           entry_count(h, p) \in
                             approved_count(h, p) ..
                             approved_count(h, p) + restarts
    BY DEF OneEntryPerApproval, approved_count, entry_count
  <2>1. ApprovalOf(h, p) /\ restarts \in Nat
    BY DEF ApprovalInv, TypeInv, TypeOK
  <2>2. entry_count(h, p) \in Nat /\ approved_count(h, p) \in Nat
    BY ApprovalsFinite
  <2>3. halfway(h, p) \in {0, 1}
    BY DEF halfway
  <2>4. panel_lock = NoTab => halfway(h, p) = 0
    BY PanelAssumption DEF PanelInv, PanelHeld, halfway, HalfwayOf
  <2> QED
    BY <2>1, <2>2, <2>3, <2>4 DEF ApprovalOf
<1> QED
  BY <1>1, <1>2, <1>3, TypeInvariant, PanelSound, PTL DEF Spec

----------------------------------------------------------------------------
(* The pause setting and its last stamp.                                   *)

\* The operator pauses and resumes from the panel, or from one terminal, but
\* not from both: the panel's lock says nothing to brokerctl.
OneWriter ==
  \/ Terminal = {}
  \/ /\ Menu \cap {"pause", "resume"} = {}
     /\ \A c, d \in Terminal : c = d

\* An operation that has set the pause and not yet stamped it.
Telling(u) == tab_pc[u] = "log" /\ task[u].op \in {"pause", "resume"}

CliTelling(c) == cli_pc[c] = "log"

GateInv ==
  restarts = 0 =>
    /\ \A u \in Tab : Telling(u) => task[u].until = paused_until
    /\ \A c \in Terminal : CliTelling(c) => cli[c].until = paused_until
    /\ \/ paused_until = gate_stamp
       \/ \E u \in Tab : Telling(u)
       \/ \E c \in Terminal : CliTelling(c)

\* A tab that pauses or resumes has the setting to itself.
LEMMA TabWritesAlone ==
  ASSUME OneWriter, PanelInv, NEW u \in Tab, tab_pc[u] # "idle",
         task[u].op \in {"pause", "resume"}
  PROVE  Terminal = {}
BY DEF OneWriter, PanelInv, TabSound

\* A terminal has it to itself.
LEMMA CliWritesAlone ==
  ASSUME OneWriter, PanelInv, NEW c \in Terminal
  PROVE  /\ \A u \in Tab : ~ Telling(u)
         /\ \A d \in Terminal : d = c
BY DEF OneWriter, PanelInv, TabSound, Telling

\* A step of brokerctl.
LEMMA CliGate ==
  ASSUME TypeInv, OneWriter, PanelInv, GateInv, NEW c \in Terminal,
         CliPause(c) \/ CliResume(c) \/ CliSet(c) \/ CliLog(c),
         restarts' = restarts
  PROVE  GateInv'
<1> USE DEF TypeInv, TypeOK, PanelTypeOK
<1>1. UNCHANGED tabVars
  BY DEF CliPause, CliResume, CliBegin, CliSet, CliLog
<1>2. \A u \in Tab : ~ Telling(u) /\ ~ Telling(u)'
  BY <1>1, CliWritesAlone DEF Telling, tabVars
<1>3. \A d \in Terminal : d = c
  BY CliWritesAlone
<1>4. CASE CliPause(c) \/ CliResume(c)
  <2>1. /\ cli_pc[c] = "idle" /\ cli_pc'[c] = "set"
        /\ paused_until' = paused_until /\ gate_stamp' = gate_stamp
    BY <1>4 DEF CliPause, CliResume, CliBegin, storeVars, stampVars
  <2> QED
    BY <1>2, <1>3, <2>1 DEF GateInv, CliTelling
<1>5. CASE CliSet(c)
  <2>1. cli_pc'[c] = "log" /\ cli' = cli /\ paused_until' = cli[c].until
    BY <1>5 DEF CliSet, set_pause
  <2> QED
    BY <1>2, <1>3, <2>1 DEF GateInv, CliTelling
<1>6. CASE CliLog(c)
  <2>1. /\ cli_pc[c] = "log" /\ cli_pc'[c] = "idle"
        /\ gate_stamp' = cli[c].until /\ paused_until' = paused_until
    BY <1>6 DEF CliLog, storeVars
  <2> QED
    BY <1>2, <1>3, <2>1 DEF GateInv, CliTelling
<1> QED
  BY <1>4, <1>5, <1>6

\* A step that leaves the setting, its stamp and brokerctl alone, before and
\* after which no tab is about to stamp the setting.
LEMMA QuietGate ==
  ASSUME GateInv, restarts' = restarts, paused_until' = paused_until,
         UNCHANGED <<cliVars, gate_stamp>>,
         \A u \in Tab : ~ Telling(u) /\ ~ Telling(u)'
  PROVE  GateInv'
BY DEF GateInv, CliTelling, cliVars

\* An operation begins, or makes a commit.
LEMMA TabGate ==
  ASSUME TypeInv, OneWriter, PanelInv, GateInv, NEW u \in Tab,
         Starts(u) \/ OperationStep(u), restarts' = restarts
  PROVE  GateInv'
<1>1. CASE Starts(u)
  <2>1. PICK k \in Task :
          /\ k.op \in Menu
          /\ \A o \in Tab : tab_pc[o] = "idle"
          /\ TabGoes(u, k, next_commit(k.op, "idle"))
          /\ UNCHANGED <<storeVars, cliVars, stampVars>>
    BY <1>1, BeginGoes DEF PanelInv
  <2>2. \A o \in Tab : ~ Telling(o) /\ ~ Telling(o)'
    BY <2>1, PanelAssumption
       DEF TabGoes, Telling, next_commit, Operation
  <2> QED
    BY <2>1, <2>2, QuietGate DEF storeVars, stampVars
<1>2. ASSUME OperationStep(u)
      PROVE  \A o \in Tab \ {u} : tab_pc[o] = "idle"
  BY <1>2, CommitGoes DEF PanelInv
<1>3. CASE AddRow(u) \/ Resolve(u) \/ Retire(u)
  <2>1. \A o \in Tab \ {u} : tab_pc[o] = "idle"
    BY <1>2, <1>3 DEF OperationStep
  <2>2. PICK k : Proceed(u, k) /\ k.op = task[u].op
    <3>1. CASE AddRow(u)
      <4> DEFINE k == IF task[u].op = "approve" THEN task[u]
                      ELSE [task[u] EXCEPT !.id = Len(allowlist) + 1]
      <4>1. k.op = task[u].op
        BY DEF TypeInv, TypeOK, PanelTypeOK, Task
      <4>2. Proceed(u, k)
        BY <3>1 DEF AddRow
      <4> HIDE DEF k
      <4> QED
        BY <4>1, <4>2
    <3> QED
      BY <1>3, <3>1 DEF Resolve, Retire
  <2>3. /\ tab_pc[u] \in {"add", "resolve", "retire"}
        /\ k.op \notin {"pause", "resume"}
    BY <1>3, <2>2 DEF AddRow, Resolve, Retire, PanelInv, TabSound, CanBe
  <2>4. TabGoes(u, k, next_commit(k.op, tab_pc[u]))
    BY <2>1, <2>2, ProceedGoes
  <2>5. \A o \in Tab : ~ Telling(o) /\ ~ Telling(o)'
    BY <2>1, <2>3, <2>4 DEF TabGoes, Telling
  <2>6. paused_until' = paused_until /\ UNCHANGED <<cliVars, gate_stamp>>
    BY <1>3 DEF AddRow, Resolve, Retire, stampVars
  <2> QED
    BY <2>5, <2>6, QuietGate
<1>4. CASE SetPause(u)
  <2>1. \A o \in Tab \ {u} : tab_pc[o] = "idle"
    BY <1>2, <1>4 DEF OperationStep
  <2>2. /\ tab_pc[u] = "set" /\ Proceed(u, task[u])
        /\ paused_until' = task[u].until
    BY <1>4 DEF SetPause, set_pause
  <2>3. task[u].op \in {"pause", "resume"}
    BY <2>2 DEF PanelInv, TabSound, CanBe
  <2>4. Terminal = {}
    BY <2>2, <2>3, TabWritesAlone
  <2>5. TabGoes(u, task[u], "log")
    BY <2>1, <2>2, <2>3, ProceedGoes DEF next_commit
  <2>6. \A o \in Tab : Telling(o)' <=> o = u
    BY <2>3, <2>5 DEF TabGoes, Telling
  <2> QED
    BY <2>2, <2>4, <2>5, <2>6 DEF GateInv, TabGoes
<1>5. CASE LogEvent(u)
  <2>1. \A o \in Tab \ {u} : tab_pc[o] = "idle"
    BY <1>2, <1>5 DEF OperationStep
  <2>2. /\ tab_pc[u] = "log" /\ paused_until' = paused_until
        /\ gate_stamp' = IF Telling(u) THEN task[u].until ELSE gate_stamp
        /\ UNCHANGED cliVars
    BY <1>5 DEF LogEvent, Telling, storeVars
  <2>3. \A o \in Tab : ~ Telling(o)'
    BY <1>5, <2>1
       DEF LogEvent, Telling, TypeInv, TypeOK, PanelTypeOK
  <2>4. CASE Telling(u)
    BY <2>2, <2>3, <2>4 DEF GateInv, CliTelling, cliVars
  <2>5. CASE ~ Telling(u)
    <3>1. \A o \in Tab : ~ Telling(o)
      BY <2>1, <2>5 DEF Telling
    <3> QED
      BY <2>2, <2>3, <2>5, <3>1, QuietGate
  <2> QED
    BY <2>4, <2>5
<1> QED
  BY <1>1, <1>3, <1>4, <1>5 DEF OperationStep

\* Every step keeps the invariant.
LEMMA GateInvStep ==
  ASSUME TypeInv, OneWriter, PanelInv, GateInv, [Next]_vars
  PROVE  GateInv'
<1>1. ASSUME paused_until' = paused_until, UNCHANGED panelVars,
             restarts' = restarts
      PROVE  GateInv'
  BY <1>1 DEF panelVars, GateInv, Telling, CliTelling
<1>2. CASE UNCHANGED vars
  BY <1>1, <1>2 DEF vars, storeVars
<1>3. CASE Next
  <2> USE DEF InBroker, InPanel, storeVars
  <2>1. ASSUME restarts' = restarts + 1 PROVE GateInv'
    BY <2>1 DEF GateInv, TypeInv, TypeOK
  <2>2. ASSUME NEW t \in Worker,
               AclCheck(t) \/ Submit(t) \/ HandlerStep(t)
        PROVE  paused_until' = paused_until
    BY <2>2 DEF AclCheck, Submit, TakeLock, HandlerStep, ReadPause, Match,
       Consume, ReadDenial, ReadExisting, ReadCount, Find, Bump, Insert, Reply
  <2>3. BrokerRestart \/ Tick => paused_until' = paused_until
    BY DEF BrokerRestart, Tick
  <2>4. ASSUME restarts' = restarts
        PROVE  \/ paused_until' = paused_until /\ UNCHANGED panelVars
               \/ \E u \in Tab : Starts(u) \/ OperationStep(u)
               \/ \E c \in Terminal : \/ CliPause(c) \/ CliResume(c)
                                      \/ CliSet(c) \/ CliLog(c)
    <3>1. ~ Restarting
      BY <2>4 DEF Restarting, TypeInv, TypeOK
    <3> QED
      BY <1>3, <2>2, <2>3, <3>1
         DEF Next, HandlerStep, Starts, OperationStep
  <2>5. restarts' \in {restarts, restarts + 1}
    BY <1>3 DEF Next, Restarting
  <2> QED
    BY <1>1, <2>1, <2>4, <2>5, TabGate, CliGate
<1> QED
  BY <1>2, <1>3

\* As long as nothing was cut short, the last pause or resume stamp tells what
\* the setting is whenever no operation is under way, provided that the panel
\* and brokerctl do not both set it.
THEOREM StampTellsPause ==
  ASSUME OneWriter
  PROVE  Spec => []GateMatchesLog
<1>1. Init => GateInv
  BY DEF Init, StoreInit, PanelInit, GateInv, Telling, CliTelling
<1>2. TypeInv /\ PanelInv /\ GateInv /\ [Next]_vars => GateInv'
  BY OneWriter, GateInvStep
<1>3. PanelInv /\ GateInv => GateMatchesLog
  BY PanelAssumption
     DEF PanelInv, PanelHeld, GateInv, Telling, CliTelling, GateMatchesLog
<1> QED
  BY <1>1, <1>2, <1>3, TypeInvariant, PanelSound, PTL DEF Spec
=============================================================================
