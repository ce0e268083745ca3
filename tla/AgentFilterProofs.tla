------------------------- MODULE AgentFilterProofs -------------------------
(***************************************************************************)
(* The safety proofs of AgentFilter: what may be answered to a check, and  *)
(* how often an entry for one use admits.  The argument is in layers, each *)
(* inductive given the ones before it:                                     *)
(*                                                                         *)
(*   TypeInv    types, and that a handler past the gates has a destination *)
(*              that passes them (AgentFilterTypes);                       *)
(*   Held       a thread under way is the one that holds the lock;         *)
(*   ViewSound  what was dead when a check began is dead at the check's ts *)
(*              for good: rows are never revived (RowsKept);               *)
(*   HitSound   the entry a check is about to be admitted by covers it and *)
(*              was not dead when it began;                                *)
(*   OnceInv    an entry for one use is spent before its check is answered *)
(*              and has admitted nothing until then;                       *)
(*   CheckSound an idle thread holds nothing, and the pause is in the view *)
(*              of every check it is in force for.                         *)
(*                                                                         *)
(* Under these every step is a step of Gate or none, so AgentFilter        *)
(* implements Gate.                                                        *)
(***************************************************************************)
EXTENDS AgentFilterTypes

----------------------------------------------------------------------------
(* How a step changes the allowlist.                                       *)

\* The step leaves the allowlist and the history of admissions alone, or is
\* one of the four that do not.
LEMMA AllowlistSteps ==
  ASSUME TypeInv, Next
  PROVE  \/ allowlist' = allowlist /\ finals' = finals
         \/ /\ allowlist' = allowlist
            /\ \E t \in Worker : Reply(t) /\ Admission(t)
         \/ finals' = finals /\ \E t \in Worker : Consume(t)
         \/ NewEntry /\ \E u \in Tab : AddRow(u)
         \/ finals' = finals /\ \E u \in Tab : Retire(u)
<1> USE DEF InBroker, InPanel, storeVars
<1>1. ASSUME NEW t \in Worker, AclCheck(t) \/ Submit(t)
      PROVE  allowlist' = allowlist
  BY <1>1 DEF AclCheck, Submit, TakeLock
<1>2. ASSUME NEW t \in Worker,
             \/ ReadPause(t) \/ Match(t) \/ ReadDenial(t) \/ ReadExisting(t)
             \/ ReadCount(t) \/ Find(t) \/ Bump(t) \/ Insert(t) \/ Reply(t)
      PROVE  allowlist' = allowlist
  BY <1>2 DEF ReadPause, Match, ReadDenial, ReadExisting, ReadCount, Find,
              Bump, Insert, Reply
<1>3. ASSUME NEW u \in Tab, Starts(u) PROVE allowlist' = allowlist
  BY <1>3, StartsBegin DEF TypeInv, TypeOK, Begin
<1>4. ASSUME NEW u \in Tab, Resolve(u) \/ SetPause(u) \/ LogEvent(u)
      PROVE  allowlist' = allowlist
  BY <1>4 DEF Resolve, SetPause, LogEvent
<1>5. ASSUME NEW c \in Terminal,
             \/ CliPause(c) \/ CliResume(c) \/ CliSet(c) \/ CliLog(c)
             \/ CliKilled(c)
      PROVE  allowlist' = allowlist
  BY <1>5 DEF CliPause, CliResume, CliBegin, CliSet, CliLog, CliKilled
<1>6. BrokerRestart \/ PanelRestart \/ Tick => allowlist' = allowlist
  BY DEF BrokerRestart, PanelRestart, Tick
<1> QED
  BY <1>1, <1>2, <1>3, <1>4, <1>5, <1>6 DEF Next, Starts

\* What becomes of an entry: its columns stay as they were inserted but for
\* consumed and expires, and it is never revived, at no time ts.
Ages(row, new) ==
  /\ new.pattern = row.pattern /\ new.kind = row.kind
  /\ new.port = row.port /\ new.scope = row.scope
  /\ new.source = row.source /\ new.group = row.group
  /\ row.consumed # Null => new.consumed # Null
  /\ \A ts \in Nat : ~ active(row, ts) => ~ active(new, ts)

RowsKept ==
  \A i \in DOMAIN allowlist :
    i \in DOMAIN allowlist' /\ Ages(allowlist[i], allowlist'[i])

\* A row that stays as it is ages.
LEMMA AgesSelf == ASSUME NEW row PROVE Ages(row, row)
BY DEF Ages

\* A new entry leaves the rows before it alone.
LEMMA AddRowKeeps ==
  ASSUME TypeInv, NEW u \in Tab, AddRow(u)
  PROVE  /\ Len(allowlist') = Len(allowlist) + 1
         /\ \A i \in DOMAIN allowlist : i \in DOMAIN allowlist' /\
                                        allowlist'[i] = allowlist[i]
         /\ allowlist'[Len(allowlist) + 1].consumed = Null
<1>1. PICK row : allowlist' = Append(allowlist, row) /\ row.consumed = Null
  BY DEF AddRow, add_allowlist, new_row
<1> QED
  BY <1>1 DEF TypeInv, TypeOK, StoreTypeOK

\* A row that is retired ages.
LEMMA RetireKeeps ==
  ASSUME TypeInv, NEW u \in Tab, Retire(u)
  PROVE  /\ Len(allowlist') = Len(allowlist)
         /\ \A i \in DOMAIN allowlist :
              /\ i \in DOMAIN allowlist'
              /\ Ages(allowlist[i], allowlist'[i])
              /\ allowlist'[i].consumed = allowlist[i].consumed
              /\ allowlist'[i].expires =
                   IF /\ i \in retired_by(task[u])
                      /\ unexpired(allowlist[i], task[u].ts)
                   THEN task[u].ts ELSE allowlist[i].expires
<1> DEFINE ids == retired_by(task[u])
           now == task[u].ts
<1>1. now \in Nat
  BY DEF TypeInv, TypeOK, PanelTypeOK, Task
<1>2. retire(ids, now)
  BY DEF Retire
<1>3. Len(allowlist') = Len(allowlist)
  BY <1>1, <1>2, TypeOfRetire DEF TypeInv, TypeOK
<1>4. ASSUME NEW i \in DOMAIN allowlist
      PROVE  /\ i \in DOMAIN allowlist'
             /\ Ages(allowlist[i], allowlist'[i])
             /\ allowlist'[i].consumed = allowlist[i].consumed
             /\ allowlist'[i].expires =
                  IF i \in ids /\ unexpired(allowlist[i], now)
                  THEN now ELSE allowlist[i].expires
  <2> DEFINE row == allowlist[i]
             new == [row EXCEPT !.expires = now]
  <2>1. row \in Row
    BY DEF TypeInv, TypeOK, StoreTypeOK
  <2>2. i \in DOMAIN allowlist'
    BY <1>2 DEF retire
  <2>3. allowlist'[i] = IF i \in ids /\ unexpired(row, now) THEN new ELSE row
    BY <1>2 DEF retire
  <2>4. CASE i \in ids /\ unexpired(row, now)
    <3>1. /\ new.pattern = row.pattern /\ new.kind = row.kind
          /\ new.port = row.port /\ new.scope = row.scope
          /\ new.source = row.source /\ new.group = row.group
          /\ new.consumed = row.consumed /\ new.expires = now
      BY <2>1 DEF Row
    <3>2. row.expires \in Nat \cup {Null}
      BY <2>1 DEF Row
    <3>3. \A ts \in Nat : ~ active(row, ts) => ~ active(new, ts)
      BY <1>1, <2>4, <3>1, <3>2 DEF active, unexpired, Null
    <3> HIDE DEF new
    <3> QED
      BY <2>2, <2>3, <2>4, <3>1, <3>3 DEF Ages
  <2>5. CASE ~ (i \in ids /\ unexpired(row, now))
    BY <2>2, <2>3, <2>5, AgesSelf
  <2> QED
    BY <2>4, <2>5
<1> QED
  BY <1>3, <1>4

\* A row that is spent ages.
LEMMA ConsumeKeeps ==
  ASSUME TypeInv, NEW t \in Worker, Consume(t)
  PROVE  /\ Len(allowlist') = Len(allowlist)
         /\ \A i \in DOMAIN allowlist :
              /\ i \in DOMAIN allowlist'
              /\ Ages(allowlist[i], allowlist'[i])
              /\ allowlist'[i].expires = allowlist[i].expires
              /\ IF i = job[t].hit
                 THEN allowlist'[i].consumed # Null
                 ELSE allowlist'[i] = allowlist[i]
<1> DEFINE id == job[t].hit
           now == job[t].ts
<1>1. now \in Nat
  BY DEF TypeInv, TypeOK, BrokerTypeOK, Job
<1>2. allowlist' = [allowlist EXCEPT ![id].consumed = now]
  BY DEF Consume, spend
<1>3. Len(allowlist') = Len(allowlist) /\ DOMAIN allowlist' = DOMAIN allowlist
  BY <1>2 DEF TypeInv, TypeOK, StoreTypeOK
<1>4. ASSUME NEW i \in DOMAIN allowlist, i # id
      PROVE  allowlist'[i] = allowlist[i]
  BY <1>2, <1>4
<1>5. ASSUME id \in DOMAIN allowlist
      PROVE  /\ Ages(allowlist[id], allowlist'[id])
             /\ allowlist'[id].consumed # Null
             /\ allowlist'[id].expires = allowlist[id].expires
  <2> DEFINE row == allowlist[id]
             new == [row EXCEPT !.consumed = now]
  <2>1. row \in Row
    BY <1>5 DEF TypeInv, TypeOK, StoreTypeOK
  <2>2. /\ new.pattern = row.pattern /\ new.kind = row.kind
        /\ new.port = row.port /\ new.scope = row.scope
        /\ new.source = row.source /\ new.group = row.group
        /\ new.consumed = now /\ new.consumed # Null
        /\ new.expires = row.expires
    BY <1>1, <2>1 DEF Row, Null
  <2>3. allowlist'[id] = new
    BY <1>2, <1>5
  <2> HIDE DEF new
  <2> QED
    BY <2>2, <2>3 DEF Ages, active
<1> QED
  BY <1>3, <1>4, <1>5, AgesSelf

\* No step drops a row, and rows only age.
LEMMA RowsKeptStep ==
  ASSUME TypeInv, Next
  PROVE  RowsKept
<1>1. CASE allowlist' = allowlist
  BY <1>1, AgesSelf DEF RowsKept
<1>2. CASE \E t \in Worker : Consume(t)
  BY <1>2, ConsumeKeeps DEF RowsKept
<1>3. CASE \E u \in Tab : AddRow(u)
  BY <1>3, AddRowKeeps, AgesSelf DEF RowsKept
<1>4. CASE \E u \in Tab : Retire(u)
  BY <1>4, RetireKeeps DEF RowsKept
<1> QED
  BY <1>1, <1>2, <1>3, <1>4, AllowlistSteps

----------------------------------------------------------------------------
(* The broker's lock.                                                      *)

Held == \A t \in Worker : pc[t] # "idle" => lock = t

\* The codes that only a handler past the gates answers.
Verdict == {"ALLOWED", "PAUSED_ALLOW", "PENDING", "QUEUE_FULL",
            "DENIED_BY_ADMIN"}

\* What the step of a thread does to pc, job and the lock: it takes a free
\* lock, goes on, or gives the lock back.
Takes(t) ==
  /\ pc[t] = "idle" /\ lock = Free /\ lock' = t
  /\ job'[t].ts = clock
  /\ pc'[t] \in {"pause", "match", "reply"}
  /\ pc'[t] = "reply" =>
       job'[t].code \notin Verdict
  /\ UNCHANGED storeVars

GoesOn(t) ==
  /\ pc[t] # "idle" /\ pc'[t] # "idle" /\ lock' = lock
  /\ job'[t].ts = job[t].ts

GivesBack(t) ==
  /\ pc[t] = "reply" /\ pc'[t] = "idle" /\ lock' = Free
  /\ job'[t] = NoJob
  /\ UNCHANGED storeVars

OthersStay(t) ==
  \A o \in Worker \ {t} : pc'[o] = pc[o] /\ job'[o] = job[o]

\* A thread's step moves that thread and no other.
LEMMA GoStays ==
  ASSUME TypeInv, NEW t \in Worker, NEW j, NEW label, Go(t, j, label)
  PROVE  pc'[t] = label /\ job'[t] = j /\ OthersStay(t)
BY DEF Go, OthersStay, TypeInv, TypeOK, BrokerTypeOK

\* TakeLock is Takes.
LEMMA TakeLockTakes ==
  ASSUME TypeInv, NEW t \in Worker, NEW payload \in Job, NEW code,
         code \notin Verdict,
         NEW label \in {"pause", "match"}, TakeLock(t, payload, code, label)
  PROVE  Takes(t) /\ OthersStay(t)
<1> DEFINE j == [payload EXCEPT !.ts = clock, !.code = code]
<1>1. j.ts = clock /\ j.code = code
  BY DEF Job
<1>2. Go(t, j, IF code = "NONE" THEN label ELSE "reply")
  BY DEF TakeLock
<1> HIDE DEF j
<1> QED
  BY <1>1, <1>2, GoStays DEF Takes, TakeLock

\* Every step of a thread takes the lock, goes on or gives the lock back.
LEMMA BrokerMoves ==
  ASSUME TypeInv, NEW t \in Worker, BrokerStep(t)
  PROVE  OthersStay(t) /\ (Takes(t) \/ GoesOn(t) \/ GivesBack(t))
<1> DEFINE Going(j, label) ==
      /\ Go(t, j, label) /\ label # "idle" /\ pc[t] # "idle"
      /\ lock' = lock /\ j.ts = job[t].ts
<1>1. job[t] \in Job
  BY DEF TypeInv, TypeOK, BrokerTypeOK
<1>2. CASE AclCheck(t)
  <2>1. PICK h \in Host \cup {Malformed}, p \in Port, final \in BOOLEAN :
          TakeLock(t, [NoJob EXCEPT !.host = h, !.port = p, !.final = final],
                   gate_code(h, p), "pause")
    BY <1>2 DEF AclCheck
  <2>2. [NoJob EXCEPT !.host = h, !.port = p, !.final = final] \in Job
    BY NoJobType DEF Job
  <2>3. gate_code(h, p) \notin Verdict
    BY DEF gate_code, Verdict
  <2> QED
    BY <2>1, <2>2, <2>3, TakeLockTakes
<1>3. CASE Submit(t)
  <2>1. PICK h \in Host \cup {Malformed}, p \in Port,
             why \in Reason \cup {NoReason} :
          \E code \in {gate_code(h, p), "RATE_LIMITED"} :
            TakeLock(t, [NoJob EXCEPT !.op = "submit", !.host = h,
                                      !.port = p, !.why = why],
                     code, "match")
    BY <1>3 DEF Submit
  <2>2. PICK code \in {gate_code(h, p), "RATE_LIMITED"} :
          TakeLock(t, [NoJob EXCEPT !.op = "submit", !.host = h,
                                    !.port = p, !.why = why],
                   code, "match")
    BY <2>1
  <2>3. [NoJob EXCEPT !.op = "submit", !.host = h, !.port = p, !.why = why]
          \in Job
    BY NoJobType DEF Job
  <2>4. code \notin Verdict
    BY DEF gate_code, Verdict
  <2> QED
    BY <2>2, <2>3, <2>4, TakeLockTakes
<1>4. CASE HandlerStep(t) /\ ~ Reply(t)
  <2>1. ASSUME NEW code, Answer(t, code), pc[t] # "idle", lock' = lock
        PROVE  Going([job[t] EXCEPT !.code = code], "reply")
    BY <1>1, <2>1 DEF Answer, Job
  <2>2. ASSUME NEW label, Go(t, job[t], label), label # "idle",
               pc[t] # "idle", lock' = lock
        PROVE  Going(job[t], label)
    BY <2>2
  <2> HIDE DEF Going
  <2>3. \E j, label : Going(j, label)
    <3>1. CASE Match(t)
      <4> DEFINE hit == active_match(job[t].host, job[t].port, job[t].ts)
                 j   == [job[t] EXCEPT !.hit = hit]
                 a   == [j EXCEPT !.code = "ALLOWED"]
      <4>1. j.ts = job[t].ts /\ a.ts = job[t].ts
        BY <1>1 DEF Job
      <4>2. /\ pc[t] # "idle" /\ lock' = lock
            /\ \/ Go(t, j, "denial") \/ Go(t, j, "consume")
               \/ Go(t, a, "reply")
        BY <3>1 DEF Match
      <4> HIDE DEF j, a
      <4> QED
        BY <4>1, <4>2 DEF Going
    <3>2. CASE Find(t)
      <4> DEFINE r == pending_request(job[t].host, job[t].port)
                 j == [job[t] EXCEPT !.req = r]
      <4>1. j.ts = job[t].ts
        BY <1>1 DEF Job
      <4>2. pc[t] # "idle" /\ lock' = lock /\ Go(t, j, "write")
        BY <3>2 DEF Find
      <4> HIDE DEF j
      <4> QED
        BY <4>1, <4>2 DEF Going
    <3>3. CASE Insert(t)
      <4> DEFINE j == [job[t] EXCEPT !.req = Len(requests) + 1,
                                     !.code = "PENDING"]
      <4>1. j.ts = job[t].ts
        BY <1>1 DEF Job
      <4>2. pc[t] # "idle" /\ lock' = lock /\ Go(t, j, "reply")
        BY <3>3 DEF Insert
      <4> HIDE DEF j
      <4> QED
        BY <4>1, <4>2 DEF Going
    <3>4. CASE ReadPause(t)
      BY <2>1, <2>2, <3>4 DEF ReadPause
    <3>5. CASE Consume(t) \/ Bump(t)
      BY <2>1, <3>5 DEF Consume, Bump
    <3>6. CASE ReadDenial(t)
      BY <2>1, <2>2, <3>6 DEF ReadDenial
    <3>7. CASE ReadExisting(t)
      BY <2>1, <2>2, <3>7 DEF ReadExisting
    <3>8. CASE ReadCount(t)
      BY <2>1, <2>2, <3>8 DEF ReadCount
    <3> QED
      BY <1>4, <3>1, <3>2, <3>3, <3>4, <3>5, <3>6, <3>7, <3>8
         DEF HandlerStep
  <2> QED
    BY <2>3, GoStays DEF Going, GoesOn
<1>5. CASE Reply(t)
  BY <1>5, GoStays DEF Reply, GivesBack
<1> QED
  BY <1>2, <1>3, <1>4, <1>5 DEF BrokerStep

\* Everything but a thread's step leaves the threads as they are, or stops
\* them all.
LEMMA OtherMoves ==
  ASSUME TypeInv, Next
  PROVE  \/ \E t \in Worker : BrokerStep(t)
         \/ UNCHANGED brokerVars
         \/ \A t \in Worker : pc'[t] = "idle" /\ job'[t] = NoJob
BY StepKinds DEF PanelStep, BrokerRestart, brokerVars

\* No thread is under way when the broker starts.
LEMMA HeldInit == Init => Held
BY DEF Init, BrokerInit, Held

\* Every step keeps Held.
LEMMA HeldStep ==
  ASSUME TypeInv, Held, [Next]_vars
  PROVE  Held'
<1>1. ASSUME NEW t \in Worker, BrokerStep(t) PROVE Held'
  <2>1. OthersStay(t) /\ (Takes(t) \/ GoesOn(t) \/ GivesBack(t))
    BY <1>1, BrokerMoves
  <2> QED
    BY <2>1, BrokerAssumption
       DEF OthersStay, Takes, GoesOn, GivesBack, Held
<1>2. UNCHANGED brokerVars => Held'
  BY DEF brokerVars, Held
<1>3. (\A t \in Worker : pc'[t] = "idle") => Held'
  BY DEF Held
<1> QED
  BY <1>1, <1>2, <1>3, OtherMoves DEF vars

----------------------------------------------------------------------------
(* What a check saw when it began stays true at its ts.                    *)

ViewSound ==
  \A t \in Worker : pc[t] # "idle" =>
    \A i \in seen[t].dead :
      i \in DOMAIN allowlist /\ ~ active(allowlist[i], job[t].ts)

\* A thread under way has just taken the lock or was under way before.
LEMMA ThreadMoves ==
  ASSUME TypeInv, Next, NEW t \in Worker, pc'[t] # "idle"
  PROVE  \/ Takes(t)
         \/ pc[t] # "idle" /\ job'[t].ts = job[t].ts
<1>1. ASSUME NEW o \in Worker, BrokerStep(o)
      PROVE  \/ Takes(t)
             \/ pc[t] # "idle" /\ job'[t].ts = job[t].ts
  <2>1. OthersStay(o) /\ (Takes(o) \/ GoesOn(o) \/ GivesBack(o))
    BY <1>1, BrokerMoves
  <2> QED
    BY <2>1 DEF OthersStay, GoesOn, GivesBack
<1> QED
  BY <1>1, OtherMoves DEF brokerVars

\* What a check saw dead is recorded when it takes the lock and kept.
LEMMA WatchDead ==
  ASSUME TypeInv, Next, NEW t \in Worker, pc'[t] # "idle"
  PROVE  seen'[t].dead = IF pc[t] = "idle" THEN dead_rows(clock)
                                           ELSE seen[t].dead
BY StepKinds DEF Watch

\* Every step keeps ViewSound, for rows only age.
LEMMA ViewSoundStep ==
  ASSUME TypeInv, ViewSound, [Next]_vars
  PROVE  ViewSound'
<1>1. CASE Next
  <2> SUFFICES ASSUME NEW t \in Worker, pc'[t] # "idle",
                      NEW i \in seen'[t].dead
               PROVE  /\ i \in DOMAIN allowlist'
                      /\ ~ active(allowlist'[i], job'[t].ts)
    BY DEF ViewSound, active, unexpired
  <2>1. CASE Takes(t)
    BY <1>1, <2>1, WatchDead
       DEF Takes, storeVars, dead_rows, active, unexpired
  <2>2. CASE pc[t] # "idle" /\ job'[t].ts = job[t].ts
    <3>1. i \in DOMAIN allowlist /\ ~ active(allowlist[i], job[t].ts)
      BY <1>1, <2>2, WatchDead DEF ViewSound
    <3>2. job[t].ts \in Nat
      BY DEF TypeInv, TypeOK, BrokerTypeOK, Job
    <3> QED
      BY <1>1, <2>2, <3>1, <3>2, RowsKeptStep DEF RowsKept, Ages
  <2> QED
    BY <1>1, <2>1, <2>2, ThreadMoves
<1>2. CASE UNCHANGED vars
  BY <1>2 DEF vars, storeVars, brokerVars, ViewSound, active, unexpired
<1> QED
  BY <1>1, <1>2

----------------------------------------------------------------------------
(* The entry a check is admitted by.                                       *)

Admitting(t) == pc[t] = "consume" \/ deciding(t, "ALLOWED")

Covers(row, j) == row.port = j.port /\ matches(row, j.host)

HitSound ==
  \A t \in Worker : Admitting(t) =>
    /\ job[t].hit \in DOMAIN allowlist
    /\ job[t].hit \notin seen[t].dead
    /\ Covers(allowlist[job[t].hit], job[t])

\* A thread comes to admit by a Match that found an active entry, or by
\* having spent the entry it had found.
Finds(t) ==
  LET hit == active_match(job[t].host, job[t].port, job[t].ts)
  IN  /\ pc[t] = "match" /\ hit # 0 /\ job'[t].hit = hit
      /\ job'[t].host = job[t].host /\ job'[t].port = job[t].port
      /\ job'[t].ts = job[t].ts /\ job'[t].final = job[t].final
      /\ UNCHANGED storeVars
      /\ IF job[t].final /\ allowlist[hit].scope = "once"
         THEN pc'[t] = "consume" ELSE pc'[t] = "reply"

Spends(t) ==
  /\ Consume(t)
  /\ job'[t].hit = job[t].hit /\ job'[t].host = job[t].host
  /\ job'[t].port = job[t].port

\* A thread's own step makes it admit by Finds or Spends only.
LEMMA AdmittingMoves ==
  ASSUME TypeInv, NEW t \in Worker, BrokerStep(t), Admitting(t)'
  PROVE  Finds(t) \/ Spends(t)
<1>1. job[t] \in Job
  BY DEF TypeInv, TypeOK, BrokerTypeOK
<1>2. ~ Takes(t) /\ ~ GivesBack(t)
  BY DEF Takes, Verdict, GivesBack, Admitting, deciding
<1>3. HandlerStep(t) /\ ~ Reply(t)
  <2>1. ASSUME AclCheck(t) \/ Submit(t) \/ Reply(t) PROVE FALSE
    <3>1. pc[t] = "idle" \/ pc'[t] = "idle"
      BY <2>1, GoStays DEF AclCheck, Submit, TakeLock, Reply
    <3> QED
      BY <1>2, <3>1, BrokerMoves DEF GoesOn
  <2> QED
    BY <2>1 DEF BrokerStep
<1>4. CASE Match(t)
  <2> DEFINE hit == active_match(job[t].host, job[t].port, job[t].ts)
             j   == [job[t] EXCEPT !.hit = hit]
             a   == [j EXCEPT !.code = "ALLOWED"]
  <2>1. /\ j.hit = hit /\ j.host = job[t].host /\ j.port = job[t].port
        /\ j.ts = job[t].ts /\ j.final = job[t].final
        /\ a.hit = hit /\ a.host = job[t].host /\ a.port = job[t].port
        /\ a.ts = job[t].ts /\ a.final = job[t].final
    BY <1>1 DEF Job
  <2>2. /\ pc[t] = "match" /\ UNCHANGED storeVars
        /\ CASE hit = 0 -> Go(t, j, "denial")
             [] hit # 0 /\ j.final /\ allowlist[hit].scope = "once"
                        -> Go(t, j, "consume")
             [] OTHER   -> Go(t, a, "reply")
    BY <1>4 DEF Match
  <2> HIDE DEF j, a, hit
  <2>3. \/ hit = 0 /\ pc'[t] = "denial"
        \/ /\ hit # 0 /\ j.final /\ allowlist[hit].scope = "once"
           /\ pc'[t] = "consume" /\ job'[t] = j
        \/ /\ hit # 0 /\ ~ (j.final /\ allowlist[hit].scope = "once")
           /\ pc'[t] = "reply" /\ job'[t] = a
    BY <2>2, GoStays
  <2> QED
    BY <2>1, <2>2, <2>3 DEF hit, Finds, Admitting, deciding
<1>5. CASE Consume(t)
  <2>1. Go(t, [job[t] EXCEPT !.code = "ALLOWED"], "reply")
    BY <1>5 DEF Consume, Answer
  <2>2. job'[t] = [job[t] EXCEPT !.code = "ALLOWED"]
    BY <2>1, GoStays
  <2> QED
    BY <1>1, <1>5, <2>2 DEF Spends, Job
<1>6. ASSUME NEW code \in Code \ {"ALLOWED"}, Answer(t, code) PROVE FALSE
  <2>1. pc'[t] = "reply" /\ job'[t] = [job[t] EXCEPT !.code = code]
    BY <1>6, GoStays DEF Answer
  <2> QED
    BY <1>1, <2>1 DEF Admitting, deciding, Job
<1>7. ASSUME NEW j, NEW label, label \notin {"consume", "reply"},
             Go(t, j, label)
      PROVE  FALSE
  BY <1>7, GoStays DEF Admitting, deciding
<1> USE DEF Code
<1>8. CASE ReadPause(t)
  BY <1>6, <1>7, <1>8 DEF ReadPause
<1>9. CASE ReadDenial(t)
  BY <1>6, <1>7, <1>9 DEF ReadDenial
<1>10. CASE ReadExisting(t)
  BY <1>6, <1>7, <1>10 DEF ReadExisting
<1>11. CASE ReadCount(t)
  BY <1>6, <1>7, <1>11 DEF ReadCount
<1>12. CASE Find(t)
  BY <1>7, <1>12 DEF Find
<1>13. CASE Bump(t)
  BY <1>6, <1>13 DEF Bump
<1>14. CASE Insert(t)
  <2> DEFINE j == [job[t] EXCEPT !.req = Len(requests) + 1,
                                 !.code = "PENDING"]
  <2>1. j.code = "PENDING"
    BY <1>1 DEF Job
  <2>2. Go(t, j, "reply")
    BY <1>14 DEF Insert
  <2> HIDE DEF j
  <2> QED
    BY <2>1, <2>2, GoStays DEF Admitting, deciding
<1> QED
  BY <1>3, <1>4, <1>5, <1>8, <1>9, <1>10, <1>11, <1>12, <1>13, <1>14
     DEF HandlerStep

\* A thread that admits after a step came to it by that step, or did not move.
LEMMA AdmittingKinds ==
  ASSUME TypeInv, Next, NEW t \in Worker, Admitting(t)'
  PROVE  \/ BrokerStep(t) /\ (Finds(t) \/ Spends(t))
         \/ Admitting(t) /\ pc'[t] = pc[t] /\ job'[t] = job[t]
<1>1. ASSUME NEW o \in Worker, o # t, BrokerStep(o)
      PROVE  pc'[t] = pc[t] /\ job'[t] = job[t]
  BY <1>1, BrokerMoves DEF OthersStay
<1>2. UNCHANGED brokerVars => pc'[t] = pc[t] /\ job'[t] = job[t]
  BY DEF brokerVars
<1>3. pc'[t] # "idle"
  BY DEF Admitting, deciding
<1>4. ASSUME pc'[t] = pc[t] /\ job'[t] = job[t] PROVE Admitting(t)
  BY <1>4 DEF Admitting, deciding
<1>5. CASE BrokerStep(t)
  BY <1>5, AdmittingMoves
<1> QED
  BY <1>1, <1>2, <1>3, <1>4, <1>5, OtherMoves

\* Every step keeps HitSound.
LEMMA HitSoundStep ==
  ASSUME TypeInv, ViewSound, HitSound, [Next]_vars
  PROVE  HitSound'
<1>1. CASE Next
  <2> SUFFICES ASSUME NEW t \in Worker, Admitting(t)'
               PROVE  /\ job'[t].hit \in DOMAIN allowlist'
                      /\ job'[t].hit \notin seen'[t].dead
                      /\ Covers(allowlist'[job'[t].hit], job'[t])
    BY DEF HitSound, Covers, matches
  <2> DEFINE i == job'[t].hit
  <2>1. pc'[t] # "idle"
    BY DEF Admitting, deciding
  <2>2. pc[t] # "idle" => seen'[t].dead = seen[t].dead
    BY <1>1, <2>1, WatchDead
  <2>3. ASSUME i \in DOMAIN allowlist, Covers(allowlist[i], job'[t])
        PROVE  i \in DOMAIN allowlist' /\ Covers(allowlist'[i], job'[t])
    <3>1. i \in DOMAIN allowlist' /\ Ages(allowlist[i], allowlist'[i])
      BY <1>1, <2>3, RowsKeptStep DEF RowsKept
    <3> QED
      BY <2>3, <3>1 DEF Ages, Covers, matches
  <2>4. CASE Finds(t)
    <3>1. /\ i = active_match(job[t].host, job[t].port, job[t].ts)
          /\ i # 0 /\ pc[t] = "match"
          /\ job'[t].host = job[t].host /\ job'[t].port = job[t].port
      BY <2>4 DEF Finds
    <3>2. /\ i \in DOMAIN allowlist
          /\ allowlist[i].port = job[t].port
          /\ active(allowlist[i], job[t].ts)
          /\ matches(allowlist[i], job[t].host)
      BY <3>1, ActiveMatchIsActive DEF TypeInv, TypeOK
    <3>3. Covers(allowlist[i], job'[t])
      BY <3>1, <3>2 DEF Covers
    <3>4. i \notin seen'[t].dead
      BY <2>2, <3>1, <3>2 DEF ViewSound
    <3> QED
      BY <2>3, <3>2, <3>3, <3>4
  <2>5. CASE Spends(t)
    <3>1. /\ pc[t] = "consume" /\ i = job[t].hit
          /\ job'[t].host = job[t].host /\ job'[t].port = job[t].port
      BY <2>5 DEF Spends, Consume
    <3>2. i \in DOMAIN allowlist /\ i \notin seen[t].dead
          /\ Covers(allowlist[i], job'[t])
      BY <3>1 DEF HitSound, Admitting, Covers
    <3> QED
      BY <2>2, <2>3, <3>1, <3>2
  <2>6. CASE Admitting(t) /\ pc'[t] = pc[t] /\ job'[t] = job[t]
    <3>1. i \in DOMAIN allowlist /\ i \notin seen[t].dead
          /\ Covers(allowlist[i], job'[t])
      BY <2>6 DEF HitSound
    <3> QED
      BY <2>1, <2>2, <2>3, <2>6, <3>1
  <2> QED
    BY <1>1, <2>4, <2>5, <2>6, AdmittingKinds
<1>2. CASE UNCHANGED vars
  BY <1>2 DEF vars, storeVars, brokerVars, HitSound, Admitting, deciding,
     Covers, matches
<1> QED
  BY <1>1, <1>2

----------------------------------------------------------------------------
(* Entries for one use.                                                    *)

Spent(i) == allowlist[i].consumed # Null

\* An entry for one use that has admitted a final check was spent on it, and
\* admitted no other.
EntriesOnce ==
  /\ Len(finals) = Len(allowlist)
  /\ \A i \in DOMAIN allowlist : allowlist[i].scope = "once" =>
       finals[i] = 0 \/ (finals[i] = 1 /\ Spent(i))

\* The entry a thread is to spend is unspent, which nobody but the holder of
\* the broker's lock can change; once a thread has a final check to answer,
\* its entry is spent and has not admitted it yet.
ThreadOnce(t) ==
  LET i == job[t].hit
  IN  /\ pc[t] = "consume" => ~ Spent(i) /\ allowlist[i].scope = "once"
      /\ deciding(t, "ALLOWED") /\ job[t].final /\ allowlist[i].scope = "once"
           => finals[i] = 0 /\ Spent(i)

OnceInv == EntriesOnce /\ \A t \in Worker : ThreadOnce(t)

\* A thread that admits after a step held the lock before it.
LEMMA AdmittingHolds ==
  ASSUME TypeInv, Held, Next, NEW t \in Worker, Admitting(t)'
  PROVE  pc[t] # "idle" /\ lock = t
<1>1. pc[t] # "idle"
  BY AdmittingKinds DEF Finds, Spends, Consume, Admitting, deciding
<1> QED
  BY <1>1 DEF Held

\* A thread that has just found its entry.
LEMMA FindsOnce ==
  ASSUME TypeInv, NEW t \in Worker, Finds(t)
  PROVE  ThreadOnce(t)'
<1> DEFINE i == active_match(job[t].host, job[t].port, job[t].ts)
<1>1. ~ Spent(i)
  <2>1. i # 0
    BY DEF Finds
  <2>2. active(allowlist[i], job[t].ts)
    BY <2>1, ActiveMatchIsActive DEF TypeInv, TypeOK
  <2> QED
    BY <2>2 DEF active, Spent
<1> HIDE DEF i
<1>2. /\ job'[t].hit = i /\ job'[t].final = job[t].final
      /\ allowlist' = allowlist
      /\ IF job[t].final /\ allowlist[i].scope = "once"
         THEN pc'[t] = "consume" ELSE pc'[t] = "reply"
  BY DEF Finds, storeVars, i
<1> QED
  BY <1>1, <1>2 DEF ThreadOnce, Spent, deciding

\* A thread that stays where it is, if the step leaves its entry as it was.
LEMMA ThreadStaysOnce ==
  ASSUME NEW t \in Worker, ThreadOnce(t), pc'[t] = pc[t], job'[t] = job[t],
         LET i == job[t].hit
         IN  /\ allowlist'[i].scope = allowlist[i].scope
             /\ allowlist'[i].consumed = allowlist[i].consumed
             /\ finals'[i] = finals[i]
  PROVE  ThreadOnce(t)'
BY DEF ThreadOnce, Spent, deciding

\* A thread that does not admit has nothing to keep.
LEMMA NotAdmittingOnce ==
  ASSUME NEW t \in Worker, ~ Admitting(t)'
  PROVE  ThreadOnce(t)'
BY DEF ThreadOnce, Admitting, deciding

\* The final check that spent its entry is answered.
LEMMA ReplyOnce ==
  ASSUME TypeInv, Held, HitSound, OnceInv, Next, NEW t \in Worker,
         Reply(t), Admission(t), allowlist' = allowlist
  PROVE  OnceInv'
<1>1. pc[t] = "reply" /\ lock = t /\ pc'[t] = "idle"
  BY GoStays DEF Reply, Held
<1>2. ASSUME NEW o \in Worker PROVE ThreadOnce(o)'
  <2>1. ~ Admitting(o)'
    BY <1>1, AdmittingHolds DEF Admitting, deciding
  <2> QED
    BY <2>1, NotAdmittingOnce
<1>3. EntriesOnce'
  <2> DEFINE i == job[t].hit
             counts == /\ job[t].code = "ALLOWED" /\ job[t].final
                       /\ allowlist[i].scope = "once"
  <2>1. Len(finals) = Len(allowlist) /\ DOMAIN finals = DOMAIN allowlist
    BY DEF OnceInv, EntriesOnce, TypeInv, TypeOK, StoreTypeOK
  <2>2. CASE ~ counts
    <3>1. finals' = finals
      BY <2>2 DEF Admission
    <3> QED
      BY <3>1 DEF OnceInv, EntriesOnce, Spent
  <2>3. CASE counts
    <3>1. deciding(t, "ALLOWED")
      BY <1>1, <2>3 DEF deciding
    <3>2. i \in DOMAIN allowlist /\ finals[i] = 0 /\ Spent(i)
      BY <2>3, <3>1 DEF OnceInv, ThreadOnce, HitSound, Admitting
    <3>3. finals' = [finals EXCEPT ![i] = finals[i] + 1]
      BY <2>3 DEF Admission
    <3>4. Len(finals') = Len(finals) /\ finals'[i] = 1
      BY <2>1, <3>2, <3>3 DEF TypeInv, TypeOK
    <3>5. \A k \in DOMAIN allowlist : k # i => finals'[k] = finals[k]
      BY <2>1, <3>3
    <3> QED
      BY <2>1, <3>2, <3>4, <3>5 DEF OnceInv, EntriesOnce, Spent
  <2> QED
    BY <2>2, <2>3
<1> QED
  BY <1>2, <1>3 DEF OnceInv

\* The entry is spent.
LEMMA ConsumeOnce ==
  ASSUME TypeInv, Held, HitSound, OnceInv, Next, NEW t \in Worker,
         Consume(t), finals' = finals
  PROVE  OnceInv'
<1> DEFINE i == job[t].hit
<1>1. /\ pc[t] = "consume" /\ lock = t /\ pc'[t] = "reply"
      /\ job'[t] = [job[t] EXCEPT !.code = "ALLOWED"]
  <2>1. Go(t, [job[t] EXCEPT !.code = "ALLOWED"], "reply")
    BY DEF Consume, Answer
  <2> QED
    BY <2>1, GoStays DEF Consume, Held
<1>2. job'[t].hit = i
  BY <1>1 DEF TypeInv, TypeOK, BrokerTypeOK, Job
<1>3. /\ i \in DOMAIN allowlist /\ ~ Spent(i)
      /\ allowlist[i].scope = "once" /\ finals[i] = 0
  BY <1>1 DEF HitSound, Admitting, OnceInv, ThreadOnce, EntriesOnce
<1>4. /\ Len(allowlist') = Len(allowlist)
      /\ DOMAIN allowlist' = DOMAIN allowlist
      /\ allowlist'[i].consumed # Null
      /\ \A k \in DOMAIN allowlist : k # i => allowlist'[k] = allowlist[k]
  BY <1>3, ConsumeKeeps, TypeInvStep DEF TypeInv, TypeOK, StoreTypeOK
<1>5. EntriesOnce'
  BY <1>3, <1>4 DEF OnceInv, EntriesOnce, Spent
<1>6. ASSUME NEW o \in Worker PROVE ThreadOnce(o)'
  <2>1. CASE o = t
    BY <1>1, <1>2, <1>3, <1>4, <2>1 DEF ThreadOnce, Spent
  <2>2. CASE o # t
    <3>1. ~ Admitting(o)'
      BY <1>1, <2>2, AdmittingHolds
    <3> QED
      BY <3>1, NotAdmittingOnce
  <2> QED
    BY <2>1, <2>2
<1> QED
  BY <1>5, <1>6 DEF OnceInv

\* A step that spends nothing and admits nobody for good, though it may add
\* an entry.
LEMMA OtherOnce ==
  ASSUME TypeInv, Held, HitSound, OnceInv, Next,
         \A t \in Worker : ~ Consume(t),
         \A i \in DOMAIN allowlist :
           /\ i \in DOMAIN allowlist'
           /\ allowlist'[i].scope = allowlist[i].scope
           /\ allowlist'[i].consumed = allowlist[i].consumed
           /\ finals'[i] = finals[i]
  PROVE  \A t \in Worker : ThreadOnce(t)'
<1> SUFFICES ASSUME NEW t \in Worker, Admitting(t)' PROVE ThreadOnce(t)'
  BY NotAdmittingOnce
<1>1. CASE Finds(t)
  BY <1>1, FindsOnce
<1>2. CASE Admitting(t) /\ pc'[t] = pc[t] /\ job'[t] = job[t]
  <2>1. job[t].hit \in DOMAIN allowlist /\ ThreadOnce(t)
    BY <1>2 DEF HitSound, OnceInv
  <2> QED
    BY <1>2, <2>1, ThreadStaysOnce
<1> QED
  BY <1>1, <1>2, AdmittingKinds DEF Spends

\* Every step keeps OnceInv.
LEMMA OnceInvStep ==
  ASSUME TypeInv, Held, HitSound, OnceInv, [Next]_vars
  PROVE  OnceInv'
<1>1. CASE Next /\ \E t \in Worker : Reply(t) /\ Admission(t) /\
                                     allowlist' = allowlist
  BY <1>1, ReplyOnce
<1>2. CASE Next /\ finals' = finals /\ \E t \in Worker : Consume(t)
  BY <1>2, ConsumeOnce
<1>3. CASE Next /\ NewEntry /\ (\E u \in Tab : AddRow(u))
  <2>1. /\ Len(allowlist') = Len(allowlist) + 1
        /\ \A i \in DOMAIN allowlist : i \in DOMAIN allowlist' /\
                                       allowlist'[i] = allowlist[i]
    BY <1>3, AddRowKeeps
  <2>2. /\ Len(finals') = Len(finals) + 1
        /\ \A i \in DOMAIN finals : finals'[i] = finals[i]
        /\ finals'[Len(finals) + 1] = 0
    <3>1. finals \in Seq(Nat) /\ finals' = Append(finals, 0)
      BY <1>3 DEF NewEntry, TypeInv, TypeOK
    <3> QED
      BY <3>1
  <2>3. /\ Len(finals) = Len(allowlist) /\ DOMAIN finals = DOMAIN allowlist
        /\ DOMAIN allowlist = 1 .. Len(allowlist) /\ Len(allowlist) \in Nat
    <3>1. /\ Len(finals) = Len(allowlist)
          /\ finals \in Seq(Nat) /\ allowlist \in Seq(Row)
      BY DEF OnceInv, EntriesOnce, TypeInv, TypeOK, StoreTypeOK
    <3> QED
      BY <3>1
  <2>4. DOMAIN allowlist' = 1 .. (Len(allowlist) + 1)
    BY <1>3, <2>1, TypeInvStep DEF TypeInv, TypeOK, StoreTypeOK
  <2>5. EntriesOnce'
    <3>1. ASSUME NEW i \in DOMAIN allowlist', allowlist'[i].scope = "once"
          PROVE  finals'[i] = 0 \/ (finals'[i] = 1 /\ Spent(i)')
      <4>1. CASE i \in DOMAIN allowlist
        BY <2>1, <2>2, <2>3, <3>1, <4>1 DEF OnceInv, EntriesOnce, Spent
      <4>2. CASE i \notin DOMAIN allowlist
        <5>1. i = Len(finals) + 1
          BY <2>3, <2>4, <4>2
        <5> QED
          BY <2>2, <5>1
      <4> QED
        BY <4>1, <4>2
    <3>2. Len(finals') = Len(allowlist')
      BY <2>1, <2>2, <2>3
    <3> QED
      BY <3>1, <3>2 DEF EntriesOnce
  <2>6. ASSUME NEW t \in Worker, Consume(t) PROVE FALSE
    <3>1. Len(allowlist') = Len(allowlist)
      BY <2>6, ConsumeKeeps
    <3> QED
      BY <2>1, <2>3, <3>1
  <2> QED
    BY <1>3, <2>1, <2>2, <2>3, <2>5, <2>6, OtherOnce DEF OnceInv
<1>4. CASE /\ Next /\ finals' = finals /\ \A t \in Worker : ~ Consume(t)
           /\ allowlist' = allowlist \/ \E u \in Tab : Retire(u)
  <2>1. /\ Len(allowlist') = Len(allowlist)
        /\ \A i \in DOMAIN allowlist :
             /\ i \in DOMAIN allowlist'
             /\ allowlist'[i].scope = allowlist[i].scope
             /\ allowlist'[i].consumed = allowlist[i].consumed
    BY <1>4, RetireKeeps DEF Ages
  <2>2. DOMAIN allowlist' = DOMAIN allowlist
    BY <1>4, <2>1, TypeInvStep DEF TypeInv, TypeOK, StoreTypeOK
  <2>3. EntriesOnce'
    BY <1>4, <2>1, <2>2 DEF OnceInv, EntriesOnce, Spent
  <2> QED
    BY <1>4, <2>1, <2>3, OtherOnce DEF OnceInv
<1>5. CASE UNCHANGED vars
  BY <1>5 DEF vars, storeVars, brokerVars, OnceInv, EntriesOnce, ThreadOnce,
     Spent, deciding
<1> QED
  BY <1>1, <1>2, <1>3, <1>4, <1>5, AllowlistSteps

----------------------------------------------------------------------------
(* The theorems.                                                           *)

AnswerInv == TypeInv /\ Held /\ ViewSound /\ HitSound /\ OnceInv

\* The invariant holds when the services start.
LEMMA AnswerInvInit == Init => AnswerInv
<1> SUFFICES ASSUME Init PROVE AnswerInv
  OBVIOUS
<1>1. TypeInv /\ Held
  BY TypeInvInit, HeldInit
<1>2. \A t \in Worker : pc[t] = "idle"
  BY DEF Init, BrokerInit
<1>3. ViewSound /\ HitSound /\ \A t \in Worker : ThreadOnce(t)
  BY <1>2 DEF ViewSound, HitSound, Admitting, ThreadOnce, deciding
<1>4. EntriesOnce
  <2>1. finals = [i \in 1 .. Len(allowlist) |-> 0] /\ Len(allowlist) \in Nat
        /\ DOMAIN allowlist = 1 .. Len(allowlist)
    <3>1. /\ allowlist = InitialRows /\ allowlist \in Seq(Row)
          /\ finals = [i \in DOMAIN InitialRows |-> 0]
      BY <1>1 DEF Init, StoreInit, TypeInv, TypeOK, StoreTypeOK
    <3> QED
      BY <3>1
  <2>2. Len(finals) = Len(allowlist)
    BY <2>1
  <2>3. \A i \in DOMAIN allowlist : finals[i] = 0
    BY <2>1
  <2> QED
    BY <2>2, <2>3 DEF EntriesOnce
<1> QED
  BY <1>1, <1>3, <1>4 DEF AnswerInv, OnceInv

\* In every reachable state a thread under way holds Broker.lock, what its
\* check saw dead is dead at its ts, the entry active_match gave it covers the
\* destination and was alive, and a once entry has admitted no final check
\* before it is consumed and one at most since.
THEOREM AnswersSound == Spec => []AnswerInv
<1>1. AnswerInv /\ [Next]_vars => AnswerInv'
  BY TypeInvStep, HeldStep, ViewSoundStep, HitSoundStep, OnceInvStep
     DEF AnswerInv
<1> QED
  BY <1>1, AnswerInvInit, PTL DEF Spec

\* No check is allowed by an entry that was revoked, erased, spent or expired
\* before the check took the lock, for any number of threads, tabs and
\* restarts.
THEOREM VerdictsFresh == Spec => []VerdictFresh
<1>1. AnswerInv => VerdictFresh
  BY DEF AnswerInv, HitSound, Covers, Admitting, VerdictFresh
<1> QED
  BY <1>1, AnswersSound, PTL

\* An entry for one use admits one final check at most.
THEOREM OnceIsOnce == Spec => []OnceSpentOnce
<1>1. AnswerInv => OnceSpentOnce
  BY DEF AnswerInv, OnceInv, EntriesOnce, OnceSpentOnce
<1> QED
  BY <1>1, AnswersSound, PTL

----------------------------------------------------------------------------
(* The promise: AgentFilter implements Gate.                               *)

\* What the mapping to Gate needs besides: a thread that is idle holds
\* nothing, a check that finds the pause in force has it in its view, and only
\* a final check spends an entry.
CheckSound ==
  \A t \in Worker :
    /\ pc[t] = "idle" => job[t] = NoJob /\ seen[t] = Unseen
    /\ pc[t] # "idle" /\ pause_active(job[t].ts) => seen[t].open
    /\ pc[t] = "consume" => job[t].final

\* The pause is in the view of a check as soon as it is in force for it.
LEMMA WatchOpen ==
  ASSUME TypeInv, Next, NEW t \in Worker, pc'[t] # "idle"
  PROVE  /\ pause_active(job[t].ts)' => seen'[t].open
         /\ pc[t] # "idle" /\ seen'[t].open =>
              seen[t].open \/ pause_active(job[t].ts)'
<1>1. Watch
  BY StepKinds
<1>2. CASE pc[t] = "idle"
  <2>1. seen'[t].open <=> pause_active(clock)
    BY <1>1, <1>2, Zenon DEF Watch
  <2>2. Takes(t)
    BY <1>2, ThreadMoves
  <2> QED
    BY <1>2, <2>1, <2>2 DEF Takes, storeVars, pause_active
<1>3. CASE pc[t] # "idle"
  <2>1. seen'[t].open <=> (seen[t].open \/ pause_active(job[t].ts)')
    BY <1>1, <1>3, Zenon DEF Watch
  <2> QED
    BY <1>3, <2>1
<1> QED
  BY <1>2, <1>3

\* Every step keeps CheckSound.
LEMMA CheckSoundStep ==
  ASSUME TypeInv, CheckSound, [Next]_vars
  PROVE  CheckSound'
<1>1. CASE UNCHANGED vars
  BY <1>1 DEF vars, storeVars, brokerVars, CheckSound, pause_active
<1>2. CASE Next
  <2> SUFFICES ASSUME NEW t \in Worker
               PROVE  /\ pc'[t] = "idle" => job'[t] = NoJob /\ seen'[t] = Unseen
                      /\ pc'[t] # "idle" /\ pause_active(job[t].ts)' =>
                           seen'[t].open
                      /\ pc'[t] = "consume" => job'[t].final
    BY DEF CheckSound
  <2>1. pc'[t] = "idle" => seen'[t] = Unseen
    BY <1>2, StepKinds DEF Watch
  <2>2. pc'[t] = "idle" => job'[t] = NoJob
    <3>1. ASSUME NEW o \in Worker, BrokerStep(o), pc'[t] = "idle"
          PROVE  job'[t] = NoJob
      <4>1. CASE o = t
        BY <3>1, <4>1, BrokerMoves DEF Takes, GoesOn, GivesBack
      <4>2. CASE o # t
        BY <3>1, <4>2, BrokerMoves DEF OthersStay, CheckSound
      <4> QED
        BY <4>1, <4>2
    <3>2. UNCHANGED brokerVars /\ pc'[t] = "idle" => job'[t] = NoJob
      BY DEF brokerVars, CheckSound
    <3> QED
      BY <1>2, <3>1, <3>2, OtherMoves
  <2>3. ASSUME pc'[t] = "consume" PROVE job'[t].final
    <3>1. Admitting(t)'
      BY <2>3 DEF Admitting
    <3>2. CASE Finds(t)
      BY <2>3, <3>2 DEF Finds
    <3>3. CASE Spends(t)
      BY <2>3, <3>3, GoStays DEF Spends, Consume, Answer
    <3>4. CASE pc'[t] = pc[t] /\ job'[t] = job[t]
      BY <2>3, <3>4 DEF CheckSound
    <3> QED
      BY <1>2, <3>1, <3>2, <3>3, <3>4, AdmittingKinds
  <2> QED
    BY <1>2, <2>1, <2>2, <2>3, WatchOpen
<1> QED
  BY <1>1, <1>2

\* A thread that is idle is no check.
LEMMA IdleCheck ==
  ASSUME NEW t \in Worker
  PROVE  /\ CheckSound /\ pc[t] = "idle" => CheckOf(t) = Promise!None
         /\ CheckSound' /\ pc'[t] = "idle" => CheckOf(t)' = Promise!None
<1>1. NoJob.host = Malformed /\ NoJob.final = FALSE /\ Unseen.open = FALSE
  BY DEF NoJob, Unseen
<1>2. ASSUME CheckSound, pc[t] = "idle" PROVE CheckOf(t) = Promise!None
  <2>1. job[t] = NoJob /\ seen[t] = Unseen
    BY <1>2 DEF CheckSound
  <2>2. CheckOf(t) =
          [dest |-> Malformed, final |-> NoJob.final, may |-> {},
           open |-> Unseen.open, answer |-> "none", on |-> FALSE]
    BY <1>1, <1>2, <2>1 DEF CheckOf
  <2> QED
    BY <1>1, <2>2 DEF Promise!None
<1>3. ASSUME CheckSound', pc'[t] = "idle" PROVE CheckOf(t)' = Promise!None
  <2>1. job'[t] = NoJob /\ seen'[t] = Unseen
    BY <1>3 DEF CheckSound
  <2>2. CheckOf(t)' =
          [dest |-> Malformed, final |-> NoJob.final, may |-> {},
           open |-> Unseen.open, answer |-> "none", on |-> FALSE]
    BY <1>1, <1>3, <2>1 DEF CheckOf
  <2> QED
    BY <1>1, <2>2 DEF Promise!None
<1> QED
  BY <1>2, <1>3

\* The initial states map to initial states of Gate.
LEMMA PromiseInit ==
  ASSUME Init
  PROVE  CheckSound /\ Promise!Init
<1>1. /\ allowlist \in Seq(Row) /\ DOMAIN allowlist = 1 .. Len(allowlist)
      /\ Len(allowlist) \in Nat /\ clock = 0 /\ paused_until = 0
  BY TypeInvInit DEF TypeInv, TypeOK, StoreTypeOK, Init, StoreInit
<1>2. \A t \in Worker : pc[t] = "idle" /\ job[t] = NoJob /\ seen[t] = Unseen
  BY DEF Init, BrokerInit
<1>3. CheckSound
  BY <1>2 DEF CheckSound
<1>4. GrantsMade \in Seq([covers : SUBSET (Host \X Port), once : BOOLEAN])
  <2> DEFINE g(i) == [covers |-> covered(allowlist[i]),
                      once |-> allowlist[i].scope = "once"]
  <2>1. \A i : g(i) \in [covers : SUBSET (Host \X Port), once : BOOLEAN]
    BY DEF covered
  <2>2. GrantsMade = [i \in 1 .. Len(allowlist) |-> g(i)]
    BY <1>1 DEF GrantsMade
  <2> HIDE DEF g
  <2> QED
    BY <1>1, <2>1, <2>2, FunctionIsSeq
<1>5. LiveGrants \subseteq DOMAIN GrantsMade
      /\ UsedGrants \subseteq DOMAIN GrantsMade
  BY DEF LiveGrants, UsedGrants, GrantsMade
<1>6. ~ pause_active(clock)
  BY <1>1 DEF pause_active, Off
<1>7. ASSUME NEW t \in Worker PROVE CheckOf(t) = Promise!None
  BY <1>2, <1>3, IdleCheck
<1>8. ChecksUnderWay = [t \in Worker |-> Promise!None]
  BY <1>7 DEF ChecksUnderWay
<1>9. pause_active(clock) = FALSE
  BY <1>6, Zenon DEF pause_active
<1> QED
  BY <1>3, <1>4, <1>5, <1>8, <1>9 DEF Promise!Init

\* A thread's step is about its own check: while it holds the lock the other
\* threads are idle.
LEMMA OneCheck ==
  ASSUME TypeInv, Held, CheckSound, CheckSound', NEW t \in Worker,
         BrokerStep(t)
  PROVE  /\ ChecksUnderWay[t] = CheckOf(t)
         /\ ChecksUnderWay' = [ChecksUnderWay EXCEPT ![t] = CheckOf(t)']
<1>1. OthersStay(t) /\ (Takes(t) \/ GoesOn(t) \/ GivesBack(t))
  BY BrokerMoves
<1>2. ASSUME NEW o \in Worker, o # t PROVE pc[o] = "idle" /\ pc'[o] = "idle"
  BY <1>1, <1>2, BrokerAssumption
     DEF OthersStay, Takes, GoesOn, GivesBack, Held
<1>3. ASSUME NEW o \in Worker, o # t PROVE CheckOf(o)' = CheckOf(o)
  BY <1>2, <1>3, IdleCheck
<1> HIDE DEF CheckOf
<1>4. /\ ChecksUnderWay = [o \in Worker |-> CheckOf(o)]
      /\ ChecksUnderWay' = [o \in Worker |-> CheckOf(o)']
  BY DEF ChecksUnderWay
<1> QED
  BY <1>3, <1>4

\* If no thread moves and what a check has seen does not change, neither do
\* the checks.
LEMMA SameChecks ==
  ASSUME \A t \in Worker : CheckOf(t)' = CheckOf(t)
  PROVE  ChecksUnderWay' = ChecksUnderWay
BY DEF ChecksUnderWay

\* The columns of an entry that Gate knows of never change.
LEMMA SameGrants ==
  ASSUME RowsKept, DOMAIN allowlist' = DOMAIN allowlist
  PROVE  GrantsMade' = GrantsMade
<1>1. ASSUME NEW i \in DOMAIN allowlist
      PROVE  /\ covered(allowlist'[i]) = covered(allowlist[i])
             /\ allowlist'[i].scope = allowlist[i].scope
  BY DEF RowsKept, Ages, covered, matches
<1> DEFINE g(i) == [covers |-> covered(allowlist[i]),
                    once |-> allowlist[i].scope = "once"]
           h(i) == [covers |-> covered(allowlist'[i]),
                    once |-> allowlist'[i].scope = "once"]
<1>2. \A i \in DOMAIN allowlist : h(i) = g(i)
  BY <1>1
<1>3. GrantsMade = [i \in DOMAIN allowlist |-> g(i)]
  BY DEF GrantsMade
<1>4. GrantsMade' = [i \in DOMAIN allowlist |-> h(i)]
  BY DEF GrantsMade, covered, matches
<1> HIDE DEF g, h
<1> QED
  BY <1>2, <1>3, <1>4

\* Gate's view of the store, if the store does not change.
LEMMA SameStore ==
  ASSUME UNCHANGED <<allowlist, paused_until, clock>>
  PROVE  /\ GrantsMade' = GrantsMade
         /\ LiveGrants' = LiveGrants /\ UsedGrants' = UsedGrants
         /\ pause_active(clock)' = pause_active(clock)
BY DEF GrantsMade, LiveGrants, UsedGrants, pause_active, covered, matches,
   active, unexpired

\* What a check may be admitted by, from one step to the next: its view of
\* the entries stays, the pause is added to it when it comes in force.
LEMMA ViewMoves ==
  ASSUME TypeInv, TypeInv', CheckSound, Next, NEW t \in Worker,
         pc[t] # "idle", pc'[t] # "idle"
  PROVE  /\ seen'[t].dead = seen[t].dead
         /\ seen[t].open \in BOOLEAN /\ seen'[t].open \in BOOLEAN
         /\ seen[t].open => seen'[t].open
         /\ paused_until' = paused_until => seen'[t].open = seen[t].open
<1>1. seen'[t].dead = seen[t].dead
  BY WatchDead
<1>2. seen[t].open \in BOOLEAN /\ seen'[t].open \in BOOLEAN
  BY DEF TypeInv, TypeOK, View
<1>3. Watch
  BY StepKinds
<1>4. seen'[t].open <=> (seen[t].open \/ pause_active(job[t].ts)')
  BY <1>3, Zenon DEF Watch
<1>5. job'[t].ts = job[t].ts
  BY ThreadMoves DEF Takes
<1>6. paused_until' = paused_until /\ pause_active(job[t].ts)' => seen[t].open
  BY <1>5 DEF CheckSound, pause_active
<1>7. paused_until' = paused_until => (seen'[t].open <=> seen[t].open)
  BY <1>4, <1>6
<1> QED
  BY <1>1, <1>2, <1>4, <1>7

\* The other steps of a handler: it goes on, refuses, or finds the pause in
\* force.
SameCheck(t) ==
  /\ pc[t] \notin {"idle", "reply"} /\ pc'[t] # "idle"
  /\ job'[t].host = job[t].host /\ job'[t].port = job[t].port
  /\ job'[t].final = job[t].final
  /\ UNCHANGED <<allowlist, paused_until, clock>>

Advances(t) == SameCheck(t) /\ pc'[t] # "reply"

Refuses(t) ==
  /\ SameCheck(t) /\ pc'[t] = "reply"
  /\ job'[t].code \notin {"ALLOWED", "PAUSED_ALLOW"}

PassesOpen(t) ==
  /\ SameCheck(t) /\ pc'[t] = "reply"
  /\ job'[t].code = "PAUSED_ALLOW" /\ pause_active(job[t].ts)

\* A final check that finds an entry for one use goes on to spend it; any
\* other is admitted by the entry it finds.
PassesEntry(t) ==
  /\ SameCheck(t) /\ Finds(t) /\ pc'[t] = "reply"
  /\ job'[t].code = "ALLOWED"

\* Every step of a thread is a step of its check.
LEMMA AnswerKinds ==
  ASSUME TypeInv, NEW t \in Worker, BrokerStep(t)
  PROVE  \/ Takes(t) \/ GivesBack(t) \/ Consume(t)
         \/ Advances(t) \/ Refuses(t) \/ PassesOpen(t) \/ PassesEntry(t)
<1> DEFINE Going(j, label) ==
      /\ Go(t, j, label) /\ label # "idle" /\ pc[t] \notin {"idle", "reply"}
      /\ j.host = job[t].host /\ j.port = job[t].port
      /\ j.final = job[t].final
      /\ UNCHANGED <<allowlist, paused_until, clock>>
<1>1. job[t] \in Job
  BY DEF TypeInv, TypeOK, BrokerTypeOK
<1>2. ASSUME NEW j, NEW label, Going(j, label)
      PROVE  SameCheck(t) /\ pc'[t] = label /\ job'[t] = j
  BY <1>2, GoStays DEF SameCheck
<1>3. ASSUME NEW code, Answer(t, code), pc[t] \notin {"idle", "reply"},
             UNCHANGED <<allowlist, paused_until, clock>>
      PROVE  SameCheck(t) /\ pc'[t] = "reply" /\ job'[t].code = code
  <2> DEFINE j == [job[t] EXCEPT !.code = code]
  <2>1. /\ j.host = job[t].host /\ j.port = job[t].port
        /\ j.final = job[t].final /\ j.code = code
    BY <1>1 DEF Job
  <2>2. Go(t, j, "reply")
    BY <1>3 DEF Answer
  <2> HIDE DEF j
  <2>3. Going(j, "reply")
    BY <1>3, <2>1, <2>2
  <2> QED
    BY <1>2, <2>1, <2>3
<1>4. ASSUME NEW label, Go(t, job[t], label), label \notin {"idle", "reply"},
             pc[t] \notin {"idle", "reply"},
             UNCHANGED <<allowlist, paused_until, clock>>
      PROVE  Advances(t)
  <2>1. Going(job[t], label)
    BY <1>4
  <2> QED
    BY <1>2, <1>4, <2>1 DEF Advances
<1>5. CASE AclCheck(t) \/ Submit(t)
  <2>1. pc[t] = "idle"
    BY <1>5 DEF AclCheck, Submit, TakeLock
  <2> QED
    BY <2>1, BrokerMoves DEF GoesOn, GivesBack
<1>6. CASE Reply(t)
  BY <1>6, GoStays DEF Reply, GivesBack
<1>7. CASE ReadPause(t)
  BY <1>3, <1>4, <1>7 DEF ReadPause, storeVars, PassesOpen
<1>8. CASE Match(t)
  <2> DEFINE hit == active_match(job[t].host, job[t].port, job[t].ts)
             j   == [job[t] EXCEPT !.hit = hit]
             a   == [j EXCEPT !.code = "ALLOWED"]
  <2>1. /\ j.hit = hit /\ j.host = job[t].host /\ j.port = job[t].port
        /\ j.ts = job[t].ts /\ j.final = job[t].final
        /\ a.hit = hit /\ a.host = job[t].host /\ a.port = job[t].port
        /\ a.ts = job[t].ts /\ a.final = job[t].final
        /\ a.code = "ALLOWED"
    BY <1>1 DEF Job
  <2>2. /\ pc[t] = "match" /\ UNCHANGED storeVars
        /\ CASE hit = 0 -> Go(t, j, "denial")
             [] hit # 0 /\ j.final /\ allowlist[hit].scope = "once"
                        -> Go(t, j, "consume")
             [] OTHER   -> Go(t, a, "reply")
    BY <1>8 DEF Match
  <2> HIDE DEF j, a, hit
  <2>3. CASE Go(t, j, "denial") \/ Go(t, j, "consume")
    <3>1. Going(j, "denial") \/ Going(j, "consume")
      BY <2>1, <2>2, <2>3 DEF storeVars
    <3> QED
      BY <1>2, <3>1 DEF Advances
  <2>4. CASE /\ hit # 0 /\ ~ (j.final /\ allowlist[hit].scope = "once")
             /\ Go(t, a, "reply")
    <3>1. Going(a, "reply")
      BY <2>1, <2>2, <2>4 DEF storeVars
    <3>2. SameCheck(t) /\ pc'[t] = "reply" /\ job'[t] = a
      BY <1>2, <3>1
    <3>3. Finds(t)
      BY <2>1, <2>2, <2>4, <3>2 DEF Finds, hit
    <3> QED
      BY <2>1, <3>2, <3>3 DEF PassesEntry
  <2> QED
    BY <2>2, <2>3, <2>4
<1>9. CASE ReadDenial(t)
  BY <1>3, <1>4, <1>9 DEF ReadDenial, storeVars, Refuses
<1>10. CASE ReadExisting(t)
  BY <1>3, <1>4, <1>10 DEF ReadExisting, storeVars, Refuses
<1>11. CASE ReadCount(t)
  BY <1>3, <1>4, <1>11 DEF ReadCount, storeVars, Refuses
<1>12. CASE Find(t)
  <2> DEFINE r == pending_request(job[t].host, job[t].port)
             j == [job[t] EXCEPT !.req = r]
  <2>1. /\ j.host = job[t].host /\ j.port = job[t].port
        /\ j.final = job[t].final
    BY <1>1 DEF Job
  <2>2. Go(t, j, "write") /\ pc[t] = "find" /\ UNCHANGED storeVars
    BY <1>12 DEF Find
  <2> HIDE DEF j
  <2>3. Going(j, "write")
    BY <2>1, <2>2 DEF storeVars
  <2> QED
    BY <1>2, <2>3 DEF Advances
<1>13. CASE Bump(t)
  BY <1>3, <1>13 DEF Bump, storeVars, Refuses
<1>14. CASE Insert(t)
  <2> DEFINE j == [job[t] EXCEPT !.req = Len(requests) + 1,
                                 !.code = "PENDING"]
  <2>1. /\ j.host = job[t].host /\ j.port = job[t].port
        /\ j.final = job[t].final /\ j.code = "PENDING"
    BY <1>1 DEF Job
  <2>2. /\ Go(t, j, "reply") /\ pc[t] = "write"
        /\ UNCHANGED <<allowlist, paused_until, clock>>
    BY <1>14 DEF Insert
  <2> HIDE DEF j
  <2>3. Going(j, "reply")
    BY <2>1, <2>2
  <2> QED
    BY <1>2, <2>1, <2>3 DEF Refuses
<1> QED
  BY <1>5, <1>6, <1>7, <1>8, <1>9, <1>10, <1>11, <1>12, <1>13, <1>14
     DEF BrokerStep, HandlerStep

\* The invariant under which every step of AgentFilter is one of Gate.
PromiseInv == AnswerInv /\ CheckSound

answered(t) ==
  IF pc[t] # "reply" THEN "none"
  ELSE IF job[t].code \in {"ALLOWED", "PAUSED_ALLOW"} THEN "admitted"
  ELSE "refused"

\* A check that goes on changes at most by its answer.
LEMMA CheckGoesOn ==
  ASSUME PromiseInv, PromiseInv', Next, NEW t \in Worker,
         pc[t] # "idle", pc'[t] # "idle", job'[t].host = job[t].host,
         job'[t].port = job[t].port, job'[t].final = job[t].final,
         DOMAIN allowlist' = DOMAIN allowlist, paused_until' = paused_until
  PROVE  /\ CheckOf(t).on /\ CheckOf(t).answer = answered(t)
         /\ CheckOf(t)' = [CheckOf(t) EXCEPT !.answer = answered(t)']
<1> DEFINE dest == IF job[t].host = Malformed THEN Malformed
                   ELSE <<job[t].host, job[t].port>>
           may == DOMAIN allowlist \ seen[t].dead
           final == job[t].final
           open == seen[t].open
           on == pc[t] # "idle"
           a == answered(t)
           b == answered(t)'
<1>1. seen'[t].dead = seen[t].dead /\ seen'[t].open = seen[t].open
  BY ViewMoves DEF PromiseInv, AnswerInv
<1>2. CheckOf(t) = [dest |-> dest, final |-> final, may |-> may,
                    open |-> open, answer |-> a, on |-> on]
  BY DEF CheckOf, answered
<1>3. CheckOf(t)' = [dest |-> dest, final |-> final, may |-> may,
                     open |-> open, answer |-> b, on |-> on]
  BY <1>1 DEF CheckOf, answered
<1>4. CheckOf(t).on /\ CheckOf(t).answer = a
  BY DEF CheckOf, answered
<1> DEFINE old == CheckOf(t)
           new == [old EXCEPT !.answer = b]
<1> HIDE DEF dest, may, final, open, a, b, on, old
<1>5. old = [dest |-> dest, final |-> final, may |-> may,
             open |-> open, answer |-> a, on |-> on]
  BY <1>2 DEF old
<1>6. PICK q : q = new
  OBVIOUS
<1>7. q = [dest |-> dest, final |-> final, may |-> may,
           open |-> open, answer |-> b, on |-> on]
  BY <1>5, <1>6
<1> QED
  BY <1>3, <1>4, <1>6, <1>7 DEF a, b, old

\* A thread that takes the lock begins a check, which one of the gates that
\* need no database may refuse at once.
LEMMA TakesBegins ==
  ASSUME PromiseInv, PromiseInv', Next, NEW t \in Worker, BrokerStep(t),
         Takes(t)
  PROVE  Promise!Begin(t)
<1> DEFINE dest == IF job'[t].host = Malformed THEN Malformed
                   ELSE <<job'[t].host, job'[t].port>>
           b == answered(t)'
           final == job'[t].final
           gate == pause_active(clock)
<1>1. pc[t] = "idle" /\ pc'[t] # "idle" /\ UNCHANGED storeVars
  BY DEF Takes
<1>2. Watch
  BY StepKinds
<1>3. seen'[t].dead = dead_rows(clock)
  BY <1>1, WatchDead DEF PromiseInv, AnswerInv
<1>4. seen'[t].open = pause_active(clock)
  BY <1>1, <1>2, Zenon DEF Watch
<1>5. DOMAIN allowlist' \ seen'[t].dead = LiveGrants
  BY <1>1, <1>3 DEF storeVars, dead_rows, LiveGrants
<1>6. CheckOf(t)' = [dest |-> dest, final |-> final, may |-> LiveGrants,
                     open |-> gate, answer |-> b, on |-> TRUE]
  BY <1>1, <1>4, <1>5 DEF CheckOf, answered
<1>7. b \in {"none", "refused"}
  BY DEF Takes, Verdict, answered
<1>8. dest \in (Host \X Port) \cup {Malformed} /\ final \in BOOLEAN
  <2>1. job'[t] \in Job
    BY DEF PromiseInv, AnswerInv, TypeInv, TypeOK, BrokerTypeOK
  <2> QED
    BY <2>1 DEF Job
<1>9. ~ Promise!underway(t)
  BY <1>1, OneCheck, IdleCheck
     DEF PromiseInv, AnswerInv, Promise!underway, Promise!None
<1>10. ChecksUnderWay' = [ChecksUnderWay EXCEPT ![t] = CheckOf(t)']
  BY OneCheck DEF PromiseInv, AnswerInv
<1>11. /\ GrantsMade' = GrantsMade /\ LiveGrants' = LiveGrants
       /\ UsedGrants' = UsedGrants /\ gate' = gate
  BY <1>1, SameStore DEF storeVars
<1> HIDE DEF dest, b, final
<1>12. ChecksUnderWay' =
         [ChecksUnderWay EXCEPT ![t] =
            [dest |-> dest, final |-> final, may |-> LiveGrants,
             open |-> gate, answer |-> b, on |-> TRUE]]
  BY <1>6, <1>10
<1> QED
  BY <1>7, <1>8, <1>9, <1>11, <1>12 DEF Promise!Begin

\* The lock is given back when the answer is sent.
LEMMA GivesBackDelivers ==
  ASSUME PromiseInv, PromiseInv', Next, NEW t \in Worker, BrokerStep(t),
         GivesBack(t)
  PROVE  Promise!Deliver(t)
<1>1. pc[t] = "reply" /\ pc'[t] = "idle" /\ UNCHANGED storeVars
  BY DEF GivesBack
<1>2. CheckOf(t)' = Promise!None
  BY <1>1, IdleCheck DEF PromiseInv
<1>3. /\ ChecksUnderWay[t] = CheckOf(t)
      /\ ChecksUnderWay' = [ChecksUnderWay EXCEPT ![t] = Promise!None]
  BY <1>2, OneCheck DEF PromiseInv, AnswerInv
<1>4. CheckOf(t).on /\ CheckOf(t).answer # "none"
  BY <1>1 DEF CheckOf
<1>5. /\ GrantsMade' = GrantsMade /\ LiveGrants' = LiveGrants
      /\ UsedGrants' = UsedGrants
      /\ pause_active(clock)' = pause_active(clock)
  BY <1>1, SameStore DEF storeVars
<1> QED
  BY <1>3, <1>4, <1>5
     DEF Promise!Deliver, Promise!underway, Promise!undecided

\* What the step of a handler that decides does to the checks.
LEMMA CheckDecides ==
  ASSUME PromiseInv, PromiseInv', Next, NEW t \in Worker, BrokerStep(t),
         NEW answer, pc[t] \notin {"idle", "reply"}, pc'[t] = "reply",
         job'[t].host = job[t].host, job'[t].port = job[t].port,
         job'[t].final = job[t].final, answered(t)' = answer,
         DOMAIN allowlist' = DOMAIN allowlist, paused_until' = paused_until
  PROVE  /\ Promise!undecided(t)
         /\ ChecksUnderWay[t] = CheckOf(t)
         /\ ChecksUnderWay' = [ChecksUnderWay EXCEPT ![t].answer = answer]
<1>1. /\ CheckOf(t).on /\ CheckOf(t).answer = answered(t)
      /\ CheckOf(t)' = [CheckOf(t) EXCEPT !.answer = answer]
  BY CheckGoesOn
<1>2. answered(t) = "none"
  BY DEF answered
<1>3. /\ ChecksUnderWay[t] = CheckOf(t)
      /\ ChecksUnderWay' = [ChecksUnderWay EXCEPT ![t] = CheckOf(t)']
  BY OneCheck DEF PromiseInv, AnswerInv
<1>4. ChecksUnderWay' = [ChecksUnderWay EXCEPT ![t].answer = answer]
  BY <1>1, <1>3
<1> QED
  BY <1>1, <1>2, <1>3, <1>4 DEF Promise!undecided, Promise!underway

\* A handler that goes on changes nothing that Gate knows of.
LEMMA AdvancesStutters ==
  ASSUME PromiseInv, PromiseInv', Next, NEW t \in Worker, BrokerStep(t),
         Advances(t)
  PROVE  UNCHANGED Promise!gateVars
<1>1. /\ pc[t] \notin {"idle", "reply"} /\ pc'[t] \notin {"idle", "reply"}
      /\ UNCHANGED <<allowlist, paused_until, clock>>
  BY DEF Advances, SameCheck
<1>2. /\ CheckOf(t).answer = answered(t)
      /\ CheckOf(t)' = [CheckOf(t) EXCEPT !.answer = answered(t)']
  BY <1>1, CheckGoesOn DEF Advances, SameCheck
<1>3. answered(t) = "none" /\ answered(t)' = "none"
  BY <1>1 DEF answered
<1>4. CheckOf(t)' = CheckOf(t)
  <2>1. PICK q : q = CheckOf(t)
    OBVIOUS
  <2>2. \E dest, final, may, open, on :
          q = [dest |-> dest, final |-> final, may |-> may, open |-> open,
               answer |-> answered(t), on |-> on]
    BY <2>1 DEF CheckOf, answered
  <2>3. [q EXCEPT !.answer = "none"] = q
    BY <1>3, <2>2
  <2> QED
    BY <1>2, <1>3, <2>1, <2>3
<1>5. /\ ChecksUnderWay[t] = CheckOf(t)
      /\ ChecksUnderWay' = [ChecksUnderWay EXCEPT ![t] = CheckOf(t)']
  BY OneCheck DEF PromiseInv, AnswerInv
<1>6. ChecksUnderWay' = ChecksUnderWay
  BY <1>4, <1>5 DEF ChecksUnderWay
<1> QED
  BY <1>1, <1>6, SameStore DEF Promise!gateVars

\* A handler that answers anything but ALLOWED or PAUSED_ALLOW refuses.
LEMMA RefusesRefuses ==
  ASSUME PromiseInv, PromiseInv', Next, NEW t \in Worker, BrokerStep(t),
         Refuses(t)
  PROVE  Promise!Refuse(t)
<1>1. answered(t)' = "refused"
  BY DEF Refuses, answered
<1>2. UNCHANGED <<allowlist, paused_until, clock>>
  BY DEF Refuses, SameCheck
<1>3. /\ Promise!undecided(t)
      /\ ChecksUnderWay' = [ChecksUnderWay EXCEPT ![t].answer = "refused"]
  BY <1>1, CheckDecides DEF Refuses, SameCheck
<1> QED
  BY <1>2, <1>3, SameStore DEF Promise!Refuse, Promise!Decide

\* The destination of a handler past the gates is not forbidden.
LEMMA DestinationPasses ==
  ASSUME PromiseInv, NEW t \in Worker, pc[t] \notin {"idle", "reply"}
  PROVE  /\ CheckOf(t).dest = <<job[t].host, job[t].port>>
         /\ CheckOf(t).dest \in (Host \X Port) \ Forbidden
<1>1. Passed(job[t])
  BY DEF PromiseInv, AnswerInv, TypeInv, Gated
<1>2. job[t].host # Malformed
  BY <1>1, BrokerAssumption DEF Passed
<1>3. CheckOf(t).dest = <<job[t].host, job[t].port>>
  BY <1>2 DEF CheckOf
<1>4. <<job[t].host, job[t].port>> \in (Host \X Port) \ Forbidden
  BY <1>1, StoreAssumption DEF Passed, Forbidden
<1> QED
  BY <1>3, <1>4

\* A check that finds the pause in force is admitted by the open gate.
LEMMA PassesByGate ==
  ASSUME PromiseInv, PromiseInv', Next, NEW t \in Worker, BrokerStep(t),
         PassesOpen(t)
  PROVE  Promise!AdmitByGate(t)
<1>1. answered(t)' = "admitted"
  BY DEF PassesOpen, answered
<1>2. UNCHANGED <<allowlist, paused_until, clock>>
  BY DEF PassesOpen, SameCheck
<1>3. /\ Promise!undecided(t) /\ ChecksUnderWay[t] = CheckOf(t)
      /\ ChecksUnderWay' = [ChecksUnderWay EXCEPT ![t].answer = "admitted"]
  BY <1>1, CheckDecides DEF PassesOpen, SameCheck
<1>4. CheckOf(t).dest \in (Host \X Port) \ Forbidden
  BY DestinationPasses DEF PassesOpen, SameCheck
<1>5. CheckOf(t).open
  <2>1. seen[t].open
    BY DEF PassesOpen, SameCheck, PromiseInv, CheckSound
  <2> QED
    BY <2>1 DEF CheckOf
<1> QED
  BY <1>2, <1>3, <1>4, <1>5, SameStore
     DEF Promise!AdmitByGate, Promise!Admit, Promise!Decide

\* An entry that covers a destination and was not dead when the check began
\* may admit it.
LEMMA EntryMay ==
  ASSUME PromiseInv, NEW t \in Worker, pc[t] \notin {"idle", "reply"},
         NEW i \in DOMAIN allowlist, i \notin seen[t].dead,
         Covers(allowlist[i], job[t])
  PROVE  /\ i \in CheckOf(t).may
         /\ CheckOf(t).dest \in GrantsMade[i].covers
         /\ GrantsMade[i].once <=> allowlist[i].scope = "once"
<1>1. /\ CheckOf(t).dest = <<job[t].host, job[t].port>>
      /\ CheckOf(t).dest \in Host \X Port
  BY DestinationPasses
<1>2. <<job[t].host, job[t].port>> \in covered(allowlist[i])
  BY <1>1 DEF covered, Covers
<1>3. GrantsMade[i].covers = covered(allowlist[i])
  BY DEF GrantsMade
<1>4. GrantsMade[i].once <=> allowlist[i].scope = "once"
  BY DEF GrantsMade
<1>5. i \in CheckOf(t).may
  BY DEF CheckOf
<1> QED
  BY <1>1, <1>2, <1>3, <1>4, <1>5

\* A check that finds an entry, and need not spend it, is admitted by it.
LEMMA PassesByGrant ==
  ASSUME PromiseInv, PromiseInv', Next, NEW t \in Worker, BrokerStep(t),
         PassesEntry(t)
  PROVE  Promise!AdmitByGrant(t)
<1> DEFINE i == active_match(job[t].host, job[t].port, job[t].ts)
<1>1. /\ pc[t] = "match" /\ i # 0
      /\ ~ (job[t].final /\ allowlist[i].scope = "once")
  BY DEF PassesEntry, Finds
<1>2. /\ i \in DOMAIN allowlist /\ allowlist[i].port = job[t].port
      /\ active(allowlist[i], job[t].ts)
      /\ matches(allowlist[i], job[t].host)
  BY <1>1, ActiveMatchIsActive DEF PromiseInv, AnswerInv, TypeInv, TypeOK
<1> HIDE DEF i
<1>3. i \notin seen[t].dead
  BY <1>1, <1>2 DEF PromiseInv, AnswerInv, ViewSound
<1>4. answered(t)' = "admitted"
  BY DEF PassesEntry, answered
<1>5. UNCHANGED <<allowlist, paused_until, clock>>
  BY DEF PassesEntry, SameCheck
<1>6. /\ Promise!undecided(t) /\ ChecksUnderWay[t] = CheckOf(t)
      /\ ChecksUnderWay' = [ChecksUnderWay EXCEPT ![t].answer = "admitted"]
  BY <1>4, CheckDecides DEF PassesEntry, SameCheck
<1>7. CheckOf(t).dest \in (Host \X Port) \ Forbidden
  BY <1>1, DestinationPasses
<1>8. /\ i \in CheckOf(t).may
      /\ CheckOf(t).dest \in GrantsMade[i].covers
      /\ GrantsMade[i].once <=> allowlist[i].scope = "once"
  BY <1>1, <1>2, <1>3, EntryMay DEF Covers
<1>9. CheckOf(t).final = job[t].final
  BY DEF CheckOf
<1>10. ~ (GrantsMade[i].once /\ CheckOf(t).final)
  BY <1>1, <1>8, <1>9
<1>11. Promise!Admit(t)
  BY <1>5, <1>6, <1>7, SameStore DEF Promise!Admit, Promise!Decide
<1>12. LiveGrants' = LiveGrants /\ UsedGrants' = UsedGrants
  BY <1>5, SameStore
<1> HIDE DEF CheckOf
<1> QED
  BY <1>6, <1>8, <1>10, <1>11, <1>12 DEF Promise!AdmitByGrant

\* A final check that spends the entry it found is admitted by it, and no
\* other final check was or will be.
LEMMA SpendsGrant ==
  ASSUME PromiseInv, PromiseInv', Next, NEW t \in Worker, BrokerStep(t),
         Consume(t)
  PROVE  Promise!AdmitByGrant(t)
<1> DEFINE i == job[t].hit
<1>1. /\ pc[t] = "consume" /\ UNCHANGED <<requests, paused_until, clock>>
      /\ pc'[t] = "reply" /\ job'[t] = [job[t] EXCEPT !.code = "ALLOWED"]
  BY GoStays DEF Consume, Answer, PromiseInv, AnswerInv
<1>2. /\ job'[t].host = job[t].host /\ job'[t].port = job[t].port
      /\ job'[t].final = job[t].final /\ job'[t].code = "ALLOWED"
  <2>1. job[t] \in Job
    BY DEF PromiseInv, AnswerInv, TypeInv, TypeOK, BrokerTypeOK
  <2> QED
    BY <1>1, <2>1 DEF Job
<1>3. /\ i \in DOMAIN allowlist /\ i \notin seen[t].dead
      /\ Covers(allowlist[i], job[t])
  BY <1>1 DEF PromiseInv, AnswerInv, HitSound, Admitting
<1>4. ~ Spent(i) /\ allowlist[i].scope = "once" /\ job[t].final
  BY <1>1 DEF PromiseInv, AnswerInv, OnceInv, ThreadOnce, CheckSound
<1>5. /\ DOMAIN allowlist' = DOMAIN allowlist
      /\ allowlist'[i].consumed # Null
      /\ \A k \in DOMAIN allowlist : k # i => allowlist'[k] = allowlist[k]
  BY <1>3, ConsumeKeeps DEF PromiseInv, AnswerInv, TypeInv, TypeOK, StoreTypeOK
<1>6. GrantsMade' = GrantsMade
  BY <1>5, SameGrants, RowsKeptStep DEF PromiseInv, AnswerInv
<1>7. answered(t)' = "admitted"
  BY <1>1, <1>2 DEF answered
<1>8. /\ Promise!undecided(t) /\ ChecksUnderWay[t] = CheckOf(t)
      /\ ChecksUnderWay' = [ChecksUnderWay EXCEPT ![t].answer = "admitted"]
  BY <1>1, <1>2, <1>5, <1>7, CheckDecides
<1>9. CheckOf(t).dest \in (Host \X Port) \ Forbidden
  BY <1>1, DestinationPasses
<1>10. /\ i \in CheckOf(t).may
       /\ CheckOf(t).dest \in GrantsMade[i].covers
       /\ GrantsMade[i].once <=> allowlist[i].scope = "once"
  BY <1>1, <1>3, EntryMay
<1>11. CheckOf(t).final = job[t].final
  BY DEF CheckOf
<1>12. GrantsMade[i].once /\ CheckOf(t).final
  BY <1>4, <1>10, <1>11
<1>13. i \notin UsedGrants /\ UsedGrants' = UsedGrants \cup {i}
  BY <1>3, <1>4, <1>5 DEF UsedGrants, Spent
<1>14. LiveGrants' = LiveGrants \ {i}
  BY <1>1, <1>3, <1>5 DEF LiveGrants, active, unexpired
<1>15. pause_active(clock)' = pause_active(clock)
  BY <1>1 DEF pause_active
<1>16. Promise!Admit(t)
  BY <1>6, <1>8, <1>9, <1>15 DEF Promise!Admit, Promise!Decide
<1> HIDE DEF CheckOf, i
<1> QED
  BY <1>8, <1>10, <1>12, <1>13, <1>14, <1>16 DEF Promise!AdmitByGrant

\* Every step of a thread is a step of its check in Gate, or none.
LEMMA BrokerPromise ==
  ASSUME PromiseInv, PromiseInv', Next, NEW t \in Worker, BrokerStep(t)
  PROVE  [Promise!Next]_(Promise!gateVars)
<1>1. Promise!Begin(t) \/ Promise!Deliver(t) \/ Promise!AdmitByGrant(t)
      \/ Promise!AdmitByGate(t) \/ Promise!Refuse(t)
      \/ UNCHANGED Promise!gateVars
  BY AnswerKinds, TakesBegins, GivesBackDelivers, AdvancesStutters,
     RefusesRefuses, PassesByGate, PassesByGrant, SpendsGrant
     DEF PromiseInv, AnswerInv
<1> QED
  BY <1>1 DEF Promise!Next

\* What a step of the panel or of brokerctl does to the store.
LEMMA PanelKinds ==
  ASSUME TypeInv, PanelStep
  PROVE  \/ \E u \in Tab : AddRow(u)
         \/ \E u \in Tab : Retire(u)
         \/ allowlist' = allowlist /\ clock' = clock
<1>1. ASSUME NEW u \in Tab, Starts(u) PROVE UNCHANGED storeVars
  BY <1>1, StartsBegin DEF TypeInv, TypeOK, Begin
<1>2. ASSUME NEW u \in Tab, Resolve(u) \/ SetPause(u) \/ LogEvent(u)
      PROVE  allowlist' = allowlist /\ clock' = clock
  BY <1>2 DEF Resolve, SetPause, LogEvent, storeVars
<1>3. ASSUME NEW c \in Terminal,
             \/ CliPause(c) \/ CliResume(c) \/ CliSet(c) \/ CliLog(c)
             \/ CliKilled(c)
      PROVE  allowlist' = allowlist /\ clock' = clock
  BY <1>3 DEF CliPause, CliResume, CliBegin, CliSet, CliLog, CliKilled,
              storeVars
<1>4. PanelRestart => UNCHANGED storeVars
  BY DEF PanelRestart
<1> QED
  BY <1>1, <1>2, <1>3, <1>4 DEF PanelStep, OperationStep, storeVars

\* A check under way that the panel leaves under way may be admitted by more
\* entries than before, or by the pause.
LEMMA CheckWidens ==
  ASSUME PromiseInv, PromiseInv', Next, UNCHANGED brokerVars,
         NEW t \in Worker
  PROVE  /\ pc[t] = "idle" => CheckOf(t)' = CheckOf(t) /\ ~ CheckOf(t).on
         /\ pc[t] # "idle" =>
              /\ CheckOf(t).on
              /\ allowlist' = allowlist =>
                   CheckOf(t)' = [CheckOf(t) EXCEPT
                                    !.open = CheckOf(t).open \/ seen'[t].open]
              /\ paused_until' = paused_until =>
                   CheckOf(t)' = [CheckOf(t) EXCEPT
                                    !.may = DOMAIN allowlist' \ seen[t].dead]
<1>1. pc'[t] = pc[t] /\ job'[t] = job[t]
  BY DEF brokerVars
<1>2. CASE pc[t] = "idle"
  <2>1. CheckOf(t) = Promise!None /\ CheckOf(t)' = Promise!None
    BY <1>1, <1>2, IdleCheck DEF PromiseInv
  <2> QED
    BY <1>2, <2>1 DEF Promise!None
<1>3. CASE pc[t] # "idle"
  <2> DEFINE dest == IF job[t].host = Malformed THEN Malformed
                     ELSE <<job[t].host, job[t].port>>
             final == job[t].final
             may == DOMAIN allowlist \ seen[t].dead
             more == DOMAIN allowlist' \ seen[t].dead
             open == seen[t].open
             later == seen'[t].open
             on == pc[t] # "idle"
             a == answered(t)
             old == CheckOf(t)
             new == CheckOf(t)'
  <2>1. /\ seen'[t].dead = seen[t].dead
        /\ open \in BOOLEAN /\ later \in BOOLEAN /\ (open => later)
        /\ paused_until' = paused_until => later = open
    BY <1>1, <1>3, ViewMoves DEF PromiseInv, AnswerInv
  <2>2. (open \/ later) = later
    BY <2>1
  <2>3. old = [dest |-> dest, final |-> final, may |-> may,
               open |-> open, answer |-> a, on |-> on]
    BY <1>3 DEF CheckOf, answered
  <2>4. new = [dest |-> dest, final |-> final, may |-> more,
               open |-> later, answer |-> a, on |-> on]
    BY <1>1, <1>3, <2>1 DEF CheckOf, answered
  <2>5. old.on
    BY <1>3 DEF CheckOf
  <2>6. old.open = open
    BY DEF CheckOf
  <2>7. allowlist' = allowlist => more = may
    OBVIOUS
  <2> HIDE DEF dest, final, may, more, open, later, on, a, old, new
  <2>8. PICK q : q = [old EXCEPT !.open = later]
    OBVIOUS
  <2>9. q = [dest |-> dest, final |-> final, may |-> may,
             open |-> later, answer |-> a, on |-> on]
    BY <2>3, <2>8
  <2>10. PICK r : r = [old EXCEPT !.may = more]
    OBVIOUS
  <2>11. r = [dest |-> dest, final |-> final, may |-> more,
              open |-> open, answer |-> a, on |-> on]
    BY <2>3, <2>10
  <2>12. allowlist' = allowlist => new = [old EXCEPT !.open = later]
    BY <2>4, <2>7, <2>8, <2>9
  <2>13. paused_until' = paused_until => new = [old EXCEPT !.may = more]
    BY <2>1, <2>4, <2>10, <2>11
  <2>14. allowlist' = allowlist =>
           new = [old EXCEPT !.open = old.open \/ later]
    BY <2>2, <2>6, <2>12
  <2> QED
    BY <1>3, <2>5, <2>13, <2>14 DEF old, new, more, later
<1> QED
  BY <1>2, <1>3

\* A new entry is a new grant, for the checks under way too.
LEMMA AddRowGrants ==
  ASSUME PromiseInv, PromiseInv', Next, UNCHANGED brokerVars,
         NEW u \in Tab, AddRow(u)
  PROVE  Promise!MakeGrant
<1> DEFINE g == Len(allowlist) + 1
           new == [covers |-> covered(allowlist'[g]),
                   once |-> allowlist'[g].scope = "once"]
<1>1. /\ allowlist \in Seq(Row) /\ allowlist' \in Seq(Row)
      /\ Len(allowlist') = g /\ allowlist'[g].consumed = Null
      /\ \A i \in DOMAIN allowlist : allowlist'[i] = allowlist[i]
      /\ paused_until' = paused_until /\ clock' = clock
  BY AddRowKeeps
     DEF AddRow, PromiseInv, AnswerInv, TypeInv, TypeOK, StoreTypeOK
<1>2. /\ DOMAIN allowlist = 1 .. Len(allowlist) /\ Len(allowlist) \in Nat
      /\ DOMAIN allowlist' = 1 .. g /\ g \notin DOMAIN allowlist
      /\ DOMAIN allowlist' = DOMAIN allowlist \cup {g}
  BY <1>1
<1>3. /\ GrantsMade' = Append(GrantsMade, new) /\ Len(GrantsMade) + 1 = g
      /\ new.covers \in SUBSET (Host \X Port) /\ new.once \in BOOLEAN
  <2> DEFINE grant(i) == [covers |-> covered(allowlist[i]),
                          once |-> allowlist[i].scope = "once"]
             grant2(i) == [covers |-> covered(allowlist'[i]),
                           once |-> allowlist'[i].scope = "once"]
  <2>1. \A i \in DOMAIN allowlist : grant2(i) = grant(i)
    BY <1>1
  <2>2. GrantsMade = [i \in 1 .. Len(allowlist) |-> grant(i)]
    BY <1>2 DEF GrantsMade
  <2>3. GrantsMade' = [i \in 1 .. g |-> grant2(i)]
    BY <1>2 DEF GrantsMade, covered, matches
  <2>4. grant2(g) = new
    OBVIOUS
  <2>5. new.covers \in SUBSET (Host \X Port) /\ new.once \in BOOLEAN
    BY DEF covered
  <2> HIDE DEF grant, grant2, new
  <2>6. GrantsMade \in Seq({grant(i) : i \in DOMAIN allowlist})
        /\ Len(GrantsMade) = Len(allowlist)
    BY <1>2, <2>2
  <2>7. GrantsMade' = Append(GrantsMade, new)
    BY <1>2, <2>1, <2>2, <2>3, <2>4, <2>6
  <2> QED
    BY <2>5, <2>6, <2>7
<1>4. LiveGrants' = LiveGrants \/ LiveGrants' = LiveGrants \cup {g}
  BY <1>1, <1>2 DEF LiveGrants, active, unexpired
<1>5. UsedGrants' = UsedGrants
  BY <1>1, <1>2 DEF UsedGrants
<1>6. pause_active(clock)' = pause_active(clock)
  BY <1>1 DEF pause_active
<1> DEFINE widened(t) ==
      IF CheckOf(t).on THEN [CheckOf(t) EXCEPT !.may = CheckOf(t).may \cup {g}]
                       ELSE CheckOf(t)
<1>7. ASSUME NEW t \in Worker PROVE CheckOf(t)' = widened(t)
  <2>1. CASE pc[t] = "idle"
    BY <2>1, CheckWidens
  <2>2. CASE pc[t] # "idle"
    <3>1. seen[t].dead \subseteq DOMAIN allowlist
      BY <2>2 DEF PromiseInv, AnswerInv, ViewSound
    <3>2. CheckOf(t).may = DOMAIN allowlist \ seen[t].dead
      BY <2>2 DEF CheckOf
    <3>3. DOMAIN allowlist' \ seen[t].dead = CheckOf(t).may \cup {g}
      BY <1>2, <3>1, <3>2
    <3>4. /\ CheckOf(t).on
          /\ CheckOf(t)' = [CheckOf(t) EXCEPT
                              !.may = DOMAIN allowlist' \ seen[t].dead]
      BY <1>1, <2>2, CheckWidens
    <3> HIDE DEF CheckOf, g
    <3> QED
      BY <3>3, <3>4
  <2> QED
    BY <2>1, <2>2
<1> HIDE DEF CheckOf, g, new
<1>8. \A t \in Worker : ChecksUnderWay[t] = CheckOf(t)
  BY DEF ChecksUnderWay
<1>9. ChecksUnderWay' =
        [t \in Worker |->
           IF ChecksUnderWay[t].on
           THEN [ChecksUnderWay[t] EXCEPT !.may = @ \cup {g}]
           ELSE ChecksUnderWay[t]]
  BY <1>7, <1>8 DEF ChecksUnderWay
<1>10. \E covers \in SUBSET (Host \X Port), once \in BOOLEAN :
         GrantsMade' = Append(GrantsMade, [covers |-> covers, once |-> once])
  BY <1>3 DEF new
<1> QED
  BY <1>3, <1>4, <1>5, <1>6, <1>9, <1>10
     DEF Promise!MakeGrant, Promise!underway

\* If no thread moves and the pause setting stays, an operation that adds no
\* entry leaves the checks as they are.
LEMMA ChecksStay ==
  ASSUME PromiseInv, PromiseInv', Next, UNCHANGED brokerVars,
         DOMAIN allowlist' = DOMAIN allowlist, paused_until' = paused_until
  PROVE  ChecksUnderWay' = ChecksUnderWay
<1>1. ASSUME NEW t \in Worker PROVE CheckOf(t)' = CheckOf(t)
  <2>1. CASE pc[t] = "idle"
    BY <2>1, CheckWidens
  <2>2. CASE pc[t] # "idle"
    <3>1. /\ seen'[t].dead = seen[t].dead /\ seen'[t].open = seen[t].open
          /\ pc'[t] = pc[t] /\ job'[t] = job[t]
      BY <2>2, ViewMoves DEF PromiseInv, AnswerInv, brokerVars
    <3> QED
      BY <3>1 DEF CheckOf
  <2> QED
    BY <2>1, <2>2
<1> QED
  BY <1>1, SameChecks

\* A revoke, an erase or a removal of the defaults lets grants lapse.
LEMMA RetireLapses ==
  ASSUME PromiseInv, PromiseInv', Next, UNCHANGED brokerVars,
         NEW u \in Tab, Retire(u)
  PROVE  Promise!Lapse
<1>1. /\ \A i \in DOMAIN allowlist :
            /\ Ages(allowlist[i], allowlist'[i])
            /\ allowlist'[i].consumed = allowlist[i].consumed
      /\ DOMAIN allowlist' = DOMAIN allowlist
      /\ paused_until' = paused_until /\ clock' = clock /\ clock \in Nat
  BY RetireKeeps
     DEF Retire, PromiseInv, AnswerInv, TypeInv, TypeOK, StoreTypeOK
<1>2. GrantsMade' = GrantsMade
  BY <1>1, SameGrants, RowsKeptStep DEF PromiseInv, AnswerInv
<1>3. LiveGrants' \subseteq LiveGrants
  BY <1>1 DEF LiveGrants, Ages, active, unexpired
<1>4. UsedGrants' = UsedGrants
  BY <1>1 DEF UsedGrants
<1>5. pause_active(clock)' = pause_active(clock)
  BY <1>1 DEF pause_active
<1>6. ChecksUnderWay' = ChecksUnderWay
  BY <1>1, ChecksStay
<1> QED
  BY <1>2, <1>3, <1>4, <1>5, <1>6 DEF Promise!Lapse

\* A pause or a resume, of the panel or of brokerctl, opens or shuts the
\* gate; a pause that was over before it was written opens nothing.
LEMMA PauseSets ==
  ASSUME PromiseInv, PromiseInv', Next, UNCHANGED brokerVars,
         allowlist' = allowlist, clock' = clock
  PROVE  Promise!SetGate
<1> DEFINE opened == [t \in Worker |-> seen'[t].open]
           widened(t) ==
             IF CheckOf(t).on
             THEN [CheckOf(t) EXCEPT !.open = CheckOf(t).open \/ opened[t]]
             ELSE CheckOf(t)
<1>1. opened \in [Worker -> BOOLEAN]
  BY DEF PromiseInv, AnswerInv, TypeInv, TypeOK, View
<1>2. \A t \in Worker : CheckOf(t)' = widened(t)
  BY CheckWidens
<1> HIDE DEF CheckOf, opened
<1>3. \A t \in Worker : ChecksUnderWay[t] = CheckOf(t)
  BY DEF ChecksUnderWay
<1>4. ChecksUnderWay' =
        [t \in Worker |->
           IF ChecksUnderWay[t].on
           THEN [ChecksUnderWay[t] EXCEPT !.open = @ \/ opened[t]]
           ELSE ChecksUnderWay[t]]
  BY <1>2, <1>3 DEF ChecksUnderWay
<1>5. /\ GrantsMade' = GrantsMade /\ LiveGrants' = LiveGrants
      /\ UsedGrants' = UsedGrants
  BY DEF GrantsMade, LiveGrants, UsedGrants, covered, matches, active,
         unexpired
<1>6. pause_active(clock)' \in BOOLEAN
  BY DEF pause_active
<1> QED
  BY <1>1, <1>4, <1>5, <1>6 DEF Promise!SetGate, Promise!underway

\* Time lets grants and the pause lapse.
LEMMA TickLapses ==
  ASSUME PromiseInv, PromiseInv', Next, UNCHANGED brokerVars, Tick
  PROVE  Promise!Lapse
<1>1. /\ allowlist' = allowlist /\ paused_until' = paused_until
      /\ clock \in Nat /\ clock' = clock + 1
      /\ allowlist \in Seq(Row) /\ paused_until \in Nat \cup {Off}
  BY DEF Tick, PromiseInv, AnswerInv, TypeInv, TypeOK, StoreTypeOK
<1>2. GrantsMade' = GrantsMade /\ UsedGrants' = UsedGrants
  BY <1>1 DEF GrantsMade, UsedGrants, covered, matches
<1>3. ASSUME NEW i \in DOMAIN allowlist, active(allowlist[i], clock')
      PROVE  active(allowlist[i], clock)
  <2>1. allowlist[i].expires \in Nat \cup {Null}
    <3>1. allowlist[i] \in Row
      BY <1>1
    <3> QED
      BY <3>1 DEF Row
  <2> QED
    BY <1>1, <1>3, <2>1 DEF active, unexpired
<1>4. LiveGrants' \subseteq LiveGrants
  BY <1>1, <1>3 DEF LiveGrants, active, unexpired
<1>5. pause_active(clock)' => pause_active(clock)
  BY <1>1 DEF pause_active, Off
<1>6. pause_active(clock)' = pause_active(clock)
      \/ pause_active(clock)' = FALSE
  BY <1>5, Zenon DEF pause_active
<1>7. ChecksUnderWay' = ChecksUnderWay
  BY <1>1, ChecksStay
<1> QED
  BY <1>2, <1>4, <1>6, <1>7 DEF Promise!Lapse

\* A restart of the broker loses its checks.
LEMMA RestartLoses ==
  ASSUME PromiseInv, PromiseInv', Next, BrokerRestart
  PROVE  Promise!Lose
<1>1. UNCHANGED storeVars /\ \A t \in Worker : pc'[t] = "idle"
  BY DEF BrokerRestart
<1>2. \A t \in Worker : CheckOf(t)' = Promise!None
  BY <1>1, IdleCheck DEF PromiseInv
<1> HIDE DEF CheckOf
<1>3. ChecksUnderWay' = [t \in Worker |-> Promise!None]
  BY <1>2 DEF ChecksUnderWay
<1> QED
  BY <1>1, <1>3, SameStore DEF Promise!Lose, storeVars

\* Every step of AgentFilter is a step of Gate, or none.
LEMMA PromiseStep ==
  ASSUME PromiseInv, PromiseInv', [Next]_vars
  PROVE  [Promise!Next]_(Promise!gateVars)
<1>1. CASE Next /\ \E t \in Worker : BrokerStep(t)
  BY <1>1, BrokerPromise
<1>2. CASE Next /\ PanelStep
  <2>1. UNCHANGED brokerVars
    BY <1>2 DEF PanelStep
  <2>2. Promise!MakeGrant \/ Promise!Lapse \/ Promise!SetGate
    BY <1>2, <2>1, PanelKinds, AddRowGrants, RetireLapses, PauseSets
       DEF PromiseInv, AnswerInv
  <2> QED
    BY <2>2 DEF Promise!Next
<1>3. CASE Next /\ BrokerRestart
  BY <1>3, RestartLoses DEF Promise!Next
<1>4. CASE Next /\ Tick /\ UNCHANGED brokerVars
  BY <1>4, TickLapses DEF Promise!Next
<1>5. CASE UNCHANGED vars
  <2>1. UNCHANGED <<allowlist, paused_until, clock, pc, job, seen>>
    BY <1>5 DEF vars, storeVars, brokerVars
  <2>2. ChecksUnderWay' = ChecksUnderWay
    BY <2>1 DEF ChecksUnderWay, CheckOf
  <2> QED
    BY <2>1, <2>2, SameStore DEF Promise!gateVars
<1> QED
  BY <1>1, <1>2, <1>3, <1>4, <1>5, StepKinds

\* Broker, panel, brokerctl, the clock and restarts together implement Gate:
\* every behaviour of AgentFilter keeps the promise, for any number of
\* threads, tabs, terminals, hosts and entries.
THEOREM PromiseKept == Spec => KeepsPromise
<1>1. Init => PromiseInv /\ Promise!Init
  BY AnswerInvInit, PromiseInit DEF PromiseInv
<1>2. PromiseInv /\ [Next]_vars => PromiseInv'
  BY TypeInvStep, HeldStep, ViewSoundStep, HitSoundStep, OnceInvStep,
     CheckSoundStep DEF PromiseInv, AnswerInv
<1>3. PromiseInv /\ PromiseInv' /\ [Next]_vars
        => [Promise!Next]_(Promise!gateVars)
  BY PromiseStep
<1> QED
  BY <1>1, <1>2, <1>3, PTL DEF Spec, KeepsPromise, Promise!Spec
=============================================================================
