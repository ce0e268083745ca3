-------------------------- MODULE AgentFilterTypes --------------------------
(***************************************************************************)
(* Type correctness of AgentFilter, for any sets of hosts, ports, threads, *)
(* tabs and terminals, any lifetimes and any bounds.  First come lemmas on *)
(* what the queries of Store return and what its commits preserve, which   *)
(* the later proofs cite and leave the definitions alone.  The handlers    *)
(* and the operations are built from a few helpers, Go, TakeLock, Proceed, *)
(* Begin and these commits; a lemma says of each what it leaves well       *)
(* typed.                                                                  *)
(***************************************************************************)
EXTENDS AgentFilter, FiniteSetTheorems, WellFoundedInduction, TLAPS

----------------------------------------------------------------------------
(* Queries.                                                                *)

\* A nonempty set of naturals has a least element, and Min is it.
LEMMA MinIsLeast ==
  ASSUME NEW S, S \subseteq Nat, S # {}
  PROVE  Min(S) \in S /\ \A y \in S : Min(S) <= y
<1> DEFINE less == OpToRel(<, Nat)
<1>1. \A a, b \in Nat : b < a => <<b, a>> \in less
  BY DEF OpToRel
<1>2. IsWellFoundedOn(less, Nat)
  BY NatLessThanWellFounded
<1> HIDE DEF less
<1>3. PICK x \in S : \A y \in S : ~ (<<y, x>> \in less)
  BY <1>2, WFMin
<1>4. ASSUME NEW y \in S PROVE x <= y
  <2>1. x \in Nat /\ y \in Nat
    OBVIOUS
  <2>2. ~ (y < x)
    BY <1>1, <1>3, <2>1
  <2> QED
    BY <2>1, <2>2
<1> QED
  BY <1>4 DEF Min

\* active_match answers 0 or the id of an entry that is active, at the port
\* asked for, and matches the host.
LEMMA ActiveMatchIsActive ==
  ASSUME StoreTypeOK, NEW h, NEW p, NEW ts, active_match(h, p, ts) # 0
  PROVE  LET i == active_match(h, p, ts)
         IN  /\ i \in DOMAIN allowlist
             /\ allowlist[i].port = p
             /\ active(allowlist[i], ts)
             /\ matches(allowlist[i], h)
<1> DEFINE hits == {i \in DOMAIN allowlist :
                      /\ allowlist[i].port = p
                      /\ active(allowlist[i], ts)
                      /\ matches(allowlist[i], h)}
           exact == {i \in hits : allowlist[i].kind = "exact"}
           best == IF exact = {} THEN hits ELSE exact
<1>1. active_match(h, p, ts) = IF hits = {} THEN 0 ELSE Min(best)
  BY DEF active_match
<1>2. DOMAIN allowlist \subseteq Nat
  BY DEF StoreTypeOK
<1>3. best \subseteq hits /\ best \subseteq Nat
  BY <1>2
<1>4. hits # {} /\ best # {}
  BY <1>1
<1>5. Min(best) \in hits
  BY <1>3, <1>4, MinIsLeast
<1> QED
  BY <1>1, <1>4, <1>5

\* The answer of active_match is an id or 0.
LEMMA ActiveMatchType ==
  ASSUME StoreTypeOK, NEW h, NEW p, NEW ts
  PROVE  active_match(h, p, ts) \in Nat
<1>1. DOMAIN allowlist \subseteq Nat
  BY DEF StoreTypeOK
<1> QED
  BY <1>1, ActiveMatchIsActive

\* pending_request answers 0 if the destination has no pending request, else
\* the id of one.
LEMMA PendingRequestIsPending ==
  ASSUME StoreTypeOK, NEW h, NEW p
  PROVE  /\ pending_request(h, p) \in Nat
         /\ pending_request(h, p) = 0 => pending_rows(h, p) = {}
         /\ pending_request(h, p) # 0 =>
              pending_request(h, p) \in pending_rows(h, p)
<1>1. pending_rows(h, p) \subseteq Nat \ {0}
  BY DEF pending_rows, StoreTypeOK
<1>2. CASE pending_rows(h, p) = {}
  BY <1>2 DEF pending_request
<1>3. CASE pending_rows(h, p) # {}
  <2>1. Min(pending_rows(h, p)) \in pending_rows(h, p)
    BY <1>1, <1>3, MinIsLeast
  <2> QED
    BY <1>1, <1>3, <2>1 DEF pending_request
<1> QED
  BY <1>2, <1>3

----------------------------------------------------------------------------
(* Commits.  TypeOfX: X leaves the table it writes well typed.             *)

\* A function on 1 .. n into S is a sequence over S.
LEMMA FunctionIsSeq ==
  ASSUME NEW S, NEW n \in Nat, NEW f, f = [i \in 1 .. n |-> f[i]],
         \A i \in 1 .. n : f[i] \in S
  PROVE  f \in Seq(S) /\ Len(f) = n /\ DOMAIN f = 1 .. n
<1>1. f \in [1 .. n -> S]
  OBVIOUS
<1> QED
  BY <1>1

\* Replacing one element of a sequence, if it is there, gives a sequence.
LEMMA ExceptSeq ==
  ASSUME NEW S, NEW s \in Seq(S), NEW i, NEW e, i \in DOMAIN s => e \in S
  PROVE  [s EXCEPT ![i] = e] \in Seq(S)
<1> DEFINE r == [s EXCEPT ![i] = e]
<1>1. Len(s) \in Nat /\ DOMAIN s = 1 .. Len(s)
  OBVIOUS
<1>2. r = [k \in 1 .. Len(s) |-> IF k = i THEN e ELSE s[k]]
  BY <1>1
<1>3. \A k \in 1 .. Len(s) : r[k] \in S
  BY <1>1, <1>2
<1>4. r = [k \in 1 .. Len(s) |-> r[k]]
  BY <1>2
<1> HIDE DEF r
<1>5. r \in Seq(S)
  BY <1>1, <1>3, <1>4, FunctionIsSeq
<1> QED
  BY <1>5 DEF r

\* A new row is a row.
LEMMA NewRowType ==
  ASSUME StoreTypeOK, NEW h \in Host, NEW kind \in Kind, NEW p \in Port,
         NEW scope \in Scope, NEW expires \in Nat \cup {Null},
         NEW source \in Source
  PROVE  new_row(h, kind, p, scope, expires, source) \in Row
BY DEF new_row, Row, StoreTypeOK

\* The INSERT of add_allowlist.
LEMMA TypeOfAddAllowlist ==
  ASSUME StoreTypeOK, NEW row \in Row, add_allowlist(row)
  PROVE  allowlist' \in Seq(Row)
BY DEF StoreTypeOK, add_allowlist

\* The UPDATE of revoke_entry, revoke_by_source and erase_all, which
\* neither adds nor drops a row.
LEMMA TypeOfRetire ==
  ASSUME StoreTypeOK, NEW ids, NEW ts \in Nat, retire(ids, ts)
  PROVE  allowlist' \in Seq(Row) /\ Len(allowlist') = Len(allowlist)
<1> DEFINE new(i) == IF i \in ids /\ unexpired(allowlist[i], ts)
                     THEN [allowlist[i] EXCEPT !.expires = ts]
                     ELSE allowlist[i]
<1>1. DOMAIN allowlist = 1 .. Len(allowlist) /\ Len(allowlist) \in Nat
  BY DEF StoreTypeOK
<1>2. allowlist' = [i \in 1 .. Len(allowlist) |-> new(i)]
  BY <1>1 DEF retire
<1>3. ASSUME NEW i \in 1 .. Len(allowlist) PROVE new(i) \in Row
  <2>1. allowlist[i] \in Row
    BY <1>1 DEF StoreTypeOK
  <2> QED
    BY <2>1 DEF Row
<1> HIDE DEF new
<1> QED
  BY <1>1, <1>2, <1>3

\* The UPDATE that stamps consumed_at.
LEMMA TypeOfSpend ==
  ASSUME StoreTypeOK, NEW id, NEW ts \in Nat, spend(id, ts)
  PROVE  allowlist' \in Seq(Row)
<1> DEFINE row == [allowlist[id] EXCEPT !.consumed = ts]
<1>1. ASSUME id \in DOMAIN allowlist PROVE row \in Row
  <2>1. allowlist[id] \in Row
    BY <1>1 DEF StoreTypeOK
  <2> QED
    BY <2>1 DEF Row
<1>2. allowlist' = [allowlist EXCEPT ![id] = row]
  BY DEF spend
<1> QED
  BY <1>1, <1>2, ExceptSeq DEF StoreTypeOK

\* The INSERT of upsert_pending.
LEMMA TypeOfInsertPending ==
  ASSUME StoreTypeOK, NEW h \in Host, NEW p \in Port,
         NEW why \in Reason \cup {NoReason}, insert_pending(h, p, why)
  PROVE  requests' \in Seq(Request)
BY DEF StoreTypeOK, insert_pending, Request, Status

\* The UPDATE of decide_request.
LEMMA TypeOfDecideRequest ==
  ASSUME StoreTypeOK, NEW id, NEW status \in Status, NEW ts \in Nat,
         decide_request(id, status, ts)
  PROVE  requests' \in Seq(Request)
<1> DEFINE row == IF requests[id].status = "pending"
                  THEN [requests[id] EXCEPT !.status = status,
                                            !.decided = ts]
                  ELSE requests[id]
<1>1. ASSUME id \in DOMAIN requests PROVE row \in Request
  <2>1. requests[id] \in Request
    BY <1>1 DEF StoreTypeOK
  <2> QED
    BY <2>1 DEF Request
<1>2. requests' = [requests EXCEPT ![id] = row]
  BY DEF decide_request
<1> QED
  BY <1>1, <1>2, ExceptSeq DEF StoreTypeOK

----------------------------------------------------------------------------
(* The queue: what a decision and an insert do to the pending requests.    *)

pending_ids == {r \in DOMAIN requests : requests[r].status = "pending"}

\* The pending requests are finitely many, and pending_count counts them.
LEMMA PendingFinite ==
  ASSUME StoreTypeOK
  PROVE  /\ IsFiniteSet(pending_ids)
         /\ pending_count = Cardinality(pending_ids) /\ pending_count \in Nat
<1>1. DOMAIN requests = 1 .. Len(requests) /\ Len(requests) \in Nat
  BY DEF StoreTypeOK
<1>2. IsFiniteSet(1 .. Len(requests))
  BY <1>1, FS_Interval
<1>3. pending_ids \subseteq 1 .. Len(requests)
  BY <1>1 DEF pending_ids
<1>4. IsFiniteSet(pending_ids)
  BY <1>2, <1>3, FS_Subset
<1>5. pending_count = Cardinality(pending_ids)
  BY DEF pending_count, pending_ids
<1> QED
  BY <1>4, <1>5, FS_CardinalityType

\* A decision closes one request, or none if it was decided before, and
\* leaves the others as they are.
LEMMA DecideRequestCloses ==
  ASSUME StoreTypeOK, NEW id, NEW status \in {"approved", "denied"}, NEW ts,
         decide_request(id, status, ts)
  PROVE  /\ DOMAIN requests' = DOMAIN requests
         /\ pending_ids' = pending_ids \ {id}
         /\ id \in pending_ids => requests'[id].status = status
         /\ \A r \in DOMAIN requests :
              /\ requests'[r].host = requests[r].host
              /\ requests'[r].port = requests[r].port
              /\ requests'[r].rationale = requests[r].rationale
              /\ requests[r].status # "pending" => requests'[r] = requests[r]
<1> DEFINE row == IF requests[id].status = "pending"
                  THEN [requests[id] EXCEPT !.status = status,
                                            !.decided = ts]
                  ELSE requests[id]
<1>1. requests' = [requests EXCEPT ![id] = row]
  BY DEF decide_request
<1>2. DOMAIN requests' = DOMAIN requests
  BY <1>1
<1>3. ASSUME id \in DOMAIN requests
      PROVE  /\ row.host = requests[id].host /\ row.port = requests[id].port
             /\ row.rationale = requests[id].rationale
             /\ row.status # "pending"
             /\ requests[id].status = "pending" => row.status = status
             /\ requests[id].status # "pending" => row = requests[id]
  <2>1. requests[id] \in Request
    BY <1>3 DEF StoreTypeOK
  <2> QED
    BY <2>1 DEF Request
<1> HIDE DEF row
<1>4. \A r \in DOMAIN requests :
        requests'[r] = IF r = id THEN row ELSE requests[r]
  BY <1>1
<1>5. pending_ids' = pending_ids \ {id}
  BY <1>2, <1>3, <1>4 DEF pending_ids
<1>6. id \in pending_ids => requests'[id].status = status
  BY <1>3, <1>4 DEF pending_ids
<1> QED
  BY <1>2, <1>3, <1>4, <1>5, <1>6

\* The INSERT of upsert_pending opens one request, under a new id, and leaves
\* the others as they are.
LEMMA InsertPendingOpens ==
  ASSUME StoreTypeOK, NEW h, NEW p, NEW why, insert_pending(h, p, why)
  PROVE  LET new == Len(requests) + 1
         IN  /\ new \notin DOMAIN requests
             /\ DOMAIN requests' = DOMAIN requests \cup {new}
             /\ requests'[new].host = h /\ requests'[new].port = p
             /\ pending_ids' = pending_ids \cup {new}
             /\ \A r \in DOMAIN requests : requests'[r] = requests[r]
<1> DEFINE new == Len(requests) + 1
           row == [host |-> h, port |-> p, rationale |-> why,
                   status |-> "pending", decided |-> Null]
<1>1. requests \in Seq(Request) /\ requests' = Append(requests, row)
  BY DEF StoreTypeOK, insert_pending
<1>2. row.host = h /\ row.port = p /\ row.status = "pending"
  OBVIOUS
<1> HIDE DEF row
<1>3. /\ new \notin DOMAIN requests
      /\ DOMAIN requests' = DOMAIN requests \cup {new}
      /\ requests'[new] = row
      /\ \A r \in DOMAIN requests : requests'[r] = requests[r]
  BY <1>1
<1> HIDE DEF new
<1>4. pending_ids' = pending_ids \cup {new}
  BY <1>2, <1>3 DEF pending_ids
<1> QED
  BY <1>2, <1>3, <1>4 DEF new

----------------------------------------------------------------------------
(* The broker.                                                             *)

\* A thread that goes on with a job at a label stays well typed.
LEMMA GoType ==
  ASSUME BrokerTypeOK, NEW t \in Worker, NEW j \in Job, NEW label \in Label,
         Go(t, j, label)
  PROVE  pc' \in [Worker -> Label] /\ job' \in [Worker -> Job]
BY DEF BrokerTypeOK, Go

\* What an idle thread holds is a job.
LEMMA NoJobType == NoJob \in Job
BY StoreAssumption DEF NoJob, Job, Code

\* So does a thread that answers with one of the codes.
LEMMA AnswerType ==
  ASSUME BrokerTypeOK, NEW t \in Worker, NEW code \in Code, Answer(t, code)
  PROVE  pc' \in [Worker -> Label] /\ job' \in [Worker -> Job]
<1>1. [job[t] EXCEPT !.code = code] \in Job
  BY DEF BrokerTypeOK, Job
<1> QED
  BY <1>1, GoType DEF Answer, Label

\* A thread that takes the lock with a well-typed payload is well typed.
LEMMA TakeLockType ==
  ASSUME StoreTypeOK, BrokerTypeOK, NEW t \in Worker, NEW payload \in Job,
         NEW code \in Code, NEW label \in Label,
         TakeLock(t, payload, code, label)
  PROVE  StoreTypeOK' /\ BrokerTypeOK'
<1>1. [payload EXCEPT !.ts = clock, !.code = code] \in Job
  BY DEF StoreTypeOK, Job
<1>2. (IF code = "NONE" THEN label ELSE "reply") \in Label
  BY DEF Label
<1>3. pc' \in [Worker -> Label] /\ job' \in [Worker -> Job]
  BY <1>1, <1>2, GoType DEF TakeLock
<1>4. lock' = t /\ UNCHANGED storeVars
  BY DEF TakeLock
<1> QED
  BY <1>3, <1>4 DEF StoreTypeOK, BrokerTypeOK, storeVars

\* A check of the proxy begins well typed.
LEMMA AclCheckType ==
  ASSUME StoreTypeOK, BrokerTypeOK, NEW t \in Worker, AclCheck(t)
  PROVE  StoreTypeOK' /\ BrokerTypeOK'
<1>1. PICK h \in Host \cup {Malformed}, p \in Port, final \in BOOLEAN :
        TakeLock(t, [NoJob EXCEPT !.host = h, !.port = p, !.final = final],
                 gate_code(h, p), "pause")
  BY DEF AclCheck
<1>2. [NoJob EXCEPT !.host = h, !.port = p, !.final = final] \in Job
  BY NoJobType DEF Job
<1>3. gate_code(h, p) \in Code
  BY DEF gate_code, Code
<1>4. "pause" \in Label
  BY DEF Label
<1> QED
  BY <1>1, <1>2, <1>3, <1>4, TakeLockType

\* A submission of the agent begins well typed.
LEMMA SubmitType ==
  ASSUME StoreTypeOK, BrokerTypeOK, NEW t \in Worker, Submit(t)
  PROVE  StoreTypeOK' /\ BrokerTypeOK'
<1>1. PICK h \in Host \cup {Malformed}, p \in Port,
           why \in Reason \cup {NoReason} :
        \E code \in {gate_code(h, p), "RATE_LIMITED"} :
          TakeLock(t, [NoJob EXCEPT !.op = "submit", !.host = h, !.port = p,
                                    !.why = why], code, "match")
  BY DEF Submit
<1>2. PICK code \in {gate_code(h, p), "RATE_LIMITED"} :
        TakeLock(t, [NoJob EXCEPT !.op = "submit", !.host = h, !.port = p,
                                  !.why = why], code, "match")
  BY <1>1
<1>3. [NoJob EXCEPT !.op = "submit", !.host = h, !.port = p, !.why = why]
        \in Job
  BY NoJobType DEF Job
<1>4. code \in Code
  BY DEF gate_code, Code
<1>5. "match" \in Label
  BY DEF Label
<1> QED
  BY <1>2, <1>3, <1>4, <1>5, TakeLockType

\* The steps of a handler that change no table.
LEMMA ReadStepType ==
  ASSUME StoreTypeOK, BrokerTypeOK, NEW t \in Worker,
         \/ ReadPause(t) \/ Match(t) \/ ReadDenial(t) \/ ReadExisting(t)
         \/ ReadCount(t) \/ Find(t) \/ Bump(t) \/ Reply(t)
  PROVE  StoreTypeOK' /\ BrokerTypeOK'
<1>1. UNCHANGED storeVars /\ lock' \in {lock, Free}
  BY DEF ReadPause, Match, ReadDenial, ReadExisting, ReadCount, Find, Bump,
         Reply
<1>2. job[t] \in Job
  BY DEF BrokerTypeOK
<1>3. Label = {"idle", "pause", "match", "consume", "denial",
               "exists", "count", "find", "write", "reply"}
  BY DEF Label
<1>4. pc' \in [Worker -> Label] /\ job' \in [Worker -> Job]
  <2>1. CASE ReadPause(t)
    BY <1>2, <1>3, <2>1, AnswerType, GoType DEF ReadPause, Code
  <2>2. CASE Match(t)
    <3> DEFINE hit == active_match(job[t].host, job[t].port, job[t].ts)
               j   == [job[t] EXCEPT !.hit = hit]
    <3>1. hit \in Nat
      BY ActiveMatchType
    <3>2. j \in Job /\ [j EXCEPT !.code = "ALLOWED"] \in Job
      BY <1>2, <3>1 DEF Job, Code
    <3>3. \/ Go(t, j, "denial") \/ Go(t, j, "consume")
          \/ Go(t, [j EXCEPT !.code = "ALLOWED"], "reply")
      BY <2>2 DEF Match
    <3> HIDE DEF j
    <3> QED
      BY <1>3, <3>2, <3>3, GoType
  <2>3. CASE ReadDenial(t)
    BY <1>2, <1>3, <2>3, AnswerType, GoType DEF ReadDenial, Code
  <2>4. CASE ReadExisting(t)
    BY <1>2, <1>3, <2>4, AnswerType, GoType DEF ReadExisting, Code
  <2>5. CASE ReadCount(t)
    BY <1>2, <1>3, <2>5, AnswerType, GoType DEF ReadCount, Code
  <2>6. CASE Find(t)
    <3> DEFINE r == pending_request(job[t].host, job[t].port)
    <3>1. r \in Nat
      BY PendingRequestIsPending
    <3>2. [job[t] EXCEPT !.req = r] \in Job
      BY <1>2, <3>1 DEF Job
    <3> QED
      BY <1>3, <2>6, <3>2, GoType DEF Find
  <2>7. CASE Bump(t)
    BY <2>7, AnswerType DEF Bump, Code
  <2>8. CASE Reply(t)
    BY <1>3, <2>8, NoJobType, GoType DEF Reply
  <2> QED
    BY <2>1, <2>2, <2>3, <2>4, <2>5, <2>6, <2>7, <2>8
<1> QED
  BY <1>1, <1>4 DEF StoreTypeOK, BrokerTypeOK, storeVars

\* Spending a once entry keeps the types.
LEMMA ConsumeType ==
  ASSUME StoreTypeOK, BrokerTypeOK, NEW t \in Worker, Consume(t)
  PROVE  StoreTypeOK' /\ BrokerTypeOK'
<1>1. job[t].ts \in Nat
  BY DEF BrokerTypeOK, Job
<1>2. allowlist' \in Seq(Row)
  BY <1>1, TypeOfSpend DEF Consume
<1>3. pc' \in [Worker -> Label] /\ job' \in [Worker -> Job]
  BY AnswerType DEF Consume, Code
<1> QED
  BY <1>2, <1>3 DEF Consume, StoreTypeOK, BrokerTypeOK

\* A handler that went past the gates has a destination that passes them.
\* (TypeOK alone is not inductive: an Insert by a handler of a malformed
\* hostname would spoil the requests table.)
Passed(j) ==
  j.host \in Host /\ ~ is_blocked(j.host) /\ j.port \in Permitted

Gated ==
  \A t \in Worker :
    \/ pc[t] \notin {"idle", "reply"}
    \/ job[t].code \in {"ALLOWED", "PAUSED_ALLOW"}
    => Passed(job[t])

\* Inserting a request keeps the types: the host is not Malformed, because
\* the handler has passed the gates.
LEMMA InsertType ==
  ASSUME StoreTypeOK, BrokerTypeOK, Gated, NEW t \in Worker, Insert(t)
  PROVE  StoreTypeOK' /\ BrokerTypeOK'
<1>1. job[t] \in Job /\ job[t].host \in Host
  BY DEF Gated, Passed, Insert, BrokerTypeOK
<1>2. requests' \in Seq(Request)
  BY <1>1, TypeOfInsertPending DEF Insert, Job
<1>3. Len(requests) + 1 \in Nat
  BY DEF StoreTypeOK
<1>4. [job[t] EXCEPT !.req = Len(requests) + 1, !.code = "PENDING"] \in Job
  BY <1>1, <1>3 DEF Job, Code
<1>5. pc' \in [Worker -> Label] /\ job' \in [Worker -> Job]
  BY <1>4, GoType DEF Insert, Label
<1> QED
  BY <1>2, <1>5 DEF Insert, StoreTypeOK, BrokerTypeOK

\* A job that begins at a label past the gates has passed them.
LEMMA TakeLockGated ==
  ASSUME BrokerTypeOK, Gated, NEW t \in Worker, NEW payload \in Job,
         NEW code, code \in {gate_code(payload.host, payload.port),
                             "RATE_LIMITED"},
         NEW label, TakeLock(t, payload, code, label)
  PROVE  Gated'
<1> DEFINE j == [payload EXCEPT !.ts = clock, !.code = code]
<1>1. j.host = payload.host /\ j.port = payload.port /\ j.code = code
  BY DEF Job
<1>2. code \notin {"ALLOWED", "PAUSED_ALLOW"}
  BY DEF gate_code
<1>3. code = "NONE" => Passed(j)
  BY <1>1 DEF gate_code, Passed, Job
<1>4. Go(t, j, IF code = "NONE" THEN label ELSE "reply")
  BY DEF TakeLock
<1> HIDE DEF j
<1> QED
  BY <1>1, <1>2, <1>3, <1>4 DEF Gated, Passed, Go, BrokerTypeOK

\* A handler that goes on with the same destination stays past the gates.
LEMMA GoGated ==
  ASSUME BrokerTypeOK, Gated, NEW t \in Worker, NEW j, NEW label,
         Go(t, j, label), pc[t] \notin {"idle", "reply"},
         j.host = job[t].host, j.port = job[t].port
  PROVE  Gated'
BY DEF Gated, Passed, Go, BrokerTypeOK

\* Every step of the broker keeps Gated.
LEMMA BrokerGated ==
  ASSUME BrokerTypeOK, Gated, NEW t \in Worker,
         AclCheck(t) \/ Submit(t) \/ HandlerStep(t)
  PROVE  Gated'
<1> DEFINE Going(j, label) ==
      /\ Go(t, j, label)
      /\ pc[t] \notin {"idle", "reply"}
      /\ j.host = job[t].host /\ j.port = job[t].port
<1>1. CASE AclCheck(t)
  <2>1. PICK h \in Host \cup {Malformed}, p \in Port, final \in BOOLEAN :
          TakeLock(t, [NoJob EXCEPT !.host = h, !.port = p, !.final = final],
                   gate_code(h, p), "pause")
    BY <1>1 DEF AclCheck
  <2> DEFINE j == [NoJob EXCEPT !.host = h, !.port = p, !.final = final]
  <2>2. j \in Job /\ j.host = h /\ j.port = p
    BY NoJobType DEF Job
  <2> HIDE DEF j
  <2> QED
    BY <2>1, <2>2, TakeLockGated DEF j
<1>2. CASE Submit(t)
  <2>1. PICK h \in Host \cup {Malformed}, p \in Port,
             why \in Reason \cup {NoReason} :
          \E code \in {gate_code(h, p), "RATE_LIMITED"} :
            TakeLock(t, [NoJob EXCEPT !.op = "submit", !.host = h,
                                      !.port = p, !.why = why],
                     code, "match")
    BY <1>2 DEF Submit
  <2> DEFINE j == [NoJob EXCEPT !.op = "submit", !.host = h, !.port = p,
                                !.why = why]
  <2>2. j \in Job /\ j.host = h /\ j.port = p
    BY NoJobType DEF Job
  <2>3. PICK code \in {gate_code(j.host, j.port), "RATE_LIMITED"} :
          TakeLock(t, j, code, "match")
    BY <2>1, <2>2
  <2> HIDE DEF j
  <2> QED
    BY <2>2, <2>3, TakeLockGated
<1>3. CASE HandlerStep(t) /\ ~ Reply(t)
  <2>1. job[t] \in Job
    BY DEF BrokerTypeOK
  <2>2. \E j, label : Going(j, label)
    <3>1. ASSUME NEW code, Answer(t, code), pc[t] \notin {"idle", "reply"}
          PROVE  Going([job[t] EXCEPT !.code = code], "reply")
      BY <2>1, <3>1 DEF Answer, Job
    <3>2. ASSUME NEW label, Go(t, job[t], label),
                 pc[t] \notin {"idle", "reply"}
          PROVE  Going(job[t], label)
      BY <3>2
    <3> HIDE DEF Going
    <3>3. CASE ReadPause(t)
      BY <3>1, <3>2, <3>3 DEF ReadPause
    <3>4. CASE Match(t)
      <4> DEFINE hit == active_match(job[t].host, job[t].port, job[t].ts)
                 j   == [job[t] EXCEPT !.hit = hit]
                 a   == [j EXCEPT !.code = "ALLOWED"]
      <4>1. /\ j.host = job[t].host /\ j.port = job[t].port
            /\ a.host = job[t].host /\ a.port = job[t].port
        BY <2>1 DEF Job
      <4>2. /\ pc[t] \notin {"idle", "reply"}
            /\ \/ Go(t, j, "denial") \/ Go(t, j, "consume")
               \/ Go(t, a, "reply")
        BY <3>4 DEF Match
      <4> HIDE DEF j, a
      <4> QED
        BY <4>1, <4>2 DEF Going
    <3>5. CASE Consume(t)
      BY <3>1, <3>5 DEF Consume
    <3>6. CASE ReadDenial(t)
      BY <3>1, <3>2, <3>6 DEF ReadDenial
    <3>7. CASE ReadExisting(t)
      BY <3>1, <3>2, <3>7 DEF ReadExisting
    <3>8. CASE ReadCount(t)
      BY <3>1, <3>2, <3>8 DEF ReadCount
    <3>9. CASE Find(t)
      <4> DEFINE r == pending_request(job[t].host, job[t].port)
                 j == [job[t] EXCEPT !.req = r]
      <4>1. j.host = job[t].host /\ j.port = job[t].port
        BY <2>1 DEF Job
      <4>2. pc[t] \notin {"idle", "reply"} /\ Go(t, j, "write")
        BY <3>9 DEF Find
      <4> HIDE DEF j
      <4> QED
        BY <4>1, <4>2 DEF Going
    <3>10. CASE Bump(t)
      BY <3>1, <3>10 DEF Bump
    <3>11. CASE Insert(t)
      <4> DEFINE j == [job[t] EXCEPT !.req = Len(requests) + 1,
                                     !.code = "PENDING"]
      <4>1. j.host = job[t].host /\ j.port = job[t].port
        BY <2>1 DEF Job
      <4>2. pc[t] \notin {"idle", "reply"} /\ Go(t, j, "reply")
        BY <3>11 DEF Insert
      <4> HIDE DEF j
      <4> QED
        BY <4>1, <4>2 DEF Going
    <3> QED
      BY <1>3, <3>3, <3>4, <3>5, <3>6, <3>7, <3>8, <3>9, <3>10, <3>11
         DEF HandlerStep
  <2> QED
    BY <2>2, GoGated
<1>4. CASE Reply(t)
  BY <1>4 DEF Reply, Go, NoJob, Gated, Passed, BrokerTypeOK
<1> QED
  BY <1>1, <1>2, <1>3, <1>4

----------------------------------------------------------------------------
(* The panel and brokerctl.                                                *)

\* What an idle tab holds is a task.
LEMMA NoTaskType == NoTask \in Task
<1>1. (CHOOSE h \in Host : TRUE) \in Host
  BY StoreAssumption
<1> QED
  BY <1>1, StoreAssumption DEF NoTask, Task, Operation, Kind

\* A tab that proceeds with a task is at a place of an operation.
LEMMA ProceedType ==
  ASSUME PanelTypeOK, NEW u \in Tab, NEW k \in Task, Proceed(u, k)
  PROVE  tab_pc' \in [Tab -> TaskLabel] /\ task' \in [Tab -> Task]
<1>1. \A op, at : next_commit(op, at) \in TaskLabel
  BY DEF next_commit, TaskLabel
<1> QED
  BY <1>1 DEF PanelTypeOK, Proceed

\* An operation that begins with a well-typed task is well typed.
LEMMA BeginType ==
  ASSUME StoreTypeOK, PanelTypeOK, NEW u \in Tab, NEW k \in Task, Begin(u, k)
  PROVE  StoreTypeOK' /\ PanelTypeOK'
<1>1. [k EXCEPT !.ts = clock] \in Task
  BY DEF StoreTypeOK, Task
<1>2. tab_pc' \in [Tab -> TaskLabel] /\ task' \in [Tab -> Task]
  BY <1>1, ProceedType DEF Begin
<1> QED
  BY <1>2 DEF Begin, StoreTypeOK, PanelTypeOK, storeVars, cliVars, stampVars

Starts(u) ==
  \/ DecideApprove(u) \/ DecideDeny(u) \/ ManualAdd(u) \/ ConfirmWildcard(u)
  \/ RefuseBlocked(u) \/ Revoke(u) \/ EraseAll(u) \/ RemoveDefaults(u)
  \/ PauseEnforcement(u) \/ ResumeEnforcement(u)

\* The request an operation decides is pending and for its destination.
Asks(k) ==
  k.op \in {"approve", "deny"} =>
    /\ k.id \in DOMAIN requests
    /\ requests[k.id].status = "pending"
    /\ requests[k.id].host = k.host /\ requests[k.id].port = k.port

\* Whatever the operator asks for, the operation begins well typed, and about
\* a request that is pending.
LEMMA StartsBegin ==
  ASSUME StoreTypeOK, PanelTypeOK, NEW u \in Tab, Starts(u)
  PROVE  \E k \in Task : Begin(u, k) /\ Asks(k)
<1>0. ASSUME NEW k \in Task, k.op \notin {"approve", "deny"} PROVE Asks(k)
  BY <1>0 DEF Asks
<1>1. NoTask \in Task
  BY NoTaskType
<1> USE DEF Task, Operation, Kind
<1>2. CASE DecideApprove(u)
  <2>1. PICK id \in DOMAIN requests, s \in Scope :
          /\ requests[id].status = "pending"
          /\ Begin(u, [NoTask EXCEPT !.op = "approve", !.id = id, !.scope = s,
                                     !.host = requests[id].host,
                                     !.port = requests[id].port])
    BY <1>2 DEF DecideApprove
  <2> DEFINE k == [NoTask EXCEPT !.op = "approve", !.id = id, !.scope = s,
                                 !.host = requests[id].host,
                                 !.port = requests[id].port]
  <2>2. id \in Nat /\ requests[id] \in Request
    BY DEF StoreTypeOK
  <2>3. /\ k \in Task /\ k.id = id
        /\ k.host = requests[id].host /\ k.port = requests[id].port
    BY <1>1, <2>2 DEF Request
  <2> HIDE DEF k
  <2>4. Asks(k)
    BY <2>1, <2>3 DEF Asks
  <2> QED
    BY <2>1, <2>3, <2>4 DEF k
<1>3. CASE DecideDeny(u)
  <2>1. PICK id \in DOMAIN requests :
          /\ requests[id].status = "pending"
          /\ Begin(u, [NoTask EXCEPT !.op = "deny", !.id = id,
                                     !.host = requests[id].host,
                                     !.port = requests[id].port])
    BY <1>3 DEF DecideDeny
  <2> DEFINE k == [NoTask EXCEPT !.op = "deny", !.id = id,
                                 !.host = requests[id].host,
                                 !.port = requests[id].port]
  <2>2. id \in Nat /\ requests[id] \in Request
    BY DEF StoreTypeOK
  <2>3. /\ k \in Task /\ k.id = id
        /\ k.host = requests[id].host /\ k.port = requests[id].port
    BY <1>1, <2>2 DEF Request
  <2> HIDE DEF k
  <2>4. Asks(k)
    BY <2>1, <2>3 DEF Asks
  <2> QED
    BY <2>1, <2>3, <2>4 DEF k
<1>4. CASE ManualAdd(u)
  <2>1. PICK h \in Host, s \in Scope :
          Begin(u, [NoTask EXCEPT !.op = "add", !.host = h, !.scope = s])
    BY <1>4 DEF ManualAdd
  <2>2. [NoTask EXCEPT !.op = "add", !.host = h, !.scope = s] \in Task
    BY <1>1
  <2> QED
    BY <1>0, <1>1, <2>1, <2>2
<1>5. CASE ConfirmWildcard(u)
  <2>1. PICK h \in Host, s \in Scope \cap {"24h", "permanent"} :
          Begin(u, [NoTask EXCEPT !.op = "wildcard", !.host = h,
                                  !.scope = s, !.kind = "wildcard"])
    BY <1>5 DEF ConfirmWildcard
  <2>2. [NoTask EXCEPT !.op = "wildcard", !.host = h, !.scope = s,
                       !.kind = "wildcard"] \in Task
    BY <1>1
  <2> QED
    BY <1>0, <1>1, <2>1, <2>2
<1>6. CASE RefuseBlocked(u)
  <2>1. PICK h \in Host : Begin(u, [NoTask EXCEPT !.op = "refuse",
                                                  !.host = h])
    BY <1>6 DEF RefuseBlocked
  <2>2. [NoTask EXCEPT !.op = "refuse", !.host = h] \in Task
    BY <1>1
  <2> QED
    BY <1>0, <1>1, <2>1, <2>2
<1>7. CASE Revoke(u)
  <2>1. PICK id \in DOMAIN allowlist :
          Begin(u, [NoTask EXCEPT !.op = "revoke", !.id = id])
    BY <1>7 DEF Revoke
  <2>2. id \in Nat
    BY DEF StoreTypeOK
  <2>3. [NoTask EXCEPT !.op = "revoke", !.id = id] \in Task
    BY <1>1, <2>2
  <2> QED
    BY <1>0, <1>1, <2>1, <2>3
<1>8. CASE EraseAll(u) \/ RemoveDefaults(u) \/ ResumeEnforcement(u)
  <2>1. /\ [NoTask EXCEPT !.op = "erase"] \in Task
        /\ [NoTask EXCEPT !.op = "remove_defaults"] \in Task
        /\ [NoTask EXCEPT !.op = "resume"] \in Task
    BY <1>1
  <2> QED
    BY <1>0, <1>1, <1>8, <2>1 DEF EraseAll, RemoveDefaults, ResumeEnforcement
<1>9. CASE PauseEnforcement(u)
  <2>1. PICK until \in {Off} \cup {clock + n : n \in PauseLength} :
          Begin(u, [NoTask EXCEPT !.op = "pause", !.until = until])
    BY <1>9 DEF PauseEnforcement
  <2>2. until \in Nat \cup {Off}
    BY StoreAssumption DEF StoreTypeOK
  <2>3. [NoTask EXCEPT !.op = "pause", !.until = until] \in Task
    BY <1>1, <2>2
  <2> QED
    BY <1>0, <1>1, <2>1, <2>3
<1> QED
  BY <1>2, <1>3, <1>4, <1>5, <1>6, <1>7, <1>8, <1>9 DEF Starts

\* The commit of a new entry keeps the types.
LEMMA AddRowType ==
  ASSUME StoreTypeOK, PanelTypeOK, NEW u \in Tab, AddRow(u)
  PROVE  StoreTypeOK' /\ PanelTypeOK'
<1> DEFINE k == task[u]
           source == IF k.op = "approve" THEN "approval" ELSE "manual"
           row == new_row(k.host, k.kind, k.port, k.scope,
                          scope_expiry(k.scope, k.ts), source)
           kk == IF k.op = "approve" THEN k
                 ELSE [k EXCEPT !.id = Len(allowlist) + 1]
<1>1. k \in Task
  BY DEF PanelTypeOK
<1>2. scope_expiry(k.scope, k.ts) \in Nat \cup {Null}
  <2>1. Lifetime[k.scope] \in Nat \cup {Null} /\ k.ts \in Nat
    BY <1>1, StoreAssumption DEF Task
  <2> QED
    BY <2>1 DEF scope_expiry
<1>3. row \in Row
  BY <1>1, <1>2, NewRowType DEF Task, Source
<1>4. allowlist' \in Seq(Row)
  BY <1>3, TypeOfAddAllowlist DEF AddRow
<1>5. Len(allowlist) + 1 \in Nat
  BY DEF StoreTypeOK
<1>6. kk \in Task
  BY <1>1, <1>5 DEF Task
<1>7. tab_pc' \in [Tab -> TaskLabel] /\ task' \in [Tab -> Task]
  BY <1>6, ProceedType DEF AddRow
<1> QED
  BY <1>4, <1>7 DEF AddRow, StoreTypeOK, PanelTypeOK, cliVars, stampVars

\* The commit of a decision keeps the types.
LEMMA ResolveType ==
  ASSUME StoreTypeOK, PanelTypeOK, NEW u \in Tab, Resolve(u)
  PROVE  StoreTypeOK' /\ PanelTypeOK'
<1>1. task[u] \in Task
  BY DEF PanelTypeOK
<1>2. requests' \in Seq(Request)
  BY <1>1, TypeOfDecideRequest DEF Resolve, Status, Task
<1>3. tab_pc' \in [Tab -> TaskLabel] /\ task' \in [Tab -> Task]
  BY <1>1, ProceedType DEF Resolve
<1> QED
  BY <1>2, <1>3 DEF Resolve, StoreTypeOK, PanelTypeOK, cliVars, stampVars

\* The commit of a revoke, an erase or a removal keeps the types.
LEMMA RetireType ==
  ASSUME StoreTypeOK, PanelTypeOK, NEW u \in Tab, Retire(u)
  PROVE  StoreTypeOK' /\ PanelTypeOK'
<1>1. task[u] \in Task
  BY DEF PanelTypeOK
<1>2. allowlist' \in Seq(Row)
  BY <1>1, TypeOfRetire DEF Retire, Task
<1>3. tab_pc' \in [Tab -> TaskLabel] /\ task' \in [Tab -> Task]
  BY <1>1, ProceedType DEF Retire
<1> QED
  BY <1>2, <1>3 DEF Retire, StoreTypeOK, PanelTypeOK, cliVars, stampVars

\* The commit of the pause setting keeps the types.
LEMMA SetPauseType ==
  ASSUME StoreTypeOK, PanelTypeOK, NEW u \in Tab, SetPause(u)
  PROVE  StoreTypeOK' /\ PanelTypeOK'
<1>1. task[u] \in Task
  BY DEF PanelTypeOK
<1>2. paused_until' \in Nat \cup {Off}
  BY <1>1 DEF SetPause, set_pause, Task
<1>3. tab_pc' \in [Tab -> TaskLabel] /\ task' \in [Tab -> Task]
  BY <1>1, ProceedType DEF SetPause
<1> QED
  BY <1>2, <1>3 DEF SetPause, StoreTypeOK, PanelTypeOK, cliVars, stampVars

\* The stamp keeps the types.
LEMMA LogEventType ==
  ASSUME StoreTypeOK, PanelTypeOK, NEW u \in Tab, LogEvent(u)
  PROVE  StoreTypeOK' /\ PanelTypeOK'
<1>1. task[u] \in Task
  BY DEF PanelTypeOK
<1>2. stamps_of(task[u]) \subseteq Stamp
  BY <1>1 DEF stamps_of, Stamp, Task
<1>3. decisions' \subseteq Stamp
  BY <1>2 DEF LogEvent, PanelTypeOK
<1>4. gate_stamp' \in Nat \cup {Off}
  BY <1>1 DEF LogEvent, PanelTypeOK, Task
<1>5. tab_pc' \in [Tab -> TaskLabel] /\ task' \in [Tab -> Task]
  BY NoTaskType DEF LogEvent, PanelTypeOK, TaskLabel
<1> QED
  BY <1>3, <1>4, <1>5
     DEF LogEvent, StoreTypeOK, PanelTypeOK, storeVars, cliVars

\* A restart of the panel keeps the types.
LEMMA PanelRestartType ==
  ASSUME StoreTypeOK, PanelTypeOK, PanelRestart
  PROVE  StoreTypeOK' /\ PanelTypeOK'
BY NoTaskType DEF PanelRestart, StoreTypeOK, PanelTypeOK, TaskLabel,
   storeVars, cliVars, stampVars

\* The steps of brokerctl keep the types.
LEMMA CliType ==
  ASSUME StoreTypeOK, PanelTypeOK, NEW c \in Terminal,
         CliPause(c) \/ CliResume(c) \/ CliSet(c) \/ CliLog(c) \/ CliKilled(c)
  PROVE  StoreTypeOK' /\ PanelTypeOK'
<1>1. cli[c] \in Task
  BY DEF PanelTypeOK
<1>2. ASSUME NEW op \in {"pause", "resume"}, NEW until \in Nat \cup {Off},
             CliBegin(c, op, until)
      PROVE  StoreTypeOK' /\ PanelTypeOK'
  <2>1. [NoTask EXCEPT !.op = op, !.ts = clock, !.until = until] \in Task
    BY NoTaskType DEF Task, Operation, StoreTypeOK
  <2> QED
    BY <1>2, <2>1 DEF CliBegin, StoreTypeOK, PanelTypeOK, TaskLabel,
       storeVars, tabVars, stampVars
<1>3. CASE CliPause(c)
  <2>1. PICK until \in {Off} \cup {clock + n : n \in PauseLength} :
          CliBegin(c, "pause", until)
    BY <1>3 DEF CliPause
  <2>2. until \in Nat \cup {Off}
    BY StoreAssumption DEF StoreTypeOK
  <2> QED
    BY <1>2, <2>1, <2>2
<1>4. CASE CliResume(c)
  BY <1>2, <1>4 DEF CliResume
<1>5. CASE CliSet(c)
  <2>1. paused_until' \in Nat \cup {Off}
    BY <1>1, <1>5 DEF CliSet, set_pause, Task
  <2> QED
    BY <1>5, <2>1 DEF CliSet, StoreTypeOK, PanelTypeOK, TaskLabel, tabVars,
       stampVars
<1>6. CASE CliLog(c)
  <2>1. gate_stamp' \in Nat \cup {Off}
    BY <1>1, <1>6 DEF CliLog, Task
  <2> QED
    BY <1>6, <2>1, NoTaskType DEF CliLog, StoreTypeOK, PanelTypeOK,
       TaskLabel, storeVars, tabVars
<1>7. CASE CliKilled(c)
  BY <1>7, NoTaskType DEF CliKilled, StoreTypeOK, PanelTypeOK, TaskLabel,
     storeVars, tabVars, stampVars
<1> QED
  BY <1>3, <1>4, <1>5, <1>6, <1>7

----------------------------------------------------------------------------
(* The system.                                                             *)

TypeInv == TypeOK /\ Gated

\* The views, and what Next does to the history variables in every case.
LEMMA WatchType ==
  ASSUME TypeOK, Watch
  PROVE  seen' \in [Worker -> View]
<1>1. dead_rows(clock) \subseteq Nat
  BY DEF dead_rows, TypeOK, StoreTypeOK
<1>2. ASSUME NEW t \in Worker
      PROVE  /\ seen[t] \in View
             /\ pause_active(clock) \in BOOLEAN
             /\ (denial_stands(job'[t])) \in BOOLEAN
             /\ (seen[t].open \/ pause_active(job[t].ts)') \in BOOLEAN
             /\ (seen[t].denied /\ denial_stands(job[t])') \in BOOLEAN
  BY DEF TypeOK, pause_active, denial_stands
<1> QED
  BY <1>1, <1>2 DEF Watch, View, Unseen, TypeOK

\* A thread's step: it takes the lock, or goes on while the panel's state
\* stays as it is.
BrokerStep(t) ==
  /\ AclCheck(t) \/ Submit(t) \/ HandlerStep(t)
  /\ UNCHANGED panelVars

\* A step of the operator's side, which leaves the threads alone.
PanelStep ==
  /\ \/ \E u \in Tab : Starts(u) \/ OperationStep(u)
     \/ PanelRestart
     \/ \E c \in Terminal : \/ CliPause(c) \/ CliResume(c) \/ CliSet(c)
                            \/ CliLog(c) \/ CliKilled(c)
  /\ UNCHANGED brokerVars

\* Every step is one of four kinds.
LEMMA StepKinds ==
  ASSUME Next
  PROVE  /\ \/ \E t \in Worker : BrokerStep(t)
            \/ PanelStep
            \/ BrokerRestart /\ UNCHANGED panelVars
            \/ Tick /\ UNCHANGED <<brokerVars, panelVars>>
         /\ Watch
BY DEF Next, InBroker, InPanel, BrokerStep, HandlerStep, PanelStep, Starts,
   OperationStep

\* A step of a thread keeps the types and Gated.
LEMMA BrokerStepType ==
  ASSUME TypeInv, NEW t \in Worker, BrokerStep(t)
  PROVE  StoreTypeOK' /\ BrokerTypeOK' /\ PanelTypeOK' /\ Gated'
<1> USE DEF TypeInv, TypeOK
<1>1. StoreTypeOK' /\ BrokerTypeOK'
  BY AclCheckType, SubmitType, ReadStepType, ConsumeType, InsertType
     DEF BrokerStep, HandlerStep
<1>2. PanelTypeOK'
  BY DEF BrokerStep, panelVars, PanelTypeOK
<1>3. Gated'
  BY BrokerGated DEF BrokerStep
<1> QED
  BY <1>1, <1>2, <1>3

\* A step of the panel or of brokerctl keeps the types and Gated.
LEMMA PanelStepType ==
  ASSUME TypeInv, PanelStep
  PROVE  StoreTypeOK' /\ BrokerTypeOK' /\ PanelTypeOK' /\ Gated'
<1> USE DEF TypeInv, TypeOK
<1>1. UNCHANGED brokerVars
  BY DEF PanelStep
<1>2. BrokerTypeOK' /\ Gated'
  BY <1>1 DEF brokerVars, BrokerTypeOK, Gated, Passed
<1>3. StoreTypeOK' /\ PanelTypeOK'
  <2>1. ASSUME NEW u \in Tab, Starts(u) PROVE StoreTypeOK' /\ PanelTypeOK'
    <3>1. PICK k \in Task : Begin(u, k)
      BY <2>1, StartsBegin
    <3> QED
      BY <3>1, BeginType
  <2>2. ASSUME NEW u \in Tab, OperationStep(u)
        PROVE  StoreTypeOK' /\ PanelTypeOK'
    BY <2>2, AddRowType, ResolveType, RetireType, SetPauseType, LogEventType
       DEF OperationStep
  <2> QED
    BY <2>1, <2>2, PanelRestartType, CliType DEF PanelStep
<1> QED
  BY <1>2, <1>3

\* Every step keeps the types of the history variables.
LEMMA HistoryType ==
  ASSUME TypeOK, Next
  PROVE  finals' \in Seq(Nat) /\ restarts' \in Nat
<1>1. finals \in Seq(Nat) /\ restarts \in Nat
  BY DEF TypeOK
<1>2. restarts' \in {restarts, restarts + 1}
  BY DEF Next, InBroker, InPanel, Restarting
<1>3. \/ finals' = finals
      \/ NewEntry
      \/ \E t \in Worker : Admission(t)
  BY DEF Next, InBroker, InPanel
<1>4. ASSUME NEW t \in Worker, Admission(t) PROVE finals' \in Seq(Nat)
  <2> DEFINE i == job[t].hit
  <2>1. i \in DOMAIN finals => finals[i] + 1 \in Nat
    BY <1>1
  <2>2. finals' = finals \/ finals' = [finals EXCEPT ![i] = finals[i] + 1]
    BY <1>4 DEF Admission
  <2> QED
    BY <1>1, <2>1, <2>2, ExceptSeq
<1>5. NewEntry => finals' \in Seq(Nat)
  BY <1>1 DEF NewEntry
<1> QED
  BY <1>1, <1>2, <1>3, <1>4, <1>5

\* The invariant holds when the services start.
LEMMA TypeInvInit == Init => TypeInv
<1> SUFFICES ASSUME Init PROVE TypeInv
  OBVIOUS
<1>1. StoreTypeOK
  BY StoreAssumption DEF Init, StoreInit, StoreTypeOK
<1>2. BrokerTypeOK
  BY NoJobType DEF Init, BrokerInit, BrokerTypeOK, Label
<1>3. PanelTypeOK
  BY NoTaskType DEF Init, PanelInit, PanelTypeOK, TaskLabel
<1>4. finals \in Seq(Nat)
  <2>1. InitialRows \in Seq(Row)
    BY StoreAssumption
  <2>2. finals = [i \in 1 .. Len(InitialRows) |-> 0] /\ Len(InitialRows) \in Nat
    BY <2>1 DEF Init
  <2>3. \A i \in 1 .. Len(InitialRows) : 0 \in Nat
    OBVIOUS
  <2> QED
    BY <2>2, <2>3
<1>5. seen \in [Worker -> View] /\ restarts \in Nat
  BY DEF Init, Unseen, View
<1>6. Gated
  BY DEF Init, BrokerInit, NoJob, Gated
<1> QED
  BY <1>1, <1>2, <1>3, <1>4, <1>5, <1>6 DEF TypeInv, TypeOK

\* Every step keeps the invariant.
LEMMA TypeInvStep == TypeInv /\ [Next]_vars => TypeInv'
<1> SUFFICES ASSUME TypeInv, [Next]_vars PROVE TypeInv'
  OBVIOUS
<1> USE DEF TypeInv, TypeOK
<1>1. CASE Next
  <2>1. seen' \in [Worker -> View] /\ finals' \in Seq(Nat) /\ restarts' \in Nat
    BY <1>1, StepKinds, WatchType, HistoryType
  <2>2. StoreTypeOK' /\ BrokerTypeOK' /\ PanelTypeOK' /\ Gated'
    <3>1. CASE \E t \in Worker : BrokerStep(t)
      BY <3>1, BrokerStepType
    <3>2. CASE PanelStep
      BY <3>2, PanelStepType
    <3>3. CASE BrokerRestart /\ UNCHANGED panelVars
      BY <3>3, NoJobType
         DEF BrokerRestart, NoJob, Label, Gated, StoreTypeOK, BrokerTypeOK,
             PanelTypeOK, storeVars, panelVars
    <3>4. CASE Tick /\ UNCHANGED <<brokerVars, panelVars>>
      BY <3>4 DEF Tick, Gated, Passed, StoreTypeOK, BrokerTypeOK,
             PanelTypeOK, brokerVars, panelVars
    <3> QED
      BY <1>1, <3>1, <3>2, <3>3, <3>4, StepKinds
  <2> QED
    BY <2>1, <2>2
<1>2. CASE UNCHANGED vars
  BY <1>2 DEF vars, storeVars, brokerVars, panelVars, StoreTypeOK,
         BrokerTypeOK, PanelTypeOK, Gated, Passed
<1> QED
  BY <1>1, <1>2

\* In every reachable state the variables have their types and a handler past
\* the gates of _submit_locked or _acl_locked has a destination that passes
\* them.
THEOREM TypeInvariant == Spec => []TypeInv
BY TypeInvInit, TypeInvStep, PTL DEF Spec

\* Type correctness of the whole system.
THEOREM TypeCorrect == Spec => []TypeOK
<1>1. TypeInv => TypeOK
  BY DEF TypeInv
<1> QED
  BY <1>1, TypeInvariant, PTL

\* No blocked domain and no port off the list is ever admitted, whatever
\* wildcards the operator adds and whether or not enforcement is paused.
THEOREM BlockedStayOut == Spec => []BlockedNeverAdmitted
<1>1. TypeInv => BlockedNeverAdmitted
  BY DEF TypeInv, Gated, Passed, BlockedNeverAdmitted, deciding
<1> QED
  BY <1>1, TypeInvariant, PTL
=============================================================================
