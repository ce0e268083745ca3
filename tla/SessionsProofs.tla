--------------------------- MODULE SessionsProofs ---------------------------
(***************************************************************************)
(* Proofs about the logins of the panel, for any number of requests, of    *)
(* passwords and of runs of set-password.  The argument: a connection      *)
(* reads what is stored unless its snapshot is overtaken, whatever writes  *)
(* have raised and whatever commits have ended its transactions; so the    *)
(* hash a login carries to its session is the stored one, or set-password  *)
(* ran meanwhile, or the snapshot was overtaken when the login came.       *)
(***************************************************************************)
EXTENDS Sessions, FiniteSetTheorems, TLAPS

Typed == "nothing"

AnyHash == [of : Password \cup {Typed}, run : Nat]

Job == [op : Op, password : Password \cup {Typed}, hash : AnyHash, token : Nat,
        dead : BOOLEAN, during : BOOLEAN, behind : BOOLEAN]

SessionTypes ==
  /\ hash \in AnyHash /\ view.hash \in AnyHash
  /\ cli \in {0, 1} /\ swept \in Nat
  /\ tx \in {"closed", "open", "frozen", "stale"}
  /\ at \in [Request -> Label]
  /\ job \in [Request -> Job]
  /\ clock \in Nat
  /\ failed \in BOOLEAN

\* Tokens are numbered and never used again; a session expires as long after
\* its login as any other.
Tokens ==
  /\ \E n \in Nat : DOMAIN born = 1..n
  /\ \A t \in DOMAIN born : born[t].at \in Nat
  /\ ended \subseteq DOMAIN born
  /\ DOMAIN sessions \subseteq DOMAIN born \ ended
  /\ \A t \in DOMAIN sessions : sessions[t] = born[t].at + Lifetime

\* What the connection reads: a snapshot that is not overtaken is what is
\* stored.
ViewSound ==
  /\ ~ failed => tx = "closed"
  /\ tx = "frozen" => view.hash = hash /\ view.sessions = sessions

\* What a login knows.
LoginSound ==
  \A r \in Request :
    /\ at[r] \in {"verify", "create", "refused"} =>
         job[r].hash = hash \/ job[r].during \/ job[r].behind
    /\ at[r] = "refused" => job[r].password # job[r].hash.of

\* What a request of a session knows.
RequestSound ==
  \A r \in Request : at[r] \in {"csrf", "in"} =>
    /\ job[r].token \in DOMAIN born
    /\ job[r].behind \/ ~ job[r].dead

SweptSound ==
  /\ swept <= hash.run
  /\ cli = 1 => swept < hash.run

SessionInv ==
  /\ SessionTypes /\ Tokens /\ ViewSound /\ LoginSound /\ RequestSound
  /\ SweptSound /\ PasswordEndsLogins

----------------------------------------------------------------------------

LEMMA SessionInit == Init => SessionInv
<1> SUFFICES ASSUME Init PROVE SessionInv
  OBVIOUS
<1>1. SessionTypes
  <2>1. Unset \in AnyHash /\ \A p \in Password : [of |-> p, run |-> 0] \in AnyHash
    BY DEF Unset, AnyHash, Typed
  <2>2. hash \in AnyHash
    <3>1. CASE hash = Unset
      BY <2>1, <3>1
    <3>2. CASE hash # Unset
      BY <3>2, SessionsAssumption DEF Init, AnyHash
    <3> QED
      BY <3>1, <3>2
  <2>3. NoJob \in Job
    BY <2>1 DEF NoJob, Job, Op, Typed
  <2>4. view.hash \in AnyHash
    BY <2>1 DEF Init, NoView
  <2> QED
    BY <2>2, <2>3, <2>4 DEF Init, SessionTypes, Label
<1>2. Tokens
  BY DEF Init, Tokens, NoToken
<1> QED
  BY <1>1, <1>2
     DEF Init, SessionInv, ViewSound, LoginSound, RequestSound, SweptSound,
         PasswordEndsLogins, NoToken, SessionTypes, AnyHash

\* A request moves, the others do not.
LEMMA Comes ==
  ASSUME SessionTypes, NEW r \in Request, NEW j \in Job, NEW label \in Label,
         Come(r, j, label)
  PROVE  /\ at' \in [Request -> Label] /\ job' \in [Request -> Job]
         /\ at'[r] = label
         /\ label \notin {"idle", "stamp"} => job'[r] = j
         /\ \A q \in Request \ {r} : at'[q] = at[q] /\ job'[q] = job[q]
<1>1. NoJob \in Job
  BY DEF NoJob, Job, Op, Typed, Unset, AnyHash
<1> QED
  BY <1>1 DEF Come, SessionTypes

\* A request goes on with the local variables it has, or needs none.
LEMMA Goes ==
  ASSUME SessionTypes, NEW r \in Request, NEW label \in Label, Go(r, label)
  PROVE  /\ at' \in [Request -> Label] /\ job' \in [Request -> Job]
         /\ at'[r] = label
         /\ label \notin {"idle", "stamp"} => job'[r] = job[r]
         /\ \A q \in Request \ {r} : at'[q] = at[q] /\ job'[q] = job[q]
BY Comes DEF Go, SessionTypes

\* What a step of a request on its way does to it.
Moves(r, from, to) ==
  /\ at[r] = from /\ at'[r] = to
  /\ to \notin {"idle", "stamp"} => job'[r] = job[r]

\* How the requests move: a login comes, with the hash read; another request
\* comes, with its session looked up; or one goes on.
LoginComes(r) ==
  /\ at[r] = "idle" /\ at'[r] \in {"idle", "verify"}
  /\ at'[r] = "verify" =>
       job'[r].hash = visible.hash /\ job'[r].behind = overtaken

SessionComes(r) ==
  /\ at[r] = "idle" /\ at'[r] \in {"idle", "csrf", "in"}
  /\ at'[r] # "idle" =>
       /\ alive(job'[r].token) /\ job'[r].token \in DOMAIN born
       /\ job'[r].dead <=> \/ job'[r].token \in ended
                           \/ clock >= born[job'[r].token].at + Lifetime
       /\ job'[r].behind = overtaken

GoesOn(r) ==
  \/ Moves(r, "verify", "create") /\ correct(r)
  \/ Moves(r, "verify", "refused") /\ ~ correct(r)
  \/ \E from \in {"create", "csrf", "in", "stamp", "refused"} :
       Moves(r, from, "idle")
  \/ Moves(r, "csrf", "in") \/ Moves(r, "in", "stamp")

RequestStep(r) ==
  \/ Login(r) \/ Verify(r) \/ CreateSession(r) \/ Authorize(r) \/ Csrf(r)
  \/ Serve(r) \/ Operate(r) \/ ImportNothing(r) \/ Stamp(r) \/ DropSession(r)
  \/ Leave(r)

LEMMA RequestMoves ==
  ASSUME SessionInv, NEW r \in Request, RequestStep(r)
  PROVE  /\ at' \in [Request -> Label] /\ job' \in [Request -> Job]
         /\ \A q \in Request \ {r} : at'[q] = at[q] /\ job'[q] = job[q]
         /\ LoginComes(r) \/ SessionComes(r) \/ GoesOn(r)
<1>1. SessionTypes /\ NoJob \in Job
  BY DEF SessionInv, NoJob, Job, Op, Typed, Unset, AnyHash
<1>2. visible.hash \in AnyHash
  BY <1>1 DEF visible, SessionTypes
<1> USE DEF Label
<1>3. CASE Login(r)
  <2>1. PICK password \in Password :
          Come(r, [NoJob EXCEPT !.op = "login", !.password = password,
                                !.hash = visible.hash, !.behind = overtaken],
               IF visible.hash = Unset THEN "idle" ELSE "verify")
    BY <1>3 DEF Login
  <2> DEFINE b == overtaken
             j == [NoJob EXCEPT !.op = "login", !.password = password,
                                !.hash = visible.hash, !.behind = b]
  <2>2. j \in Job /\ j.hash = visible.hash /\ j.behind = b
    <3>1. b \in BOOLEAN
      BY DEF overtaken
    <3> HIDE DEF b
    <3> QED
      BY <1>1, <1>2, <3>1 DEF NoJob, Job, Op
  <2> HIDE DEF j
  <2>3. at[r] = "idle"
    BY <1>3 DEF Login
  <2> QED
    BY <1>1, <2>1, <2>2, <2>3, Comes DEF LoginComes, j
<1>4. CASE Authorize(r)
  <2>1. PICK op \in Op \ {"login"}, token \in DOMAIN born :
          Come(r, [NoJob EXCEPT !.op = op, !.token = token,
                     !.dead = \/ token \in ended
                              \/ clock >= born[token].at + Lifetime,
                     !.behind = overtaken],
               IF ~ alive(token) THEN "idle"
               ELSE IF op = "page" THEN "in" ELSE "csrf")
    BY <1>4 DEF Authorize
  <2> DEFINE dead == token \in ended \/ clock >= born[token].at + Lifetime
             b == overtaken
             j == [NoJob EXCEPT !.op = op, !.token = token, !.dead = dead,
                                !.behind = b]
  <2>2. token \in Nat
    BY DEF SessionInv, Tokens
  <2>3. j \in Job /\ j.token = token /\ j.dead = dead /\ j.behind = b
    <3>1. b \in BOOLEAN /\ dead \in BOOLEAN
      BY DEF overtaken
    <3> HIDE DEF b, dead
    <3> QED
      BY <1>1, <2>2, <3>1 DEF NoJob, Job
  <2>4. at[r] = "idle"
    BY <1>4 DEF Authorize
  <2>5. Come(r, j, IF ~ alive(token) THEN "idle"
                   ELSE IF op = "page" THEN "in" ELSE "csrf")
    BY <2>1
  <2> HIDE DEF j
  <2>6. SessionComes(r)
    BY <1>1, <2>3, <2>4, <2>5, Comes DEF SessionComes
  <2> QED
    BY <1>1, <2>3, <2>5, <2>6, Comes
<1>5. CASE Verify(r)
  <2>1. /\ at[r] = "verify"
        /\ \/ correct(r) /\ Go(r, "create")
           \/ ~ correct(r) /\ Go(r, "refused")
    BY <1>5 DEF Verify
  <2> QED
    BY <1>1, <2>1, Goes DEF GoesOn, Moves
<1>6. CASE CreateSession(r) \/ Serve(r) \/ Stamp(r) \/ DropSession(r)
           \/ Leave(r)
  <2>1. at[r] \in {"create", "csrf", "in", "stamp", "refused"} /\ Go(r, "idle")
    BY <1>6 DEF CreateSession, Serve, Stamp, DropSession, Leave, End
  <2> QED
    BY <1>1, <2>1, Goes DEF GoesOn, Moves
<1>7. CASE Csrf(r)
  <2>1. at[r] = "csrf" /\ (Go(r, "idle") \/ Go(r, "in"))
    BY <1>7 DEF Csrf, End
  <2> QED
    BY <1>1, <2>1, Goes DEF GoesOn, Moves
<1>8. CASE Operate(r) \/ ImportNothing(r)
  <2>1. at[r] = "in" /\ (Go(r, "idle") \/ Go(r, "stamp"))
    BY <1>8 DEF Operate, ImportNothing, End
  <2> QED
    BY <1>1, <2>1, Goes DEF GoesOn, Moves
<1> QED
  BY <1>3, <1>4, <1>5, <1>6, <1>7, <1>8 DEF RequestStep

\* What a statement of the panel does to its connection: nothing, a read in
\* an open transaction, a commit, a write that raises.  Only a commit goes
\* with a change of what is stored.
Connects ==
  \/ UNCHANGED <<tx, view, failed, sessions>>
  \/ /\ tx = "open" /\ tx' = "frozen"
     /\ view'.hash = hash /\ view'.sessions = sessions
     /\ UNCHANGED <<failed, sessions>>
  \/ tx' = "closed" /\ view' = NoView /\ failed' = FALSE
  \/ /\ tx' = IF tx = "closed" THEN "open" ELSE tx
     /\ failed' = TRUE /\ UNCHANGED <<view, sessions>>

Creates(r) ==
  /\ at[r] = "create"
  /\ LET token == Cardinality(DOMAIN born) + 1
         kept  == {t \in DOMAIN sessions : sessions[t] > clock}
     IN  /\ sessions' = [t \in kept \cup {token} |-> expiry(t, token)]
         /\ born' = [t \in DOMAIN born \cup {token} |->
                       IF t = token
                       THEN [at |-> clock, run |-> job[r].hash.run,
                             during |-> job[r].during,
                             behind |-> job[r].behind]
                       ELSE born[t]]
  /\ ended' = ended

Drops(r) ==
  /\ at[r] = "in"
  /\ sessions' = Restrict(sessions, DOMAIN sessions \ {job[r].token})
  /\ ended' = ended \cup {job[r].token}
  /\ born' = born

LEMMA RequestWrites ==
  ASSUME SessionInv, NEW r \in Request, RequestStep(r)
  PROVE  /\ UNCHANGED <<hash, cli, clock, swept>>
         /\ Connects
         /\ Creates(r) \/ Drops(r) \/ UNCHANGED <<sessions, born, ended>>
<1> USE DEF history, connection, stored
<1>1. Select /\ UNCHANGED <<failed, sessions>> => Connects
  BY DEF Select, Connects, connection, visible
<1>2. Commit => Connects
  BY DEF Commit, Connects
<1>3. ASSUME Raise PROVE Connects /\ UNCHANGED stored
  BY <1>3 DEF Raise, Connects
<1>4. CASE Login(r)
  BY <1>1, <1>4 DEF Login
<1>5. CASE Verify(r) \/ Leave(r)
  BY <1>5 DEF Verify, Leave, Connects
<1>6. CASE CreateSession(r)
  BY <1>2, <1>3, <1>6 DEF CreateSession, Creates, CommitWrites
<1>7. CASE Authorize(r) \/ Csrf(r) \/ Serve(r)
  BY <1>1, <1>7 DEF Authorize, Csrf, Serve
<1>8. CASE Operate(r) \/ ImportNothing(r) \/ Stamp(r)
  BY <1>2, <1>3, <1>8 DEF Operate, ImportNothing, Stamp, CommitWrites
<1>9. CASE DropSession(r)
  BY <1>2, <1>3, <1>9 DEF DropSession, Drops, CommitWrites
<1> QED
  BY <1>4, <1>5, <1>6, <1>7, <1>8, <1>9 DEF RequestStep

\* Tokens are counted.
LEMMA Counted ==
  ASSUME Tokens
  PROVE  \E n \in Nat : DOMAIN born = 1..n /\ Cardinality(DOMAIN born) = n
<1>1. PICK n \in Nat : DOMAIN born = 1..n
  BY DEF Tokens
<1>2. Cardinality(1..n) = n
  BY FS_Interval
<1> QED
  BY <1>1, <1>2

LEMMA RequestKeeps ==
  ASSUME SessionInv, NEW r \in Request, RequestStep(r)
  PROVE  SessionInv'
<1> USE RequestMoves, RequestWrites
<1>1. SessionTypes /\ Tokens /\ ViewSound /\ LoginSound /\ RequestSound
      /\ SweptSound
  BY DEF SessionInv
<1>2. UNCHANGED <<hash, cli, clock, swept>> /\ Connects
  OBVIOUS
<1>3. SessionTypes' /\ ViewSound' /\ SweptSound'
  <2>1. NoView.hash \in AnyHash
    BY DEF NoView, Unset, AnyHash, Typed
  <2>2. /\ view'.hash \in AnyHash /\ tx' \in {"closed", "open", "frozen", "stale"}
        /\ failed' \in BOOLEAN
    BY <1>1, <1>2, <2>1 DEF SessionTypes, Connects
  <2>3. ViewSound'
    BY <1>1, <1>2 DEF ViewSound, Connects
  <2>4. SessionTypes'
    BY <1>1, <1>2, <2>2 DEF SessionTypes
  <2>5. SweptSound'
    BY <1>1, <1>2 DEF SweptSound
  <2> QED
    BY <2>3, <2>4, <2>5
<1>4. ~ overtaken => visible.hash = hash /\ visible.sessions = sessions
  BY <1>1 DEF overtaken, visible, ViewSound, SessionTypes
<1>6. LoginSound'
  <2>1. ASSUME NEW q \in Request
        PROVE  /\ at'[q] \in {"verify", "create", "refused"} =>
                    job'[q].hash = hash \/ job'[q].during \/ job'[q].behind
               /\ at'[q] = "refused" => job'[q].password # job'[q].hash.of
    <3>1. CASE q # r
      BY <1>1, <3>1 DEF LoginSound
    <3>2. CASE q = r /\ LoginComes(r)
      BY <1>4, <3>2 DEF LoginComes
    <3>3. CASE q = r /\ SessionComes(r)
      BY <3>3 DEF SessionComes
    <3>4. CASE q = r /\ GoesOn(r)
      BY <1>1, <3>4 DEF GoesOn, Moves, LoginSound, correct
    <3> QED
      BY <3>1, <3>2, <3>3, <3>4
  <2> QED
    BY <1>2, <2>1 DEF LoginSound
<1>7. RequestSound'
  <2>1. ASSUME NEW q \in Request, at'[q] \in {"csrf", "in"}
        PROVE  /\ job'[q].token \in DOMAIN born
               /\ job'[q].behind \/ ~ job'[q].dead
    <3>1. CASE q # r
      BY <1>1, <2>1, <3>1 DEF RequestSound
    <3>2. CASE q = r /\ LoginComes(r)
      BY <2>1, <3>2 DEF LoginComes
    <3>3. CASE q = r /\ SessionComes(r)
      <4> DEFINE t == job'[r].token
      <4>0. SUFFICES ASSUME ~ job'[r].behind PROVE ~ job'[r].dead
        BY <2>1, <3>3 DEF SessionComes
      <4>1. visible.sessions = sessions
        BY <1>4, <2>1, <3>3, <4>0 DEF SessionComes
      <4>2. t \in DOMAIN sessions /\ sessions[t] > clock
        BY <2>1, <3>3, <4>1 DEF SessionComes, alive
      <4>3. t \notin ended /\ sessions[t] = born[t].at + Lifetime
        BY <1>1, <4>2 DEF Tokens
      <4>4. ~ (clock >= born[t].at + Lifetime)
        <5>1. t \in DOMAIN born
          BY <2>1, <3>3 DEF SessionComes
        <5>2. born[t].at \in Nat /\ clock \in Nat /\ Lifetime \in Nat
          BY <1>1, <5>1, SessionsAssumption DEF Tokens, SessionTypes
        <5> HIDE DEF t
        <5> QED
          BY <4>2, <4>3, <5>2
      <4> HIDE DEF t
      <4> QED
        BY <2>1, <3>3, <4>3, <4>4 DEF SessionComes, t
    <3>4. CASE q = r /\ GoesOn(r)
      BY <1>1, <2>1, <3>4 DEF GoesOn, Moves, RequestSound
    <3> QED
      BY <3>1, <3>2, <3>3, <3>4
  <2>2. DOMAIN born \subseteq DOMAIN born'
    BY <1>2 DEF Creates, Drops
  <2> QED
    BY <2>1, <2>2 DEF RequestSound
<1>8. CASE UNCHANGED <<sessions, born, ended>>
  BY <1>1, <1>2, <1>3, <1>6, <1>7, <1>8
     DEF SessionInv, Tokens, PasswordEndsLogins
<1>9. CASE Drops(r)
  <2>1. /\ DOMAIN sessions' = DOMAIN sessions \ {job[r].token}
        /\ \A t \in DOMAIN sessions' : sessions'[t] = sessions[t]
        /\ job[r].token \in DOMAIN born
    BY <1>1, <1>9 DEF Drops, Restrict, RequestSound
  <2>2. Tokens'
    BY <1>1, <1>9, <2>1 DEF Tokens, Drops
  <2>3. PasswordEndsLogins'
    BY <1>2, <1>9, <2>1 DEF SessionInv, PasswordEndsLogins, Drops
  <2> QED
    BY <1>3, <1>6, <1>7, <2>2, <2>3 DEF SessionInv
<1>10. CASE Creates(r)
  <2>1. PICK n \in Nat : DOMAIN born = 1..n /\ Cardinality(DOMAIN born) = n
    BY <1>1, Counted
  <2> DEFINE token == n + 1
             kept  == {t \in DOMAIN sessions : sessions[t] > clock}
  <2>3. /\ sessions' = [t \in kept \cup {token} |-> expiry(t, token)]
        /\ born' = [t \in DOMAIN born \cup {token} |->
                      IF t = token
                      THEN [at |-> clock, run |-> job[r].hash.run,
                            during |-> job[r].during,
                            behind |-> job[r].behind]
                      ELSE born[t]]
        /\ ended' = ended
    BY <1>10, <2>1 DEF Creates
  <2>4. /\ DOMAIN born' = 1..(n + 1)
        /\ \A t \in DOMAIN born : born'[t] = born[t]
        /\ born'[token] = [at |-> clock, run |-> job[r].hash.run,
                           during |-> job[r].during,
                           behind |-> job[r].behind]
    BY <2>1, <2>3
  <2>5. /\ DOMAIN sessions' = kept \cup {token}
        /\ \A t \in kept : sessions'[t] = sessions[t]
        /\ sessions'[token] = clock + Lifetime
    BY <1>1, <2>1, <2>3 DEF expiry, Tokens
  <2>6. Tokens'
    <3>1. token \notin DOMAIN born /\ token \in DOMAIN born'
      BY <2>1, <2>4
    <3>2. DOMAIN born' = DOMAIN born \cup {token}
      BY <2>3
    <3>3. \E m \in Nat : DOMAIN born' = 1..m
      <4>1. n + 1 \in Nat
        OBVIOUS
      <4> QED
        BY <2>4, <4>1
    <3>4. kept \subseteq DOMAIN born \ ended /\ ended \subseteq DOMAIN born
      BY <1>1 DEF Tokens
    <3>5. \A t \in kept : sessions'[t] = born'[t].at + Lifetime
      BY <1>1, <2>4, <2>5, <3>4 DEF Tokens
    <3>6. clock \in Nat /\ \A t \in DOMAIN born : born[t].at \in Nat
      BY <1>1 DEF SessionTypes, Tokens
    <3> HIDE DEF token, kept
    <3>7. sessions'[token] = born'[token].at + Lifetime
      BY <2>4, <2>5
    <3>8. \A t \in DOMAIN born' : born'[t].at \in Nat
      <4>1. born'[token].at = clock
        BY <2>4
      <4>2. \A t \in DOMAIN born : born'[t].at \in Nat
        BY <2>4, <3>6
      <4> QED
        BY <3>2, <3>6, <4>1, <4>2
    <3>9. ended' \subseteq DOMAIN born' /\ DOMAIN sessions' \subseteq DOMAIN born' \ ended'
      BY <2>3, <2>5, <3>1, <3>2, <3>4
    <3> QED
      BY <2>5, <3>3, <3>5, <3>7, <3>8, <3>9 DEF Tokens
  <2>7. PasswordEndsLogins'
    <3>1. job[r].hash = hash \/ job[r].during \/ job[r].behind
      BY <1>1, <1>10 DEF LoginSound, Creates
    <3>2. \/ born'[token].run = hash.run
          \/ born'[token].during
          \/ born'[token].behind
      BY <2>4, <3>1
    <3>3. \A t \in kept : t \in DOMAIN born
      BY <1>1 DEF Tokens
    <3> HIDE DEF token
    <3> QED
      BY <1>2, <2>4, <2>5, <3>2, <3>3 DEF SessionInv, PasswordEndsLogins
  <2> QED
    BY <1>3, <1>6, <1>7, <2>6, <2>7 DEF SessionInv
<1> QED
  BY <1>8, <1>9, <1>10

----------------------------------------------------------------------------
(* The other processes.                                                    *)

LEMMA CliKeeps ==
  ASSUME SessionInv, CliCommit
  PROVE  SessionInv'
<1>1. SessionTypes /\ Tokens /\ ViewSound /\ LoginSound /\ RequestSound
      /\ SweptSound
  BY DEF SessionInv
<1>2. /\ tx' = (IF tx = "frozen" THEN "stale" ELSE tx) /\ view' = view
      /\ UNCHANGED <<failed, clock, born>>
  BY DEF CliCommit, CommitElsewhere
<1>3. ViewSound' /\ tx' \in {"closed", "open", "frozen", "stale"}
  BY <1>1, <1>2 DEF ViewSound, SessionTypes
<1>4. Len(set_password) = 2 /\ cli' = (cli + 1) % 2
  BY DEF CliCommit, set_password
<1>5. CASE cli = 0
  <2>1. SetHash /\ cli' = 1 /\ swept' = swept
    BY <1>4, <1>5 DEF CliCommit, set_password
  <2>2. hash'.run = hash.run + 1 /\ hash' \in AnyHash
    BY <1>1, <2>1 DEF SetHash, AnyHash, SessionTypes
  <2>3. /\ job' \in [Request -> Job]
        /\ \A r \in Request :
             /\ job'[r].hash = job[r].hash /\ job'[r].password = job[r].password
             /\ job'[r].dead = job[r].dead /\ job'[r].token = job[r].token
             /\ job'[r].behind = job[r].behind
             /\ at[r] \in {"verify", "create", "refused"} => job'[r].during
    BY <1>1, <2>1 DEF SetHash, SessionTypes, Job
  <2>4. UNCHANGED <<sessions, at, ended>>
    BY <2>1 DEF SetHash
  <2>5. SessionTypes'
    BY <1>1, <1>2, <1>3, <2>1, <2>2, <2>3, <2>4 DEF SessionTypes
  <2>6. LoginSound' /\ RequestSound'
    BY <1>1, <1>2, <2>3, <2>4 DEF LoginSound, RequestSound
  <2>7. SweptSound' /\ PasswordEndsLogins'
    BY <1>1, <2>1, <2>2
       DEF SweptSound, PasswordEndsLogins, SessionTypes, AnyHash
  <2>8. Tokens'
    BY <1>1, <1>2, <2>4 DEF Tokens
  <2> QED
    BY <1>3, <2>5, <2>6, <2>7, <2>8 DEF SessionInv
<1>6. CASE cli = 1
  <2>1. ClearSessions /\ cli' = 0 /\ swept' = hash.run
    BY <1>4, <1>6 DEF CliCommit, set_password, ClearSessions
  <2>2. /\ DOMAIN sessions' = {} /\ ended' = ended \cup DOMAIN sessions
        /\ UNCHANGED <<hash, at, job>>
    BY <2>1 DEF ClearSessions, NoToken, threads
  <2>3. SessionTypes' /\ SweptSound'
    BY <1>1, <1>2, <1>3, <2>1, <2>2 DEF SessionTypes, SweptSound, AnyHash
  <2>4. LoginSound' /\ RequestSound' /\ PasswordEndsLogins' /\ Tokens'
    BY <1>1, <1>2, <2>2
       DEF LoginSound, RequestSound, PasswordEndsLogins, Tokens
  <2> QED
    BY <1>3, <2>3, <2>4 DEF SessionInv
<1> QED
  BY <1>1, <1>5, <1>6 DEF SessionTypes

LEMMA SessionNext ==
  ASSUME SessionInv, [Next]_vars
  PROVE  SessionInv'
<1>1. SessionTypes /\ Tokens /\ ViewSound /\ LoginSound /\ RequestSound
      /\ SweptSound /\ PasswordEndsLogins
  BY DEF SessionInv
<1> USE DEF connection, history, threads, stored
<1>2. CASE CliKilled
  <2>1. UNCHANGED <<stored, connection, threads, clock, failed, history>>
        /\ cli = 1 /\ cli' = 0
    BY <1>1, <1>2 DEF CliKilled, SessionTypes
  <2>2. SessionTypes' /\ SweptSound' /\ PasswordEndsLogins'
    BY <1>1, <2>1
       DEF SessionTypes, SweptSound, PasswordEndsLogins, AnyHash
  <2>3. Tokens' /\ ViewSound' /\ LoginSound' /\ RequestSound'
    BY <1>1, <2>1 DEF Tokens, ViewSound, LoginSound, RequestSound
  <2> QED
    BY <2>2, <2>3 DEF SessionInv
<1>3. CASE BrokerCommit
  <2>1. /\ UNCHANGED <<stored, threads, cli, clock, failed, history, view>>
        /\ tx = "frozen" /\ tx' = "stale"
    BY <1>3 DEF BrokerCommit, CommitElsewhere
  <2>2. SessionTypes' /\ SweptSound' /\ PasswordEndsLogins'
    BY <1>1, <2>1 DEF SessionTypes, SweptSound, PasswordEndsLogins
  <2>3. Tokens' /\ ViewSound' /\ LoginSound' /\ RequestSound'
    BY <1>1, <2>1 DEF Tokens, ViewSound, LoginSound, RequestSound
  <2> QED
    BY <2>2, <2>3 DEF SessionInv
<1>4. CASE PanelRestart
  <2>1. /\ UNCHANGED <<stored, cli, clock, history>>
        /\ tx' = "closed" /\ view' = NoView /\ failed' = FALSE
        /\ job' = [r \in Request |-> NoJob]
        /\ at' = [r \in Request |-> "idle"]
    BY <1>4 DEF PanelRestart
  <2>2. NoJob \in Job /\ NoView.hash \in AnyHash
    BY DEF NoJob, Job, Op, Typed, Unset, AnyHash, NoView
  <2>3. SessionTypes' /\ SweptSound' /\ PasswordEndsLogins'
    BY <1>1, <2>1, <2>2 DEF SessionTypes, SweptSound, PasswordEndsLogins, Label
  <2>4. Tokens' /\ ViewSound' /\ LoginSound' /\ RequestSound'
    BY <1>1, <2>1 DEF Tokens, ViewSound, LoginSound, RequestSound
  <2> QED
    BY <2>3, <2>4 DEF SessionInv
<1>5. CASE Tick
  <2>1. UNCHANGED <<stored, connection, threads, cli, failed, history>>
        /\ clock' = clock + 1
    BY <1>5 DEF Tick
  <2>2. SessionTypes' /\ SweptSound' /\ PasswordEndsLogins'
    BY <1>1, <2>1 DEF SessionTypes, SweptSound, PasswordEndsLogins
  <2>3. Tokens' /\ ViewSound' /\ LoginSound' /\ RequestSound'
    BY <1>1, <2>1 DEF Tokens, ViewSound, LoginSound, RequestSound
  <2> QED
    BY <2>2, <2>3 DEF SessionInv
<1>6. CASE UNCHANGED vars
  <2>1. UNCHANGED <<stored, connection, threads, cli, clock, failed, history>>
    BY <1>6 DEF vars
  <2>2. SessionTypes' /\ SweptSound' /\ PasswordEndsLogins'
    BY <1>1, <2>1 DEF SessionTypes, SweptSound, PasswordEndsLogins
  <2>3. Tokens' /\ ViewSound' /\ LoginSound' /\ RequestSound'
    BY <1>1, <2>1 DEF Tokens, ViewSound, LoginSound, RequestSound
  <2> QED
    BY <2>2, <2>3 DEF SessionInv
<1> QED
  BY <1>2, <1>3, <1>4, <1>5, <1>6, RequestKeeps, CliKeeps DEF Next, RequestStep

LEMMA SessionAlways == Spec => []SessionInv
BY SessionInit, SessionNext, PTL DEF Spec

\* Once set-password has come to its end, nobody is signed in on an old
\* password but by a login that it met on its way or that read the hash from
\* an overtaken snapshot.
THEOREM NewPasswordEndsLogins == Spec => []PasswordEndsLogins
<1>1. SessionInv => PasswordEndsLogins
  BY DEF SessionInv
<1> QED
  BY <1>1, SessionAlways, PTL

\* No operation runs for a session that had ended, unless an overtaken
\* snapshot was read for it.
THEOREM SignedInOnly == Spec => []OnlySignedIn
<1>1. SessionInv => OnlySignedIn
  BY DEF SessionInv, RequestSound, OnlySignedIn
<1> QED
  BY <1>1, SessionAlways, PTL

\* The stored password is never refused, under the same condition and but for
\* logins that set-password met on their way.
THEOREM PasswordWins == Spec => []CorrectPasswordWins
<1>1. SessionInv => CorrectPasswordWins
  BY DEF SessionInv, LoginSound, ViewSound, CorrectPasswordWins
<1> QED
  BY <1>1, SessionAlways, PTL

----------------------------------------------------------------------------
(* The bounds.  MaxTokens leaves room for the logins on their way: the     *)
(* sessions ever created and those logins together never exceed it.  The   *)
(* logins on their way are finitely many whatever Request is, as there are *)
(* none at first and one at a time is added.                               *)

Waiting == {q \in Request : at[q] \in {"verify", "create"}}

SessionBounds ==
  /\ IsFiniteSet(Waiting)
  /\ Cardinality(DOMAIN born) + Cardinality(Waiting) <= MaxTokens
  /\ hash \in Hash \cup {Unset}

LEMMA BoundsInit == Init => SessionBounds
<1> SUFFICES ASSUME Init PROVE SessionBounds
  OBVIOUS
<1>1. Waiting = {} /\ DOMAIN born = {}
  BY DEF Init, Waiting
<1>2. hash \in Hash \cup {Unset}
  <2>1. \A p \in Password : [of |-> p, run |-> 0] \in Hash
    BY SessionsAssumption DEF Hash
  <2> QED
    BY <2>1, SessionsAssumption DEF Init
<1> QED
  BY <1>1, <1>2, FS_EmptySet, SessionsAssumption DEF SessionBounds

\* What a request does to the logins on their way.
LEMMA WaitingMoves ==
  ASSUME SessionInv, NEW r \in Request, RequestStep(r)
  PROVE  \/ /\ Waiting' = Waiting \cup {r}
            /\ Cardinality(DOMAIN born) + Cardinality(Waiting) < MaxTokens
            /\ UNCHANGED born
         \/ /\ r \in Waiting /\ Waiting' = Waiting \ {r}
            /\ Creates(r)
         \/ Waiting' \subseteq Waiting /\ UNCHANGED born
<1> USE RequestMoves, RequestWrites
<1>1. \A q \in Request \ {r} : q \in Waiting' <=> q \in Waiting
  BY DEF Waiting
<1>2. CASE Creates(r)
  <2>1. at[r] = "create" /\ at'[r] \notin {"verify", "create"}
    BY <1>2 DEF Creates, LoginComes, SessionComes, GoesOn, Moves
  <2> QED
    BY <1>1, <1>2, <2>1 DEF Waiting
<1>3. CASE ~ Creates(r)
  <2>1. UNCHANGED born
    BY <1>3 DEF Drops
  <2>2. CASE LoginComes(r)
    <3>1. at[r] = "idle"
      BY <2>2 DEF LoginComes
    <3>2. CASE at'[r] = "idle"
      BY <1>1, <2>1, <3>2 DEF Waiting
    <3>3. CASE at'[r] = "verify"
      <4>1. Login(r)
        <5>1. CASE Authorize(r)
          <6>1. PICK op \in Op \ {"login"}, token \in DOMAIN born :
                  at' = [at EXCEPT ![r] =
                           IF ~ alive(token) THEN "idle"
                           ELSE IF op = "page" THEN "in" ELSE "csrf"]
            BY <5>1 DEF Authorize, Come
          <6> QED
            BY <3>3, <6>1 DEF SessionInv, SessionTypes
        <5> QED
          BY <3>1, <5>1
             DEF RequestStep, Verify, CreateSession, Csrf, Serve, Operate,
                 ImportNothing, Stamp, DropSession, Leave
      <4>2. Cardinality(DOMAIN born) + Cardinality(Waiting) < MaxTokens
        BY <4>1 DEF Login, Waiting
      <4>3. Waiting' = Waiting \cup {r}
        BY <1>1, <3>3 DEF Waiting
      <4> QED
        BY <2>1, <4>2, <4>3
    <3> QED
      BY <2>2, <3>2, <3>3 DEF LoginComes
  <2>3. CASE SessionComes(r) \/ GoesOn(r)
    <3>1. r \in Waiting' => r \in Waiting
      BY <2>3 DEF SessionComes, GoesOn, Moves, Waiting
    <3>2. Waiting' \subseteq Waiting
      BY <1>1, <3>1 DEF Waiting
    <3> QED
      BY <2>1, <3>2
  <2> QED
    BY <2>2, <2>3
<1> QED
  BY <1>2, <1>3

LEMMA RequestKeepsBounds ==
  ASSUME SessionInv, SessionBounds, NEW r \in Request, RequestStep(r)
  PROVE  SessionBounds'
<1>1. PICK n \in Nat : DOMAIN born = 1..n /\ Cardinality(DOMAIN born) = n
  BY Counted DEF SessionInv
<1>3. IsFiniteSet(Waiting) /\ n + Cardinality(Waiting) <= MaxTokens
  BY <1>1 DEF SessionBounds
<1>4. Cardinality(Waiting) \in Nat /\ MaxTokens \in Nat
  BY <1>3, FS_CardinalityType, SessionsAssumption
<1>5. hash' \in Hash \cup {Unset}
  BY RequestWrites DEF SessionBounds, Hash, Unset
<1>6. CASE /\ Waiting' = Waiting \cup {r}
           /\ Cardinality(DOMAIN born) + Cardinality(Waiting) < MaxTokens
           /\ UNCHANGED born
  <2>1. IsFiniteSet(Waiting')
    BY <1>3, <1>6, FS_AddElement
  <2>2. Cardinality(Waiting') <= Cardinality(Waiting) + 1
    BY <1>3, <1>4, <1>6, FS_AddElement
  <2>3. Cardinality(Waiting') \in Nat
    BY <2>1, FS_CardinalityType
  <2> QED
    BY <1>1, <1>4, <1>5, <1>6, <2>1, <2>2, <2>3 DEF SessionBounds
<1>7. CASE r \in Waiting /\ Waiting' = Waiting \ {r} /\ Creates(r)
  <2>1. DOMAIN born' = 1..(n + 1)
    BY <1>1, <1>7 DEF Creates
  <2>2. Cardinality(DOMAIN born') = n + 1
    BY <2>1, FS_Interval
  <2>3. IsFiniteSet(Waiting') /\ Cardinality(Waiting') = Cardinality(Waiting) - 1
    BY <1>3, <1>7, FS_RemoveElement
  <2> QED
    BY <1>3, <1>4, <1>5, <2>2, <2>3 DEF SessionBounds
<1>8. CASE Waiting' \subseteq Waiting /\ UNCHANGED born
  <2>1. IsFiniteSet(Waiting') /\ Cardinality(Waiting') <= Cardinality(Waiting)
    BY <1>3, <1>8, FS_Subset
  <2>2. Cardinality(Waiting') \in Nat
    BY <2>1, FS_CardinalityType
  <2> QED
    BY <1>1, <1>3, <1>4, <1>5, <1>8, <2>1, <2>2 DEF SessionBounds
<1> QED
  BY <1>6, <1>7, <1>8, WaitingMoves

LEMMA BoundsNext ==
  ASSUME SessionInv, SessionBounds, [Next]_vars
  PROVE  SessionBounds'
<1> USE DEF connection, history, threads, stored
<1>1. CASE CliCommit
  <2>0. cli \in {0, 1} /\ hash.run \in Nat
    BY DEF SessionInv, SessionTypes, AnyHash
  <2>1. UNCHANGED <<at, born>>
    <3>1. CASE cli = 0
      BY <1>1, <3>1 DEF CliCommit, SetHash, set_password
    <3>2. CASE cli = 1
      BY <1>1, <3>2 DEF CliCommit, ClearSessions, set_password
    <3> QED
      BY <2>0, <3>1, <3>2
  <2>2. hash' \in Hash \cup {Unset}
    <3>2. CASE cli = 0
      <4>1. hash.run < MaxSets /\ SetHash
        BY <1>1, <3>2 DEF CliCommit, set_password
      <4>2. PICK p \in Password : hash' = [of |-> p, run |-> hash.run + 1]
        BY <4>1 DEF SetHash
      <4>3. hash.run + 1 \in 0..MaxSets
        BY <2>0, <4>1, SessionsAssumption
      <4> QED
        BY <4>2, <4>3 DEF Hash
    <3>3. CASE cli = 1
      <4>1. hash' = hash
        BY <1>1, <3>3 DEF CliCommit, set_password, ClearSessions
      <4> QED
        BY <4>1 DEF SessionBounds, Hash, Unset
    <3> QED
      BY <2>0, <3>2, <3>3
  <2> QED
    BY <2>1, <2>2 DEF SessionBounds, Waiting
<1>2. CASE CliKilled \/ BrokerCommit \/ Tick \/ UNCHANGED vars
  <2>1. UNCHANGED <<at, born, hash>>
    BY <1>2 DEF CliKilled, BrokerCommit, Tick, vars
  <2> QED
    BY <2>1 DEF SessionBounds, Waiting, Hash, Unset
<1>3. CASE PanelRestart
  <2>1. Waiting' = {} /\ UNCHANGED <<born, hash>>
    BY <1>3 DEF PanelRestart, Waiting
  <2>2. IsFiniteSet(Waiting') /\ Cardinality(Waiting') = 0
    BY <2>1, FS_EmptySet
  <2>3. PICK n \in Nat : Cardinality(DOMAIN born) = n
    BY Counted DEF SessionInv
  <2>4. Cardinality(DOMAIN born) \in Nat /\ Cardinality(Waiting) \in Nat
    BY <2>3, FS_CardinalityType DEF SessionBounds
  <2> QED
    BY <2>1, <2>2, <2>4, SessionsAssumption DEF SessionBounds, Hash, Unset
<1> QED
  BY <1>1, <1>2, <1>3, RequestKeepsBounds DEF Next, RequestStep

\* The types of the state, the bounds MaxTokens and MaxSets among them, and
\* that no login, request, restart or run of set-password moves the expiry of
\* a session from that of its login.
THEOREM SessionsTyped == Spec => []TypeOK
<1>1. SessionInv /\ SessionBounds => TypeOK
  <2> SUFFICES ASSUME SessionInv, SessionBounds PROVE TypeOK
    OBVIOUS
  <2>1. DOMAIN born \subseteq Token
    <3>1. PICK n \in Nat : DOMAIN born = 1..n /\ Cardinality(DOMAIN born) = n
      BY Counted DEF SessionInv
    <3>2. n + Cardinality(Waiting) <= MaxTokens
      BY <3>1 DEF SessionBounds
    <3>3. Cardinality(Waiting) \in Nat
      BY FS_CardinalityType DEF SessionBounds
    <3>4. n <= MaxTokens
      BY <3>2, <3>3, SessionsAssumption
    <3> QED
      BY <3>1, <3>4, SessionsAssumption DEF Token
  <2>2. hash.run \in 0..MaxSets
    BY SessionsAssumption DEF SessionBounds, Hash, Unset
  <2>3. swept \in 0..MaxSets
    BY <2>2, SessionsAssumption DEF SessionInv, SessionTypes, SweptSound
  <2> QED
    BY <2>1, <2>3
       DEF TypeOK, SessionInv, SessionBounds, SessionTypes, Tokens
<1>2. SessionInv /\ SessionBounds /\ [Next]_vars => SessionBounds'
  BY BoundsNext
<1> QED
  BY <1>1, <1>2, BoundsInit, SessionInit, SessionNext, PTL DEF Spec
=============================================================================
