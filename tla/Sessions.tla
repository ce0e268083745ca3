------------------------------ MODULE Sessions ------------------------------
(***************************************************************************)
(* Logins of the panel (approval_broker/panel.py) and brokerctl            *)
(* set-password.  Every request has a thread of its own, and all of them   *)
(* share one sqlite3 connection; sessions and the password's hash are in   *)
(* the database, which brokerctl and the broker write as well.  The        *)
(* connection behaves as in module DecisionLog: a write that raises leaves *)
(* a transaction open, the next SELECT freezes a snapshot in it, and once  *)
(* another process has committed every write of the panel raises.  What    *)
(* ends that is a commit with nothing written, which an import that finds  *)
(* nothing to add makes: the panel then goes on by the stored state, while *)
(* threads still carry what they read from the snapshot.                   *)
(*                                                                         *)
(* A thread may wait for the panel's lock before it writes, as before any  *)
(* other statement.  Tokens and the csrf value of a session are not told   *)
(* apart, as nobody guesses either.                                        *)
(***************************************************************************)
EXTENDS Integers, Sequences, FiniteSetsExt, Functions

CONSTANTS
  Request,           \* threads of the panel's server
  Password,          \* what may be typed
  Lifetime,          \* panel.session_hours in seconds
  Lockout,           \* LOGIN_LOCKOUT_SECONDS
  LoginMaxFailures,  \* LOGIN_MAX_FAILURES
  MaxTokens,         \* bound on the sessions ever created
  MaxGuesses,        \* bound on wrong passwords remembered
  MaxSets,           \* bound on runs of set-password
  MaxTime,           \* bound on the clock
  MaxRestarts        \* bound on restarts of the panel

ASSUME SessionsAssumption ==
  /\ Password # {}
  /\ {Lifetime, Lockout, LoginMaxFailures} \subseteq Nat \ {0}
  /\ {MaxTokens, MaxGuesses, MaxSets, MaxTime, MaxRestarts} \subseteq Nat

Token == 1..MaxTokens

\* The hash of a password; no two runs of set-password make the same one.
Hash == [of : Password, run : 0..MaxSets]

Unset == [of |-> "nothing", run |-> 0]

Op == {"login", "page", "post", "logout"}

\* "refused": a login is told that its password is wrong.
\* "stamp": an operation has committed, its line of the log is to come.
Label == {"idle", "verify", "create", "csrf", "in", "stamp", "refused"}

VARIABLES
  hash,      \* setting panel_password_hash
  sessions,  \* panel_sessions: token -> expires_at
  tx, view,  \* the panel's connection and its snapshot, see DecisionLog
  guesses,   \* login_failures
  at, job,   \* per request: where it is, its local variables
  cli,       \* brokerctl set-password: commits done
  clock,     \* time.time()
  restarts,  \* restarts of the panel so far
  failed,    \* history: a write of the panel has raised, no commit since
  born,      \* history: token -> when and on which hash, and whether the
             \* login was met by set-password (during) or read an
             \* overtaken snapshot (behind)
  ended,     \* history: tokens logged out or cleared
  swept      \* history: the last run of set-password that came to its end

stored == <<hash, sessions>>
connection == <<tx, view>>
threads == <<at, job>>
history == <<born, ended, swept>>
vars == <<stored, connection, guesses, threads, cli, clock, restarts, failed,
          history>>

NoToken == [t \in {} |-> 0]

NoView == [hash |-> Unset, sessions |-> NoToken]

\* dead, during and behind are history: the session had ended or outlived its
\* login when the request came; set-password ran while the login was under
\* way; the request read an overtaken snapshot when it came.
NoJob == [op |-> "page", password |-> "nothing", hash |-> Unset, token |-> 0,
          dead |-> FALSE, during |-> FALSE, behind |-> FALSE]

Init ==
  /\ hash \in {Unset, [of |-> CHOOSE p \in Password : TRUE, run |-> 0]}
  /\ sessions = NoToken
  /\ tx = "closed" /\ view = NoView
  /\ guesses = <<>>
  /\ at = [r \in Request |-> "idle"]
  /\ job = [r \in Request |-> NoJob]
  /\ cli = 0
  /\ clock = 0 /\ restarts = 0 /\ failed = FALSE
  /\ born = [t \in {} |-> [at |-> 0, run |-> 0, during |-> FALSE,
                          behind |-> FALSE]]
  /\ ended = {} /\ swept = 0

----------------------------------------------------------------------------
(* The connection.                                                         *)

visible == IF tx \in {"frozen", "stale"} THEN view
           ELSE [hash |-> hash, sessions |-> sessions]

Select ==
  IF tx = "open" THEN tx' = "frozen" /\ view' = visible
                 ELSE UNCHANGED connection

\* A write that raised has left the connection a snapshot, and another
\* process has committed since.
overtaken == failed /\ tx = "stale"

\* Mutant of Commit: the commit is forgotten.
CommitForgotten ==
  /\ tx' = IF tx = "stale" THEN tx ELSE "frozen"
  /\ view' = IF tx = "stale" THEN view
             ELSE [hash |-> hash, sessions |-> sessions']
  /\ failed' = FALSE

\* conn.commit() itself succeeds on any snapshot.
Commit ==
  /\ tx' = "closed" /\ view' = NoView
  /\ failed' = FALSE

\* What is written needs a snapshot that is up to date.
CommitWrites == tx # "stale" /\ Commit

Raise ==
  /\ tx' = IF tx = "closed" THEN "open" ELSE tx
  /\ failed' = TRUE
  /\ UNCHANGED <<view, stored>>

\* Another process commits.
CommitElsewhere ==
  /\ tx' = IF tx = "frozen" THEN "stale" ELSE tx
  /\ UNCHANGED view

----------------------------------------------------------------------------
(* Requests.                                                               *)

\* Request r goes to label with the local variables j, as far as any is used
\* there.
Come(r, j, label) ==
  /\ at' = [at EXCEPT ![r] = label]
  /\ job' = [job EXCEPT ![r] = IF label \in {"idle", "stamp"} THEN NoJob
                                ELSE j]

Go(r, label) == Come(r, job[r], label)

End(r) == Go(r, "idle")

\* A session found by get_session.
alive(token) == token \in DOMAIN visible.sessions
                /\ visible.sessions[token] > clock

\* POST /login: the hash is read.  MaxTokens leaves room for the session.
Login(r) ==
  /\ at[r] = "idle"
  /\ Cardinality(DOMAIN born)
       + Cardinality({q \in Request : at[q] \in {"verify", "create"}})
     < MaxTokens
  /\ \E password \in Password :
       /\ password # visible.hash.of => Len(guesses) < MaxGuesses
       /\ Come(r, [NoJob EXCEPT !.op = "login", !.password = password,
                                !.hash = visible.hash, !.behind = overtaken],
               IF visible.hash = Unset THEN "idle" ELSE "verify")
  /\ Select
  /\ UNCHANGED <<stored, guesses, cli, clock, restarts, failed, history>>

recent(times) == SelectSeq(times, LAMBDA t : t > clock - Lockout)

correct(r) == job[r].password = job[r].hash.of

\* Mutant of Verify: who is locked out is not asked for a password.
VerifyUnlessLocked(r) ==
  /\ at[r] = "verify"
  /\ IF Len(recent(guesses)) >= LoginMaxFailures
     THEN Go(r, "refused") /\ UNCHANGED guesses
     ELSE IF correct(r) THEN Go(r, "create") /\ guesses' = <<>>
     ELSE /\ Go(r, "refused")
          /\ guesses' = recent(Append(guesses, clock))
  /\ UNCHANGED <<stored, connection, cli, clock, restarts, failed, history>>

\* argon2 takes its time; a wrong password is remembered, and the lockout
\* only words the answer.
Verify(r) ==
  /\ at[r] = "verify"
  /\ IF correct(r) THEN Go(r, "create") /\ guesses' = <<>>
     ELSE /\ Go(r, "refused")
          /\ guesses' = recent(Append(guesses, clock))
  /\ UNCHANGED <<stored, connection, cli, clock, restarts, failed, history>>

\* Mutant of expiry: a login renews the sessions there are.
expiry_renewed(t, token) == clock + Lifetime

\* expires_at of session t when session token is created.
expiry(t, token) == IF t = token THEN clock + Lifetime ELSE sessions[t]

\* The panel's lock is held from the first write of an operation to its stamp.
unlocked == \A r \in Request : at[r] # "stamp"

\* Expired sessions are deleted and the new one is inserted, in one
\* transaction.
CreateSession(r) ==
  /\ at[r] = "create"
  /\ unlocked
  /\ \/ LET token == Cardinality(DOMAIN born) + 1
            kept  == {t \in DOMAIN sessions : sessions[t] > clock}
        IN  /\ sessions' = [t \in kept \cup {token} |-> expiry(t, token)]
            /\ born' = [t \in DOMAIN born \cup {token} |->
                          IF t = token
                          THEN [at |-> clock, run |-> job[r].hash.run,
                                during |-> job[r].during,
                                behind |-> job[r].behind]
                          ELSE born[t]]
            /\ CommitWrites
            /\ End(r)
            /\ UNCHANGED hash
     \/ Raise /\ End(r) /\ UNCHANGED born
  /\ UNCHANGED <<guesses, cli, clock, restarts, ended, swept>>

\* Any other request: _require_auth looks the cookie's session up.
Authorize(r) ==
  /\ at[r] = "idle"
  /\ \E op \in Op \ {"login"}, token \in DOMAIN born :
       Come(r, [NoJob EXCEPT !.op = op, !.token = token,
                  !.dead = \/ token \in ended
                           \/ clock >= born[token].at + Lifetime,
                  !.behind = overtaken],
            IF ~ alive(token) THEN "idle"
            ELSE IF op = "page" THEN "in" ELSE "csrf")
  /\ Select
  /\ UNCHANGED <<stored, guesses, cli, clock, restarts, failed, history>>

\* _require_csrf looks it up again; the form may be one of another session.
Csrf(r) ==
  /\ at[r] = "csrf"
  /\ End(r) \/ (alive(job[r].token) /\ Go(r, "in"))
  /\ Select
  /\ UNCHANGED <<stored, guesses, cli, clock, restarts, failed, history>>

\* A page is shown, or an operation refused, without a write.
Serve(r) ==
  /\ at[r] = "in"
  /\ job[r].op # "logout"
  /\ End(r)
  /\ Select
  /\ UNCHANGED <<stored, guesses, cli, clock, restarts, failed, history>>

\* An operation makes its first commit, which may be its last, or its first
\* write raises.
Operate(r) ==
  /\ at[r] = "in"
  /\ job[r].op = "post"
  /\ unlocked
  /\ \/ UNCHANGED stored /\ CommitWrites /\ (End(r) \/ Go(r, "stamp"))
     \/ Raise /\ End(r)
  /\ UNCHANGED <<guesses, cli, clock, restarts, history>>

\* An import of a text with nothing to add commits all the same, and so ends
\* whatever transaction was left, an overtaken snapshot included.
ImportNothing(r) ==
  /\ at[r] = "in"
  /\ job[r].op = "post"
  /\ unlocked
  /\ UNCHANGED stored /\ Commit
  /\ Go(r, "stamp")
  /\ UNCHANGED <<guesses, cli, clock, restarts, history>>

\* The line of the log is the last to be committed, or raises.
Stamp(r) ==
  /\ at[r] = "stamp"
  /\ \/ UNCHANGED stored /\ CommitWrites
     \/ Raise
  /\ End(r)
  /\ UNCHANGED <<guesses, cli, clock, restarts, history>>

DropSession(r) ==
  /\ at[r] = "in"
  /\ job[r].op = "logout"
  /\ unlocked
  /\ \/ /\ sessions' = Restrict(sessions, DOMAIN sessions \ {job[r].token})
        /\ ended' = ended \cup {job[r].token}
        /\ CommitWrites
        /\ End(r)
        /\ UNCHANGED hash
     \/ Raise /\ End(r) /\ UNCHANGED ended
  /\ UNCHANGED <<guesses, cli, clock, restarts, born, swept>>

\* The answer is sent.
Leave(r) ==
  /\ at[r] = "refused"
  /\ End(r)
  /\ UNCHANGED <<stored, connection, guesses, cli, clock, restarts, failed,
                 history>>

PanelRestart ==
  /\ restarts < MaxRestarts
  /\ restarts' = restarts + 1
  /\ at' = [r \in Request |-> "idle"]
  /\ job' = [r \in Request |-> NoJob]
  /\ tx' = "closed" /\ view' = NoView
  /\ guesses' = <<>>
  /\ failed' = FALSE
  /\ UNCHANGED <<stored, cli, clock, history>>

----------------------------------------------------------------------------
(* The other processes.                                                    *)

\* Mutant of set_password: the sessions are cleared first.
set_password_late == <<"sessions", "hash">>

\* What brokerctl set-password writes, a commit each.
set_password == <<"hash", "sessions">>

SetHash ==
  /\ \E password \in Password :
       hash' = [of |-> password, run |-> hash.run + 1]
  /\ job' = [r \in Request |->
               IF at[r] \in {"verify", "create", "refused"}
               THEN [job[r] EXCEPT !.during = TRUE] ELSE job[r]]
  /\ UNCHANGED <<sessions, at, ended>>

ClearSessions ==
  /\ sessions' = NoToken
  /\ ended' = ended \cup DOMAIN sessions
  /\ UNCHANGED <<hash, threads>>

\* The next commit of set-password.
CliCommit ==
  /\ cli = 0 => hash.run < MaxSets
  /\ CASE set_password[cli + 1] = "hash"     -> SetHash
       [] set_password[cli + 1] = "sessions" -> ClearSessions
  /\ cli' = (cli + 1) % Len(set_password)
  /\ swept' = IF cli' = 0 THEN hash'.run ELSE swept
  /\ CommitElsewhere
  /\ UNCHANGED <<guesses, clock, restarts, failed, born>>

\* It is killed between the two.
CliKilled ==
  /\ cli # 0
  /\ cli' = 0
  /\ UNCHANGED <<stored, connection, guesses, threads, clock, restarts, failed,
                 history>>

\* The broker commits; of what it writes the panel's logins read nothing.
BrokerCommit ==
  /\ tx = "frozen"
  /\ CommitElsewhere
  /\ UNCHANGED <<stored, guesses, threads, cli, clock, restarts, failed,
                 history>>

Tick ==
  /\ clock < MaxTime
  /\ clock' = clock + 1
  /\ UNCHANGED <<stored, connection, guesses, threads, cli, restarts, failed,
                 history>>

----------------------------------------------------------------------------

Next ==
  \/ \E r \in Request : \/ Login(r) \/ Verify(r) \/ CreateSession(r)
                         \/ Authorize(r) \/ Csrf(r) \/ Serve(r) \/ Operate(r)
                         \/ ImportNothing(r) \/ Stamp(r) \/ DropSession(r)
                         \/ Leave(r)
  \/ CliCommit \/ CliKilled \/ BrokerCommit \/ PanelRestart \/ Tick

Spec == Init /\ [][Next]_vars

----------------------------------------------------------------------------

\* Types; and the expiry of a session is that of its login, whatever logins,
\* requests and restarts came since ("a fixed expiry from login, not
\* sliding").
TypeOK ==
  /\ hash \in Hash \cup {Unset}
  /\ DOMAIN sessions \subseteq DOMAIN born \ ended
  /\ \A t \in DOMAIN sessions : sessions[t] = born[t].at + Lifetime
  /\ tx \in {"closed", "open", "frozen", "stale"}
  /\ at \in [Request -> Label]
  /\ DOMAIN born \subseteq Token
  /\ swept \in 0..MaxSets

\* A page is shown and an operation runs only for a session that had not been
\* logged out, cleared by set-password or outlived its login when the request
\* came; unless its look-up read an overtaken snapshot.
OnlySignedIn ==
  \A r \in Request :
    at[r] = "in" /\ ~ job[r].behind => ~ job[r].dead

\* "Logins persist for weeks; a new password must end the old ones": once
\* set-password has come to its end, whoever is signed in gave the new
\* password, or gave the old one in a login that set-password met on its way
\* or that read the hash from an overtaken snapshot.  The snapshot itself
\* takes no session; the last kind needs an import of nothing new between
\* that read and the new session.
PasswordEndsLogins ==
  cli = 0 /\ swept = hash.run =>
    \A t \in DOMAIN sessions :
      \/ born[t].run = hash.run
      \/ born[t].during
      \/ born[t].behind

\* "The correct password always wins": nobody who gives the stored password
\* is told that it is wrong, however many wrong ones came before, unless
\* set-password runs meanwhile or the hash was read from an overtaken
\* snapshot.
CorrectPasswordWins ==
  \A r \in Request :
    at[r] = "refused" /\ job[r].password = hash.of =>
      job[r].during \/ job[r].behind
=============================================================================
