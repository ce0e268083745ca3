----------------------------- MODULE ProxyPath -----------------------------
(***************************************************************************)
(* A connection of the agent through Squid: the CONNECT request, the       *)
(* ClientHello, and for each of them a question that Squid puts to the     *)
(* broker through bin/acl-helper (squid/squid.conf).  The helper gives up  *)
(* after 2.5 s.  The broker knows nothing of that: a question may wait in  *)
(* the listening socket, which systemd keeps across restarts, and be       *)
(* decided when nobody is left to hear the answer.                         *)
(*                                                                         *)
(* The broker, the panel, brokerctl and the clock are what Gate promises   *)
(* of them, and AgentFilter is checked to keep that promise.               *)
(***************************************************************************)
EXTENDS Naturals, Sequences, FiniteSets

CONSTANTS
  Conn,       \* connections
  Dest,       \* destinations, on port 443
  Nowhere,    \* no destination: what is no hostname, no SNI
  Coverage,   \* sets of destinations that an entry may cover
  Forbidden,  \* destinations that are never admitted
  MaxGrants,  \* bound on the grants made
  MaxPauses   \* bound on the times the operator opens or shuts the gate

Phase == {"connect", "sni"}

Check == Conn \X Phase

VARIABLES
  conn,   \* the connections, see Opened
  sent,   \* questions in the broker's listening socket
  pauses, \* times the gate was opened or shut so far
  grants, live, used, gate, check    \* see Gate

G == INSTANCE Gate

brokerVars == <<grants, live, used, gate, check>>
vars == <<conn, sent, pauses, brokerVars>>

Label == {"idle", "connect", "hello", "sni", "closed", "spliced"}

\* at: where it is.  host, sni: the names of the CONNECT and of the hello.
\* late: the helper gave up on its SNI.  History: may and open, what may
\* admit the name asked for since it was asked for; spent, the one-use grants
\* its checks have used.
Opened == [at |-> "idle", host |-> Nowhere, sni |-> Nowhere, late |-> FALSE,
           may |-> {}, open |-> FALSE, spent |-> {}]

Init ==
  /\ conn = [c \in Conn |-> Opened]
  /\ sent = {}
  /\ pauses = 0
  /\ grants = <<>> /\ live = {} /\ used = {} /\ gate = FALSE
  /\ check = [k \in Check |-> G!None]

----------------------------------------------------------------------------
(* Squid and the helper.                                                   *)

asking(c) == conn[c].at \in Phase

\* Mutant of question: the name of the CONNECT is asked again.
question_connect(c, phase, name) ==
  [conn |-> c, phase |-> phase,
   name |-> IF phase = "sni" THEN conn[c].host ELSE name]

question(c, phase, name) == [conn |-> c, phase |-> phase, name |-> name]

\* The helper asks about a name.
Ask(c, phase, name) ==
  /\ conn' = [conn EXCEPT ![c].at = phase, ![c].may = live, ![c].open = gate,
                          ![c].host = IF phase = "connect" THEN name ELSE @,
                          ![c].sni = IF phase = "sni" THEN name ELSE @]
  /\ sent' = sent \cup {question(c, phase, name)}
  /\ UNCHANGED <<pauses, brokerVars>>

Close(c, late) ==
  /\ conn' = [conn EXCEPT ![c] = [Opened EXCEPT !.at = "closed", !.late = late,
                                                !.spent = conn[c].spent]]
  /\ UNCHANGED <<sent, pauses, brokerVars>>

\* CONNECT to port 443; any other request, port and any internal address is
\* denied before the helper is asked.
Connect(c) ==
  /\ conn[c].at = "idle"
  /\ \/ Close(c, FALSE)
     \/ \E host \in Dest : Ask(c, "connect", host)

\* The tunnel is open and Squid peeks at the ClientHello.  No SNI: "-" is
\* refused by the helper itself, and ssl_bump terminates.  The client may
\* also go away.
Hello(c) ==
  /\ conn[c].at = "hello"
  /\ \/ Close(c, FALSE)
     \/ \E sni \in Dest : Ask(c, "sni", sni)

\* Mutant of GiveUp: no time-out is set, and only the end of the broker's
\* process breaks the connection to it.
GiveUpLost(c) ==
  /\ asking(c)
  /\ \A q \in sent : q.conn # c
  /\ ~ G!underway(<<c, conn[c].at>>)
  /\ Close(c, conn[c].at = "sni")

\* The time-out, a connection refused or broken, an answer that cannot be
\* read: the helper says ERR, and Squid refuses or terminates.
GiveUp(c) ==
  /\ asking(c)
  /\ Close(c, conn[c].at = "sni")

----------------------------------------------------------------------------
(* The broker, for checks asked by the helper.                             *)

\* Mutants of final.
final_never(phase) == FALSE
final_both(phase) == TRUE

\* "The SNI check is a connection's final helper call."
final(phase) == phase = "sni"

\* A question is taken out of the socket.
Take(q) ==
  /\ q \in sent
  /\ sent' = sent \ {q}
  /\ G!Begin(<<q.conn, q.phase>>)
  /\ check'[<<q.conn, q.phase>>].dest = q.name
  /\ check'[<<q.conn, q.phase>>].final = final(q.phase)
  /\ UNCHANGED <<conn, pauses>>

Decide(c, phase) ==
  /\ \/ G!AdmitByGrant(<<c, phase>>)
     \/ G!AdmitByGate(<<c, phase>>)
     \/ G!Refuse(<<c, phase>>)
  /\ conn' = [conn EXCEPT ![c].spent = @ \cup (used' \ used)]
  /\ UNCHANGED <<sent, pauses>>

\* The answer goes to the helper, if it still waits.
Answer(c, phase) ==
  /\ G!Deliver(<<c, phase>>)
  /\ conn' =
       IF conn[c].at # phase THEN conn
       ELSE IF check[<<c, phase>>].answer = "refused"
       THEN [conn EXCEPT ![c] = [Opened EXCEPT !.at = "closed",
                                               !.spent = conn[c].spent]]
       ELSE [conn EXCEPT ![c].at =
               IF phase = "connect" THEN "hello" ELSE "spliced"]
  /\ UNCHANGED <<sent, pauses>>

\* The broker's process ends; what it had not taken stays in the socket.
Lose ==
  /\ G!Lose
  /\ UNCHANGED <<conn, sent, pauses>>

----------------------------------------------------------------------------
(* The operator and the clock, as Gate has them.                           *)

MakeGrant ==
  /\ Len(grants) < MaxGrants
  /\ G!MakeGrant
  /\ grants'[Len(grants')].covers \in Coverage
  /\ conn' = [c \in Conn |->
                IF asking(c) THEN [conn[c] EXCEPT !.may = @ \cup DOMAIN grants']
                             ELSE conn[c]]
  /\ UNCHANGED <<sent, pauses>>

Lapse ==
  /\ live' \in SUBSET live
  /\ G!Lapse
  /\ UNCHANGED <<conn, sent, pauses>>

SetGate ==
  /\ pauses < MaxPauses
  /\ pauses' = pauses + 1
  /\ G!SetGate
  /\ conn' = [c \in Conn |->
                IF asking(c) THEN [conn[c] EXCEPT !.open = TRUE] ELSE conn[c]]
  /\ UNCHANGED sent

Next ==
  \/ \E c \in Conn : Connect(c) \/ Hello(c) \/ GiveUp(c)
  \/ \E c \in Conn, phase \in Phase :
       Decide(c, phase) \/ Answer(c, phase)
  \/ \E q \in sent : Take(q)
  \/ Lose \/ MakeGrant \/ Lapse \/ SetGate

Spec == Init /\ [][Next]_vars

\* The helper's time-out comes, and Squid does not wait for a client for
\* ever.  Nothing is asked of the broker.
FairSpec ==
  Spec /\ \A c \in Conn : WF_vars(GiveUp(c)) /\ WF_vars(Hello(c))

----------------------------------------------------------------------------

Connection ==
  [at : Label, host : Dest \cup {Nowhere}, sni : Dest \cup {Nowhere},
   late : BOOLEAN, may : SUBSET Nat, open : BOOLEAN, spent : SUBSET Nat]

Question == [conn : Conn, phase : Phase, name : Dest]

Grant == [covers : SUBSET Dest, once : BOOLEAN]

Asked == [dest : Dest \cup {Nowhere}, final : BOOLEAN, may : SUBSET Nat,
          open : BOOLEAN, answer : G!Answer, on : BOOLEAN]

TypeOK ==
  /\ conn \in [Conn -> Connection]
  /\ sent \subseteq Question
  /\ pauses \in Nat
  /\ grants \in Seq(Grant)
  /\ live \cup used \subseteq DOMAIN grants
  /\ gate \in BOOLEAN
  /\ check \in [Check -> Asked]
  /\ \A c \in Conn : conn[c].may \subseteq DOMAIN grants
  /\ \A k \in Check : check[k].may \subseteq DOMAIN grants

covered(name, c) ==
  /\ name \in Dest \ Forbidden
  /\ conn[c].open \/ \E g \in conn[c].may : name \in grants[g].covers

\* squid.conf: "require that the name actually being reached is itself
\* allowlisted", and "ttl=0 keeps every decision live so expiry and
\* revocation take effect immediately": a connection is let past the CONNECT
\* and is spliced by what admitted the name at hand when it was asked for or
\* since, never by an answer to another question.
SplicedChecked ==
  \A c \in Conn :
    /\ conn[c].at = "hello" => covered(conn[c].host, c)
    /\ conn[c].at = "spliced" => covered(conn[c].sni, c)

spliced_to(d) == {c \in Conn : conn[c].at = "spliced" /\ conn[c].sni = d}

covering(d) == {g \in DOMAIN grants : d \in grants[g].covers}

\* As long as nothing but one-use grants admits a destination, no more
\* connections to it are spliced than grants were made, although any number
\* of them may be past the CONNECT on one.
OnceOneConnection ==
  \A d \in Dest :
    pauses = 0 /\ (\A g \in covering(d) : grants[g].once) =>
      Cardinality(spliced_to(d)) <= Cardinality(covering(d))

\* A one-use grant is not spent by a connection that is then refused: what is
\* spent went to a connection that is spliced, waits for the answer, or
\* whose helper had given up.
SpentIsUsed ==
  \A c \in Conn :
    conn[c].spent # {} => \/ conn[c].at \in {"sni", "spliced"}
                          \/ conn[c].late

\* "Squid's denial to the client is an immediate 403, never a hang": every
\* connection is spliced or closed, whether or not the broker answers.
ConnectionResolved ==
  \A c \in Conn : asking(c) ~> conn[c].at \in {"hello", "spliced", "closed"}
=============================================================================
