-------------------------- MODULE ProxyPathProofs --------------------------
(***************************************************************************)
(* Proofs about the connections of the agent through Squid, for any number *)
(* of them, of destinations, of grants and of turns of the gate.           *)
(***************************************************************************)
EXTENDS ProxyPath, FiniteSetTheorems, TLAPS

----------------------------------------------------------------------------
(* Types.                                                                  *)

LEMMA TypeInit == Init => TypeOK
<1>1. Opened \in Connection /\ Opened.may = {}
  BY DEF Opened, Connection, Label
<1>2. G!None \in Asked /\ G!None.may = {}
  BY DEF G!None, Asked, G!Answer
<1>3. ASSUME Init
      PROVE  /\ grants \in Seq(Grant) /\ live \cup used \subseteq DOMAIN grants
             /\ pauses \in Nat /\ gate \in BOOLEAN /\ sent \subseteq Question
  <2>1. <<>> \in Seq(Grant)
    OBVIOUS
  <2>2. grants = <<>> /\ live = {} /\ used = {}
    BY <1>3 DEF Init
  <2> QED
    BY <1>3, <2>1, <2>2 DEF Init
<1>4. ASSUME Init
      PROVE  /\ conn \in [Conn -> Connection]
             /\ check \in [Check -> Asked]
             /\ \A c \in Conn : conn[c].may \subseteq DOMAIN grants
             /\ \A k \in Check : check[k].may \subseteq DOMAIN grants
  <2>1. conn = [c \in Conn |-> Opened] /\ check = [k \in Check |-> G!None]
    BY <1>4 DEF Init
  <2> HIDE DEF Opened, G!None
  <2>2. /\ \A c \in Conn : conn[c] = Opened
        /\ \A k \in Check : check[k] = G!None
    BY <2>1
  <2> QED
    BY <1>1, <1>2, <2>1, <2>2
<1> QED
  BY <1>3, <1>4 DEF TypeOK

\* A connection that is closed, whatever it was.
LEMMA ClosedTyped ==
  ASSUME NEW k \in Connection, NEW late \in BOOLEAN
  PROVE  [Opened EXCEPT !.at = "closed", !.late = late, !.spent = k.spent]
           \in Connection
BY DEF Connection, Opened, Label

LEMMA TypeNext ==
  ASSUME TypeOK, [Next]_vars
  PROVE  TypeOK'
<1> USE DEF TypeOK, brokerVars
<1>1. ASSUME NEW c \in Conn, NEW late \in BOOLEAN, Close(c, late)
      PROVE  TypeOK'
  BY <1>1, ClosedTyped DEF Close, Opened
<1>2. ASSUME NEW c \in Conn, NEW phase \in Phase, NEW name \in Dest,
             Ask(c, phase, name)
      PROVE  TypeOK'
  <2>1. conn' \in [Conn -> Connection]
    <3>1. phase \in Label /\ live \in SUBSET Nat
      BY DEF Label, Phase
    <3>2. [conn[c] EXCEPT !.at = phase, !.may = live, !.open = gate,
                          !.host = IF phase = "connect" THEN name ELSE @,
                          !.sni = IF phase = "sni" THEN name ELSE @]
            \in Connection
      BY <3>1 DEF Connection
    <3> QED
      BY <1>2, <3>2 DEF Ask
  <2>2. \A d \in Conn : conn'[d].may \subseteq DOMAIN grants
    BY <1>2 DEF Ask, Connection
  <2>3. question(c, phase, name) \in Question
    BY DEF question, Question
  <2> QED
    BY <1>2, <2>1, <2>2, <2>3 DEF Ask
<1>3. ASSUME NEW c \in Conn, Connect(c) \/ Hello(c) \/ GiveUp(c)
      PROVE  TypeOK'
  <2>1. "connect" \in Phase /\ "sni" \in Phase
    BY DEF Phase
  <2> QED
    BY <1>1, <1>2, <1>3, <2>1 DEF Connect, Hello, GiveUp
<1>4. ASSUME NEW q \in sent, Take(q) PROVE TypeOK'
  <2> DEFINE k == <<q.conn, q.phase>>
  <2>1. k \in Check
    BY DEF Question, Check
  <2>2. PICK d \in Dest \cup {Nowhere}, final_ \in BOOLEAN,
             answer \in {"none", "refused"} :
          check' = [check EXCEPT ![k] =
                      [dest |-> d, final |-> final_, may |-> live,
                       open |-> gate, answer |-> answer, on |-> TRUE]]
    BY <1>4 DEF Take, G!Begin
  <2>3. /\ check' \in [Check -> Asked]
        /\ \A l \in Check : check'[l].may \subseteq DOMAIN grants
    BY <2>1, <2>2 DEF Asked, G!Answer
  <2> QED
    BY <1>4, <2>3 DEF Take, G!Begin
<1>5. ASSUME NEW c \in Conn, NEW phase \in Phase, Decide(c, phase)
      PROVE  TypeOK'
  <2> DEFINE k == <<c, phase>>
  <2>1. k \in Check
    BY DEF Check
  <2>2. PICK answer \in {"admitted", "refused"} :
          check' = [check EXCEPT ![k].answer = answer]
    BY <1>5 DEF Decide, G!AdmitByGrant, G!AdmitByGate, G!Admit, G!Refuse,
                G!Decide
  <2>3. /\ UNCHANGED <<grants, gate, sent, pauses>>
        /\ live' \subseteq live /\ used' \subseteq DOMAIN grants
    BY <1>5, <2>1 DEF Decide, G!AdmitByGrant, G!AdmitByGate, G!Admit,
                      G!Refuse, G!Decide
  <2>4. /\ check' \in [Check -> Asked]
        /\ \A l \in Check : check'[l].may = check[l].may
    BY <2>1, <2>2 DEF Asked, G!Answer
  <2>5. conn' = [conn EXCEPT ![c].spent = @ \cup (used' \ used)]
    BY <1>5 DEF Decide
  <2>6. used' \subseteq Nat
    BY <2>3
  <2>7. /\ conn' \in [Conn -> Connection]
        /\ \A d \in Conn : conn'[d].may = conn[d].may
    BY <2>5, <2>6 DEF Connection
  <2> QED
    BY <2>3, <2>4, <2>7
<1>6. ASSUME NEW c \in Conn, NEW phase \in Phase, Answer(c, phase)
      PROVE  TypeOK'
  <2>1. G!None \in Asked /\ G!None.may = {}
    BY DEF G!None, Asked, G!Answer
  <2>2. /\ check' \in [Check -> Asked]
        /\ \A l \in Check : check'[l].may \subseteq DOMAIN grants
    BY <1>6, <2>1 DEF Answer, G!Deliver, Check
  <2>3. /\ conn' \in [Conn -> Connection]
        /\ \A d \in Conn : conn'[d].may \subseteq DOMAIN grants
    <3>1. CASE conn' = conn
      BY <3>1
    <3>2. CASE conn' = [conn EXCEPT ![c] =
                          [Opened EXCEPT !.at = "closed", !.spent = conn[c].spent]]
      BY <3>2 DEF Opened, Connection, Label
    <3>3. ASSUME NEW label \in {"hello", "spliced"},
                 conn' = [conn EXCEPT ![c].at = label]
          PROVE  /\ conn' \in [Conn -> Connection]
                 /\ \A d \in Conn : conn'[d].may \subseteq DOMAIN grants
      <4>1. label \in Label
        BY DEF Label
      <4>2. /\ [conn[c] EXCEPT !.at = label] \in Connection
            /\ [conn[c] EXCEPT !.at = label].may = conn[c].may
        BY <4>1 DEF Connection
      <4>3. conn' = [conn EXCEPT ![c] = [conn[c] EXCEPT !.at = label]]
        BY <3>3
      <4> QED
        BY <4>2, <4>3
    <3> QED
      BY <1>6, <3>1, <3>2, <3>3 DEF Answer
  <2> QED
    BY <1>6, <2>2, <2>3 DEF Answer, G!Deliver
<1>7. CASE Lose
  <2>1. G!None \in Asked /\ G!None.may = {}
    BY DEF G!None, Asked, G!Answer
  <2> QED
    BY <1>7, <2>1 DEF Lose, G!Lose
<1>8. CASE MakeGrant
  <2>1. PICK covers \in SUBSET Dest, once \in BOOLEAN :
          grants' = Append(grants, [covers |-> covers, once |-> once])
    BY <1>8 DEF MakeGrant, G!MakeGrant
  <2>2. /\ grants' \in Seq(Grant)
        /\ DOMAIN grants' = DOMAIN grants \cup {Len(grants) + 1}
    BY <2>1 DEF Grant
  <2>3. /\ check' \in [Check -> Asked]
        /\ \A l \in Check : check'[l].may \subseteq DOMAIN grants'
    <3> DEFINE g == Len(grants) + 1
    <3>1. check' = [k \in Check |->
                      IF check[k].on THEN [check[k] EXCEPT !.may = @ \cup {g}]
                                     ELSE check[k]]
      BY <1>8 DEF MakeGrant, G!MakeGrant, G!underway
    <3>2. g \in Nat /\ g \in DOMAIN grants'
      BY <2>2
    <3> HIDE DEF g
    <3>3. ASSUME NEW k \in Check
          PROVE  /\ [check[k] EXCEPT !.may = @ \cup {g}] \in Asked
                 /\ [check[k] EXCEPT !.may = @ \cup {g}].may
                      = check[k].may \cup {g}
      BY <3>2 DEF Asked
    <3> QED
      BY <2>2, <3>1, <3>2, <3>3
  <2>4. /\ conn' \in [Conn -> Connection]
        /\ \A d \in Conn : conn'[d].may \subseteq DOMAIN grants'
    <3>1. DOMAIN grants' \subseteq Nat
      BY <2>2
    <3>2. ASSUME NEW k \in Connection
          PROVE  /\ [k EXCEPT !.may = @ \cup DOMAIN grants'] \in Connection
                 /\ [k EXCEPT !.may = @ \cup DOMAIN grants'].may
                      = k.may \cup DOMAIN grants'
      BY <3>1 DEF Connection
    <3> QED
      BY <1>8, <2>2, <3>2 DEF MakeGrant, asking
  <2> QED
    BY <1>8, <2>2, <2>3, <2>4 DEF MakeGrant, G!MakeGrant
<1>9. CASE Lapse
  BY <1>9 DEF Lapse, G!Lapse
<1>10. CASE SetGate
  <2>1. PICK opened \in [Check -> BOOLEAN] :
          check' = [k \in Check |->
                      IF G!underway(k)
                      THEN [check[k] EXCEPT !.open = @ \/ opened[k]]
                      ELSE check[k]]
    BY <1>10 DEF SetGate, G!SetGate
  <2>2. /\ check' \in [Check -> Asked]
        /\ \A l \in Check : check'[l].may = check[l].may
    BY <2>1 DEF Asked
  <2>3. /\ conn' \in [Conn -> Connection]
        /\ \A d \in Conn : conn'[d].may = conn[d].may
    <3>1. ASSUME NEW k \in Connection
          PROVE  /\ [k EXCEPT !.open = TRUE] \in Connection
                 /\ [k EXCEPT !.open = TRUE].may = k.may
      BY DEF Connection
    <3> QED
      BY <1>10, <3>1 DEF SetGate, asking
  <2> QED
    BY <1>10, <2>2, <2>3 DEF SetGate, G!SetGate
<1>11. CASE UNCHANGED vars
  BY <1>11 DEF vars
<1> QED
  BY <1>3, <1>4, <1>5, <1>6, <1>7, <1>8, <1>9, <1>10, <1>11 DEF Next

THEOREM TypeCorrect == Spec => []TypeOK
BY TypeInit, TypeNext, PTL DEF Spec

----------------------------------------------------------------------------
(* The answers.                                                            *)

\* The name a phase of a connection is about.
named(c, phase) == IF phase = "connect" THEN conn[c].host ELSE conn[c].sni

\* The SNI is asked for after the CONNECT was answered.
Reached(c, phase) ==
  /\ conn[c].at # "idle"
  /\ phase = "sni" => conn[c].at \notin {"connect", "hello"}

QuestionSound(q) ==
  /\ Reached(q.conn, q.phase)
  /\ conn[q.conn].at = q.phase => q.name = named(q.conn, q.phase)

\* A check whose answer is still waited for is about the name at hand, and
\* what may admit it may admit the connection.
CheckSound(c, phase) ==
  LET k == check[<<c, phase>>]
  IN  k.on =>
        /\ Reached(c, phase)
        /\ conn[c].at = phase =>
             /\ k.dest = named(c, phase)
             /\ k.may \subseteq conn[c].may
             /\ k.open => conn[c].open
             /\ k.answer = "admitted" => covered(named(c, phase), c)

ConnSound(c) ==
  /\ asking(c) => live \subseteq conn[c].may /\ (gate => conn[c].open)
  /\ conn[c].at = "hello" => covered(conn[c].host, c)
  /\ conn[c].at = "spliced" => covered(conn[c].sni, c)

AskInv ==
  /\ \A q \in sent : QuestionSound(q)
  /\ \A c \in Conn, phase \in Phase : CheckSound(c, phase)
  /\ \A c \in Conn : ConnSound(c)

\* What covers goes on covering.
LEMMA CoveredStays ==
  ASSUME NEW c, NEW name, covered(name, c),
         conn[c].may \subseteq DOMAIN grants,
         conn[c].may \subseteq conn'[c].may,
         conn[c].open => conn'[c].open,
         \A g \in DOMAIN grants : grants'[g] = grants[g]
  PROVE  covered(name, c)'
BY DEF covered

\* What a connection, its questions and its checks keep of the invariant when
\* a step leaves the name at hand and takes nothing from what may admit it.
Keeps(c) ==
  /\ conn'[c].at = conn[c].at
  /\ conn'[c].host = conn[c].host /\ conn'[c].sni = conn[c].sni
  /\ conn[c].may \subseteq conn'[c].may
  /\ conn[c].open => conn'[c].open

GrantsStay == \A g \in DOMAIN grants : grants'[g] = grants[g]

LEMMA QuestionKept ==
  ASSUME NEW q, QuestionSound(q), Keeps(q.conn)
  PROVE  QuestionSound(q)'
BY DEF QuestionSound, Reached, named, Keeps

LEMMA CheckKept ==
  ASSUME TypeOK, NEW c \in Conn, NEW phase \in Phase, CheckSound(c, phase),
         Keeps(c), GrantsStay, UNCHANGED check
  PROVE  CheckSound(c, phase)'
<1>1. conn[c].may \subseteq DOMAIN grants
  BY DEF TypeOK
<1>2. ASSUME covered(named(c, phase), c) PROVE covered(named(c, phase), c)'
  <2>1. named(c, phase)' = named(c, phase)
    BY DEF named, Keeps
  <2>2. \A g \in DOMAIN grants : grants'[g] = grants[g]
    BY DEF GrantsStay
  <2> QED
    BY <1>1, <1>2, <2>1, <2>2 DEF covered, Keeps
<1> QED
  BY <1>2 DEF CheckSound, Reached, named, Keeps

LEMMA ConnKept ==
  ASSUME TypeOK, NEW c \in Conn, ConnSound(c), Keeps(c), GrantsStay,
         live' \subseteq live, gate' => gate
  PROVE  ConnSound(c)'
<1>1. conn[c].may \subseteq DOMAIN grants
  BY DEF TypeOK
<1>2. \A name : covered(name, c) => covered(name, c)'
  BY <1>1 DEF covered, Keeps, GrantsStay
<1> QED
  BY <1>2 DEF ConnSound, Keeps, asking

LEMMA AskKeeps ==
  ASSUME TypeOK, AskInv, NEW c \in Conn, NEW phase \in Phase, NEW name \in Dest,
         conn[c].at = IF phase = "connect" THEN "idle" ELSE "hello",
         Ask(c, phase, name)
  PROVE  AskInv'
<1>1. /\ \A d \in Conn \ {c} : conn'[d] = conn[d]
      /\ conn'[c].at = phase /\ conn'[c].may = live /\ conn'[c].open = gate
      /\ conn'[c].host = IF phase = "connect" THEN name ELSE conn[c].host
      /\ conn'[c].sni = IF phase = "sni" THEN name ELSE conn[c].sni
  BY DEF Ask, TypeOK, Connection
<1>2. /\ sent' = sent \cup {question(c, phase, name)}
      /\ UNCHANGED <<grants, live, gate, check>>
  BY DEF Ask, brokerVars
<1>3. ASSUME NEW d \in Conn \ {c} PROVE Keeps(d)
  BY <1>1, <1>3 DEF Keeps
<1>4. ASSUME NEW other \in Phase, Reached(c, other)
      PROVE  phase = "sni" /\ other = "connect"
  BY <1>4 DEF Reached, Phase
<1>5. ASSUME NEW q \in sent' PROVE QuestionSound(q)'
  <2>1. CASE q = question(c, phase, name)
    BY <1>1, <2>1 DEF QuestionSound, Reached, named, question, Phase
  <2>2. CASE q \in sent
    <3>1. QuestionSound(q) /\ q.conn \in Conn /\ q.phase \in Phase
      BY <2>2 DEF AskInv, TypeOK, Question
    <3>2. CASE q.conn = c
      BY <1>1, <1>4, <3>1, <3>2 DEF QuestionSound, Reached
    <3> QED
      BY <1>3, <3>1, <3>2, QuestionKept
  <2> QED
    BY <1>2, <2>1, <2>2
<1>6. ASSUME NEW d \in Conn, NEW other \in Phase PROVE CheckSound(d, other)'
  <2>1. CheckSound(d, other)
    BY DEF AskInv
  <2>2. CASE d = c
    BY <1>1, <1>2, <1>4, <2>1, <2>2 DEF CheckSound, Reached
  <2> QED
    BY <1>2, <1>3, <2>1, <2>2, CheckKept DEF GrantsStay
<1>7. ASSUME NEW d \in Conn PROVE ConnSound(d)'
  <2>1. ConnSound(d)
    BY DEF AskInv
  <2>2. CASE d = c
    BY <1>1, <1>2, <2>2 DEF ConnSound, Phase
  <2> QED
    BY <1>2, <1>3, <2>1, <2>2, ConnKept DEF GrantsStay
<1> QED
  BY <1>5, <1>6, <1>7 DEF AskInv

\* A connection goes to label on no more than what may admit it.
LEMMA LeaveKeeps ==
  ASSUME TypeOK, AskInv, NEW c \in Conn, NEW label \in {"hello", "spliced", "closed"},
         \A d \in Conn \ {c} : conn'[d] = conn[d],
         conn'[c].at = label,
         label = "hello" => conn[c].at = "connect" /\ covered(conn[c].host, c)',
         label = "spliced" => covered(conn[c].sni, c)',
         \A k \in Check : check'[k].on => check'[k] = check[k],
         UNCHANGED <<sent, grants, live, gate>>
  PROVE  AskInv'
<1>1. ASSUME NEW d \in Conn \ {c} PROVE Keeps(d)
  BY <1>1 DEF Keeps
<1>2. ASSUME NEW phase \in Phase, Reached(c, phase)
      PROVE  Reached(c, phase)' /\ conn'[c].at # phase
  BY <1>2 DEF Reached, Phase
<1>3. ASSUME NEW q \in sent' PROVE QuestionSound(q)'
  <2>1. QuestionSound(q) /\ q.conn \in Conn /\ q.phase \in Phase
    BY DEF AskInv, TypeOK, Question
  <2>2. CASE q.conn = c
    BY <1>2, <2>1, <2>2 DEF QuestionSound
  <2> QED
    BY <1>1, <2>1, <2>2, QuestionKept
<1>4. ASSUME NEW d \in Conn, NEW phase \in Phase PROVE CheckSound(d, phase)'
  <2>1. CheckSound(d, phase)
    BY DEF AskInv
  <2>2. CASE ~ check'[<<d, phase>>].on
    BY <2>2 DEF CheckSound
  <2>3. CASE check'[<<d, phase>>] = check[<<d, phase>>]
    <3>1. CASE d = c
      BY <1>2, <2>1, <2>3, <3>1 DEF CheckSound
    <3>2. CASE d # c
      BY <1>1, <2>1, <2>3, <3>2 DEF CheckSound, Keeps, Reached, named, covered
    <3> QED
      BY <3>1, <3>2
  <2> QED
    BY <2>2, <2>3 DEF Check
<1>5. ASSUME NEW d \in Conn PROVE ConnSound(d)'
  <2>1. ConnSound(d)
    BY DEF AskInv
  <2>2. CASE d = c
    BY <2>2 DEF ConnSound, asking, Phase
  <2> QED
    BY <1>1, <2>1, <2>2, ConnKept DEF GrantsStay
<1> QED
  BY <1>3, <1>4, <1>5 DEF AskInv

LEMMA CloseKeeps ==
  ASSUME TypeOK, AskInv, NEW c \in Conn, NEW late \in BOOLEAN, Close(c, late)
  PROVE  AskInv'
<1>1. /\ \A d \in Conn \ {c} : conn'[d] = conn[d]
      /\ conn'[c].at = "closed"
      /\ UNCHANGED <<sent, grants, live, gate, check>>
  BY DEF Close, TypeOK, Opened, brokerVars
<1> QED
  BY <1>1, LeaveKeeps

LEMMA TakeKeeps ==
  ASSUME TypeOK, AskInv, NEW q \in sent, Take(q)
  PROVE  AskInv'
<1> DEFINE k == <<q.conn, q.phase>>
<1>1. q.conn \in Conn /\ q.phase \in Phase /\ k \in Check
  BY DEF TypeOK, Question, Check
<1>2. /\ check'[k].may = live /\ check'[k].open = gate
      /\ check'[k].answer # "admitted"
      /\ check'[k].dest = q.name
      /\ \A l \in Check \ {k} : check'[l] = check[l]
  BY <1>1 DEF Take, G!Begin, TypeOK
<1>3. UNCHANGED <<conn, grants, live, gate>> /\ sent' \subseteq sent
  BY DEF Take, G!Begin
<1>4. ASSUME NEW d \in Conn PROVE Keeps(d)
  BY <1>3 DEF Keeps
<1>5. QuestionSound(q) /\ ConnSound(q.conn)
  BY <1>1 DEF AskInv
<1>6. ASSUME NEW p \in sent' PROVE QuestionSound(p)'
  <2>1. QuestionSound(p) /\ p.conn \in Conn
    BY <1>3 DEF AskInv, TypeOK, Question
  <2> QED
    BY <1>4, <2>1, QuestionKept
<1>7. ASSUME NEW c \in Conn, NEW phase \in Phase PROVE CheckSound(c, phase)'
  <2>1. CheckSound(c, phase) /\ <<c, phase>> \in Check
    BY DEF AskInv, Check
  <2>2. CASE <<c, phase>> = k
    <3>1. c = q.conn /\ phase = q.phase
      BY <2>2
    <3> QED
      BY <1>1, <1>2, <1>3, <1>5, <3>1
         DEF CheckSound, QuestionSound, ConnSound, Reached, named, asking
  <2>3. CASE <<c, phase>> # k
    <3>1. check'[<<c, phase>>] = check[<<c, phase>>]
      BY <1>2, <2>1, <2>3
    <3> QED
      BY <1>3, <2>1, <3>1 DEF CheckSound, Reached, named, covered
  <2> QED
    BY <2>2, <2>3
<1>8. ASSUME NEW c \in Conn PROVE ConnSound(c)'
  BY <1>3, <1>4, ConnKept DEF AskInv, GrantsStay
<1> QED
  BY <1>6, <1>7, <1>8 DEF AskInv

LEMMA DecideKeeps ==
  ASSUME TypeOK, AskInv, NEW c \in Conn, NEW phase \in Phase, Decide(c, phase)
  PROVE  AskInv'
<1> DEFINE k == <<c, phase>>
<1>1. k \in Check /\ CheckSound(c, phase)
  BY DEF Check, AskInv
<1>2. PICK answer \in {"admitted", "refused"} :
        check' = [check EXCEPT ![k].answer = answer]
  BY DEF Decide, G!AdmitByGrant, G!AdmitByGate, G!Admit, G!Refuse, G!Decide
<1>3. /\ check[k].on /\ UNCHANGED <<sent, grants, gate>> /\ live' \subseteq live
      /\ conn' = [conn EXCEPT ![c].spent = @ \cup (used' \ used)]
  BY DEF Decide, G!AdmitByGrant, G!AdmitByGate, G!Admit, G!Refuse, G!Decide,
         G!undecided, G!underway
<1>4. ASSUME answer = "admitted"
      PROVE  /\ check[k].dest \in Dest \ Forbidden
             /\ \/ check[k].open
                \/ \E g \in check[k].may : check[k].dest \in grants[g].covers
  <2>1. check'[k].answer = "admitted" /\ ~ G!Refuse(k)
    BY <1>1, <1>2, <1>4 DEF TypeOK, Asked, G!Refuse, G!Decide
  <2> QED
    BY <2>1 DEF Decide, G!AdmitByGrant, G!AdmitByGate, G!Admit
<1>5. ASSUME NEW d \in Conn PROVE Keeps(d)
  BY <1>3 DEF Keeps, TypeOK, Connection
<1>6. ASSUME NEW q \in sent' PROVE QuestionSound(q)'
  BY <1>3, <1>5, QuestionKept DEF AskInv, TypeOK, Question
<1>7. ASSUME NEW d \in Conn, NEW name PROVE covered(name, d)' <=> covered(name, d)
  <2>1. conn'[d].open = conn[d].open /\ conn'[d].may = conn[d].may
    BY <1>3 DEF TypeOK, Connection
  <2> QED
    BY <1>3, <2>1 DEF covered
<1>8. ASSUME NEW d \in Conn, NEW other \in Phase PROVE CheckSound(d, other)'
  <2>1. CheckSound(d, other) /\ <<d, other>> \in Check
    BY DEF AskInv, Check
  <2>2. /\ Keeps(d) /\ named(d, other)' = named(d, other)
        /\ Reached(d, other)' <=> Reached(d, other)
    BY <1>5 DEF Keeps, named, Reached
  <2>3. CASE <<d, other>> = k
    <3>1. d = c /\ other = phase
      BY <2>3
    <3>2. /\ check'[k].on = check[k].on /\ check'[k].dest = check[k].dest
          /\ check'[k].may = check[k].may /\ check'[k].open = check[k].open
          /\ check'[k].answer = answer
      BY <1>1, <1>2 DEF TypeOK, Asked
    <3>3. ASSUME answer = "admitted", conn[c].at = phase
          PROVE  covered(named(c, phase), c)
      BY <1>1, <1>3, <1>4, <3>3 DEF CheckSound, covered
    <3> QED
      BY <1>1, <1>3, <1>7, <2>2, <3>1, <3>2, <3>3 DEF CheckSound, Keeps
  <2>4. CASE <<d, other>> # k
    <3>1. check'[<<d, other>>] = check[<<d, other>>]
      BY <1>2, <2>1, <2>4 DEF TypeOK
    <3> QED
      BY <1>7, <2>1, <2>2, <3>1 DEF CheckSound, Keeps
  <2> QED
    BY <2>3, <2>4
<1>9. ASSUME NEW d \in Conn PROVE ConnSound(d)'
  BY <1>3, <1>5, ConnKept DEF AskInv, GrantsStay
<1> QED
  BY <1>6, <1>8, <1>9 DEF AskInv

LEMMA AnswerKeeps ==
  ASSUME TypeOK, AskInv, NEW c \in Conn, NEW phase \in Phase, Answer(c, phase)
  PROVE  AskInv'
<1> DEFINE k == <<c, phase>>
<1>1. k \in Check /\ CheckSound(c, phase) /\ check[k] \in Asked
  BY DEF Check, AskInv, TypeOK
<1>2. /\ check[k].on /\ check[k].answer # "none"
      /\ check' = [check EXCEPT ![k] = G!None]
      /\ UNCHANGED <<sent, grants, live, gate>>
  BY DEF Answer, G!Deliver, G!undecided, G!underway
<1>3. \A l \in Check : check'[l].on => check'[l] = check[l]
  BY <1>2 DEF TypeOK, G!None
<1>4. CASE conn' = conn
  <2>1. ASSUME NEW d \in Conn PROVE Keeps(d)
    BY <1>4 DEF Keeps
  <2>2. ASSUME NEW d \in Conn, NEW other \in Phase PROVE CheckSound(d, other)'
    <3>1. CheckSound(d, other) /\ <<d, other>> \in Check
      BY DEF AskInv, Check
    <3> QED
      BY <1>2, <1>3, <1>4, <3>1 DEF CheckSound, Reached, named, covered
  <2>3. ASSUME NEW q \in sent' PROVE QuestionSound(q)'
    BY <1>2, <2>1, QuestionKept DEF AskInv, TypeOK, Question
  <2>4. ASSUME NEW d \in Conn PROVE ConnSound(d)'
    BY <1>2, <2>1, ConnKept DEF AskInv, GrantsStay
  <2> QED
    BY <2>2, <2>3, <2>4 DEF AskInv
<1>5. CASE conn' = [conn EXCEPT ![c] = [Opened EXCEPT !.at = "closed",
                                                     !.spent = conn[c].spent]]
  <2>1. \A d \in Conn \ {c} : conn'[d] = conn[d]
    BY <1>5 DEF TypeOK
  <2>2. conn'[c].at = "closed"
    BY <1>5 DEF TypeOK, Opened
  <2> QED
    BY <1>2, <1>3, <2>1, <2>2, LeaveKeeps
<1>6. CASE /\ conn[c].at = phase /\ check[k].answer # "refused"
           /\ conn' = [conn EXCEPT ![c].at =
                         IF phase = "connect" THEN "hello" ELSE "spliced"]
  <2> DEFINE label == IF phase = "connect" THEN "hello" ELSE "spliced"
  <2>1. covered(named(c, phase), c)
    BY <1>1, <1>2, <1>6 DEF CheckSound, Asked, G!Answer
  <2>2. /\ \A d \in Conn \ {c} : conn'[d] = conn[d]
        /\ conn'[c].at = label
        /\ conn'[c].may = conn[c].may /\ conn'[c].open = conn[c].open
        /\ conn'[c].host = conn[c].host /\ conn'[c].sni = conn[c].sni
    BY <1>6 DEF TypeOK, Connection
  <2>3. /\ label = "hello" => conn[c].at = "connect" /\ covered(conn[c].host, c)'
        /\ label = "spliced" => covered(conn[c].sni, c)'
    BY <1>2, <1>6, <2>1, <2>2 DEF covered, named
  <2>4. label \in {"hello", "spliced", "closed"}
    OBVIOUS
  <2> HIDE DEF label
  <2> QED
    BY <1>2, <1>3, <2>2, <2>3, <2>4, LeaveKeeps
<1> QED
  BY <1>4, <1>5, <1>6 DEF Answer

LEMMA WorldKeeps ==
  ASSUME TypeOK, AskInv, Lose \/ MakeGrant \/ Lapse \/ SetGate
  PROVE  AskInv'
<1> USE DEF Keeps
<1>1. CASE Lose
  <2>1. UNCHANGED <<conn, sent, grants, live, gate>>
    BY <1>1 DEF Lose, G!Lose
  <2>2. \A c \in Conn : \A phase \in Phase : ~ check'[<<c, phase>>].on
    BY <1>1 DEF Lose, G!Lose, G!None, Check
  <2>3. \A c \in Conn, phase \in Phase : CheckSound(c, phase)'
    BY <2>2 DEF CheckSound
  <2> QED
    BY <2>1, <2>3
       DEF AskInv, QuestionSound, Reached, named, ConnSound, covered, asking
<1>2. CASE Lapse
  <2>1. UNCHANGED <<conn, sent, grants, check>> /\ live' \subseteq live
    BY <1>2 DEF Lapse, G!Lapse
  <2>2. gate' => gate
    BY <1>2 DEF Lapse, G!Lapse, TypeOK
  <2>3. GrantsStay /\ \A c \in Conn : Keeps(c)
    BY <2>1 DEF GrantsStay
  <2>4. \A q \in sent : q.conn \in Conn
    BY DEF TypeOK, Question
  <2> QED
    BY <2>1, <2>2, <2>3, <2>4, QuestionKept, CheckKept, ConnKept DEF AskInv
<1>3. CASE MakeGrant
  <2> DEFINE g == Len(grants) + 1
  <2>1. /\ check' = [k \in Check |->
                       IF check[k].on THEN [check[k] EXCEPT !.may = @ \cup {g}]
                                      ELSE check[k]]
        /\ live' \subseteq live \cup {g}
        /\ UNCHANGED <<used, gate, sent>>
    BY <1>3 DEF MakeGrant, G!MakeGrant, G!underway
  <2>2. /\ DOMAIN grants' = DOMAIN grants \cup {g}
        /\ GrantsStay
    <3>1. PICK covers \in SUBSET Dest, once \in BOOLEAN :
            grants' = Append(grants, [covers |-> covers, once |-> once])
      BY <1>3 DEF MakeGrant, G!MakeGrant
    <3> QED
      BY <3>1 DEF TypeOK, GrantsStay
  <2> HIDE DEF g
  <2>3. ASSUME NEW c \in Conn
        PROVE  /\ Keeps(c)
               /\ asking(c) => conn'[c].may = conn[c].may \cup DOMAIN grants'
               /\ ~ asking(c) => conn'[c] = conn[c]
               /\ conn'[c].open = conn[c].open
    BY <1>3 DEF MakeGrant, TypeOK, Connection, asking
  <2>4. ASSUME NEW c \in Conn, NEW name, covered(name, c)
        PROVE  covered(name, c)'
    <3>1. conn[c].may \subseteq DOMAIN grants
      BY DEF TypeOK
    <3> QED
      BY <2>2, <2>3, <2>4, <3>1, CoveredStays DEF GrantsStay
  <2>5. ASSUME NEW c \in Conn, NEW phase \in Phase PROVE CheckSound(c, phase)'
    <3> DEFINE k == <<c, phase>>
    <3>1. k \in Check /\ CheckSound(c, phase) /\ check[k] \in Asked
      BY DEF AskInv, Check, TypeOK
    <3>2. /\ check'[k].on = check[k].on /\ check'[k].dest = check[k].dest
          /\ check'[k].open = check[k].open
          /\ check'[k].answer = check[k].answer
          /\ check'[k].may \subseteq check[k].may \cup {g}
      BY <2>1, <3>1 DEF Asked
    <3>3. /\ named(c, phase)' = named(c, phase)
          /\ Reached(c, phase)' <=> Reached(c, phase)
      BY <2>3 DEF named, Reached
    <3>4. conn'[c].at = phase => asking(c) /\ g \in conn'[c].may
      BY <2>2, <2>3 DEF asking
    <3> HIDE DEF k
    <3> QED
      BY <2>3, <2>4, <3>1, <3>2, <3>3, <3>4 DEF CheckSound, k
  <2>6. ASSUME NEW c \in Conn PROVE ConnSound(c)'
    <3>1. ConnSound(c)
      BY DEF AskInv
    <3>2. asking(c)' <=> asking(c)
      BY <2>3 DEF asking
    <3>3. live \subseteq DOMAIN grants
      BY DEF TypeOK
    <3> QED
      BY <2>1, <2>2, <2>3, <2>4, <3>1, <3>2, <3>3 DEF ConnSound
  <2>7. \A q \in sent : q.conn \in Conn
    BY DEF TypeOK, Question
  <2> QED
    BY <2>1, <2>3, <2>5, <2>6, <2>7, QuestionKept DEF AskInv
<1>4. CASE SetGate
  <2>1. PICK opened \in [Check -> BOOLEAN] :
          check' = [k \in Check |->
                      IF check[k].on
                      THEN [check[k] EXCEPT !.open = @ \/ opened[k]]
                      ELSE check[k]]
    BY <1>4 DEF SetGate, G!SetGate, G!underway
  <2>2. UNCHANGED <<sent, grants, live>>
    BY <1>4 DEF SetGate, G!SetGate
  <2>3. ASSUME NEW c \in Conn
        PROVE  /\ Keeps(c)
               /\ asking(c) => conn'[c].open
               /\ conn'[c].may = conn[c].may
    BY <1>4 DEF SetGate, TypeOK, Connection, asking
  <2>4. ASSUME NEW c \in Conn, NEW name, covered(name, c)
        PROVE  covered(name, c)'
    BY <2>2, <2>3, <2>4 DEF covered
  <2>5. ASSUME NEW c \in Conn, NEW phase \in Phase PROVE CheckSound(c, phase)'
    <3> DEFINE k == <<c, phase>>
    <3>1. k \in Check /\ CheckSound(c, phase) /\ check[k] \in Asked
      BY DEF AskInv, Check, TypeOK
    <3>2. /\ check'[k].on = check[k].on /\ check'[k].dest = check[k].dest
          /\ check'[k].may = check[k].may
          /\ check'[k].answer = check[k].answer
      BY <2>1, <3>1 DEF Asked
    <3>3. /\ named(c, phase)' = named(c, phase)
          /\ Reached(c, phase)' <=> Reached(c, phase)
      BY <2>3 DEF named, Reached
    <3>4. conn'[c].at = phase => conn'[c].open
      BY <2>3 DEF asking
    <3> HIDE DEF k
    <3> QED
      BY <2>3, <2>4, <3>1, <3>2, <3>3, <3>4 DEF CheckSound, k
  <2>6. ASSUME NEW c \in Conn PROVE ConnSound(c)'
    <3>1. ConnSound(c)
      BY DEF AskInv
    <3>2. asking(c)' <=> asking(c)
      BY <2>3 DEF asking
    <3> QED
      BY <2>2, <2>3, <2>4, <3>1, <3>2 DEF ConnSound
  <2>7. \A q \in sent : q.conn \in Conn
    BY DEF TypeOK, Question
  <2> QED
    BY <2>2, <2>3, <2>5, <2>6, <2>7, QuestionKept DEF AskInv
<1> QED
  BY <1>1, <1>2, <1>3, <1>4

LEMMA AskNext ==
  ASSUME TypeOK, AskInv, [Next]_vars
  PROVE  AskInv'
<1>1. ASSUME NEW c \in Conn, Connect(c) \/ Hello(c) \/ GiveUp(c) PROVE AskInv'
  <2>1. "connect" \in Phase /\ "sni" \in Phase
    BY DEF Phase
  <2> QED
    BY <1>1, <2>1, AskKeeps, CloseKeeps DEF Connect, Hello, GiveUp
<1>2. CASE UNCHANGED vars
  BY <1>2 DEF vars, brokerVars, AskInv, QuestionSound, CheckSound, ConnSound,
              Reached, named, covered, asking
<1> QED
  BY <1>1, <1>2, TakeKeeps, DecideKeeps, AnswerKeeps, WorldKeeps DEF Next

\* Past the CONNECT and spliced is who the name at hand was admitted for.
THEOREM EverySpliceChecked == Spec => []SplicedChecked
<1>1. Init => AskInv
  BY DEF Init, AskInv, Opened, CheckSound, ConnSound, asking, Phase, Check,
         G!None
<1>2. AskInv => SplicedChecked
  BY DEF AskInv, ConnSound, SplicedChecked
<1> QED
  BY <1>1, <1>2, AskNext, TypeCorrect, PTL DEF Spec

----------------------------------------------------------------------------
(* The one-use grants.                                                     *)

sni_check(c) == check[<<c, "sni">>]

sni_asked(c) == {q \in sent : q.conn = c /\ q.phase = "sni"}

\* What c was admitted by, when the gate was never open: a grant that covers
\* it, and one that c has spent if it is for one use.
Backed(c) ==
  \E g \in DOMAIN grants : /\ conn[c].sni \in grants[g].covers
                           /\ grants[g].once => g \in conn[c].spent

\* A connection spends at its SNI check only, which is put and decided once.
SpendSound(c) ==
  /\ conn[c].spent \subseteq used
  /\ conn[c].late => conn[c].at = "closed"
  /\ conn[c].spent # {} => conn[c].at \in {"sni", "spliced"} \/ conn[c].late
  /\ sni_asked(c) # {} => /\ conn[c].at = "sni" \/ conn[c].late
                          /\ conn[c].spent = {} /\ ~ sni_check(c).on
  /\ \A q, p \in sni_asked(c) : q = p
  /\ sni_check(c).on =>
       /\ conn[c].at = "sni" \/ conn[c].late
       /\ sni_check(c).answer # "admitted" => conn[c].spent = {}
  /\ check[<<c, "connect">>].on => ~ check[<<c, "connect">>].final
  /\ sni_check(c).on => sni_check(c).final
  /\ pauses = 0 =>
       /\ \A phase \in Phase : ~ check[<<c, phase>>].open
       /\ \/ conn[c].at = "spliced"
          \/ conn[c].at = "sni" /\ sni_check(c).on
                               /\ sni_check(c).answer = "admitted"
          => Backed(c)

SpendInv ==
  /\ \A c \in Conn : SpendSound(c)
  /\ \A c, d \in Conn : c # d => conn[c].spent \cap conn[d].spent = {}
  /\ pauses = 0 => ~ gate

\* A step that does not move c, nor its SNI check but to lose it.
SpendSame(c) ==
  /\ conn'[c].at = conn[c].at /\ conn'[c].sni = conn[c].sni
  /\ conn'[c].late = conn[c].late /\ conn'[c].spent = conn[c].spent
  /\ \A phase \in Phase :
       LET k == check[<<c, phase>>]
           l == check'[<<c, phase>>]
       IN  /\ l.on => k.on /\ l.answer = k.answer /\ l.final = k.final
           /\ pauses' = 0 /\ l.open => k.open
  /\ sni_asked(c)' \subseteq sni_asked(c)

\* What no step takes back.
Forward ==
  /\ used \subseteq used'
  /\ DOMAIN grants \subseteq DOMAIN grants' /\ GrantsStay
  /\ pauses' = 0 => pauses = 0

LEMMA SpendKept ==
  ASSUME NEW c \in Conn, SpendSound(c), SpendSame(c), Forward
  PROVE  SpendSound(c)'
<1>1. Backed(c) => Backed(c)'
  BY DEF Backed, Forward, GrantsStay, SpendSame
<1> USE DEF SpendSame, SpendSound, Forward
<1>2. /\ (conn[c].spent \subseteq used)'
      /\ (conn[c].late => conn[c].at = "closed")'
      /\ (conn[c].spent # {} =>
            conn[c].at \in {"sni", "spliced"} \/ conn[c].late)'
  OBVIOUS
<1>3. /\ sni_check(c)'.on => /\ sni_check(c).on
                             /\ sni_check(c)'.answer = sni_check(c).answer
                             /\ sni_check(c)'.final = sni_check(c).final
      /\ check'[<<c, "connect">>].on =>
           ~ check'[<<c, "connect">>].final
  BY DEF sni_check, Phase
<1>4. pauses' = 0 => /\ pauses = 0
                     /\ \A phase \in Phase : ~ check'[<<c, phase>>].open
  OBVIOUS
<1> HIDE DEF SpendSame, Forward
<1>5. /\ conn'[c].at = conn[c].at /\ conn'[c].late = conn[c].late
      /\ conn'[c].spent = conn[c].spent
      /\ sni_asked(c)' \subseteq sni_asked(c)
  BY DEF SpendSame
<1> QED
  BY <1>1, <1>2, <1>3, <1>4, <1>5

\* A step after which every connection but c is as it was.
LEMMA SpendOthers ==
  ASSUME SpendInv, NEW c \in Conn, Forward, gate' => gate,
         \A d \in Conn \ {c} : SpendSame(d),
         SpendSound(c)',
         \A d \in Conn \ {c} : conn'[c].spent \cap conn[d].spent = {}
  PROVE  SpendInv'
<1>1. ASSUME NEW d \in Conn PROVE SpendSound(d)'
  BY SpendKept DEF SpendInv
<1>2. \A d \in Conn \ {c} : conn'[d].spent = conn[d].spent
  BY DEF SpendSame
<1>3. ASSUME NEW d \in Conn, NEW e \in Conn, d # e
      PROVE  conn'[d].spent \cap conn'[e].spent = {}
  BY <1>2, <1>3 DEF SpendInv
<1> QED
  BY <1>1, <1>3 DEF SpendInv, Forward

LEMMA SpendClose ==
  ASSUME TypeOK, SpendInv, NEW c \in Conn, asking(c) \/ conn[c].at \in {"idle", "hello"},
         Close(c, conn[c].at = "sni")
  PROVE  SpendInv'
<1>1. /\ \A d \in Conn \ {c} : conn'[d] = conn[d]
      /\ conn'[c].at = "closed" /\ conn'[c].late = (conn[c].at = "sni")
      /\ conn'[c].spent = conn[c].spent
      /\ UNCHANGED <<sent, pauses, grants, used, gate, check>>
  BY DEF Close, TypeOK, Opened, brokerVars
<1>2. Forward /\ \A d \in Conn \ {c} : SpendSame(d)
  BY <1>1 DEF Forward, SpendSame, GrantsStay, sni_asked
<1>3. SpendSound(c)'
  <2>1. SpendSound(c) /\ sni_asked(c)' = sni_asked(c)
        /\ sni_check(c)' = sni_check(c)
    BY <1>1 DEF SpendInv, sni_asked, sni_check
  <2>2. conn[c].at \in {"idle", "connect", "hello", "sni"}
    BY DEF asking, Phase
  <2> QED
    BY <1>1, <2>1, <2>2 DEF SpendSound
<1> QED
  BY <1>1, <1>2, <1>3, SpendOthers DEF SpendInv

LEMMA SpendAsk ==
  ASSUME TypeOK, SpendInv, NEW c \in Conn, NEW phase \in Phase, NEW name \in Dest,
         conn[c].at = IF phase = "connect" THEN "idle" ELSE "hello",
         Ask(c, phase, name)
  PROVE  SpendInv'
<1>1. /\ \A d \in Conn \ {c} : conn'[d] = conn[d]
      /\ conn'[c].at = phase /\ conn'[c].late = conn[c].late
      /\ conn'[c].spent = conn[c].spent
      /\ sent' = sent \cup {question(c, phase, name)}
      /\ UNCHANGED <<pauses, grants, used, gate, check>>
  BY DEF Ask, TypeOK, Connection, brokerVars
<1>2. Forward /\ \A d \in Conn \ {c} : SpendSame(d)
  BY <1>1 DEF Forward, SpendSame, GrantsStay, sni_asked, question
<1>3. SpendSound(c)'
  <2>1. SpendSound(c) /\ sni_check(c)' = sni_check(c)
    BY <1>1 DEF SpendInv, sni_check
  <2>2. /\ conn[c].spent = {} /\ ~ conn[c].late
        /\ sni_asked(c) = {} /\ ~ sni_check(c).on
    BY <2>1 DEF SpendSound, Phase
  <2>3. sni_asked(c)' \subseteq {question(c, phase, name)}
        /\ (phase = "connect" => sni_asked(c)' = {})
    BY <1>1, <2>2 DEF sni_asked, question
  <2> QED
    BY <1>1, <2>1, <2>2, <2>3 DEF SpendSound, Phase
<1> QED
  BY <1>1, <1>2, <1>3, SpendOthers DEF SpendInv

LEMMA SpendTake ==
  ASSUME TypeOK, SpendInv, NEW q \in sent, Take(q)
  PROVE  SpendInv'
<1> DEFINE c == q.conn
           k == <<c, q.phase>>
<1>1. c \in Conn /\ q.phase \in Phase /\ k \in Check
  BY DEF TypeOK, Question, Check
<1>2. /\ check'[k].open = gate /\ check'[k].answer # "admitted"
      /\ check'[k].final = (q.phase = "sni")
      /\ \A l \in Check \ {k} : check'[l] = check[l]
  BY <1>1 DEF Take, G!Begin, TypeOK, final
<1>3. UNCHANGED <<conn, pauses, grants, used, gate>> /\ sent' = sent \ {q}
  BY DEF Take, G!Begin
<1> HIDE DEF c
<1>4. Forward
  BY <1>3 DEF Forward, GrantsStay
<1>5. ASSUME NEW d \in Conn \ {c} PROVE SpendSame(d)
  <2>1. ASSUME NEW phase \in Phase
        PROVE  check'[<<d, phase>>] = check[<<d, phase>>]
    BY <1>2 DEF Check
  <2> QED
    BY <1>3, <2>1 DEF SpendSame, sni_asked
<1>6. SpendSound(c)'
  <2>1. SpendSound(c)
    BY <1>1 DEF SpendInv
  <2>2. /\ sni_asked(c)' \subseteq sni_asked(c)
        /\ q.phase = "sni" => sni_asked(c)' = {} /\ sni_asked(c) # {}
    BY <1>3, <2>1 DEF SpendSound, sni_asked, c
  <2>3. CASE q.phase = "sni"
    <3>1. /\ sni_check(c)'.open = gate /\ sni_check(c)'.answer # "admitted"
          /\ sni_check(c)'.final
          /\ check'[<<c, "connect">>] = check[<<c, "connect">>]
      BY <1>1, <1>2, <2>3 DEF sni_check, Check, Phase
    <3>2. pauses = 0 => \A phase \in Phase : ~ check'[<<c, phase>>].open
      BY <2>1, <3>1 DEF SpendInv, SpendSound, sni_check, Phase
    <3>3. Backed(c)' <=> Backed(c)
      BY <1>3 DEF Backed
    <3> QED
      BY <1>3, <2>1, <2>2, <2>3, <3>1, <3>2, <3>3 DEF SpendSound
  <2>4. CASE q.phase = "connect"
    <3>1. /\ check'[<<c, "connect">>].open = gate
          /\ ~ check'[<<c, "connect">>].final
          /\ sni_check(c)' = sni_check(c)
      BY <1>1, <1>2, <2>4 DEF sni_check, Check, Phase
    <3>2. pauses = 0 => \A phase \in Phase : ~ check'[<<c, phase>>].open
      BY <2>1, <3>1 DEF SpendInv, SpendSound, sni_check, Phase
    <3>3. Backed(c)' <=> Backed(c)
      BY <1>3 DEF Backed
    <3> QED
      BY <1>3, <2>1, <2>2, <3>1, <3>2, <3>3 DEF SpendSound
  <2> QED
    BY <1>1, <2>3, <2>4 DEF Phase
<1>7. \A d \in Conn \ {c} : conn'[c].spent \cap conn[d].spent = {}
  BY <1>1, <1>3 DEF SpendInv
<1> QED
  BY <1>1, <1>3, <1>4, <1>5, <1>6, <1>7, SpendOthers

LEMMA SpendDecide ==
  ASSUME TypeOK, AskInv, SpendInv, NEW c \in Conn, NEW phase \in Phase,
         Decide(c, phase)
  PROVE  SpendInv'
<1> DEFINE k == <<c, phase>>
<1>1. k \in Check /\ check[k] \in Asked /\ CheckSound(c, phase) /\ SpendSound(c)
  BY DEF Check, AskInv, TypeOK, SpendInv
<1>2. /\ check[k].on /\ check[k].answer = "none"
      /\ \A l \in Check \ {k} : check'[l] = check[l]
      /\ check'[k].on /\ check'[k].open = check[k].open
      /\ check'[k].final = check[k].final
      /\ check'[k].answer \in {"admitted", "refused"}
      /\ UNCHANGED <<sent, pauses, grants, gate>>
  <2>1. \E answer \in {"admitted", "refused"} : G!Decide(k, answer)
    BY DEF Decide, G!AdmitByGrant, G!AdmitByGate, G!Admit, G!Refuse
  <2>2. PICK answer \in {"admitted", "refused"} : G!Decide(k, answer)
    BY <2>1
  <2>3. check' = [check EXCEPT ![k].answer = answer]
    BY <2>2 DEF G!Decide
  <2>4. check[k].on /\ check[k].answer = "none" /\ UNCHANGED <<grants, gate>>
    BY <2>2 DEF G!Decide, G!undecided, G!underway
  <2>5. UNCHANGED <<sent, pauses>>
    BY DEF Decide
  <2> HIDE DEF k
  <2> QED
    BY <1>1, <2>3, <2>4, <2>5 DEF TypeOK, Asked
<1>3. /\ \A d \in Conn : /\ conn'[d].at = conn[d].at
                         /\ conn'[d].sni = conn[d].sni
                         /\ conn'[d].late = conn[d].late
      /\ \A d \in Conn \ {c} : conn'[d].spent = conn[d].spent
      /\ conn'[c].spent = conn[c].spent \cup (used' \ used)
  BY DEF Decide, TypeOK, Connection
\* What is used, and what that means for c.
<1>4. /\ used \subseteq used'
      /\ used' # used => check[k].final
      /\ check'[k].answer # "admitted" => used' = used
      /\ check'[k].answer = "admitted" /\ ~ check[k].open =>
           \E g \in check[k].may : /\ check[k].dest \in grants[g].covers
                                   /\ grants[g].once /\ check[k].final =>
                                        g \in used' \ used
  <2>1. CASE G!AdmitByGrant(k)
    <3>1. check'[k].answer = "admitted"
      BY <1>1, <2>1 DEF G!AdmitByGrant, G!Admit, G!Decide, TypeOK, Asked
    <3>2. PICK g \in check[k].may :
            /\ check[k].dest \in grants[g].covers
            /\ IF grants[g].once /\ check[k].final
               THEN g \notin used /\ used' = used \cup {g}
               ELSE used' = used
      BY <2>1 DEF G!AdmitByGrant
    <3> QED
      BY <3>1, <3>2
  <2>2. CASE G!AdmitByGate(k)
    BY <2>2 DEF G!AdmitByGate, G!Admit
  <2>3. CASE G!Refuse(k)
    <3>1. check'[k].answer = "refused" /\ used' = used
      BY <1>1, <2>3 DEF G!Refuse, G!Decide, TypeOK, Asked
    <3> QED
      BY <3>1
  <2> QED
    BY <2>1, <2>2, <2>3 DEF Decide
<1> HIDE DEF k
<1>5. Forward
  BY <1>2, <1>4 DEF Forward, GrantsStay
<1>6. ASSUME NEW d \in Conn \ {c} PROVE SpendSame(d)
  <2>1. ASSUME NEW other \in Phase
        PROVE  check'[<<d, other>>] = check[<<d, other>>]
    BY <1>2 DEF Check, k
  <2> QED
    BY <1>2, <1>3, <2>1 DEF SpendSame, sni_asked
<1>7. pauses = 0 => \A other \in Phase : ~ check'[<<c, other>>].open
  <2>1. ASSUME NEW other \in Phase
        PROVE  check'[<<c, other>>].open = check[<<c, other>>].open
    BY <1>2 DEF Check, k
  <2> QED
    BY <1>1, <2>1 DEF SpendSound
<1>8. sni_asked(c)' = sni_asked(c)
  BY <1>2 DEF sni_asked
<1>9. SpendSound(c)'
  <2>1. CASE phase = "connect"
    <3>1. sni_check(c)' = sni_check(c) /\ ~ check[k].final
      BY <1>1, <1>2, <2>1 DEF sni_check, Check, Phase, k, SpendSound
    <3>2. used' = used /\ conn'[c].spent = conn[c].spent
      BY <1>3, <1>4, <3>1
    <3>3. ~ check'[<<c, "connect">>].final
      BY <1>2, <2>1, <3>1 DEF k
    <3>4. Backed(c)' <=> Backed(c)
      BY <1>2, <1>3, <3>2 DEF Backed
    <3> QED
      BY <1>1, <1>2, <1>3, <1>7, <1>8, <3>1, <3>2, <3>3, <3>4 DEF SpendSound
  <2>2. CASE phase = "sni"
    <3>1. k = <<c, "sni">> /\ <<c, "connect">> \in Check \ {k}
      BY <2>2 DEF k, Check, Phase
    <3>2. /\ sni_check(c) = check[k] /\ sni_check(c)' = check'[k]
          /\ check'[<<c, "connect">>] = check[<<c, "connect">>]
      BY <1>2, <3>1 DEF sni_check
    <3>3. conn[c].spent = {} /\ conn'[c].spent = used' \ used
      BY <1>1, <1>2, <1>3, <3>2 DEF SpendSound
    <3>4. ASSUME pauses = 0, check'[k].answer = "admitted", conn[c].at = "sni"
          PROVE  Backed(c)'
      <4>1. ~ check[k].open /\ check[k].dest = conn[c].sni
        BY <1>1, <1>2, <2>2, <3>1, <3>4 DEF SpendSound, CheckSound, named, Phase, k
      <4>2. check[k].may \subseteq DOMAIN grants
        BY <1>1 DEF TypeOK
      <4>3. PICK g \in check[k].may :
              /\ check[k].dest \in grants[g].covers
              /\ grants[g].once /\ check[k].final => g \in used' \ used
        BY <1>4, <3>4, <4>1
      <4>4. used' = used => ~ grants[g].once \/ ~ check[k].final
        BY <4>3
      <4>5. check[k].final
        BY <1>1, <1>2, <3>2 DEF SpendSound
      <4> QED
        BY <1>2, <1>3, <3>3, <4>1, <4>2, <4>3, <4>5 DEF Backed
    <3>5. /\ (conn[c].spent \subseteq used)'
          /\ conn[c].at = "sni" \/ conn[c].late
          /\ sni_asked(c) = {} /\ conn[c].at # "spliced"
          /\ check'[k].answer # "admitted" => conn'[c].spent = {}
      BY <1>1, <1>2, <1>4, <3>2, <3>3 DEF SpendSound
    <3> QED
      BY <1>1, <1>2, <1>3, <1>7, <1>8, <3>2, <3>3, <3>4, <3>5 DEF SpendSound
  <2> QED
    BY <2>1, <2>2 DEF Phase
<1>10. \A d \in Conn \ {c} : conn'[c].spent \cap conn[d].spent = {}
  BY <1>3 DEF SpendInv, SpendSound
<1> QED
  BY <1>2, <1>5, <1>6, <1>9, <1>10, SpendOthers

LEMMA SpendAnswer ==
  ASSUME TypeOK, SpendInv, NEW c \in Conn, NEW phase \in Phase, Answer(c, phase)
  PROVE  SpendInv'
<1> DEFINE k == <<c, phase>>
<1>1. k \in Check /\ check[k] \in Asked /\ SpendSound(c)
  BY DEF Check, TypeOK, SpendInv
<1>2. /\ check[k].on /\ check[k].answer # "none"
      /\ check' = [check EXCEPT ![k] = G!None]
      /\ UNCHANGED <<sent, pauses, grants, used, gate>>
  BY DEF Answer, G!Deliver, G!undecided, G!underway
<1>3. /\ \A l \in Check \ {k} : check'[l] = check[l]
      /\ ~ check'[k].on /\ ~ check'[k].open
  BY <1>1, <1>2 DEF TypeOK, G!None
<1>4. /\ \A d \in Conn \ {c} : conn'[d] = conn[d]
      /\ conn'[c].spent = conn[c].spent
      /\ \/ conn[c].at # phase /\ conn'[c] = conn[c]
         \/ /\ conn[c].at = phase /\ check[k].answer = "refused"
            /\ conn'[c].at = "closed" /\ ~ conn'[c].late
         \/ /\ conn[c].at = phase /\ check[k].answer = "admitted"
            /\ conn'[c].at = IF phase = "connect" THEN "hello" ELSE "spliced"
            /\ conn'[c].late = conn[c].late /\ conn'[c].sni = conn[c].sni
  <2>1. CASE conn[c].at # phase
    BY <2>1 DEF Answer
  <2>2. CASE conn[c].at = phase /\ check[k].answer = "refused"
    <3>1. conn' = [conn EXCEPT ![c] = [Opened EXCEPT !.at = "closed",
                                                    !.spent = conn[c].spent]]
      BY <2>2 DEF Answer
    <3> QED
      BY <2>2, <3>1 DEF TypeOK, Opened
  <2>3. CASE conn[c].at = phase /\ check[k].answer # "refused"
    <3>1. conn' = [conn EXCEPT ![c].at =
                     IF phase = "connect" THEN "hello" ELSE "spliced"]
      BY <2>3 DEF Answer
    <3>2. check[k].answer = "admitted"
      BY <1>1, <1>2, <2>3 DEF Asked, G!Answer
    <3> QED
      BY <2>3, <3>1, <3>2 DEF TypeOK, Connection
  <2> QED
    BY <2>1, <2>2, <2>3
<1> HIDE DEF k
<1>5. Forward
  BY <1>2 DEF Forward, GrantsStay
<1>6. ASSUME NEW d \in Conn \ {c} PROVE SpendSame(d)
  <2>1. ASSUME NEW other \in Phase
        PROVE  check'[<<d, other>>] = check[<<d, other>>]
    BY <1>3 DEF Check, k
  <2> QED
    BY <1>2, <1>4, <2>1 DEF SpendSame, sni_asked
<1>7. SpendSound(c)'
  <2>1. sni_asked(c)' = sni_asked(c)
    BY <1>2 DEF sni_asked
  <2>2. pauses = 0 => \A other \in Phase : ~ check'[<<c, other>>].open
    <3>1. \A other \in Phase : \/ check'[<<c, other>>] = check[<<c, other>>]
                               \/ ~ check'[<<c, other>>].open
      BY <1>3 DEF Check, k
    <3> QED
      BY <1>1, <3>1 DEF SpendSound
  <2>3. Backed(c) /\ conn'[c].sni = conn[c].sni => Backed(c)'
    BY <1>2, <1>4 DEF Backed
  <2>4. CASE phase = "connect"
    <3>1. sni_check(c)' = sni_check(c) /\ ~ check'[<<c, "connect">>].on
      BY <1>3, <2>4 DEF sni_check, Check, Phase, k
    <3>2. ASSUME conn[c].at = "connect"
          PROVE  /\ conn[c].spent = {} /\ ~ conn[c].late
                 /\ sni_asked(c) = {} /\ ~ sni_check(c).on
      BY <1>1, <3>2 DEF SpendSound
    <3>3. CASE conn[c].at # phase
      BY <1>1, <1>2, <1>4, <2>1, <2>2, <2>3, <3>1, <3>3 DEF SpendSound
    <3>4. CASE conn[c].at = phase
      BY <1>1, <1>2, <1>4, <2>1, <2>2, <2>4, <3>1, <3>2, <3>4 DEF SpendSound
    <3> QED
      BY <3>3, <3>4
  <2>5. CASE phase = "sni"
    <3>1. /\ sni_check(c) = check[k] /\ ~ sni_check(c)'.on
          /\ check'[<<c, "connect">>] = check[<<c, "connect">>]
      BY <1>3, <2>5 DEF sni_check, Check, Phase, k
    <3>2. sni_asked(c) = {}
      BY <1>1, <1>2, <3>1 DEF SpendSound
    <3>3. CASE conn[c].at # phase
      BY <1>1, <1>2, <1>4, <2>1, <2>2, <2>3, <3>1, <3>2, <3>3 DEF SpendSound
    <3>4. CASE conn[c].at = phase
      BY <1>1, <1>2, <1>4, <2>1, <2>2, <2>3, <2>5, <3>1, <3>2, <3>4
         DEF SpendSound
    <3> QED
      BY <3>3, <3>4
  <2> QED
    BY <2>4, <2>5 DEF Phase
<1>8. \A d \in Conn \ {c} : conn'[c].spent \cap conn[d].spent = {}
  BY <1>4 DEF SpendInv
<1> QED
  BY <1>2, <1>5, <1>6, <1>7, <1>8, SpendOthers

\* A step that moves no connection.
LEMMA SpendStays ==
  ASSUME SpendInv, Forward, \A c \in Conn : SpendSame(c),
         pauses' = 0 => (gate' => gate)
  PROVE  SpendInv'
<1>1. \A c \in Conn : SpendSound(c)'
  BY SpendKept DEF SpendInv
<1>2. \A c \in Conn : conn'[c].spent = conn[c].spent
  BY DEF SpendSame
<1> QED
  BY <1>1, <1>2 DEF SpendInv, Forward

LEMMA SpendWorld ==
  ASSUME TypeOK, SpendInv, Lose \/ MakeGrant \/ Lapse \/ SetGate
  PROVE  SpendInv'
<1>1. ASSUME UNCHANGED sent, NEW c \in Conn PROVE sni_asked(c)' = sni_asked(c)
  BY <1>1 DEF sni_asked
<1>2. CASE Lose
  <2>1. UNCHANGED <<conn, sent, pauses, grants, used, gate>>
    BY <1>2 DEF Lose, G!Lose
  <2>2. \A c \in Conn : \A phase \in Phase : /\ ~ check'[<<c, phase>>].on
                                             /\ ~ check'[<<c, phase>>].open
    BY <1>2 DEF Lose, G!Lose, G!None, Check
  <2>3. Forward /\ \A c \in Conn : SpendSame(c)
    BY <1>1, <2>1, <2>2 DEF Forward, GrantsStay, SpendSame
  <2> QED
    BY <2>1, <2>3, SpendStays
<1>3. CASE Lapse
  <2>1. UNCHANGED <<conn, sent, pauses, grants, used, check>>
    BY <1>3 DEF Lapse, G!Lapse
  <2>2. gate' => gate
    BY <1>3 DEF Lapse, G!Lapse, TypeOK
  <2>3. Forward /\ \A c \in Conn : SpendSame(c)
    BY <1>1, <2>1 DEF Forward, GrantsStay, SpendSame
  <2> QED
    BY <2>2, <2>3, SpendStays
<1>4. CASE MakeGrant
  <2> DEFINE g == Len(grants) + 1
  <2>1. check' = [k \in Check |->
                    IF check[k].on THEN [check[k] EXCEPT !.may = @ \cup {g}]
                                   ELSE check[k]]
    BY <1>4 DEF MakeGrant, G!MakeGrant, G!underway
  <2>2. UNCHANGED <<sent, pauses, used, gate>>
    BY <1>4 DEF MakeGrant, G!MakeGrant
  <2>3. DOMAIN grants \subseteq DOMAIN grants' /\ GrantsStay
    <3>1. PICK covers \in SUBSET Dest, once \in BOOLEAN :
            grants' = Append(grants, [covers |-> covers, once |-> once])
      BY <1>4 DEF MakeGrant, G!MakeGrant
    <3> QED
      BY <3>1 DEF TypeOK, GrantsStay
  <2>4. ASSUME NEW c \in Conn PROVE SpendSame(c)
    <3>1. /\ conn'[c].at = conn[c].at /\ conn'[c].sni = conn[c].sni
          /\ conn'[c].late = conn[c].late /\ conn'[c].spent = conn[c].spent
      BY <1>4 DEF MakeGrant, TypeOK, Connection
    <3>2. \A k \in Check : /\ check'[k].on = check[k].on
                           /\ check'[k].answer = check[k].answer
                           /\ check'[k].final = check[k].final
                           /\ check'[k].open = check[k].open
      BY <2>1 DEF TypeOK, Asked
    <3> QED
      BY <1>1, <2>2, <3>1, <3>2 DEF SpendSame, Check
  <2> QED
    BY <2>2, <2>3, <2>4, SpendStays DEF Forward
<1>5. CASE SetGate
  <2>1. PICK opened \in [Check -> BOOLEAN] :
          check' = [k \in Check |->
                      IF check[k].on
                      THEN [check[k] EXCEPT !.open = @ \/ opened[k]]
                      ELSE check[k]]
    BY <1>5 DEF SetGate, G!SetGate, G!underway
  <2>2. UNCHANGED <<sent, grants, used>> /\ pauses' # 0
    BY <1>5 DEF SetGate, G!SetGate, TypeOK
  <2>3. ASSUME NEW c \in Conn PROVE SpendSame(c)
    <3>1. /\ conn'[c].at = conn[c].at /\ conn'[c].sni = conn[c].sni
          /\ conn'[c].late = conn[c].late /\ conn'[c].spent = conn[c].spent
      BY <1>5 DEF SetGate, TypeOK, Connection
    <3>2. \A k \in Check : /\ check'[k].on = check[k].on
                           /\ check'[k].answer = check[k].answer
                           /\ check'[k].final = check[k].final
      BY <2>1 DEF TypeOK, Asked
    <3> QED
      BY <1>1, <2>2, <3>1, <3>2 DEF SpendSame, Check
  <2> QED
    BY <2>2, <2>3, SpendStays DEF Forward, GrantsStay
<1> QED
  BY <1>2, <1>3, <1>4, <1>5

LEMMA SpendNext ==
  ASSUME TypeOK, AskInv, SpendInv, [Next]_vars
  PROVE  SpendInv'
<1>1. ASSUME NEW c \in Conn, Connect(c) \/ Hello(c) \/ GiveUp(c) PROVE SpendInv'
  <2>1. "connect" \in Phase /\ "sni" \in Phase
    BY DEF Phase
  <2> QED
    BY <1>1, <2>1, SpendAsk, SpendClose DEF Connect, Hello, GiveUp
<1>2. CASE UNCHANGED vars
  <2>1. Forward /\ \A c \in Conn : SpendSame(c)
    BY <1>2 DEF vars, brokerVars, Forward, GrantsStay, SpendSame, sni_asked
  <2> QED
    BY <1>2, <2>1, SpendStays DEF vars, brokerVars
<1> QED
  BY <1>1, <1>2, SpendTake, SpendDecide, SpendAnswer, SpendWorld DEF Next

LEMMA SpendAlways == Spec => []SpendInv
<1>1. Init => SpendInv
  BY DEF Init, SpendInv, SpendSound, Opened, sni_check, sni_asked, Phase, Check,
         G!None
<1>2. Init => AskInv
  BY DEF Init, AskInv, Opened, CheckSound, ConnSound, asking, Phase, Check,
         G!None
<1> QED
  BY <1>1, <1>2, AskNext, SpendNext, TypeCorrect, PTL DEF Spec

\* No connection spends a grant and is then refused while its helper listens.
THEOREM NothingSpentInVain == Spec => []SpentIsUsed
<1>1. SpendInv => SpentIsUsed
  BY DEF SpendInv, SpendSound, SpentIsUsed
<1> QED
  BY <1>1, SpendAlways, PTL

\* A connection that is spliced has spent a grant of its own.
LEMMA SplicedHaveSpent ==
  ASSUME TypeOK, SpendInv
  PROVE  OnceOneConnection
<1> SUFFICES ASSUME NEW d \in Dest, pauses = 0,
                    \A g \in covering(d) : grants[g].once
             PROVE  Cardinality(spliced_to(d)) <= Cardinality(covering(d))
  BY DEF OnceOneConnection
<1> DEFINE mine(c) == conn[c].spent \cap covering(d)
           f == [c \in spliced_to(d) |-> CHOOSE g \in mine(c) : TRUE]
<1>1. ASSUME NEW c \in spliced_to(d) PROVE mine(c) # {}
  <2>1. c \in Conn /\ conn[c].at = "spliced" /\ conn[c].sni = d
    BY DEF spliced_to
  <2>2. Backed(c)
    BY <2>1 DEF SpendInv, SpendSound
  <2>3. PICK g \in DOMAIN grants : /\ d \in grants[g].covers
                                   /\ grants[g].once => g \in conn[c].spent
    BY <2>1, <2>2 DEF Backed
  <2> QED
    BY <2>3 DEF covering
<1>2. \A c \in spliced_to(d) : f[c] \in mine(c)
  BY <1>1
<1>3. f \in Injection(spliced_to(d), covering(d))
  <2>1. f \in [spliced_to(d) -> covering(d)]
    BY <1>2
  <2>2. ASSUME NEW b \in spliced_to(d), NEW c \in spliced_to(d), f[b] = f[c]
        PROVE  b = c
    <3>1. b \in Conn /\ c \in Conn
      BY DEF spliced_to
    <3>2. f[b] \in conn[b].spent \cap conn[c].spent
      BY <1>2, <2>2
    <3> QED
      BY <3>1, <3>2 DEF SpendInv
  <2> HIDE DEF f
  <2> QED
    BY <2>1, <2>2 DEF Injection, IsInjective
<1>4. IsFiniteSet(covering(d))
  <2>1. DOMAIN grants = 1..Len(grants) /\ Len(grants) \in Nat
    BY DEF TypeOK
  <2>2. IsFiniteSet(1..Len(grants))
    BY <2>1, FS_Interval
  <2>3. covering(d) \in SUBSET (1..Len(grants))
    BY <2>1 DEF covering
  <2> QED
    BY <2>2, <2>3, FS_Subset
<1> HIDE DEF f
<1> QED
  BY <1>3, <1>4, FS_Injection

\* One-use grants let no more connections through than there are grants.
THEOREM OneConnectionEach == Spec => []OnceOneConnection
BY SplicedHaveSpent, SpendAlways, TypeCorrect, PTL
=============================================================================
