-------------------------------- MODULE Gate --------------------------------
(***************************************************************************)
(* What agent-filter promises of the gate, with no database, lock, clock   *)
(* or process in it.  The operator makes grants, withdraws them, opens the *)
(* gate and shuts it; checks come and are admitted or refused.             *)
(*                                                                         *)
(* A check is admitted by a grant that covers its destination and was not  *)
(* yet withdrawn when the check began, or was made since; or because the   *)
(* gate was open when it began, or opened since.  A grant for one use      *)
(* admits one final check.  A forbidden destination is never admitted.     *)
(* Nothing else is promised: any check may be refused, or never answered.  *)
(***************************************************************************)
EXTENDS Naturals, Sequences

CONSTANTS
  Check,      \* names of checks that can be under way together
  Dest,       \* destinations
  Nowhere,    \* what is asked for is not a destination
  Forbidden   \* destinations that are never admitted

VARIABLES
  grants,  \* every grant made: what it covers, whether it is for one use
  live,    \* the grants not withdrawn
  used,    \* the one-use grants that have admitted a final check
  gate,    \* is the gate open?
  check    \* the checks under way and the answer they are to get

gateVars == <<grants, live, used, gate, check>>

Answer == {"none", "admitted", "refused"}

\* may: the grants that may admit the check; open: so may the open gate.
None == [dest |-> Nowhere, final |-> FALSE, may |-> {}, open |-> FALSE,
         answer |-> "none", on |-> FALSE]

underway(c) == check[c].on

undecided(c) == underway(c) /\ check[c].answer = "none"

Init ==
  /\ grants \in Seq([covers : SUBSET Dest, once : BOOLEAN])
  /\ live \subseteq DOMAIN grants
  /\ used \subseteq DOMAIN grants
  /\ gate = FALSE
  /\ check = [c \in Check |-> None]

\* A check begins, and may be refused at once.
Begin(c) ==
  /\ ~ underway(c)
  /\ \E d \in Dest \cup {Nowhere}, final \in BOOLEAN,
        answer \in {"none", "refused"} :
       check' = [check EXCEPT ![c] =
                   [dest |-> d, final |-> final, may |-> live, open |-> gate,
                    answer |-> answer, on |-> TRUE]]
  /\ UNCHANGED <<grants, live, used, gate>>

\* A new grant may admit the checks already under way.  One that takes
\* effect after its time has run out is never live.
MakeGrant ==
  LET g == Len(grants) + 1
  IN  /\ \E covers \in SUBSET Dest, once \in BOOLEAN :
           grants' = Append(grants, [covers |-> covers, once |-> once])
      /\ live' = live \/ live' = live \cup {g}
      /\ check' = [c \in Check |->
                     IF underway(c) THEN [check[c] EXCEPT !.may = @ \cup {g}]
                                    ELSE check[c]]
      /\ UNCHANGED <<used, gate>>

\* Grants are revoked or expire; the time the gate was open ends.
Lapse ==
  /\ live' \subseteq live
  /\ gate' = gate \/ gate' = FALSE
  /\ UNCHANGED <<grants, used, check>>

\* The operator opens or shuts the gate; either way it may have been open,
\* for an instant, to the checks under way.
SetGate ==
  /\ gate' \in BOOLEAN
  /\ \E opened \in [Check -> BOOLEAN] :
       check' = [c \in Check |->
                   IF underway(c) THEN [check[c] EXCEPT !.open = @ \/ opened[c]]
                                  ELSE check[c]]
  /\ UNCHANGED <<grants, live, used>>

Decide(c, answer) ==
  /\ undecided(c)
  /\ check' = [check EXCEPT ![c].answer = answer]
  /\ UNCHANGED <<grants, gate>>

Admit(c) ==
  /\ check[c].dest \in Dest \ Forbidden
  /\ Decide(c, "admitted")

\* A one-use grant is withdrawn by the final check it admits.
AdmitByGrant(c) ==
  /\ Admit(c)
  /\ \E g \in check[c].may :
       /\ check[c].dest \in grants[g].covers
       /\ IF grants[g].once /\ check[c].final
          THEN /\ g \notin used
               /\ used' = used \cup {g}
               /\ live' = live \ {g}
          ELSE UNCHANGED <<used, live>>

AdmitByGate(c) ==
  /\ Admit(c)
  /\ check[c].open
  /\ UNCHANGED <<used, live>>

Refuse(c) ==
  /\ Decide(c, "refused")
  /\ UNCHANGED <<used, live>>

\* The answer reaches the one who asked.
Deliver(c) ==
  /\ underway(c) /\ ~ undecided(c)
  /\ check' = [check EXCEPT ![c] = None]
  /\ UNCHANGED <<grants, live, used, gate>>

\* Every check under way is lost.
Lose ==
  /\ check' = [c \in Check |-> None]
  /\ UNCHANGED <<grants, live, used, gate>>

Next ==
  \/ \E c \in Check : \/ Begin(c) \/ AdmitByGrant(c) \/ AdmitByGate(c)
                      \/ Refuse(c) \/ Deliver(c)
  \/ MakeGrant \/ Lapse \/ SetGate \/ Lose

Spec == Init /\ [][Next]_gateVars
=============================================================================
