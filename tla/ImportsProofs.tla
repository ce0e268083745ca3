--------------------------- MODULE ImportsProofs ---------------------------
(***************************************************************************)
(* Proofs about bulk imports, for any lists, any number of imports and     *)
(* whatever the operator and the other process do meanwhile.  The          *)
(* invariant says what an import knows as long as no other process has     *)
(* committed since it began: the lines behind it are provided for, and     *)
(* what it has just looked up is still so when it writes.  From the first  *)
(* commit of another process on it knows nothing but the types of what it  *)
(* holds.                                                                  *)
(***************************************************************************)
EXTENDS Imports, WellFoundedInduction, TLAPS

Place == {"idle", "look", "add", "describe", "finish"}

Note == Text \cup {NoText}

AnyList == [kind : ListKind, source : Source, lines : Seq(Line)]

ImportTypes ==
  /\ StoreTypeOK
  /\ notes \in Seq(Note) /\ Len(notes) = Len(allowlist)
  /\ DOMAIN draft \subseteq DOMAIN notes
  /\ \A i \in DOMAIN draft : draft[i] \in Note
  /\ at \in [Process -> Place] /\ list \in [Process -> AnyList]
  /\ line \in [Process -> Nat] /\ ts \in [Process -> Nat]
  /\ hit \in [Process -> Nat]
  /\ touched \in [Process -> BOOLEAN]
  /\ list["brokerctl"].kind = "file"

\* What an import holds, whoever interferes.
Underway(p) ==
  at[p] # "idle" =>
    /\ line[p] \in 1..Len(list[p].lines)
    /\ at[p] \in {"add", "describe"} => ~ bad(current(p))
    /\ at[p] = "describe" => hit[p] \in DOMAIN notes
    /\ at[p] = "finish" => line[p] = Len(list[p].lines)

provided(l, t) == bad(l) \/ present(l, t) # {}

\* What it knows as long as nobody has interfered.
Progress(p) ==
  at[p] # "idle" /\ ~ touched[p] =>
    /\ \A k \in 1..line[p] :
         k < line[p] \/ at[p] \in {"describe", "finish"} =>
           provided(list[p].lines[k], ts[p])
    /\ at[p] = "add" => present(current(p), ts[p]) = {}
    /\ at[p] = "describe" => describes(p, current(p), hit[p])

\* The panel's uncommitted descriptions are those of pasted text, for entries
\* that had none.
DraftInv ==
  /\ draft # Clean => at["panel"] # "idle" /\ list["panel"].kind = "text"
  /\ touched["panel"] \/ \A i \in DOMAIN draft : notes[i] = NoText

ImportInv ==
  /\ ImportTypes /\ DraftInv
  /\ \A p \in Process : Underway(p) /\ Progress(p)

----------------------------------------------------------------------------
(* Sequences and the table.                                                *)

LEMMA MinIsLeast ==
  ASSUME NEW S, S \subseteq Nat, S # {}
  PROVE  Min(S) \in S
<1> DEFINE less == OpToRel(<, Nat)
<1>1. \A a, b \in Nat : b < a => <<b, a>> \in less
  BY DEF OpToRel
<1>2. IsWellFoundedOn(less, Nat)
  BY NatLessThanWellFounded
<1> HIDE DEF less
<1>3. PICK x \in S : \A y \in S : ~ (<<y, x>> \in less)
  BY <1>2, WFMin
<1>4. ASSUME NEW y \in S PROVE x <= y
  <2>1. x \in Nat /\ y \in Nat
    OBVIOUS
  <2>2. ~ (y < x)
    BY <1>1, <1>3, <2>1
  <2> QED
    BY <2>1, <2>2
<1> QED
  BY <1>4 DEF Min

LEMMA FunctionIsSeq ==
  ASSUME NEW S, NEW n \in Nat, NEW f, f = [i \in 1 .. n |-> f[i]],
         \A i \in 1 .. n : f[i] \in S
  PROVE  f \in Seq(S) /\ Len(f) = n /\ DOMAIN f = 1 .. n
<1>1. f \in [1 .. n -> S]
  OBVIOUS
<1> QED
  BY <1>1

LEMMA Appended ==
  ASSUME NEW S, NEW s \in Seq(S), NEW e \in S
  PROVE  /\ Append(s, e) \in Seq(S) /\ Len(Append(s, e)) = Len(s) + 1
         /\ DOMAIN Append(s, e) = DOMAIN s \cup {Len(s) + 1}
         /\ \A i \in DOMAIN s : Append(s, e)[i] = s[i]
         /\ Append(s, e)[Len(s) + 1] = e
<1>1. Append(s, e) \in Seq(S) /\ Len(Append(s, e)) = Len(s) + 1
  OBVIOUS
<1>2. DOMAIN Append(s, e) = 1..(Len(s) + 1) /\ DOMAIN s = 1..Len(s)
      /\ Len(s) \in Nat
  BY <1>1
<1>3. 1..(Len(s) + 1) = 1..Len(s) \cup {Len(s) + 1}
  BY <1>2
<1>4. \A i \in 1..Len(s) : Append(s, e)[i] = s[i]
  OBVIOUS
<1>5. Append(s, e)[Len(s) + 1] = e
  OBVIOUS
<1> QED
  BY <1>1, <1>2, <1>3, <1>4, <1>5

\* The descriptions as the panel sees them.
LEMMA DraftedType ==
  ASSUME ImportTypes
  PROVE  /\ drafted \in Seq(Note) /\ Len(drafted) = Len(notes)
         /\ DOMAIN drafted = DOMAIN notes
         /\ \A i \in DOMAIN notes :
              drafted[i] = IF i \in DOMAIN draft THEN draft[i] ELSE notes[i]
<1>1. Len(notes) \in Nat /\ DOMAIN notes = 1..Len(notes)
  BY DEF ImportTypes
<1>2. /\ drafted = [i \in 1..Len(notes) |-> drafted[i]]
      /\ \A i \in 1..Len(notes) :
           drafted[i] = IF i \in DOMAIN draft THEN draft[i] ELSE notes[i]
  BY <1>1 DEF drafted
<1>3. ASSUME NEW i \in 1..Len(notes) PROVE drafted[i] \in Note
  <2>1. notes[i] \in Note
    BY DEF ImportTypes
  <2>2. i \in DOMAIN draft => draft[i] \in Note
    BY DEF ImportTypes
  <2> QED
    BY <1>2, <2>1, <2>2
<1> QED
  BY <1>1, <1>2, <1>3, FunctionIsSeq

\* The row of a line to be added, and of the operator's.
LEMMA NewRowType ==
  ASSUME StoreTypeOK, NEW h \in Host, NEW p \in Port, NEW scope \in Scope,
         NEW expires \in Nat \cup {Null}, NEW source \in Source
  PROVE  new_row(h, "exact", p, scope, expires, source) \in Row
BY DEF new_row, Row, Kind, StoreTypeOK

\* The INSERT keeps the rows there are, and with them what is present.
LEMMA AddGrows ==
  ASSUME StoreTypeOK, NEW row \in Row, add_allowlist(row)
  PROVE  /\ allowlist' \in Seq(Row) /\ Len(allowlist') = Len(allowlist) + 1
         /\ DOMAIN allowlist' = DOMAIN allowlist \cup {Len(allowlist) + 1}
         /\ \A i \in DOMAIN allowlist : allowlist'[i] = allowlist[i]
         /\ allowlist'[Len(allowlist) + 1] = row
BY Appended DEF add_allowlist, StoreTypeOK

\* The UPDATE of a withdrawal keeps the rows' number and their source.
LEMMA RetireKeeps ==
  ASSUME StoreTypeOK, NEW ids, NEW t \in Nat, retire(ids, t)
  PROVE  /\ allowlist' \in Seq(Row) /\ Len(allowlist') = Len(allowlist)
<1>1. Len(allowlist) \in Nat /\ DOMAIN allowlist = 1..Len(allowlist)
  BY DEF StoreTypeOK
<1>2. allowlist' = [i \in 1..Len(allowlist) |-> allowlist'[i]]
  BY <1>1 DEF retire
<1>3. ASSUME NEW i \in 1..Len(allowlist) PROVE allowlist'[i] \in Row
  <2>1. allowlist[i] \in Row
    BY <1>1 DEF StoreTypeOK
  <2>2. [allowlist[i] EXCEPT !.expires = t] \in Row
    BY <2>1 DEF Row
  <2> QED
    BY <1>1, <2>1, <2>2 DEF retire
<1> QED
  BY <1>1, <1>2, <1>3, FunctionIsSeq

\* What is present stays so when a row is added.
LEMMA StaysPresent ==
  ASSUME StoreTypeOK, NEW row \in Row, add_allowlist(row),
         NEW l, NEW t, provided(l, t)
  PROVE  provided(l, t)'
<1>1. CASE bad(l)
  BY <1>1 DEF provided
<1>2. CASE present(l, t) # {}
  <2>1. PICK i \in present(l, t) : TRUE
    BY <1>2
  <2>2. i \in DOMAIN allowlist /\ i \in DOMAIN allowlist'
        /\ allowlist'[i] = allowlist[i]
    BY <2>1, AddGrows DEF present
  <2>3. i \in present(l, t)'
    BY <2>1, <2>2 DEF present
  <2> QED
    BY <2>3 DEF provided
<1> QED
  BY <1>1, <1>2 DEF provided

----------------------------------------------------------------------------
(* What a step leaves of the imports.                                      *)

Rests(q) ==
  /\ at'[q] = at[q] /\ list'[q] = list[q] /\ line'[q] = line[q]
  /\ ts'[q] = ts[q] /\ hit'[q] = hit[q]

\* An import that does not move itself: another process has committed, or
\* nothing it can see has changed.
LEMMA OthersKeep ==
  ASSUME ImportInv, NEW q \in Process, Rests(q), DOMAIN notes \subseteq DOMAIN notes',
         \/ at[q] = "idle" \/ touched'[q]
         \/ /\ touched'[q] = touched[q] /\ UNCHANGED <<allowlist, notes>>
            /\ q = "panel" => UNCHANGED draft
  PROVE  Underway(q)' /\ Progress(q)'
<1>1. Underway(q) /\ Progress(q)
  BY DEF ImportInv
<1>2. Underway(q)'
  BY <1>1 DEF Rests, Underway, current
<1>3. CASE at[q] = "idle" \/ touched'[q]
  BY <1>2, <1>3 DEF Rests, Progress
<1>4. CASE /\ touched'[q] = touched[q] /\ UNCHANGED <<allowlist, notes>>
           /\ q = "panel" => UNCHANGED draft
  <2>1. PICK lst, n, t, h : lst = list[q] /\ n = line[q] /\ t = ts[q] /\ h = hit[q]
    OBVIOUS
  <2>2. list'[q] = lst /\ line'[q] = n /\ ts'[q] = t /\ hit'[q] = h
    BY <2>1 DEF Rests
  <2>3. \A l : present(l, t)' = present(l, t) /\ (provided(l, t)' <=> provided(l, t))
    BY <1>4 DEF present, provided
  <2>4. \A i : note_seen(q, i)' = note_seen(q, i)
    BY <1>4 DEF note_seen, drafted
  <2>5. \A l : describes(q, l, h)' <=> describes(q, l, h)
    BY <1>4, <2>1, <2>2, <2>4 DEF describes
  <2>6. current(q) = lst.lines[n] /\ current(q)' = lst.lines[n]
    BY <2>1, <2>2 DEF current
  <2>7. ASSUME at[q] # "idle" /\ ~ touched[q]
        PROVE  /\ \A k \in 1..n : k < n \/ at[q] \in {"describe", "finish"} =>
                                   provided(lst.lines[k], t)
               /\ at[q] = "add" => present(lst.lines[n], t) = {}
               /\ at[q] = "describe" => describes(q, lst.lines[n], h)
    BY <1>1, <2>1, <2>6, <2>7 DEF Progress
  <2>8. ASSUME at'[q] # "idle" /\ ~ touched'[q]
        PROVE  /\ \A k \in 1..n : k < n \/ at'[q] \in {"describe", "finish"} =>
                                   provided(lst.lines[k], t)'
               /\ at'[q] = "add" => present(lst.lines[n], t)' = {}
               /\ at'[q] = "describe" => describes(q, lst.lines[n], h)'
    <3>1. at'[q] = at[q] /\ ~ touched[q]
      BY <1>4, <2>8 DEF Rests
    <3> QED
      BY <2>3, <2>5, <2>7, <2>8, <3>1
  <2>9. Progress(q)'
    BY <2>2, <2>8 DEF Progress, current
  <2> QED
    BY <1>2, <2>9
<1> QED
  BY <1>3, <1>4

\* An import done with its line goes on knowing that the line is provided
\* for.
LEMMA NextLineKeeps ==
  ASSUME ImportInv, NEW p \in Process, NextLine(p), at[p] # "idle",
         list' = list, ts' = ts, touched'[p] = touched[p],
         NEW lst, NEW n, NEW t, lst = list[p], n = line[p], t = ts[p],
         ~ touched[p] => \A k \in 1..n : provided(lst.lines[k], t)'
  PROVE  /\ at' \in [Process -> Place] /\ line' \in [Process -> Nat]
         /\ \A q \in Process \ {p} : at'[q] = at[q] /\ line'[q] = line[q]
         /\ at'[p] # "idle"
         /\ Underway(p)' /\ Progress(p)'
<1>1. /\ at \in [Process -> Place] /\ line \in [Process -> Nat]
      /\ n \in 1..Len(lst.lines) /\ n \in Nat /\ Len(lst.lines) \in Nat
  <2>1. lst.lines \in Seq(Line)
    BY DEF ImportInv, ImportTypes, AnyList
  <2> QED
    BY <2>1 DEF ImportInv, ImportTypes, Underway
<1>2. CASE n < Len(lst.lines)
  <2>1. line' = [line EXCEPT ![p] = n + 1] /\ at' = [at EXCEPT ![p] = "look"]
    BY <1>2 DEF NextLine
  <2>2. line'[p] = n + 1 /\ at'[p] = "look" /\ list'[p] = lst /\ ts'[p] = t
    BY <1>1, <2>1
  <2>3. Underway(p)'
    BY <1>1, <1>2, <2>2 DEF Underway
  <2>4. Progress(p)'
    <3>1. ASSUME ~ touched[p], NEW k \in 1..(n + 1), k < n + 1
          PROVE  provided(lst.lines[k], t)'
      BY <1>1, <3>1
    <3> QED
      BY <2>2, <3>1 DEF Progress
  <2> QED
    BY <1>1, <2>1, <2>2, <2>3, <2>4 DEF Place
<1>3. CASE ~ (n < Len(lst.lines))
  <2>1. line' = line /\ at' = [at EXCEPT ![p] = "finish"]
    BY <1>3 DEF NextLine
  <2>2. line'[p] = n /\ at'[p] = "finish" /\ list'[p] = lst /\ ts'[p] = t
    BY <1>1, <2>1
  <2>3. Underway(p)'
    BY <1>1, <1>3, <2>2 DEF Underway
  <2>4. Progress(p)'
    BY <2>2 DEF Progress
  <2> QED
    BY <1>1, <2>1, <2>2, <2>3, <2>4 DEF Place
<1> QED
  BY <1>2, <1>3

----------------------------------------------------------------------------
(* The steps.                                                              *)

LEMMA BeginKeeps ==
  ASSUME ImportInv, NEW p \in Process, NEW lst \in Lists, Begin(p, lst),
         p = "brokerctl" => lst.kind = "file"
  PROVE  ImportInv'
<1>1. ImportTypes /\ DraftInv /\ lst \in AnyList
  BY ImportAssumption DEF ImportInv, AnyList
<1>2. /\ at[p] = "idle" /\ lst.lines # <<>>
      /\ list' = [list EXCEPT ![p] = lst] /\ line' = [line EXCEPT ![p] = 1]
      /\ ts' = [ts EXCEPT ![p] = clock] /\ at' = [at EXCEPT ![p] = "look"]
      /\ UNCHANGED <<allowlist, requests, paused_until, clock, notes, draft, hit,
                     touched>>
  BY DEF Begin, storeVars
<1>3. clock \in Nat
  BY <1>1 DEF ImportTypes, StoreTypeOK
<1>4. ImportTypes'
  <2>1. StoreTypeOK'
    BY <1>1, <1>2 DEF ImportTypes, StoreTypeOK, Row, Request
  <2> QED
    BY <1>1, <1>2, <1>3, <2>1 DEF ImportTypes, Place, Process
<1>5. DraftInv'
  BY <1>1, <1>2 DEF DraftInv, ImportTypes, Process
<1>6. ASSUME NEW q \in Process PROVE Underway(q)' /\ Progress(q)'
  <2>1. CASE q # p
    <3>1. Rests(q)
      BY <1>1, <1>2, <2>1 DEF Rests, ImportTypes
    <3> QED
      BY <1>2, <3>1, OthersKeep
  <2>2. CASE q = p
    <3>1. list'[q] = lst /\ line'[q] = 1 /\ at'[q] = "look"
      BY <1>1, <1>2, <2>2 DEF ImportTypes
    <3>2. 1 \in 1..Len(lst.lines)
      BY <1>1, <1>2 DEF AnyList
    <3> QED
      BY <3>1, <3>2 DEF Underway, Progress
  <2> QED
    BY <2>1, <2>2
<1> QED
  BY <1>4, <1>5, <1>6 DEF ImportInv

LEMMA LookUpKeeps ==
  ASSUME ImportInv, NEW p \in Process, LookUp(p)
  PROVE  ImportInv'
<1>1. ImportTypes /\ DraftInv /\ Underway(p) /\ Progress(p)
  BY DEF ImportInv
<1>2. /\ at[p] = "look"
      /\ UNCHANGED <<allowlist, requests, paused_until, clock, notes, draft,
                     list, ts, touched>>
  BY DEF LookUp, storeVars
<1> DEFINE ids == present(current(p), ts[p])
<1>3. PICK lst, n, t : lst = list[p] /\ n = line[p] /\ t = ts[p]
  OBVIOUS
<1>4. /\ current(p) = lst.lines[n] /\ n \in Nat /\ n \in 1..Len(lst.lines)
      /\ list'[p] = lst /\ ts'[p] = t
  BY <1>1, <1>2, <1>3 DEF current, Underway, ImportTypes
<1>5. \A l : provided(l, t)' <=> provided(l, t)
  BY <1>2 DEF provided, present
<1>6. ~ touched[p] => \A k \in 1..n : k < n => provided(lst.lines[k], t)'
  BY <1>1, <1>2, <1>3, <1>5 DEF Progress
<1>7. ids \subseteq DOMAIN notes /\ ids \subseteq Nat
  BY <1>1 DEF present, ImportTypes, StoreTypeOK
<1>8. hit' \in [Process -> Nat] /\ \A q \in Process \ {p} : hit'[q] = hit[q]
  <2>1. \/ UNCHANGED hit
        \/ ids # {} /\ hit' = [hit EXCEPT ![p] = Min(ids)]
    BY DEF LookUp
  <2>2. ids # {} => Min(ids) \in Nat
    BY <1>7, MinIsLeast
  <2> HIDE DEF ids
  <2> QED
    BY <1>1, <2>1, <2>2 DEF ImportTypes
<1>9. /\ at' \in [Process -> Place] /\ line' \in [Process -> Nat]
      /\ \A q \in Process \ {p} : at'[q] = at[q] /\ line'[q] = line[q]
      /\ at'[p] # "idle"
      /\ Underway(p)' /\ Progress(p)'
  <2>1. ASSUME bad(current(p)) \/ ids # {}, NextLine(p)
        PROVE  <1>9!:
    <3>1. provided(lst.lines[n], t)
      BY <1>3, <1>4, <2>1 DEF provided
    <3>2. ~ touched[p] => \A k \in 1..n : provided(lst.lines[k], t)'
      BY <1>4, <1>5, <1>6, <3>1
    <3> QED
      BY <1>2, <1>3, <2>1, <3>2, NextLineKeeps
  <2>2. CASE bad(current(p))
    BY <2>1, <2>2 DEF LookUp
  <2>3. CASE ~ bad(current(p)) /\ ids = {}
    <3>1. at' = [at EXCEPT ![p] = "add"] /\ UNCHANGED <<line, hit>>
      BY <2>3 DEF LookUp
    <3>2. at'[p] = "add" /\ line'[p] = n /\ current(p)' = lst.lines[n]
      BY <1>1, <1>3, <1>4, <3>1 DEF ImportTypes, current
    <3>3. Underway(p)'
      BY <1>3, <1>4, <2>3, <3>2 DEF Underway
    <3>4. present(lst.lines[n], t)' = {}
      BY <1>2, <1>3, <1>4, <2>3 DEF present
    <3>5. Progress(p)'
      BY <1>2, <1>4, <1>6, <3>2, <3>4 DEF Progress
    <3> QED
      BY <1>1, <3>1, <3>3, <3>5 DEF ImportTypes, Place
  <2>4. CASE ~ bad(current(p)) /\ ids # {} /\ ~ describes(p, current(p), Min(ids))
    <3>1. NextLine(p)
      BY <2>4 DEF LookUp
    <3> QED
      BY <2>1, <2>4, <3>1
  <2>5. CASE ~ bad(current(p)) /\ ids # {} /\ describes(p, current(p), Min(ids))
    <3>1. at' = [at EXCEPT ![p] = "describe"] /\ UNCHANGED line
          /\ hit' = [hit EXCEPT ![p] = Min(ids)]
      BY <2>5 DEF LookUp
    <3>2. PICK h : h = Min(ids)
      OBVIOUS
    <3>3. h \in DOMAIN notes
      BY <1>7, <2>5, <3>2, MinIsLeast
    <3>4. hit'[p] = h
      BY <1>1, <3>1, <3>2 DEF ImportTypes
    <3>5. at'[p] = "describe" /\ line'[p] = n /\ current(p)' = lst.lines[n]
      BY <1>1, <1>3, <1>4, <3>1 DEF ImportTypes, current
    <3>6. Underway(p)'
      BY <1>2, <1>3, <1>4, <2>5, <3>3, <3>4, <3>5 DEF Underway
    <3>7. describes(p, lst.lines[n], h)
      BY <1>4, <2>5, <3>2
    <3>8. describes(p, lst.lines[n], h)'
      BY <1>2, <3>7 DEF describes, note_seen, drafted
    <3>9. provided(lst.lines[n], t)'
      BY <1>3, <1>4, <1>5, <2>5 DEF provided
    <3>10. ~ touched[p] => \A k \in 1..n : provided(lst.lines[k], t)'
      BY <1>4, <1>6, <3>9
    <3>11. Progress(p)'
      BY <1>2, <1>4, <3>4, <3>5, <3>8, <3>10 DEF Progress
    <3> QED
      BY <1>1, <3>1, <3>6, <3>11 DEF ImportTypes, Place
  <2> QED
    BY <2>2, <2>3, <2>4, <2>5
<1>10. ImportTypes'
  <2>1. StoreTypeOK'
    BY <1>1, <1>2 DEF ImportTypes, StoreTypeOK, Row, Request
  <2> QED
    BY <1>1, <1>2, <1>8, <1>9, <2>1 DEF ImportTypes
<1>11. DraftInv'
  BY <1>1, <1>2, <1>9 DEF DraftInv, Process
<1>12. ASSUME NEW q \in Process, q # p PROVE Underway(q)' /\ Progress(q)'
  <2>1. Rests(q)
    BY <1>2, <1>8, <1>9, <1>12 DEF Rests
  <2> QED
    BY <1>2, <2>1, OthersKeep
<1> QED
  BY <1>9, <1>10, <1>11, <1>12 DEF ImportInv

\* The line an import adds or describes is a line, and not a refused one.
LEMMA CurrentLine ==
  ASSUME ImportInv, NEW p \in Process, at[p] \in {"add", "describe"}
  PROVE  /\ current(p).host \in Host /\ current(p).port \in Port
         /\ current(p).text \in Note
         /\ line[p] \in 1..Len(list[p].lines)
<1>1. Underway(p) /\ ~ bad(current(p)) /\ line[p] \in 1..Len(list[p].lines)
  BY DEF ImportInv, Underway
<1>2. list[p].lines \in Seq(Line)
  BY DEF ImportInv, ImportTypes, AnyList
<1>3. current(p) \in Line
  BY <1>1, <1>2 DEF current
<1> QED
  BY <1>1, <1>3 DEF Line, Note, bad

\* After a commit of p the others know of it.
LEMMA CommitTouches ==
  ASSUME ImportTypes, NEW p \in Process, CommitBy(p)
  PROVE  /\ touched' \in [Process -> BOOLEAN] /\ touched'[p] = touched[p]
         /\ \A q \in Process \ {p} : at[q] = "idle" \/ touched'[q]
<1>1. \A q \in Process : touched'[q] = (touched[q] \/ (q # p /\ at[q] # "idle"))
  BY DEF CommitBy
<1>2. touched' = [q \in Process |-> touched'[q]]
  BY DEF CommitBy
<1>3. \A q \in Process : touched'[q] \in BOOLEAN
  BY <1>1 DEF ImportTypes
<1>4. touched'[p] = touched[p]
  <2>1. touched[p] \in BOOLEAN
    BY DEF ImportTypes
  <2> QED
    BY <1>1, <2>1
<1> QED
  BY <1>1, <1>2, <1>3, <1>4

LEMMA AddKeeps ==
  ASSUME ImportInv, NEW p \in Process, Add(p)
  PROVE  ImportInv'
<1>1. ImportTypes /\ DraftInv /\ Underway(p) /\ Progress(p) /\ StoreTypeOK
  BY DEF ImportInv, ImportTypes
<1>2. /\ at[p] = "add" /\ may_write(p) /\ NextLine(p) /\ CommitBy(p)
      /\ UNCHANGED <<requests, paused_until, clock, list, ts, hit>>
  BY DEF Add
<1>3. PICK lst, n, t : lst = list[p] /\ n = line[p] /\ t = ts[p]
  OBVIOUS
<1>4. PICK l : l = current(p)
  OBVIOUS
<1>5. /\ l = lst.lines[n] /\ l.host \in Host /\ l.port \in Port /\ l.text \in Note
      /\ n \in Nat /\ lst.source \in Source /\ ~ bad(l)
  BY <1>1, <1>2, <1>3, <1>4, CurrentLine
     DEF current, ImportTypes, AnyList, Underway
<1>6. PICK row : row = new_row(l.host, "exact", l.port, "permanent", Null, lst.source)
  OBVIOUS
<1>7. row \in Row
  BY <1>1, <1>5, <1>6, NewRowType, StoreAssumption
<1>8. add_allowlist(row)
  BY <1>3, <1>4, <1>6 DEF Add
<1>9. PICK base : base = IF p = "panel" THEN drafted ELSE notes
  OBVIOUS
<1>10. base \in Seq(Note) /\ Len(base) = Len(notes) /\ notes' = Append(base, l.text)
  BY <1>1, <1>4, <1>9, DraftedType DEF Add, ImportTypes
<1>11. /\ notes' \in Seq(Note) /\ Len(notes') = Len(allowlist')
       /\ allowlist' \in Seq(Row) /\ DOMAIN notes \subseteq DOMAIN notes'
  <2>1. /\ Len(notes') = Len(notes) + 1 /\ notes' \in Seq(Note)
    BY <1>5, <1>10, Appended
  <2>2. Len(allowlist') = Len(allowlist) + 1 /\ allowlist' \in Seq(Row)
    BY <1>1, <1>7, <1>8, AddGrows
  <2>3. DOMAIN notes = 1..Len(notes) /\ DOMAIN notes' = 1..Len(notes')
        /\ Len(notes) \in Nat
    BY <1>1, <2>1 DEF ImportTypes
  <2> QED
    BY <1>1, <2>1, <2>2, <2>3 DEF ImportTypes
<1>12. draft' = Clean
  BY <1>2 DEF Add, may_write
<1>13. DOMAIN draft' = {}
  BY <1>12 DEF Clean
<1>14. /\ touched' \in [Process -> BOOLEAN] /\ touched'[p] = touched[p]
       /\ \A q \in Process \ {p} : at[q] = "idle" \/ touched'[q]
  BY <1>1, <1>2, CommitTouches
<1>15. ~ touched[p] => \A k \in 1..n : provided(lst.lines[k], t)'
  <2>1. ASSUME ~ touched[p], NEW k \in 1..n, k # n
        PROVE  provided(lst.lines[k], t)'
    <3>1. provided(lst.lines[k], t)
      BY <1>1, <1>2, <1>3, <1>5, <2>1 DEF Progress
    <3> QED
      BY <1>1, <1>7, <1>8, <3>1, StaysPresent
  <2>2. provided(l, t)'
    <3>1. PICK i : i = Len(allowlist) + 1
      OBVIOUS
    <3>2. i \in DOMAIN allowlist' /\ allowlist'[i] = row
      BY <1>1, <1>7, <1>8, <3>1, AddGrows
    <3>3. row.pattern = l.host /\ row.port = l.port /\ active(row, t)
      BY <1>6 DEF new_row, active, unexpired
    <3>4. i \in present(l, t)'
      BY <3>2, <3>3 DEF present
    <3> QED
      BY <3>4 DEF provided
  <2> QED
    BY <1>5, <2>1, <2>2
<1>16. /\ at' \in [Process -> Place] /\ line' \in [Process -> Nat]
       /\ \A q \in Process \ {p} : at'[q] = at[q] /\ line'[q] = line[q]
       /\ at'[p] # "idle"
       /\ Underway(p)' /\ Progress(p)'
  BY <1>2, <1>3, <1>14, <1>15, NextLineKeeps
<1>17. ImportTypes'
  <2>1. StoreTypeOK'
    BY <1>1, <1>2, <1>11 DEF StoreTypeOK
  <2> QED
    BY <1>1, <1>2, <1>11, <1>13, <1>14, <1>16, <2>1 DEF ImportTypes
<1>18. DraftInv'
  BY <1>12, <1>13 DEF DraftInv
<1>19. ASSUME NEW q \in Process, q # p PROVE Underway(q)' /\ Progress(q)'
  <2>1. Rests(q)
    BY <1>2, <1>16, <1>19 DEF Rests
  <2> QED
    BY <1>11, <1>14, <1>19, <2>1, OthersKeep
<1> QED
  BY <1>16, <1>17, <1>18, <1>19 DEF ImportInv

\* What an import that nobody interfered with describes: an entry without a
\* description, or one of the shipped ones.
LEMMA DescribesWhat ==
  ASSUME ImportInv, NEW p \in Process, at[p] = "describe", ~ touched[p],
         may_write(p)
  PROVE  \/ notes[hit[p]] = NoText
         \/ /\ list[p].kind # "text"
            /\ allowlist[hit[p]].source \in {"starter", "default"}
<1>1. ImportTypes /\ DraftInv /\ Underway(p) /\ Progress(p)
  BY DEF ImportInv
<1>2. describes(p, current(p), hit[p]) /\ hit[p] \in DOMAIN notes
  BY <1>1 DEF Underway, Progress
<1>3. CASE note_seen(p, hit[p]) = NoText
  <2>1. CASE p = "panel" /\ hit[p] \in DOMAIN draft
    BY <1>1, <2>1 DEF DraftInv
  <2>2. CASE ~ (p = "panel" /\ hit[p] \in DOMAIN draft)
    BY <1>1, <1>2, <1>3, <2>2, DraftedType DEF note_seen
  <2> QED
    BY <2>1, <2>2
<1>4. CASE note_seen(p, hit[p]) # NoText
  BY <1>2, <1>4 DEF describes
<1> QED
  BY <1>3, <1>4

LEMMA DescribeKeeps ==
  ASSUME ImportInv, NEW p \in Process, Describe(p)
  PROVE  ImportInv'
<1>1. ImportTypes /\ DraftInv /\ Underway(p) /\ Progress(p) /\ StoreTypeOK
  BY DEF ImportInv, ImportTypes
<1>2. /\ at[p] = "describe" /\ may_write(p) /\ NextLine(p)
      /\ UNCHANGED <<allowlist, requests, paused_until, clock, list, ts, hit>>
  BY DEF Describe, storeVars
<1>3. PICK lst, n, t : lst = list[p] /\ n = line[p] /\ t = ts[p]
  OBVIOUS
<1>4. PICK h, text : h = hit[p] /\ text = current(p).text
  OBVIOUS
<1>5. text \in Note /\ h \in DOMAIN notes /\ n \in Nat
  BY <1>1, <1>2, <1>3, <1>4, CurrentLine DEF Underway, ImportTypes
<1>6. ~ touched[p] => \A k \in 1..n : provided(lst.lines[k], t)'
  BY <1>1, <1>2, <1>3, <1>5 DEF Progress, provided, present
<1>7. notes = [i \in 1..Len(notes) |-> notes[i]] /\ DOMAIN notes = 1..Len(notes)
      /\ Len(notes) \in Nat /\ \A i \in 1..Len(notes) : notes[i] \in Note
  BY <1>1 DEF ImportTypes
<1>8. StoreTypeOK'
  BY <1>1, <1>2 DEF StoreTypeOK
<1>9. CASE lst.kind = "text"
  <2>1. p = "panel"
    BY <1>1, <1>3, <1>9 DEF ImportTypes, Process
  <2>2. /\ draft' = [i \in DOMAIN draft \cup {h} |->
                      IF i = h THEN text ELSE draft[i]]
        /\ UNCHANGED <<notes, touched>>
    BY <1>3, <1>4, <1>9 DEF Describe
  <2>3. /\ DOMAIN draft' = DOMAIN draft \cup {h}
        /\ \A i \in DOMAIN draft' : draft'[i] \in Note
    BY <1>1, <1>5, <2>2 DEF ImportTypes
  <2>4. /\ at' \in [Process -> Place] /\ line' \in [Process -> Nat]
        /\ \A q \in Process \ {p} : at'[q] = at[q] /\ line'[q] = line[q]
        /\ at'[p] # "idle"
        /\ Underway(p)' /\ Progress(p)'
    BY <1>2, <1>3, <1>6, <2>2, NextLineKeeps
  <2>5. ImportTypes'
    BY <1>1, <1>2, <1>5, <1>8, <2>2, <2>3, <2>4 DEF ImportTypes
  <2>6. ~ touched[p] => notes[h] = NoText
    BY <1>2, <1>3, <1>4, <1>9, DescribesWhat
  <2>7. DraftInv'
    <3>1. touched'["panel"] \/ \A i \in DOMAIN draft' : notes'[i] = NoText
      BY <1>1, <2>1, <2>2, <2>3, <2>6 DEF DraftInv
    <3>2. at'["panel"] # "idle" /\ list'["panel"].kind = "text"
      BY <1>2, <1>3, <1>9, <2>1, <2>4
    <3> QED
      BY <3>1, <3>2 DEF DraftInv
  <2>8. ASSUME NEW q \in Process, q # p PROVE Underway(q)' /\ Progress(q)'
    <3>1. Rests(q) /\ q # "panel"
      BY <1>2, <2>1, <2>4, <2>8 DEF Rests
    <3> QED
      BY <1>2, <2>2, <3>1, OthersKeep
  <2> QED
    BY <2>4, <2>5, <2>7, <2>8 DEF ImportInv
<1>10. CASE lst.kind # "text"
  <2>1. notes' = [notes EXCEPT ![h] = text] /\ CommitBy(p) /\ UNCHANGED draft
    BY <1>3, <1>4, <1>10 DEF Describe
  <2>2. draft = Clean
    BY <1>1, <1>2, <1>3, <1>10 DEF DraftInv, may_write
  <2>3. DOMAIN draft' = {} /\ draft' = Clean
    BY <2>1, <2>2 DEF Clean
  <2>4. notes' \in Seq(Note) /\ Len(notes') = Len(notes) /\ DOMAIN notes' = DOMAIN notes
    <3>1. /\ notes' = [i \in 1..Len(notes) |-> notes'[i]]
          /\ \A i \in 1..Len(notes) : notes'[i] = IF i = h THEN text ELSE notes[i]
      BY <1>7, <2>1
    <3>2. \A i \in 1..Len(notes) : notes'[i] \in Note
      BY <1>5, <1>7, <3>1
    <3> QED
      BY <1>7, <3>1, <3>2, FunctionIsSeq
  <2>5. /\ touched' \in [Process -> BOOLEAN] /\ touched'[p] = touched[p]
        /\ \A q \in Process \ {p} : at[q] = "idle" \/ touched'[q]
    BY <1>1, <2>1, CommitTouches
  <2>6. /\ at' \in [Process -> Place] /\ line' \in [Process -> Nat]
        /\ \A q \in Process \ {p} : at'[q] = at[q] /\ line'[q] = line[q]
        /\ at'[p] # "idle"
        /\ Underway(p)' /\ Progress(p)'
    BY <1>2, <1>3, <1>6, <2>5, NextLineKeeps
  <2>7. ImportTypes'
    BY <1>1, <1>2, <1>8, <2>3, <2>4, <2>5, <2>6 DEF ImportTypes
  <2>8. DraftInv'
    BY <2>3 DEF DraftInv
  <2>9. ASSUME NEW q \in Process, q # p PROVE Underway(q)' /\ Progress(q)'
    <3>1. Rests(q)
      BY <1>2, <2>6, <2>9 DEF Rests
    <3> QED
      BY <2>4, <2>5, <2>9, <3>1, OthersKeep
  <2> QED
    BY <2>6, <2>7, <2>8, <2>9 DEF ImportInv
<1> QED
  BY <1>9, <1>10

\* An import that ends, or is cut short.
LEMMA EndKeeps ==
  ASSUME ImportInv, NEW p \in Process, Finish(p) \/ Crash(p)
  PROVE  ImportInv'
<1>1. ImportTypes /\ DraftInv /\ StoreTypeOK
  BY DEF ImportInv, ImportTypes
<1>2. /\ Idle(p)
      /\ UNCHANGED <<allowlist, requests, paused_until, clock>>
  BY DEF Finish, Crash, storeVars
<1>3. /\ at' \in [Process -> Place] /\ list' \in [Process -> AnyList]
      /\ line' \in [Process -> Nat] /\ ts' \in [Process -> Nat]
      /\ hit' \in [Process -> Nat]
      /\ at'[p] = "idle" /\ list'[p] = Nothing
      /\ \A q \in Process \ {p} : Rests(q)
  <2>1. Nothing \in AnyList
    BY DEF Nothing, AnyList, ListKind, Source
  <2> HIDE DEF Nothing
  <2> QED
    BY <1>1, <1>2, <2>1 DEF ImportTypes, Idle, Place, Rests
<1>4. /\ notes' \in Seq(Note) /\ Len(notes') = Len(notes) /\ DOMAIN notes' = DOMAIN notes
      /\ notes' = notes \/ (p = "panel" /\ draft' = Clean)
  BY <1>1, DraftedType DEF Finish, Crash, ImportTypes
<1>5. p = "panel" => draft' = Clean
  BY DEF Finish, Crash
<1>6. p # "panel" => draft' = draft /\ notes' = notes
  BY DEF Finish, Crash
<1>7. touched' \in [Process -> BOOLEAN]
  <2>1. CASE Crash(p)
    BY <1>1, <2>1 DEF Crash, ImportTypes
  <2>2. CASE Finish(p)
    <3>1. touched' = [q \in Process |->
                        IF q = p THEN FALSE
                        ELSE touched[q] \/ (at[q] # "idle" /\ notes' # notes)]
      BY <2>2 DEF Finish
    <3>2. \A q \in Process :
            (IF q = p THEN FALSE
             ELSE touched[q] \/ (at[q] # "idle" /\ notes' # notes)) \in BOOLEAN
      BY <1>1 DEF ImportTypes
    <3> QED
      BY <3>1, <3>2
  <2> QED
    BY <2>1, <2>2
<1>8. ASSUME NEW q \in Process, q # p
      PROVE  \/ at[q] = "idle" \/ touched'[q]
             \/ touched'[q] = touched[q] /\ notes' = notes
  <2>1. CASE Crash(p)
    BY <1>1, <1>8, <2>1 DEF Crash, ImportTypes
  <2>2. CASE Finish(p) /\ notes' # notes
    BY <1>1, <1>8, <2>2 DEF Finish
  <2>3. CASE Finish(p) /\ notes' = notes
    <3>1. touched'[q] = (touched[q] \/ (at[q] # "idle" /\ notes' # notes))
      BY <1>8, <2>3 DEF Finish
    <3>2. touched[q] \in BOOLEAN
      BY <1>1 DEF ImportTypes
    <3> QED
      BY <2>3, <3>1, <3>2
  <2> QED
    BY <2>1, <2>2, <2>3
<1>9. ImportTypes'
  <2>1. StoreTypeOK'
    BY <1>1, <1>2 DEF StoreTypeOK
  <2>2. DOMAIN draft' \subseteq DOMAIN notes' /\ \A i \in DOMAIN draft' : draft'[i] \in Note
    BY <1>1, <1>4, <1>5, <1>6 DEF ImportTypes, Clean
  <2>3. list'["brokerctl"].kind = "file"
    BY <1>1, <1>3 DEF ImportTypes, Nothing, Rests, Process
  <2>4. Len(notes') = Len(allowlist')
    BY <1>1, <1>2, <1>4 DEF ImportTypes
  <2> QED
    BY <1>3, <1>4, <1>7, <2>1, <2>2, <2>3, <2>4 DEF ImportTypes
<1>10. DraftInv'
  <2>1. CASE p = "panel"
    BY <1>5, <2>1 DEF DraftInv, Clean
  <2>2. CASE p # "panel"
    <3>1. Rests("panel") /\ UNCHANGED <<draft, notes>>
      BY <1>3, <1>6, <2>2 DEF Process
    <3>2. touched["panel"] => touched'["panel"]
      <4>1. CASE Crash(p)
        BY <1>1, <2>2, <4>1 DEF Crash, Process, ImportTypes
      <4>2. CASE Finish(p)
        BY <2>2, <4>2 DEF Finish, Process
      <4> QED
        BY <4>1, <4>2
    <3> QED
      BY <1>1, <3>1, <3>2 DEF DraftInv, Rests
  <2> QED
    BY <2>1, <2>2
<1>11. ASSUME NEW q \in Process PROVE Underway(q)' /\ Progress(q)'
  <2>1. CASE q = p
    BY <1>3, <2>1 DEF Underway, Progress
  <2>2. CASE q # p
    <3>1. q = "panel" => UNCHANGED draft
      BY <1>6, <2>2
    <3>2. Rests(q)
      BY <1>3, <2>2
    <3> QED
      BY <1>2, <1>4, <1>8, <2>2, <3>1, <3>2, OthersKeep
  <2> QED
    BY <2>1, <2>2
<1> QED
  BY <1>9, <1>10, <1>11 DEF ImportInv

LEMMA ManualAddKeeps ==
  ASSUME ImportInv, ManualAdd
  PROVE  ImportInv'
<1>1. ImportTypes /\ DraftInv /\ StoreTypeOK
  BY DEF ImportInv, ImportTypes
<1>2. /\ at["panel"] = "idle" /\ CommitBy("panel")
      /\ UNCHANGED <<requests, paused_until, clock, draft, at, list, line, ts, hit>>
  BY DEF ManualAdd
<1>3. PICK h \in Host, s \in Scope, text \in Text \cup {NoText} :
        /\ add_allowlist(new_row(h, "exact", PanelPort, s,
                                 IF Lifetime[s] = Null THEN Null
                                 ELSE clock + Lifetime[s], "manual"))
        /\ notes' = Append(notes, text)
  BY DEF ManualAdd
<1>4. PICK expires : expires = IF Lifetime[s] = Null THEN Null ELSE clock + Lifetime[s]
  OBVIOUS
<1>5. expires \in Nat \cup {Null}
  BY <1>1, <1>4, StoreAssumption DEF StoreTypeOK
<1>6. PICK row : row = new_row(h, "exact", PanelPort, s, expires, "manual")
  OBVIOUS
<1>7. row \in Row
  BY <1>1, <1>5, <1>6, NewRowType, StoreAssumption DEF Source
<1>8. add_allowlist(row)
  BY <1>3, <1>4, <1>6
<1>9. /\ notes' \in Seq(Note) /\ Len(notes') = Len(allowlist')
      /\ allowlist' \in Seq(Row) /\ DOMAIN notes \subseteq DOMAIN notes'
  <2>1. /\ Len(notes') = Len(notes) + 1 /\ notes' \in Seq(Note)
        /\ DOMAIN notes \subseteq DOMAIN notes'
    BY <1>1, <1>3, Appended DEF ImportTypes, Note
  <2>2. Len(allowlist') = Len(allowlist) + 1 /\ allowlist' \in Seq(Row)
    BY <1>1, <1>7, <1>8, AddGrows
  <2> QED
    BY <1>1, <2>1, <2>2 DEF ImportTypes
<1>10. /\ touched' \in [Process -> BOOLEAN]
       /\ \A q \in Process \ {"panel"} : at[q] = "idle" \/ touched'[q]
  BY <1>1, <1>2, CommitTouches DEF Process
<1>11. ImportTypes'
  <2>1. StoreTypeOK'
    BY <1>1, <1>2, <1>9 DEF StoreTypeOK
  <2>2. DOMAIN draft' \subseteq DOMAIN notes'
    BY <1>1, <1>2, <1>9 DEF ImportTypes
  <2> QED
    BY <1>1, <1>2, <1>9, <1>10, <2>1, <2>2 DEF ImportTypes
<1>12. DraftInv'
  <2>1. draft = Clean /\ draft' = Clean
    BY <1>1, <1>2 DEF DraftInv
  <2> QED
    BY <2>1 DEF DraftInv, Clean
<1>13. ASSUME NEW q \in Process PROVE Underway(q)' /\ Progress(q)'
  <2>1. Rests(q)
    BY <1>2 DEF Rests
  <2>2. at[q] = "idle" \/ touched'[q]
    BY <1>2, <1>10
  <2> QED
    BY <1>9, <2>1, <2>2, OthersKeep
<1> QED
  BY <1>11, <1>12, <1>13 DEF ImportInv

LEMMA WithdrawKeeps ==
  ASSUME ImportInv, Withdraw
  PROVE  ImportInv'
<1>1. ImportTypes /\ DraftInv /\ StoreTypeOK
  BY DEF ImportInv, ImportTypes
<1>2. /\ at["panel"] = "idle" /\ CommitBy("panel")
      /\ UNCHANGED <<requests, paused_until, clock, notes, draft, at, list, line,
                     ts, hit>>
  BY DEF Withdraw
<1>3. allowlist' \in Seq(Row) /\ Len(allowlist') = Len(allowlist)
  <2>1. PICK ids : retire(ids, clock)
    BY DEF Withdraw
  <2>2. clock \in Nat
    BY <1>1 DEF StoreTypeOK
  <2> QED
    BY <1>1, <2>1, <2>2, RetireKeeps
<1>4. /\ touched' \in [Process -> BOOLEAN]
      /\ \A q \in Process \ {"panel"} : at[q] = "idle" \/ touched'[q]
  BY <1>1, <1>2, CommitTouches DEF Process
<1>5. ImportTypes'
  <2>1. StoreTypeOK'
    BY <1>1, <1>2, <1>3 DEF StoreTypeOK
  <2> QED
    BY <1>1, <1>2, <1>3, <1>4, <2>1 DEF ImportTypes
<1>6. DraftInv'
  <2>1. draft = Clean /\ draft' = Clean
    BY <1>1, <1>2 DEF DraftInv
  <2> QED
    BY <2>1 DEF DraftInv, Clean
<1>7. ASSUME NEW q \in Process PROVE Underway(q)' /\ Progress(q)'
  <2>1. Rests(q) /\ (at[q] = "idle" \/ touched'[q])
    BY <1>2, <1>4 DEF Rests
  <2> QED
    BY <1>2, <2>1, OthersKeep
<1> QED
  BY <1>5, <1>6, <1>7 DEF ImportInv

LEMMA ImportInit == Init => ImportInv
<1> SUFFICES ASSUME Init PROVE ImportInv
  OBVIOUS
<1>1. /\ allowlist = InitialRows /\ InitialRows \in Seq(Row)
      /\ requests = <<>> /\ paused_until = 0 /\ clock = 0
      /\ notes = [i \in DOMAIN InitialRows |-> NoText] /\ draft = Clean
  BY StoreAssumption DEF Init, StoreInit
<1>2. StoreTypeOK
  BY <1>1 DEF StoreTypeOK
<1>3. notes \in Seq(Note) /\ Len(notes) = Len(allowlist)
  <2>1. Len(InitialRows) \in Nat /\ DOMAIN InitialRows = 1..Len(InitialRows)
    BY <1>1
  <2>2. /\ notes = [i \in 1..Len(InitialRows) |-> notes[i]]
        /\ \A i \in 1..Len(InitialRows) : notes[i] \in Note
    BY <1>1, <2>1 DEF Note
  <2> QED
    BY <1>1, <2>1, <2>2, FunctionIsSeq
<1>4. DOMAIN draft = {}
  BY <1>1 DEF Clean
<1>5. Nothing \in AnyList /\ Nothing.kind = "file"
  BY DEF Nothing, AnyList, ListKind, Source
<1>6. ImportTypes
  BY <1>2, <1>3, <1>4, <1>5 DEF Init, ImportTypes, Place, Process
<1>7. DraftInv /\ \A p \in Process : Underway(p) /\ Progress(p)
  BY <1>1, <1>4 DEF Init, DraftInv, Underway, Progress
<1> QED
  BY <1>6, <1>7 DEF ImportInv

LEMMA ImportNext ==
  ASSUME ImportInv, [Next]_vars
  PROVE  ImportInv'
<1>1. ASSUME NEW lst \in PanelLists, Begin("panel", lst) PROVE ImportInv'
  BY <1>1, BeginKeeps, ImportAssumption DEF Process
<1>2. ASSUME NEW lst \in CliLists, Begin("brokerctl", lst) PROVE ImportInv'
  BY <1>2, BeginKeeps, ImportAssumption DEF Process
<1>3. CASE (Tick /\ UNCHANGED importVars) \/ UNCHANGED vars
  <2>1. /\ UNCHANGED <<allowlist, requests, paused_until, importVars>>
        /\ clock' \in Nat
    BY <1>3 DEF Tick, vars, storeVars, ImportInv, ImportTypes, StoreTypeOK
  <2>2. StoreTypeOK'
    BY <2>1 DEF ImportInv, ImportTypes, StoreTypeOK
  <2>3. ImportTypes' /\ DraftInv'
    BY <2>1, <2>2 DEF importVars, ImportInv, ImportTypes, DraftInv
  <2>4. ASSUME NEW q \in Process PROVE Underway(q)' /\ Progress(q)'
    BY <2>1, OthersKeep DEF importVars, Rests
  <2> QED
    BY <2>3, <2>4 DEF ImportInv
<1> QED
  BY <1>1, <1>2, <1>3, LookUpKeeps, AddKeeps, DescribeKeeps, EndKeeps,
     ManualAddKeeps, WithdrawKeeps
     DEF Next, PanelImport, LoadStarter

LEMMA ImportAlways == Spec => []ImportInv
BY ImportInit, ImportNext, PTL DEF Spec

----------------------------------------------------------------------------

\* An import during which no other process committed has every line that is
\* not refused admitted at its end; so an import that was cut short is
\* completed by running it again.
THEOREM ImportsComplete == Spec => []ImportComplete
<1>1. ImportInv => ImportComplete
  <2> SUFFICES ASSUME ImportInv, NEW p \in Process,
                      at[p] = "finish", ~ touched[p],
                      NEW k \in DOMAIN list[p].lines,
                      ~ bad(list[p].lines[k])
               PROVE  active_match(list[p].lines[k].host, list[p].lines[k].port,
                                   ts[p]) # 0
    BY DEF ImportComplete
  <2>1. PICK l, t : l = list[p].lines[k] /\ t = ts[p]
    OBVIOUS
  <2>2. list[p].lines \in Seq(Line)
    BY DEF ImportInv, ImportTypes, AnyList
  <2>3. k \in 1..line[p]
    BY <2>2 DEF ImportInv, Underway
  <2>4. present(l, t) # {}
    BY <2>1, <2>3 DEF ImportInv, Progress, provided
  <2> DEFINE hits == {i \in DOMAIN allowlist : /\ allowlist[i].port = l.port
                                               /\ active(allowlist[i], t)
                                               /\ matches(allowlist[i], l.host)}
             best == {i \in hits : allowlist[i].kind = "exact"}
             pick == IF best = {} THEN hits ELSE best
  <2>5. hits # {} /\ 0 \notin hits /\ hits \subseteq Nat
    <3>1. DOMAIN allowlist \subseteq Nat /\ 0 \notin DOMAIN allowlist
      BY DEF ImportInv, ImportTypes, StoreTypeOK
    <3>2. PICK i \in present(l, t) : TRUE
      BY <2>4
    <3>3. i \in hits
      BY <3>2 DEF present, matches
    <3> QED
      BY <3>1, <3>3
  <2>6. pick # {} /\ pick \subseteq Nat /\ 0 \notin pick
    BY <2>5
  <2>7. active_match(l.host, l.port, t) = Min(pick)
    BY <2>5 DEF active_match
  <2> HIDE DEF pick
  <2>8. active_match(l.host, l.port, t) # 0
    BY <2>6, <2>7, MinIsLeast
  <2> QED
    BY <2>1, <2>8
<1> QED
  BY <1>1, ImportAlways, PTL

\* What an import looked up is still so when it adds: no destination gets a
\* second entry, unless another process committed meanwhile.
THEOREM NothingImportedTwice == Spec => NothingTwice
<1>1. ImportInv =>
        [\A p \in Process :
           /\ at[p] = "add" /\ ~ touched[p]
           /\ Len(allowlist') > Len(allowlist)
           => present(current(p), ts[p]) = {}]_vars
  BY DEF ImportInv, Progress
<1> QED
  BY <1>1, ImportAlways, PTL DEF NothingTwice

\* No import writes over the operator's words, as long as no process commits
\* while another imports.
THEOREM WordsKept == Spec => WordsKeptAlone
<1>1. ASSUME ImportInv, [Next]_vars
      PROVE  [(\A p \in Process : ~ touched[p]) =>
                \A i \in DOMAIN notes : by_operator(i) /\ notes[i] # NoText =>
                                         notes'[i] = notes[i]]_vars
  <2> SUFFICES ASSUME Next, \A p \in Process : ~ touched[p],
                      NEW i \in DOMAIN notes, by_operator(i), notes[i] # NoText
               PROVE  notes'[i] = notes[i]
    BY <1>1
  <2>1. ImportTypes /\ DraftInv
    BY <1>1 DEF ImportInv
  <2>2. drafted \in Seq(Note) /\ Len(drafted) = Len(notes) /\ drafted[i] = notes[i]
        /\ notes \in Seq(Note) /\ DOMAIN drafted = DOMAIN notes
    <3>1. i \notin DOMAIN draft
      BY <2>1 DEF DraftInv, Process
    <3> QED
      BY <2>1, <3>1, DraftedType DEF ImportTypes
  <2>3. \A s \in Seq(Note), e \in Note : DOMAIN s = DOMAIN notes =>
          Append(s, e)[i] = s[i]
    BY Appended
  <2>4. ASSUME NEW p \in Process, Add(p) PROVE notes'[i] = notes[i]
    <3>1. current(p).text \in Note
      BY <1>1, <2>4, CurrentLine DEF Add
    <3>2. notes' = Append(IF p = "panel" THEN drafted ELSE notes, current(p).text)
      BY <2>4 DEF Add
    <3> QED
      BY <2>2, <2>3, <3>1, <3>2
  <2>5. ASSUME NEW p \in Process, Describe(p) PROVE notes'[i] = notes[i]
    <3>1. CASE list[p].kind = "text"
      BY <2>5, <3>1 DEF Describe
    <3>2. CASE list[p].kind # "text"
      <4>1. notes' = [notes EXCEPT ![hit[p]] = current(p).text]
        BY <2>5, <3>2 DEF Describe
      <4>2. hit[p] # i
        <5>1. \/ notes[hit[p]] = NoText
              \/ allowlist[hit[p]].source \in {"starter", "default"}
          BY <1>1, <2>5, DescribesWhat DEF Describe
        <5> QED
          BY <5>1 DEF by_operator
      <4> QED
        BY <2>2, <4>1, <4>2
    <3> QED
      BY <3>1, <3>2
  <2>6. ASSUME NEW p \in Process, Finish(p) PROVE notes'[i] = notes[i]
    BY <2>2, <2>6 DEF Finish
  <2>7. CASE ManualAdd
    <3>1. PICK text \in Note : notes' = Append(notes, text)
      BY <2>7 DEF ManualAdd, Note
    <3> QED
      BY <2>2, <2>3, <3>1
  <2> QED
    BY <2>4, <2>5, <2>6, <2>7
       DEF Next, PanelImport, LoadStarter, Begin, LookUp, Crash, Withdraw,
           importVars
<1> QED
  BY <1>1, ImportAlways, PTL DEF WordsKeptAlone, Spec
=============================================================================
