--------------------------- MODULE StartupProofs ---------------------------
(***************************************************************************)
(* Proofs about start-up, for every set of databases the services may find.*)
(*                                                                         *)
(*   SchemaInv  a service never serves on a schema it cannot query: the    *)
(*              table only ever grows towards the current one, so what a   *)
(*              process has seen or written of it stays true whatever the  *)
(*              others do to the same file;                                *)
(*   TypeInv    the types, and with them that no approval disappears: the  *)
(*              ids in use have a bound, so there is one beyond them for a *)
(*              new row; the writer's draft holds no entry that the rows   *)
(*              it will replace do not hold; and what a merge deletes is   *)
(*              remembered in merged;                                      *)
(*   NameInv    names: what a row keeps of the entry it was made for, when *)
(*              its pattern has been folded any number of times (Carries); *)
(*              that a merge has read that much of every row it has yet to *)
(*              deal with; and that the writer's draft has no row of its   *)
(*              own.  It needs IdsKept: a late merge takes the entry that  *)
(*              has got the id of a deleted row for the row it has read;   *)
(*   KeepInv    the fold: which rows are not folded yet, and that a merge  *)
(*              has read all of these; that what it has found of a twin    *)
(*              holds still when it writes (TwinKept), whoever commits in  *)
(*              between; and that what a merge deleted is carried by a row *)
(*              that admits it (Carriers).  It needs IdsKept as well.      *)
(***************************************************************************)
EXTENDS Startup, NaturalsInduction, WellFoundedInduction,
        FiniteSetTheorems, TLAPS

\* Where a process knows the table to exist, to have every column, and to be
\* the current one.
Knows(label, t) ==
  /\ label \in {"info", "alter", "check", "rebuild"} => t.created
  /\ label \in {"check", "rebuild"} => t.columns = AllColumns
  /\ label \in {"select", "dup", "write", "commit", "up"} => t = Current

SchemaInv ==
  /\ table \in Table
  /\ pc \in [Process -> Label]
  /\ noted \in [Process -> SUBSET AllColumns]
  /\ \A p \in Process : /\ noted[p] \subseteq table.columns
                        /\ Knows(pc[p], table)

\* From t to u the table loses nothing.
Grows(t, u) ==
  /\ t.created => u.created
  /\ t.columns \subseteq u.columns
  /\ t = Current => u = Current

LEMMA KnowsStays ==
  ASSUME NEW t \in Table, NEW u \in Table, Grows(t, u),
         NEW label, Knows(label, t)
  PROVE  Knows(label, u)
BY DEF Knows, Grows, Table

\* A process moves to a label at which it knows no more than what is so.
LEMMA SchemaMove ==
  ASSUME SchemaInv, NEW p \in Process, NEW label \in Label,
         NEW seen \in SUBSET AllColumns,
         table' \in Table, Grows(table, table'), seen \subseteq table'.columns,
         pc' = [pc EXCEPT ![p] = label],
         noted' = [noted EXCEPT ![p] = seen],
         Knows(label, table')
  PROVE  SchemaInv'
<1>1. /\ pc' \in [Process -> Label]
      /\ noted' \in [Process -> SUBSET AllColumns]
  BY DEF SchemaInv
<1>2. ASSUME NEW q \in Process
      PROVE  noted'[q] \subseteq table'.columns /\ Knows(pc'[q], table')
  <2>1. CASE q = p
    BY <2>1 DEF SchemaInv
  <2>2. CASE q # p
    <3>1. noted'[q] = noted[q] /\ pc'[q] = pc[q]
      BY <2>2 DEF SchemaInv
    <3>2. noted[q] \subseteq table.columns /\ Knows(pc[q], table)
      BY DEF SchemaInv
    <3> QED
      BY <3>1, <3>2, KnowsStays DEF SchemaInv, Grows
  <2> QED
    BY <2>1, <2>2
<1> QED
  BY <1>1, <1>2 DEF SchemaInv

\* The same, for a step that leaves the columns noted alone.
LEMMA SchemaStep ==
  ASSUME SchemaInv, NEW p \in Process, NEW label \in Label,
         table' \in Table, Grows(table, table'),
         pc' = [pc EXCEPT ![p] = label], UNCHANGED noted,
         Knows(label, table')
  PROVE  SchemaInv'
<1>1. /\ noted' = [noted EXCEPT ![p] = noted[p]]
      /\ noted[p] \in SUBSET AllColumns
      /\ noted[p] \subseteq table'.columns
  BY DEF SchemaInv, Grows
<1> QED
  BY <1>1, SchemaMove

LEMMA TableStays ==
  ASSUME SchemaInv, UNCHANGED table
  PROVE  table' \in Table /\ Grows(table, table')
BY DEF SchemaInv, Grows

LEMMA ExitKeeps ==
  ASSUME SchemaInv, NEW p \in Process, Exit(p)
  PROVE  SchemaInv'
<1>1. /\ "down" \in Label /\ Knows("down", table')
      /\ pc' = [pc EXCEPT ![p] = "down"] /\ UNCHANGED <<table, noted>>
  BY DEF Exit, Go, Label, Knows, localVars
<1> QED
  BY <1>1, TableStays, SchemaStep

\* CREATE, ALTER and the rebuild.
LEMMA DefinitionKeeps ==
  ASSUME SchemaInv, NEW p \in Process, Create(p) \/ Alter(p) \/ Rebuild(p)
  PROVE  SchemaInv'
<1> USE DEF Go, Label
<1>1. Current \in Table
  BY DEF Current, Table
<1>2. table \in Table /\ Knows(pc[p], table) /\ noted[p] \subseteq AllColumns
  BY DEF SchemaInv
<1>3. CASE Create(p)
  <2>1. table' = IF table.created THEN table ELSE Current
    BY <1>3 DEF Create, Store
  <2>2. table' \in Table /\ Grows(table, table') /\ Knows("info", table')
    BY <1>1, <1>2, <2>1 DEF Grows, Knows, Current, Table
  <2>3. pc' = [pc EXCEPT ![p] = "info"] /\ UNCHANGED noted
    BY <1>3 DEF Create, localVars
  <2> QED
    BY <2>2, <2>3, SchemaStep
<1>4. CASE Rebuild(p)
  <2>1. table' = Current
    BY <1>4 DEF Rebuild, Store
  <2>2. Grows(table, table') /\ Knows("select", table') /\ Knows("down", table')
    BY <1>2, <2>1 DEF Grows, Knows, Current, Table
  <2>3. /\ pc' = [pc EXCEPT ![p] = IF p \in Service THEN "select" ELSE "down"]
        /\ UNCHANGED noted
    BY <1>4 DEF Rebuild, localVars
  <2> QED
    BY <1>1, <2>1, <2>2, <2>3, SchemaStep
<1>5. CASE Alter(p)
  <2> DEFINE c == Columns[Min(missing(p))]
  <2>1. CASE missing(p) = {}
    <3>1. /\ pc[p] = "alter" /\ pc' = [pc EXCEPT ![p] = "check"]
          /\ UNCHANGED <<table, noted>>
      BY <1>5, <2>1 DEF Alter, tableVars, localVars
    <3>2. AllColumns \subseteq noted[p]
      BY <2>1 DEF missing, Columns, AllColumns
    <3>3. Knows("check", table')
      BY <1>2, <3>1, <3>2 DEF SchemaInv, Knows, Table
    <3> QED
      BY <3>1, <3>3, TableStays, SchemaStep
  <2>2. CASE missing(p) # {} /\ c \in table.columns
    BY <1>5, <2>2, ExitKeeps DEF Alter
  <2>3. CASE missing(p) # {} /\ c \notin table.columns
    <3>1. missing(p) \in SUBSET {1, 2}
      BY DEF missing, Columns
    <3>2. c \in AllColumns
      <4>1. Min(missing(p)) \in missing(p)
        <5>1. \E x \in missing(p) : \A y \in missing(p) : x <= y
          BY <2>3, <3>1
        <5> QED
          BY <5>1 DEF Min
      <4> QED
        BY <3>1, <4>1 DEF Columns, AllColumns
    <3>3. /\ pc[p] = "alter"
          /\ table' = [table EXCEPT !.columns = @ \cup {c}]
          /\ noted' = [noted EXCEPT ![p] = @ \cup {c}]
          /\ UNCHANGED pc
      BY <1>5, <2>3 DEF Alter, Store
    <3> HIDE DEF c
    <3>4. /\ table' \in Table /\ table'.columns = table.columns \cup {c}
          /\ Grows(table, table') /\ Knows("alter", table')
      BY <1>2, <2>3, <3>2, <3>3 DEF Grows, Knows, Table, Current
    <3>5. /\ pc' = [pc EXCEPT ![p] = "alter"]
          /\ noted' = [noted EXCEPT ![p] = noted[p] \cup {c}]
          /\ noted[p] \cup {c} \in SUBSET AllColumns
          /\ noted[p] \cup {c} \subseteq table'.columns
      BY <1>2, <3>2, <3>3, <3>4 DEF SchemaInv
    <3> QED
      BY <3>4, <3>5, SchemaMove
  <2> QED
    BY <2>1, <2>2, <2>3
<1> QED
  BY <1>3, <1>4, <1>5

LEMMA SchemaNext ==
  ASSUME SchemaInv, [Next]_vars
  PROVE  SchemaInv'
<1> USE DEF Go, Label, tableVars, localVars, historyVars
<1>1. ASSUME NEW p \in Process, Start(p) PROVE SchemaInv'
  <2>1. /\ UNCHANGED table /\ noted' = [noted EXCEPT ![p] = {}]
        /\ pc' = [pc EXCEPT ![p] = IF p = "panel" THEN "bind" ELSE "create"]
    BY <1>1 DEF Start
  <2>2. Knows("bind", table') /\ Knows("create", table')
    BY DEF Knows
  <2> QED
    BY <2>1, <2>2, TableStays, SchemaMove
<1>2. ASSUME NEW p \in Process, Bind(p) \/ Fail(p) PROVE SchemaInv'
  <2>1. CASE Exit(p)
    BY <2>1, ExitKeeps
  <2>2. CASE ~ Exit(p)
    <3>1. pc' = [pc EXCEPT ![p] = "create"] /\ UNCHANGED <<table, noted>>
      BY <1>2, <2>2 DEF Bind, Fail
    <3>2. Knows("create", table')
      BY DEF Knows
    <3> QED
      BY <3>1, <3>2, TableStays, SchemaStep
  <2> QED
    BY <2>1, <2>2
<1>3. ASSUME NEW p \in Process, Info(p) PROVE SchemaInv'
  <2>1. /\ UNCHANGED table /\ noted' = [noted EXCEPT ![p] = table.columns]
        /\ pc[p] = "info" /\ pc' = [pc EXCEPT ![p] = "alter"]
    BY <1>3 DEF Info
  <2>2. table.columns \in SUBSET AllColumns /\ Knows("alter", table')
    BY <2>1 DEF SchemaInv, Knows, Table
  <2> QED
    BY <2>1, <2>2, TableStays, SchemaMove
<1>4. ASSUME NEW p \in Process, Check(p) PROVE SchemaInv'
  <2> DEFINE next == IF ~ table.default_ok THEN "rebuild"
                     ELSE IF p \in Service THEN "select" ELSE "down"
  <2>1. /\ UNCHANGED <<table, noted>> /\ pc[p] = "check"
        /\ pc' = [pc EXCEPT ![p] = next]
    BY <1>4 DEF Check
  <2>2. table \in Table /\ Knows("check", table)
    BY <2>1 DEF SchemaInv
  <2>3. Knows(next, table')
    BY <2>1, <2>2 DEF Knows, Current, Table
  <2> QED
    BY <2>1, <2>3, TableStays, SchemaStep
<1>5. ASSUME NEW p \in Process, Select(p) \/ Dup(p) \/ Write(p) \/ Commit(p)
      PROVE  SchemaInv'
  <2>1. /\ UNCHANGED <<table, noted>>
        /\ pc[p] \in {"select", "dup", "write", "commit"}
        /\ \E l \in {"dup", "write", "commit", "up"} :
             pc' = [pc EXCEPT ![p] = l]
    BY <1>5 DEF Select, Dup, Write, Commit
  <2>2. PICK l \in {"dup", "write", "commit", "up"} :
          pc' = [pc EXCEPT ![p] = l]
    BY <2>1
  <2>3. Knows(l, table')
    BY <2>1 DEF SchemaInv, Knows
  <2> QED
    BY <2>1, <2>2, <2>3, TableStays, SchemaStep
<1>6. ASSUME AddByHand \/ \E i \in DOMAIN rows : End(i) PROVE SchemaInv'
  BY <1>6 DEF AddByHand, End, SchemaInv
<1>7. CASE UNCHANGED vars
  BY <1>7 DEF SchemaInv, vars
<1> QED
  BY <1>1, <1>2, <1>3, <1>4, <1>5, <1>6, <1>7, DefinitionKeeps
     DEF Next, Service, Process

LEMMA SchemaInit == Init => SchemaInv
BY StartupAssumption DEF Init, SchemaInv, Knows, Label, Process, Service

\* Whatever version the database came from, and whoever else was opening it,
\* a service that reads or serves entries finds every column and a table that
\* takes entries of every source.
THEOREM MigrationComplete == Spec => []SchemaCurrent
<1>1. Init => SchemaInv
  BY SchemaInit
<1>2. SchemaInv => SchemaCurrent
  BY DEF SchemaInv, SchemaCurrent, Knows, Process
<1> QED
  BY <1>1, <1>2, SchemaNext, PTL DEF Spec

----------------------------------------------------------------------------
(* The types of the rows and of what refers to them.  A new entry has an   *)
(* id of its own because ids are bounded, and so has its approval.         *)

\* A bounded set of numbers has a greatest one: the least of its bounds.
LEMMA MaxIsGreatest ==
  ASSUME NEW S, S \subseteq Nat, S # {}, NEW n \in Nat, \A x \in S : x <= n
  PROVE  Max(S) \in S /\ \A x \in S : x <= Max(S)
<1> DEFINE less == OpToRel(<, Nat)
           bounds == {b \in Nat : \A x \in S : x <= b}
<1>1. \A a, b \in Nat : b < a => <<b, a>> \in less
  BY DEF OpToRel
<1>2. IsWellFoundedOn(less, Nat)
  BY NatLessThanWellFounded
<1>3. bounds \subseteq Nat /\ bounds # {}
  OBVIOUS
<1> HIDE DEF less
<1>4. PICK b \in bounds : \A c \in bounds : ~ (<<c, b>> \in less)
  BY <1>2, <1>3, WFMin
<1>5. b \in Nat /\ \A x \in S : x <= b
  BY <1>4
<1>6. b \in S
  <2>1. SUFFICES ASSUME b \notin S PROVE FALSE
    OBVIOUS
  <2>2. PICK x \in S : TRUE
    OBVIOUS
  <2>3. \A y \in S : y <= b - 1
    BY <1>5, <2>1
  <2>4. b - 1 \in Nat
    BY <1>5, <2>2, <2>3
  <2>5. b - 1 \in bounds /\ b - 1 < b
    BY <1>5, <2>3, <2>4
  <2> HIDE DEF bounds
  <2> QED
    BY <1>1, <1>4, <1>5, <2>4, <2>5
<1> QED
  BY <1>5, <1>6 DEF Max

Bounded(f) == \E n \in Nat : DOMAIN f \subseteq 0..n

\* The number after the greatest of f's is none of f's.
LEMMA FreshNumber ==
  ASSUME NEW f, Bounded(f)
  PROVE  LET new == Max({0} \cup DOMAIN f) + 1
         IN  new \in Nat /\ new \notin DOMAIN f
<1>1. PICK n \in Nat : DOMAIN f \subseteq 0..n
  BY DEF Bounded
<1> DEFINE S == {0} \cup DOMAIN f
<1>2. S \subseteq Nat /\ S # {} /\ \A x \in S : x <= n
  BY <1>1
<1> HIDE DEF S
<1>3. Max(S) \in S /\ \A x \in S : x <= Max(S)
  BY <1>2, MaxIsGreatest
<1>4. Max(S) \in Nat /\ \A x \in DOMAIN f : x \in Nat /\ x <= Max(S)
  BY <1>2, <1>3 DEF S
<1>5. Max(S) + 1 \in Nat /\ Max(S) + 1 \notin DOMAIN f
  BY <1>4
<1> QED
  BY <1>5 DEF S

entries(r) == {r[i].entry : i \in DOMAIN r}

\* Rows the services can keep: numbered, each with the entry it is.
RowsOK(r) == Bounded(r) /\ \A i \in DOMAIN r : "entry" \in DOMAIN r[i]

RowsInv ==
  /\ RowsOK(rows) /\ RowsOK(draft) /\ Bounded(typed)
  /\ entries(draft) \subseteq entries(rows)
  /\ todo = [p \in Process |-> todo[p]]

TypeInv == SchemaInv /\ RowsInv /\ TypeOK

LEMMA TypeInit == Init => RowsInv /\ TypeOK
<1> SUFFICES ASSUME Init PROVE RowsInv /\ TypeOK
  OBVIOUS
<1>1. PICK d \in Databases :
        /\ table = d.table
        /\ rows = [i \in DOMAIN d.rows |-> row_of(d.rows[i], i)]
        /\ typed = [i \in DOMAIN d.rows |->
             approval(d.rows[i].pattern, d.rows[i].kind, d.rows[i].port, "old")]
        /\ standing = {i \in DOMAIN d.rows : d.rows[i].active}
  BY DEF Init
<1>2. d.table \in Table /\ Len(d.rows) \in Nat
      /\ DOMAIN d.rows = 1..Len(d.rows)
  BY StartupAssumption
<1>3. Bounded(rows) /\ Bounded(typed) /\ DOMAIN rows = DOMAIN typed
  BY <1>1, <1>2 DEF Bounded
<1>4. \A i \in DOMAIN rows : "entry" \in DOMAIN rows[i] /\ rows[i].entry = i
  BY <1>1 DEF row_of
<1>5. draft = rows /\ writer = Nobody /\ DOMAIN merged = {}
  BY DEF Init
<1>6. entries(rows) = DOMAIN typed
  BY <1>3, <1>4 DEF entries
<1>7. RowsInv
  BY <1>3, <1>4, <1>5 DEF RowsInv, RowsOK, Init
<1>8. standing \subseteq DOMAIN typed
  BY <1>1
<1>9. {rows[i].entry : i \in DOMAIN rows} \cup DOMAIN merged = DOMAIN typed
  BY <1>5, <1>6 DEF entries
<1> QED
  BY <1>1, <1>2, <1>5, <1>7, <1>8, <1>9 DEF TypeOK, Init, Label

\* A process at "write" has a row to write.
TodoOK == \A p \in Process : pc[p] \in {"write"} => todo[p] # <<>>

LEMMA TodoStays ==
  ASSUME SchemaInv, RowsInv, TodoOK, NEW p \in Process,
         pc' = [pc EXCEPT ![p] = pc'[p]],
         todo' = [todo EXCEPT ![p] = todo'[p]],
         pc'[p] = "write" => todo'[p] # <<>>
  PROVE  todo' = [q \in Process |-> todo'[q]] /\ TodoOK'
<1>1. todo' = [q \in Process |-> todo'[q]]
  BY DEF RowsInv
<1>2. ASSUME NEW q \in Process, pc'[q] = "write" PROVE todo'[q] # <<>>
  <2>1. CASE q = p
    BY <1>2, <2>1
  <2>2. CASE q # p
    <3>1. pc'[q] = pc[q] /\ todo'[q] = todo[q]
      BY <2>2 DEF SchemaInv, RowsInv
    <3> QED
      BY <1>2, <3>1 DEF TodoOK
  <2> QED
    BY <2>1, <2>2
<1> QED
  BY <1>1, <1>2 DEF TodoOK

\* What a step of process p does to the rows: nothing, the transaction it had
\* open is rolled back, a write of the merge, its commit.
RollsBack(p) ==
  /\ writer' = IF writer = p THEN Nobody ELSE writer
  /\ draft' = IF writer = p THEN rows ELSE draft
  /\ UNCHANGED <<rows, merged>>

Writes(p) ==
  /\ p \in Service /\ writer \in {Nobody, p} /\ writer' = p
  /\ LET item == Head(todo[p])
     IN  \/ draft' = view(p)
         \/ draft' = Restrict(view(p), DOMAIN view(p) \ {item.id})
         \/ /\ item.id \in DOMAIN view(p)
            /\ draft' = [view(p) EXCEPT ![item.id].pattern = item.target]
  /\ UNCHANGED <<rows, merged>>

Commits(p) ==
  /\ rows' = draft /\ writer' = Nobody /\ draft' = draft
  /\ DOMAIN merged' = DOMAIN merged \cup
       {rows[i].entry : i \in {i \in DOMAIN rows : \A j \in DOMAIN draft :
                               draft[j].entry # rows[i].entry}}

StepOf(p) ==
  \/ Start(p) \/ Bind(p) \/ Create(p) \/ Info(p) \/ Alter(p) \/ Check(p)
  \/ Rebuild(p) \/ Fail(p)
  \/ p \in Service /\ (Select(p) \/ Dup(p) \/ Write(p) \/ Commit(p))

LEMMA StepWrites ==
  ASSUME TypeInv, NEW p \in Process, StepOf(p)
  PROVE  /\ UNCHANGED <<typed, standing>>
         /\ \/ UNCHANGED <<rows, draft, writer, merged>>
            \/ RollsBack(p) \/ Writes(p) \/ Commits(p)
<1> USE DEF tableVars, localVars, historyVars
<1>1. CASE Start(p) \/ Info(p) \/ Check(p)
  BY <1>1 DEF Start, Info, Check
<1>2. ASSUME Exit(p)
      PROVE  RollsBack(p) /\ UNCHANGED <<typed, standing>>
  BY <1>2 DEF Exit, RollsBack
<1>3. CASE Bind(p) \/ Fail(p)
  BY <1>2, <1>3 DEF Bind, Fail
<1>4. ASSUME NEW t, Store(t, rows)
      PROVE  UNCHANGED <<rows, draft, writer>>
  BY <1>4 DEF Store, Unlocked, TypeInv, TypeOK
<1>5. CASE Create(p) \/ Rebuild(p)
  BY <1>4, <1>5 DEF Create, Rebuild
<1>6. CASE Alter(p)
  BY <1>2, <1>4, <1>6 DEF Alter
<1>7. CASE p \in Service /\ (Select(p) \/ Dup(p))
  BY <1>7 DEF Select, Dup
<1>8. CASE p \in Service /\ Write(p)
  BY <1>8 DEF Write, Writes
<1>9. CASE p \in Service /\ Commit(p)
  <2>1. CASE writer # p
    BY <1>9, <2>1 DEF Commit
  <2>2. CASE writer = p
    BY <1>9, <2>2 DEF Commit, Commits
  <2> QED
    BY <2>1, <2>2
<1> QED
  BY <1>1, <1>3, <1>5, <1>6, <1>7, <1>8, <1>9 DEF StepOf

LEMMA StepTodo ==
  ASSUME TypeInv, NEW p \in Process, StepOf(p)
  PROVE  todo' = [q \in Process |-> todo'[q]] /\ TodoOK'
<1> USE DEF localVars, Go
<1>1. SchemaInv /\ RowsInv /\ TodoOK /\ pc \in [Process -> Label]
      /\ todo = [q \in Process |-> todo[q]]
  BY DEF TypeInv, TypeOK, TodoOK, SchemaInv, RowsInv
<1>2. /\ pc' = [pc EXCEPT ![p] = pc'[p]]
      /\ todo' = [todo EXCEPT ![p] = todo'[p]]
      /\ pc'[p] = "write" => todo'[p] # <<>>
  <2>2. CASE Start(p)
    BY <1>1, <2>2 DEF Start
  <2>3. CASE Select(p)
    BY <1>1, <2>3 DEF Select
  <2>4. CASE Dup(p)
    BY <1>1, <2>4 DEF Dup
  <2>5. CASE Write(p)
    BY <1>1, <2>5 DEF Write
  <2>6. CASE Exit(p)
    BY <1>1, <2>6 DEF Exit
  <2>7. CASE Bind(p) \/ Fail(p)
    BY <1>1, <2>6, <2>7 DEF Bind, Fail
  <2>8. CASE Create(p) \/ Info(p) \/ Check(p) \/ Rebuild(p) \/ Commit(p)
    BY <1>1, <2>8 DEF Create, Info, Check, Rebuild, Commit
  <2>9. CASE Alter(p)
    BY <1>1, <2>6, <2>9 DEF Alter
  <2> QED
    BY <2>2, <2>3, <2>4, <2>5, <2>6, <2>7, <2>8, <2>9 DEF StepOf
<1> QED
  BY <1>1, <1>2, TodoStays

\* Neither a rewritten nor a deleted row adds an entry.
LEMMA WriteKeeps ==
  ASSUME TypeInv, NEW p \in Process, Writes(p)
  PROVE  RowsOK(draft') /\ entries(draft') \subseteq entries(rows)
<1> DEFINE r == view(p)
           item == Head(todo[p])
<1>1. RowsOK(r) /\ entries(r) \subseteq entries(rows)
  BY DEF TypeInv, RowsInv, view
<1>2. \/ draft' = r
      \/ draft' = Restrict(r, DOMAIN r \ {item.id})
      \/ /\ item.id \in DOMAIN r
         /\ draft' = [r EXCEPT ![item.id].pattern = item.target]
  BY DEF Writes
<1> HIDE DEF r, item
<1>3. DOMAIN draft' \subseteq DOMAIN r
  BY <1>2 DEF Restrict
<1>4. ASSUME NEW i \in DOMAIN draft'
      PROVE  "entry" \in DOMAIN draft'[i] /\ draft'[i].entry = r[i].entry
  <2>1. "entry" \in DOMAIN r[i]
    BY <1>1, <1>3 DEF RowsOK
  <2>2. CASE draft'[i] = r[i]
    BY <2>1, <2>2
  <2>3. CASE draft'[i] # r[i]
    <3>1. draft'[i] = [r[i] EXCEPT !.pattern = item.target]
      BY <1>2, <1>3, <2>3 DEF Restrict
    <3> QED
      BY <2>1, <3>1
  <2> QED
    BY <2>2, <2>3
<1>5. Bounded(draft')
  BY <1>1, <1>3 DEF RowsOK, Bounded
<1> QED
  BY <1>1, <1>3, <1>4, <1>5 DEF RowsOK, entries

LEMMA StepKeeps ==
  ASSUME TypeInv, NEW p \in Process, StepOf(p)
  PROVE  RowsInv' /\ TodoOK' /\ writer' \in Service \cup {Nobody}
         /\ (writer' = Nobody => draft' = rows')
         /\ entries(rows') \cup DOMAIN merged' = DOMAIN typed'
         /\ standing' \subseteq DOMAIN typed'
<1>1. /\ RowsOK(rows) /\ RowsOK(draft) /\ Bounded(typed)
      /\ entries(draft) \subseteq entries(rows)
      /\ writer \in Service \cup {Nobody} /\ (writer = Nobody => draft = rows)
      /\ entries(rows) \cup DOMAIN merged = DOMAIN typed
      /\ standing \subseteq DOMAIN typed
      /\ Nobody \notin Process
  BY StartupAssumption DEF TypeInv, RowsInv, TypeOK, entries
<1>2. /\ todo' = [q \in Process |-> todo'[q]] /\ TodoOK'
      /\ UNCHANGED <<typed, standing>>
  BY StepTodo, StepWrites
<1>3. CASE UNCHANGED <<rows, draft, writer, merged>>
  BY <1>1, <1>2, <1>3 DEF RowsInv
<1>4. CASE RollsBack(p)
  BY <1>1, <1>2, <1>4 DEF RowsInv, RollsBack
<1>5. CASE Writes(p)
  <2>1. RowsOK(draft') /\ entries(draft') \subseteq entries(rows)
    BY <1>5, WriteKeeps
  <2>2. /\ UNCHANGED <<rows, merged>> /\ writer' \in Service
        /\ writer' # Nobody
    BY <1>1, <1>5 DEF Writes, Process
  <2> QED
    BY <1>1, <1>2, <2>1, <2>2 DEF RowsInv
<1>6. CASE Commits(p)
  <2>1. rows' = draft /\ writer' = Nobody /\ draft' = draft
    BY <1>6 DEF Commits
  <2>2. DOMAIN merged' = DOMAIN merged \cup (entries(rows) \ entries(draft))
    BY <1>6 DEF Commits, entries
  <2>3. entries(rows') \cup DOMAIN merged' = DOMAIN typed'
    BY <1>1, <1>2, <2>1, <2>2
  <2> QED
    BY <1>1, <1>2, <2>1, <2>3 DEF RowsInv
<1> QED
  BY <1>3, <1>4, <1>5, <1>6, StepWrites

LEMMA AddKeeps ==
  ASSUME TypeInv, AddByHand
  PROVE  RowsInv' /\ TypeOK'
<1>1. /\ RowsOK(rows) /\ Bounded(typed) /\ todo = [q \in Process |-> todo[q]]
      /\ entries(rows) \cup DOMAIN merged = DOMAIN typed
      /\ standing \subseteq DOMAIN typed
  BY DEF TypeInv, RowsInv, TypeOK, entries
<1>2. PICK t \in Typed :
        /\ rows' = [i \in DOMAIN rows \cup {new_id} |->
             IF i \in DOMAIN rows THEN rows[i]
             ELSE row_of([pattern |-> pattern_of(t), kind |-> t.kind,
                          port |-> 443, active |-> TRUE], new_entry)]
        /\ typed' = [e \in DOMAIN typed \cup {new_entry} |->
                       IF e \in DOMAIN typed THEN typed[e]
                       ELSE approval(t.raw.name, t.kind, 443, "hand")]
        /\ draft' = rows'
  BY DEF AddByHand
<1>3. /\ standing' = standing \cup {new_entry} /\ writer = Nobody
      /\ UNCHANGED <<table, writer, pc, todo, merged>>
  BY DEF AddByHand, Unlocked, localVars
<1>4. new_id \in Nat /\ new_id \notin DOMAIN rows
  BY <1>1, FreshNumber DEF RowsOK, new_id
<1>5. new_entry \in Nat
  BY <1>1, FreshNumber DEF new_entry
<1>6. /\ DOMAIN rows' = DOMAIN rows \cup {new_id}
      /\ DOMAIN typed' = DOMAIN typed \cup {new_entry}
      /\ \A i \in DOMAIN rows : rows'[i] = rows[i]
  BY <1>2
<1>7. "entry" \in DOMAIN rows'[new_id] /\ rows'[new_id].entry = new_entry
  BY <1>2, <1>4 DEF row_of
<1>8. Bounded(rows') /\ Bounded(typed')
  <2>1. ASSUME NEW f, NEW g, NEW new \in Nat, Bounded(f),
               DOMAIN g = DOMAIN f \cup {new}
        PROVE  Bounded(g)
    <3>1. PICK n \in Nat : DOMAIN f \subseteq 0..n
      BY <2>1 DEF Bounded
    <3>2. n + new \in Nat /\ DOMAIN g \subseteq 0..(n + new)
      BY <2>1, <3>1
    <3> QED
      BY <3>2 DEF Bounded
  <2> QED
    BY <1>1, <1>4, <1>5, <1>6, <2>1 DEF RowsOK
<1>9. entries(rows') = entries(rows) \cup {new_entry}
  BY <1>6, <1>7, <1>4 DEF entries
<1>10. RowsInv'
  <2>1. RowsOK(rows')
    BY <1>1, <1>6, <1>7, <1>8 DEF RowsOK
  <2>2. RowsOK(draft') /\ entries(draft') = entries(rows')
    BY <1>2, <2>1
  <2>3. todo' = [q \in Process |-> todo'[q]]
    BY <1>1, <1>3
  <2> QED
    BY <1>8, <2>1, <2>2, <2>3 DEF RowsInv
<1>11. /\ {rows'[i].entry : i \in DOMAIN rows'} \cup DOMAIN merged'
            = DOMAIN typed'
       /\ standing' \subseteq DOMAIN typed'
  BY <1>1, <1>3, <1>6, <1>9 DEF entries
<1> QED
  BY <1>2, <1>3, <1>10, <1>11 DEF TypeInv, TypeOK

LEMMA EndKeeps ==
  ASSUME TypeInv, NEW i \in DOMAIN rows, End(i)
  PROVE  RowsInv' /\ TypeOK'
<1>1. /\ RowsOK(rows) /\ Bounded(typed) /\ todo = [q \in Process |-> todo[q]]
      /\ entries(rows) \cup DOMAIN merged = DOMAIN typed
      /\ standing \subseteq DOMAIN typed
  BY DEF TypeInv, RowsInv, TypeOK, entries
<1>2. /\ rows' = [rows EXCEPT ![i].active = FALSE] /\ draft' = rows'
      /\ standing' \subseteq standing /\ writer = Nobody
      /\ UNCHANGED <<table, writer, pc, todo, typed, merged>>
  BY DEF End, Unlocked, localVars
<1>3. DOMAIN rows' = DOMAIN rows
  BY <1>2
<1>4. \A j \in DOMAIN rows : "entry" \in DOMAIN rows'[j]
                             /\ rows'[j].entry = rows[j].entry
  BY <1>1, <1>2 DEF RowsOK
<1>5. RowsOK(rows') /\ entries(rows') = entries(rows)
  BY <1>1, <1>3, <1>4 DEF RowsOK, Bounded, entries
<1>6. RowsInv'
  BY <1>1, <1>2, <1>5 DEF RowsInv
<1>7. {rows'[j].entry : j \in DOMAIN rows'} \cup DOMAIN merged' = DOMAIN typed'
  BY <1>1, <1>2, <1>5 DEF entries
<1> QED
  BY <1>1, <1>2, <1>6, <1>7 DEF TypeInv, TypeOK

LEMMA TypeNext ==
  ASSUME TypeInv, [Next]_vars
  PROVE  TypeInv'
<1>1. SchemaInv'
  BY SchemaNext DEF TypeInv
<1>2. ASSUME NEW p \in Process, StepOf(p) PROVE RowsInv' /\ TypeOK'
  BY <1>1, <1>2, StepKeeps DEF SchemaInv, TypeOK, TodoOK, entries
<1>3. CASE UNCHANGED vars
  <2>1. UNCHANGED <<table, rows, draft, writer, pc, todo, typed, standing,
                    merged>>
    BY <1>3 DEF vars, tableVars, localVars, historyVars
  <2>2. RowsInv'
    BY <2>1 DEF TypeInv, RowsInv, RowsOK, Bounded, entries
  <2>3. TypeOK'
    BY <2>1 DEF TypeInv, TypeOK
  <2> QED
    BY <1>1, <2>2, <2>3 DEF TypeInv
<1> QED
  BY <1>1, <1>2, <1>3, AddKeeps, EndKeeps
     DEF Next, StepOf, TypeInv, Service, Process

\* The types of the state; and across migrations, merges, crashes and entries
\* of the operator, every approval there ever was is in the table or among
\* those a merge deleted.
THEOREM StartupTyped == Spec => []TypeOK
<1>1. Init => TypeInv
  BY TypeInit, SchemaInit DEF TypeInv
<1>2. TypeInv => TypeOK
  BY DEF TypeInv
<1> QED
  BY <1>1, <1>2, TypeNext, PTL DEF Spec

----------------------------------------------------------------------------
(* Public suffix lists.                                                   *)

Name == Seq(STRING)

\* A name is at or below another when it ends with its labels.
LEMMA SuffixPoints ==
  ASSUME NEW h \in Name, NEW d \in Name
  PROVE  at_or_below(h, d) <=>
           /\ Len(d) <= Len(h)
           /\ \A k \in 1..Len(d) : d[k] = h[Len(h) - Len(d) + k]
<1> DEFINE s == SubSeq(h, Len(h) - Len(d) + 1, Len(h))
<1>1. ASSUME Len(d) <= Len(h)
      PROVE  /\ s \in Name /\ Len(s) = Len(d)
             /\ \A k \in 1..Len(d) : s[k] = h[Len(h) - Len(d) + k]
  BY <1>1 DEF Name
<1>2. ASSUME Len(d) <= Len(h)
      PROVE  s = d <=> \A k \in 1..Len(d) : d[k] = h[Len(h) - Len(d) + k]
  <2>1. s \in Name /\ Len(s) = Len(d)
        /\ \A k \in 1..Len(d) : s[k] = h[Len(h) - Len(d) + k]
    BY <1>1, <1>2
  <2> HIDE DEF s
  <2> QED
    BY <2>1 DEF Name
<1>3. Len(d) = Len(h) => s = h
  BY <1>1 DEF Name
<1> QED
  BY <1>2, <1>3 DEF at_or_below, below, Name

\* What holds of the public suffix list and is not looked at when it is read:
\* an exception is to a rule *.x; one for a name www.x has a top-level domain
\* for x; and no rule is at or below an exception.
ListSound ==
  /\ \A r \in Psl.exc : Len(r) > 1 /\ Tail(r) \in Psl.wild
  /\ \A r \in Psl.exc : Head(r) = Www => Len(r) = 2
  /\ \A r \in Psl.exc, q \in Psl.exact \cup Psl.wild : ~ at_or_below(q, r)

Exempt(h) == {rule \in Psl.exc : at_or_below(h, rule)}
Plain(h) == {rule \in Psl.exact : at_or_below(h, rule)}
Starred(h) == {rule \in Psl.wild : below(h, rule)}

Lengths(h) == {1} \cup {Len(rule) : rule \in Plain(h)}
                  \cup {Len(rule) + 1 : rule \in Starred(h)}

\* suffix_length in terms of the rules that match.
LEMMA SuffixMeaning ==
  ASSUME NEW h
  PROVE  suffix_length(h, Psl) =
           IF Exempt(h) # {} THEN Max({Len(rule) - 1 : rule \in Exempt(h)})
                             ELSE Max(Lengths(h))
BY DEF suffix_length, Exempt, Lengths, Plain, Starred

\* An exception that matches decides; else the longest match does.
LEMMA SuffixLength ==
  ASSUME NEW h \in Name, Len(h) > 1, ListSound
  PROVE  /\ Exempt(h) # {} => \E r \in Exempt(h) :
              suffix_length(h, Psl) = Len(r) - 1
         /\ Exempt(h) = {} =>
              /\ suffix_length(h, Psl) \in Lengths(h)
              /\ \A n \in Lengths(h) : n <= suffix_length(h, Psl)
<1>1. suffix_length(h, Psl) =
        IF Exempt(h) # {} THEN Max({Len(rule) - 1 : rule \in Exempt(h)})
                          ELSE Max(Lengths(h))
  BY SuffixMeaning
<1>2. Psl.exact \subseteq Name /\ Psl.wild \subseteq Name /\ Psl.exc \subseteq Name
  BY StartupAssumption DEF Name
<1>3. \A r \in Exempt(h) : r \in Name /\ Len(r) - 1 \in Nat /\ Len(r) <= Len(h)
  BY <1>2, SuffixPoints DEF Exempt, ListSound, Name
<1>4. \A r \in Plain(h) : r \in Name /\ Len(r) <= Len(h)
  BY <1>2, SuffixPoints DEF Plain
<1>5. \A r \in Starred(h) : r \in Name /\ Len(r) + 1 <= Len(h)
  BY <1>2 DEF Starred, below, Name
<1>6. Len(h) \in Nat /\ \A r \in Name : Len(r) \in Nat
  BY DEF Name
<1>7. ASSUME Exempt(h) # {}
      PROVE  \E r \in Exempt(h) : suffix_length(h, Psl) = Len(r) - 1
  <2> DEFINE S == {Len(rule) - 1 : rule \in Exempt(h)}
  <2>1. S \subseteq Nat /\ S # {} /\ \A x \in S : x <= Len(h)
    BY <1>3, <1>6, <1>7
  <2> HIDE DEF S
  <2>2. Max(S) \in S
    BY <1>6, <2>1, MaxIsGreatest
  <2> QED
    BY <1>1, <1>7, <2>2 DEF S
<1>8. ASSUME Exempt(h) = {}
      PROVE  /\ suffix_length(h, Psl) \in Lengths(h)
             /\ \A n \in Lengths(h) : n <= suffix_length(h, Psl)
  <2>1. /\ Lengths(h) \subseteq Nat /\ Lengths(h) # {}
        /\ \A x \in Lengths(h) : x <= Len(h)
    BY <1>4, <1>5, <1>6 DEF Lengths
  <2>2. /\ Max(Lengths(h)) \in Lengths(h)
        /\ \A x \in Lengths(h) : x <= Max(Lengths(h))
    BY <1>6, <2>1, MaxIsGreatest
  <2> QED
    BY <1>1, <1>8, <2>2
<1> QED
  BY <1>7, <1>8

\* What is at or below the rest of a name after its first label.
LEMMA TailSuffix ==
  ASSUME NEW h \in Name, Len(h) > 0, NEW d \in Name
  PROVE  /\ Tail(h) \in Name /\ Len(Tail(h)) = Len(h) - 1
         /\ at_or_below(Tail(h), d) <=> at_or_below(h, d) /\ Len(d) < Len(h)
         /\ Len(d) + 1 = Len(h) => (at_or_below(h, d) <=> d = Tail(h))
<1>1. /\ Tail(h) \in Name /\ Len(Tail(h)) = Len(h) - 1
      /\ \A k \in 1..Len(h) - 1 : Tail(h)[k] = h[k + 1]
      /\ Len(h) \in Nat /\ Len(d) \in Nat
  BY DEF Name
<1>2. at_or_below(Tail(h), d) <=>
        /\ Len(d) <= Len(h) - 1
        /\ \A k \in 1..Len(d) : d[k] = Tail(h)[Len(h) - 1 - Len(d) + k]
  <2> DEFINE t == Tail(h)
  <2>1. at_or_below(t, d) <=>
          /\ Len(d) <= Len(t)
          /\ \A k \in 1..Len(d) : d[k] = t[Len(t) - Len(d) + k]
    BY <1>1, SuffixPoints
  <2>2. Len(t) = Len(h) - 1
    BY <1>1
  <2> HIDE DEF t
  <2>3. at_or_below(t, d) <=>
          /\ Len(d) <= Len(h) - 1
          /\ \A k \in 1..Len(d) : d[k] = t[Len(h) - 1 - Len(d) + k]
    BY <2>1, <2>2
  <2> QED
    BY <2>3 DEF t
<1>3. at_or_below(h, d) <=>
        /\ Len(d) <= Len(h)
        /\ \A k \in 1..Len(d) : d[k] = h[Len(h) - Len(d) + k]
  BY SuffixPoints
<1>4. Len(d) <= Len(h) - 1 => \A k \in 1..Len(d) :
        Tail(h)[Len(h) - 1 - Len(d) + k] = h[Len(h) - Len(d) + k]
  BY <1>1
<1>5. at_or_below(Tail(h), d) <=> at_or_below(h, d) /\ Len(d) < Len(h)
  <2>1. CASE Len(d) <= Len(h) - 1
    <3>1. at_or_below(Tail(h), d) <=> at_or_below(h, d)
      BY <1>1, <1>2, <1>3, <1>4, <2>1
    <3> QED
      BY <1>1, <2>1, <3>1
  <2>2. CASE ~ (Len(d) <= Len(h) - 1)
    BY <1>1, <1>2, <2>2
  <2> QED
    BY <2>1, <2>2
<1>6. ASSUME Len(d) + 1 = Len(h) PROVE at_or_below(h, d) <=> d = Tail(h)
  <2>1. at_or_below(h, d) <=> \A k \in 1..Len(d) : d[k] = Tail(h)[k]
    BY <1>1, <1>3, <1>6
  <2>2. Len(Tail(h)) = Len(d)
    BY <1>1, <1>6
  <2> QED
    BY <1>1, <2>1, <2>2 DEF Name
<1> QED
  BY <1>1, <1>5, <1>6

\* The rules of the list are names.
LEMMA RulesAreNames ==
  /\ Psl.exact \subseteq Name /\ Psl.wild \subseteq Name
  /\ Psl.exc \subseteq Name
BY StartupAssumption DEF Name

\* A name is one that strangers register their names under exactly when the
\* list leaves nobody to own it.
LEMMA ZoneIsUnowned ==
  ASSUME NEW h \in Name, Len(h) > 1, ListSound
  PROVE  /\ registered(h, Psl) <=> ~ is_zone(h, Psl)
         /\ suffix_length(h, Psl) \in Nat
         /\ suffix_length(h, Psl) <= Len(h)
<1> DEFINE s == suffix_length(h, Psl)
<1>1. Tail(h) \in Name /\ Len(Tail(h)) = Len(h) - 1 /\ Len(h) \in Nat
  BY TailSuffix DEF Name
<1>2. CASE Exempt(h) # {}
  <2>1. PICK r \in Exempt(h) : s = Len(r) - 1
    BY <1>2, SuffixLength
  <2>2. /\ r \in Name /\ r \in Psl.exc /\ at_or_below(h, r) /\ Len(r) > 1
        /\ Len(r) \in Nat
    BY <2>1, RulesAreNames DEF Exempt, ListSound, Name
  <2>3. Len(r) <= Len(h)
    BY <2>2, SuffixPoints
  <2>4. h \notin Psl.exact
    BY <2>2 DEF ListSound
  <2>5. CASE h \in Psl.exc
    BY <1>1, <2>1, <2>2, <2>3, <2>5 DEF is_zone, registered
  <2>6. CASE h \notin Psl.exc
    <3>1. at_or_below(Tail(h), r)
      <4>1. Len(r) < Len(h)
        BY <1>1, <2>2, <2>6 DEF at_or_below, below
      <4> QED
        BY <1>1, <2>2, <4>1, TailSuffix
    <3>2. Tail(h) \notin Psl.wild
      BY <2>2, <3>1 DEF ListSound
    <3> QED
      BY <1>1, <2>1, <2>2, <2>3, <2>4, <3>2 DEF is_zone, registered
  <2> QED
    BY <2>5, <2>6
<1>3. CASE Exempt(h) = {}
  <2>1. s \in Lengths(h) /\ \A n \in Lengths(h) : n <= s
    BY <1>3, SuffixLength
  <2>2. h \notin Psl.exc
    BY <1>3 DEF Exempt, at_or_below
  <2>3. \A r \in Plain(h) : /\ Len(r) \in Nat /\ Len(r) <= Len(h)
                            /\ Len(r) = Len(h) => r = h
    <3> SUFFICES ASSUME NEW r \in Plain(h)
                 PROVE  /\ Len(r) \in Nat /\ Len(r) <= Len(h)
                        /\ Len(r) = Len(h) => r = h
      OBVIOUS
    <3>1. r \in Name /\ at_or_below(h, r)
      BY RulesAreNames DEF Plain
    <3>2. Len(r) \in Nat /\ Len(r) <= Len(h)
      BY <3>1, SuffixPoints DEF Name
    <3> QED
      BY <1>1, <3>1, <3>2 DEF at_or_below, below
  <2>4. \A r \in Starred(h) : /\ Len(r) \in Nat /\ Len(r) < Len(h)
                              /\ Len(r) + 1 = Len(h) => r = Tail(h)
    <3> SUFFICES ASSUME NEW r \in Starred(h)
                 PROVE  /\ Len(r) \in Nat /\ Len(r) < Len(h)
                        /\ Len(r) + 1 = Len(h) => r = Tail(h)
      OBVIOUS
    <3>1. r \in Name /\ below(h, r) /\ at_or_below(h, r)
      BY RulesAreNames DEF Starred, at_or_below
    <3>2. Len(r) \in Nat /\ Len(r) < Len(h)
      BY <1>1, <3>1 DEF below, Name
    <3> QED
      BY <1>1, <3>1, <3>2, TailSuffix
  <2>5. s \in Nat /\ s <= Len(h)
    BY <1>1, <2>1, <2>3, <2>4 DEF Lengths
  <2>6. ASSUME is_zone(h, Psl) PROVE s = Len(h)
    <3>1. CASE h \in Psl.exact
      <4>1. h \in Plain(h)
        BY <3>1 DEF Plain, at_or_below
      <4>2. Len(h) \in Lengths(h)
        BY <4>1 DEF Lengths
      <4> QED
        BY <1>1, <2>1, <2>5, <4>2
    <3>2. CASE Tail(h) \in Psl.wild
      <4>1. below(h, Tail(h))
        <5>1. at_or_below(h, Tail(h))
          <6>1. PICK t \in Name : t = Tail(h)
            BY <1>1
          <6>2. Len(t) + 1 = Len(h) /\ Len(h) > 0
            BY <1>1, <6>1
          <6>3. Len(t) + 1 = Len(h) => (at_or_below(h, t) <=> t = Tail(h))
            BY <6>2, TailSuffix, Zenon
          <6>4. at_or_below(h, t)
            BY <6>1, <6>2, <6>3
          <6> QED
            BY <6>1, <6>4
        <5>2. h # Tail(h)
          <6>1. Len(h) # Len(Tail(h))
            BY <1>1
          <6> QED
            BY <6>1
        <5> QED
          BY <5>1, <5>2 DEF at_or_below
      <4>2. Tail(h) \in Starred(h)
        BY <3>2, <4>1 DEF Starred
      <4>3. Len(Tail(h)) + 1 \in Lengths(h)
        BY <4>2 DEF Lengths
      <4> QED
        BY <1>1, <2>1, <2>5, <4>3
    <3> QED
      BY <2>6, <3>1, <3>2 DEF is_zone
  <2>7. ASSUME s = Len(h) PROVE is_zone(h, Psl)
    <3>1. CASE s = 1
      BY <1>1, <2>7, <3>1
    <3>2. CASE \E r \in Plain(h) : s = Len(r)
      BY <2>2, <2>3, <2>7, <3>2 DEF Plain, is_zone
    <3>3. CASE \E r \in Starred(h) : s = Len(r) + 1
      BY <2>2, <2>4, <2>7, <3>3 DEF Starred, is_zone
    <3> QED
      BY <2>1, <3>1, <3>2, <3>3 DEF Lengths
  <2> QED
    BY <1>1, <2>5, <2>6, <2>7 DEF registered
<1> QED
  BY <1>2, <1>3

\* Two names with the same rules above them, one at the end of the other,
\* have the same owner.
LEMMA SameEnd ==
  ASSUME NEW h \in Name, NEW t \in Name, at_or_below(h, t),
         registered(h, Psl), registered(t, Psl),
         suffix_length(h, Psl) = suffix_length(t, Psl),
         suffix_length(t, Psl) \in Nat
  PROVE  owner(h, Psl) = owner(t, Psl)
<1> DEFINE s == suffix_length(t, Psl)
           x == SubSeq(h, Len(h) - s, Len(h))
           y == SubSeq(t, Len(t) - s, Len(t))
<1>1. s \in Nat /\ s < Len(t) /\ Len(t) \in Nat /\ Len(h) \in Nat
  BY DEF registered, Name
<1>2. /\ Len(t) <= Len(h)
      /\ \A k \in 1..Len(t) : t[k] = h[Len(h) - Len(t) + k]
  BY SuffixPoints
<1> HIDE DEF s
<1>3. /\ x \in Name /\ Len(x) = s + 1
      /\ \A k \in 1..s + 1 : x[k] = h[Len(h) - s + k - 1]
  BY <1>1, <1>2 DEF Name
<1>4. /\ y \in Name /\ Len(y) = s + 1
      /\ \A k \in 1..s + 1 : y[k] = t[Len(t) - s + k - 1]
  BY <1>1 DEF Name
<1>5. \A k \in 1..s + 1 : x[k] = y[k]
  <2> SUFFICES ASSUME NEW k \in 1..s + 1 PROVE x[k] = y[k]
    OBVIOUS
  <2>1. Len(t) - s + k - 1 \in 1..Len(t)
    BY <1>1
  <2>2. t[Len(t) - s + k - 1] = h[Len(h) - Len(t) + (Len(t) - s + k - 1)]
    BY <1>2, <2>1
  <2>3. Len(h) - Len(t) + (Len(t) - s + k - 1) = Len(h) - s + k - 1
    BY <1>1
  <2> QED
    BY <1>3, <1>4, <2>2, <2>3
<1> HIDE DEF x, y
<1>6. x = y
  BY <1>3, <1>4, <1>5 DEF Name
<1> QED
  BY <1>6 DEF x, y, s, owner

LEMMA AtOrBelowLen ==
  ASSUME NEW h \in Name, NEW d \in Name
  PROVE  /\ Len(h) \in Nat /\ Len(d) \in Nat
         /\ at_or_below(h, d) => Len(d) <= Len(h)
         /\ at_or_below(h, d) /\ Len(d) = Len(h) => d = h
         /\ below(h, d) <=> at_or_below(h, d) /\ Len(d) < Len(h)
<1>1. Len(h) \in Nat /\ Len(d) \in Nat
  BY DEF Name
<1> QED
  BY <1>1 DEF at_or_below, below

\* What canonical_host stores and looks up belongs to whoever owned the name
\* it was given: the www is taken off no name that strangers register under,
\* and a registered name stays registered.
THEOREM FoldingKeepsOwner ==
  ASSUME NEW name \in Seq(STRING), ListSound, registered(name, Psl)
  PROVE  /\ registered(fold(name), Psl)
         /\ owner(fold(name), Psl) = owner(name, Psl)
<1>1. CASE fold(name) = name
  BY <1>1
<1>2. CASE fold(name) # name
  <2> DEFINE t == Tail(name)
  <2>1. /\ name \in Name /\ Len(name) > 2 /\ Len(name) \in Nat
        /\ fold(name) = t /\ Head(name) = Www /\ ~ is_zone(t, Psl)
    BY <1>2 DEF fold, canonical_host, Name
  <2>2. /\ t \in Name /\ Len(t) = Len(name) - 1 /\ Len(t) \in Nat
        /\ \A d \in Name : at_or_below(t, d) <=>
                           at_or_below(name, d) /\ Len(d) < Len(name)
    <3>1. Len(name) > 0
      BY <2>1
    <3> QED
      BY <2>1, <3>1, TailSuffix DEF Name
  <2> HIDE DEF t
  <2>3. ~ is_zone(name, Psl)
    BY <2>1, ZoneIsUnowned
  <2>4. \A d \in Name : at_or_below(name, d) =>
          Len(d) < Len(name) \/ d = name
    <3>1. \A d \in Name : /\ Len(name) \in Nat /\ Len(d) \in Nat
                          /\ at_or_below(name, d) => Len(d) <= Len(name)
                          /\ at_or_below(name, d) /\ Len(d) = Len(name)
                             => d = name
      BY <2>1, AtOrBelowLen
    <3> QED
      BY <3>1
  <2>5. Exempt(name) = Exempt(t)
    <3>1. \A r \in Psl.exc : r \in Name /\ (Head(r) = Www => Len(r) = 2)
      BY RulesAreNames DEF ListSound
    <3>2. name \notin Psl.exc
      <4>1. SUFFICES ASSUME name \in Psl.exc PROVE FALSE
        OBVIOUS
      <4>2. Len(name) = 2
        BY <2>1, <3>1, <4>1
      <4> QED
        BY <2>1, <4>2
    <3> QED
      BY <2>2, <2>4, <3>1, <3>2 DEF Exempt
  <2>6. ASSUME Exempt(name) = {}
        PROVE  Plain(name) = Plain(t) /\ Starred(name) = Starred(t)
    <3>1. name \notin Psl.exc
      BY <2>6 DEF Exempt, at_or_below
    <3>2. name \notin Psl.exact /\ t \notin Psl.wild
      BY <2>1, <2>3, <3>1 DEF is_zone, t
    <3>3. \A r \in Psl.exact : r \in Name /\ r # name
      BY <3>2, RulesAreNames
    <3>4. Plain(name) = Plain(t)
      BY <2>2, <2>4, <3>3 DEF Plain
    <3>5. ASSUME NEW r \in Psl.wild PROVE below(name, r) <=> below(t, r)
      <4>1. r \in Name /\ r # t /\ Len(r) \in Nat
        BY <3>2, RulesAreNames DEF Name
      <4>2. below(name, r) <=> at_or_below(name, r) /\ Len(r) < Len(name)
        BY <2>1, <4>1, AtOrBelowLen
      <4>3. below(t, r) <=> at_or_below(t, r) /\ Len(r) < Len(t)
        BY <2>2, <4>1, AtOrBelowLen
      <4>4. at_or_below(t, r) => Len(r) < Len(t)
        BY <2>2, <4>1, AtOrBelowLen
      <4> QED
        BY <2>2, <4>1, <4>2, <4>3, <4>4
    <3>6. Starred(name) = Starred(t)
      BY <3>5 DEF Starred
    <3> QED
      BY <3>4, <3>6
  <2>7. suffix_length(name, Psl) = suffix_length(t, Psl)
    <3>1. CASE Exempt(name) = {}
      BY <2>5, <2>6, <3>1, SuffixMeaning DEF Lengths
    <3>2. CASE Exempt(name) # {}
      BY <2>5, <3>2, SuffixMeaning
    <3> QED
      BY <3>1, <3>2
  <2>8. registered(t, Psl) /\ suffix_length(t, Psl) \in Nat
    BY <2>1, <2>2, ZoneIsUnowned
  <2>9. at_or_below(name, t)
    BY <2>2 DEF at_or_below
  <2>10. owner(name, Psl) = owner(t, Psl)
    BY <2>1, <2>2, <2>7, <2>8, <2>9, SameEnd
  <2> QED
    BY <2>1, <2>8, <2>10
<1> QED
  BY <1>1, <1>2

\* Of two names at the end of a third, the shorter is at the end of the
\* longer.
LEMMA EndsNest ==
  ASSUME NEW h \in Name, NEW d \in Name, NEW e \in Name, at_or_below(h, d)
  PROVE  /\ at_or_below(h, e) /\ Len(e) <= Len(d) => at_or_below(d, e)
         /\ at_or_below(d, e) => at_or_below(h, e)
<1>1. Len(h) \in Nat /\ Len(d) \in Nat /\ Len(e) \in Nat
  BY DEF Name
<1>2. /\ Len(d) <= Len(h)
      /\ \A k \in 1..Len(d) : d[k] = h[Len(h) - Len(d) + k]
  BY SuffixPoints
<1>3. \A k \in 1..Len(e) : Len(e) <= Len(d) =>
        d[Len(d) - Len(e) + k] = h[Len(h) - Len(e) + k]
  <2> SUFFICES ASSUME NEW k \in 1..Len(e), Len(e) <= Len(d)
               PROVE  d[Len(d) - Len(e) + k] = h[Len(h) - Len(e) + k]
    OBVIOUS
  <2>1. Len(d) - Len(e) + k \in 1..Len(d)
    BY <1>1
  <2>2. d[Len(d) - Len(e) + k] = h[Len(h) - Len(d) + (Len(d) - Len(e) + k)]
    BY <1>2, <2>1
  <2>3. Len(h) - Len(d) + (Len(d) - Len(e) + k) = Len(h) - Len(e) + k
    BY <1>1
  <2> QED
    BY <2>2, <2>3
<1>4. at_or_below(h, e) <=>
        /\ Len(e) <= Len(h)
        /\ \A k \in 1..Len(e) : e[k] = h[Len(h) - Len(e) + k]
  BY SuffixPoints
<1>5. at_or_below(d, e) <=>
        /\ Len(e) <= Len(d)
        /\ \A k \in 1..Len(e) : e[k] = d[Len(d) - Len(e) + k]
  BY SuffixPoints
<1>6. ASSUME Len(e) <= Len(d) PROVE at_or_below(d, e) <=> at_or_below(h, e)
  BY <1>1, <1>2, <1>3, <1>4, <1>5, <1>6
<1> QED
  BY <1>5, <1>6

\* An owner is one label longer than the suffix it is registered under.
LEMMA OwnerLength ==
  ASSUME NEW h \in Name, registered(h, Psl), suffix_length(h, Psl) \in Nat
  PROVE  Len(owner(h, Psl)) = suffix_length(h, Psl) + 1
<1> DEFINE s == suffix_length(h, Psl)
<1>1. s \in Nat /\ s < Len(h) /\ Len(h) \in Nat
  BY DEF registered, Name
<1> HIDE DEF s
<1>2. Len(SubSeq(h, Len(h) - s, Len(h))) = s + 1
  BY <1>1 DEF Name
<1> QED
  BY <1>2 DEF s, owner

\* No rule of the list is about names below base alone.
LEMMA NothingBelow ==
  ASSUME ListSound, NEW base \in Name, Len(base) > 1,
         wildcard_psl_conflict(base, Psl) = "none",
         NEW name \in Name, at_or_below(name, base)
  PROVE  registered(name, Psl) /\ owner(name, Psl) = owner(base, Psl)
<1>1. /\ ~ is_zone(base, Psl)
      /\ \A r \in Psl.exact : ~ below(r, base)
      /\ \A r \in Psl.wild : ~ at_or_below(r, base)
  BY DEF wildcard_psl_conflict
<1>2. Len(base) \in Nat /\ Len(name) \in Nat /\ Len(base) <= Len(name)
  BY AtOrBelowLen
<1>3. \A r \in Name : Len(r) \in Nat
  BY DEF Name
<1>4. ASSUME NEW r \in Name, ~ below(r, base)
      PROVE  at_or_below(name, r) <=> at_or_below(base, r)
  <2>1. CASE Len(r) <= Len(base)
    BY <2>1, EndsNest
  <2>2. CASE Len(base) < Len(r)
    <3>1. ~ at_or_below(r, base)
      BY <1>2, <1>3, <1>4, <2>2 DEF at_or_below
    <3>2. ~ at_or_below(name, r)
      BY <1>2, <1>3, <2>2, <3>1, EndsNest
    <3>3. ~ at_or_below(base, r)
      BY <1>2, <1>3, <2>2, AtOrBelowLen
    <3> QED
      BY <3>2, <3>3
  <2> QED
    BY <1>2, <1>3, <2>1, <2>2
<1>5. Exempt(name) = Exempt(base)
  <2>1. ASSUME NEW r \in Psl.exc PROVE r \in Name /\ ~ below(r, base)
    <3>1. r \in Name /\ Len(r) > 1 /\ Tail(r) \in Psl.wild
      BY RulesAreNames DEF ListSound
    <3>2. Len(r) > 0
      BY <1>3, <3>1
    <3>3. below(r, base) => at_or_below(Tail(r), base)
      BY <3>1, <3>2, TailSuffix, AtOrBelowLen
    <3> QED
      BY <1>1, <3>1, <3>3
  <2> QED
    BY <1>4, <2>1 DEF Exempt
<1>6. Plain(name) = Plain(base)
  BY <1>1, <1>4, RulesAreNames DEF Plain
<1>7. Starred(name) = Starred(base)
  <2>1. ASSUME NEW r \in Psl.wild PROVE below(name, r) <=> below(base, r)
    <3>1. r \in Name /\ ~ at_or_below(r, base) /\ ~ below(r, base)
      BY <1>1, RulesAreNames DEF at_or_below
    <3>2. at_or_below(name, r) <=> at_or_below(base, r)
      BY <1>4, <3>1
    <3>3. below(base, r) <=> at_or_below(base, r) /\ Len(r) < Len(base)
      BY <3>1, AtOrBelowLen
    <3>4. below(name, r) <=> at_or_below(name, r) /\ Len(r) < Len(name)
      BY <3>1, AtOrBelowLen
    <3>5. at_or_below(base, r) => Len(r) < Len(base)
      <4>1. r # base
        BY <3>1 DEF at_or_below
      <4>2. at_or_below(base, r) => Len(r) <= Len(base)
        BY <3>1, AtOrBelowLen
      <4>3. at_or_below(base, r) /\ Len(r) = Len(base) => r = base
        BY <3>1, AtOrBelowLen
      <4> QED
        BY <1>2, <1>3, <3>1, <4>1, <4>2, <4>3
    <3> QED
      BY <1>2, <1>3, <3>1, <3>2, <3>3, <3>4, <3>5
  <2> QED
    BY <2>1 DEF Starred
<1>8. suffix_length(name, Psl) = suffix_length(base, Psl)
  <2>1. CASE Exempt(base) = {}
    BY <1>5, <1>6, <1>7, <2>1, SuffixMeaning DEF Lengths
  <2>2. CASE Exempt(base) # {}
    BY <1>5, <2>2, SuffixMeaning
  <2> QED
    BY <2>1, <2>2
<1>9. registered(base, Psl) /\ suffix_length(base, Psl) \in Nat
  BY <1>1, ZoneIsUnowned
<1>10. registered(name, Psl)
  BY <1>2, <1>8, <1>9 DEF registered
<1> QED
  BY <1>8, <1>9, <1>10, SameEnd

\* The names that may be asked for are enough to tell who owns what is below
\* a base: one under every rule of the list for a known top-level domain and
\* under no exception, and the bases themselves.
RichNames ==
  /\ \A r \in Psl.exact : r[Len(r)] \in Tld =>
       \E n \in Names : at_or_below(n, r) /\ Exempt(n) = {}
  /\ \A r \in Psl.wild : r[Len(r)] \in Tld =>
       \E n \in Names : below(n, r) /\ Exempt(n) = {}
  /\ \A t \in Typed : t.kind = "wildcard" => t.raw.name \in Names

\* Names below one another have one top-level domain.
LEMMA SameTop ==
  ASSUME NEW h \in Name, NEW d \in Name, Len(d) > 0, at_or_below(h, d)
  PROVE  h[Len(h)] = d[Len(d)]
<1>1. Len(d) \in Nat /\ Len(h) \in Nat /\ Len(d) \in 1..Len(d)
  BY DEF Name
<1>2. d[Len(d)] = h[Len(h) - Len(d) + Len(d)]
  BY <1>1, SuffixPoints
<1> QED
  BY <1>1, <1>2

\* wildcard_psl_conflict reads the rules at and below a base, and that is
\* enough: it reports a conflict exactly when a wildcard on the base admits
\* names of more owners than one.
THEOREM ConflictMeansSpan ==
  ASSUME ListSound, RichNames,
         NEW base \in Names, Len(base) > 1
  PROVE  wildcard_psl_conflict(base, Psl) # "none" <=> spans(base)
<1>1. base \in Name /\ Names \subseteq Name /\ Len(base) \in Nat
  BY StartupAssumption DEF Name
<1>2. CASE wildcard_psl_conflict(base, Psl) = "none"
  BY <1>1, <1>2, NothingBelow DEF spans
<1>3. CASE is_zone(base, Psl)
  <2>1. ~ registered(base, Psl) /\ at_or_below(base, base)
    BY <1>1, <1>3, ZoneIsUnowned DEF at_or_below
  <2>2. wildcard_psl_conflict(base, Psl) # "none"
    BY <1>3 DEF wildcard_psl_conflict
  <2> QED
    BY <2>1, <2>2 DEF spans
<1>4. base[Len(base)] \in Tld /\ Len(base) > 0
  BY <1>1, StartupAssumption
<1>5. CASE wildcard_psl_conflict(base, Psl) # "none" /\ ~ is_zone(base, Psl)
  <2>1. \/ \E r \in Psl.exact : below(r, base)
        \/ \E r \in Psl.wild : at_or_below(r, base)
    BY <1>5 DEF wildcard_psl_conflict
  <2>2. PICK name \in Names : /\ at_or_below(name, base) /\ Exempt(name) = {}
                              /\ \E m \in Lengths(name) : m > Len(base)
    <3>1. ASSUME NEW r \in Psl.exact, below(r, base)
          PROVE  \E name \in Names :
                    /\ at_or_below(name, base) /\ Exempt(name) = {}
                    /\ \E m \in Lengths(name) : m > Len(base)
      <4>1. r[Len(r)] \in Tld
        BY <1>1, <1>4, <3>1, RulesAreNames, SameTop DEF at_or_below
      <4>2. PICK n \in Names : at_or_below(n, r) /\ Exempt(n) = {}
        BY <3>1, <4>1 DEF RichNames
      <4>3. n \in Name /\ r \in Name /\ Len(r) > Len(base)
        BY <1>1, <3>1, <4>2, RulesAreNames DEF below
      <4>4. Len(r) \in Lengths(n)
        BY <3>1, <4>2 DEF Lengths, Plain
      <4>5. at_or_below(n, base)
        BY <1>1, <3>1, <4>2, <4>3, EndsNest DEF at_or_below
      <4> QED
        BY <4>2, <4>3, <4>4, <4>5
    <3>2. ASSUME NEW r \in Psl.wild, at_or_below(r, base)
          PROVE  \E name \in Names :
                    /\ at_or_below(name, base) /\ Exempt(name) = {}
                    /\ \E m \in Lengths(name) : m > Len(base)
      <4>1. r[Len(r)] \in Tld
        BY <1>1, <1>4, <3>2, RulesAreNames, SameTop
      <4>2. PICK n \in Names : below(n, r) /\ Exempt(n) = {}
        BY <3>2, <4>1 DEF RichNames
      <4>3. n \in Name /\ r \in Name /\ at_or_below(n, r)
        BY <1>1, <3>2, <4>2, RulesAreNames DEF at_or_below
      <4>4. Len(r) + 1 \in Lengths(n)
        BY <3>2, <4>2 DEF Lengths, Starred
      <4>5. at_or_below(n, base)
        BY <1>1, <3>2, <4>3, EndsNest
      <4>6. Len(r) \in Nat /\ Len(base) <= Len(r)
        BY <1>1, <3>2, <4>3, AtOrBelowLen
      <4>7. Len(r) + 1 > Len(base)
        BY <1>1, <4>6
      <4> QED
        BY <4>2, <4>4, <4>5, <4>7
    <3> QED
      BY <2>1, <3>1, <3>2
  <2>3. name \in Name /\ Len(name) \in Nat /\ Len(base) <= Len(name)
    BY <1>1, <2>2, AtOrBelowLen
  <2>4. Len(name) > 1
    BY <1>1, <2>3
  <2>5. /\ suffix_length(name, Psl) \in Nat
        /\ \A n \in Lengths(name) : n <= suffix_length(name, Psl)
    BY <2>2, <2>3, <2>4, SuffixLength, ZoneIsUnowned
  <2>6. suffix_length(name, Psl) > Len(base)
    <3>1. PICK m \in Lengths(name) : m > Len(base)
      BY <2>2
    <3>2. m \in Nat
      BY <3>1, <2>3, RulesAreNames DEF Lengths, Plain, Starred, Name
    <3> QED
      BY <1>1, <2>5, <3>1, <3>2
  <2>7. /\ registered(base, Psl) /\ suffix_length(base, Psl) \in Nat
        /\ suffix_length(base, Psl) < Len(base)
    BY <1>1, <1>5, ZoneIsUnowned DEF registered
  <2>8. Len(owner(base, Psl)) = suffix_length(base, Psl) + 1
    BY <1>1, <2>7, OwnerLength
  <2>9. registered(name, Psl) => owner(name, Psl) # owner(base, Psl)
    <3>1. SUFFICES ASSUME registered(name, Psl)
                   PROVE  owner(name, Psl) # owner(base, Psl)
      OBVIOUS
    <3>2. Len(owner(name, Psl)) = suffix_length(name, Psl) + 1
      BY <2>3, <2>5, <3>1, OwnerLength
    <3>3. Len(owner(name, Psl)) # Len(owner(base, Psl))
      BY <1>1, <2>5, <2>6, <2>7, <2>8, <3>2
    <3> QED
      BY <3>3
  <2> QED
    BY <1>5, <2>2, <2>9 DEF spans
<1> QED
  BY <1>2, <1>3, <1>5

----------------------------------------------------------------------------
(* The list of rows that a merge makes.                                   *)

\* A bounded set of numbers can be listed in order.
Listed(T) == \E s \in [1..Cardinality(T) -> T] :
               \A i, j \in DOMAIN s : i < j => s[i] < s[j]

\* A greatest number goes to the end of the list.
LEMMA ListOneMore ==
  ASSUME NEW n \in Nat, NEW T, T \subseteq 0..n, n \in T, Listed(T \ {n})
  PROVE  Listed(T)
<1> DEFINE c == Cardinality(T \ {n})
<1>1. IsFiniteSet(T)
  <2>1. IsFiniteSet(0..n)
    BY FS_Interval
  <2> QED
    BY <2>1, FS_Subset
<1>2. c \in Nat /\ Cardinality(T) = c + 1
  <2>1. IsFiniteSet(T \ {n}) /\ c = Cardinality(T) - 1
    BY <1>1, FS_RemoveElement
  <2>2. c \in Nat /\ Cardinality(T) \in Nat
    BY <1>1, <2>1, FS_CardinalityType
  <2> QED
    BY <2>1, <2>2
<1> HIDE DEF c
<1>3. PICK r \in [1..c -> T \ {n}] :
        \A i, j \in DOMAIN r : i < j => r[i] < r[j]
  BY DEF Listed, c
<1> DEFINE s == [i \in 1..c + 1 |-> IF i = c + 1 THEN n ELSE r[i]]
<1>4. s \in [1..c + 1 -> T]
  <2> SUFFICES ASSUME NEW i \in 1..c + 1
               PROVE  (IF i = c + 1 THEN n ELSE r[i]) \in T
    OBVIOUS
  <2>1. CASE i = c + 1
    BY <2>1
  <2>2. CASE i # c + 1
    BY <1>2, <1>3, <2>2
  <2> QED
    BY <2>1, <2>2
<1>5. ASSUME NEW i \in 1..c + 1, NEW j \in 1..c + 1, i < j
      PROVE  s[i] < s[j]
  <2>1. i \in 1..c /\ s[i] = r[i]
    BY <1>2, <1>5
  <2>2. CASE j = c + 1
    <3>1. r[i] \in T \ {n}
      BY <1>3, <2>1
    <3>2. r[i] \in 0..n /\ r[i] # n
      BY <3>1
    <3>3. r[i] < n
      BY <3>2
    <3> QED
      BY <2>1, <2>2, <3>3
  <2>3. CASE j # c + 1
    <3>1. j \in 1..c /\ s[j] = r[j]
      BY <1>2, <2>3
    <3> QED
      BY <1>3, <1>5, <2>1, <3>1
  <2> QED
    BY <2>2, <2>3
<1> QED
  BY <1>2, <1>4, <1>5 DEF Listed

\* So the rows to fold can be read in the order of their ids.
LEMMA SortedListing ==
  ASSUME NEW b \in Nat, NEW S, S \subseteq 0..b
  PROVE  Listed(S)
<1> DEFINE less == OpToRel(<, Nat)
           bad == {n \in Nat : \E T \in SUBSET (0..n - 1) : ~ Listed(T)}
<1>1. \A m, n \in Nat : m < n => <<m, n>> \in less
  BY DEF OpToRel
<1>2. IsWellFoundedOn(less, Nat)
  BY NatLessThanWellFounded
<1> HIDE DEF less
<1>3. ASSUME bad # {} PROVE FALSE
  <2>1. bad \subseteq Nat
    OBVIOUS
  <2>2. PICK n \in bad : \A m \in bad : ~ (<<m, n>> \in less)
    BY <1>2, <1>3, <2>1, WFMin
  <2>3. n \in Nat
    BY <2>1, <2>2
  <2>4. PICK T \in SUBSET (0..n - 1) : ~ Listed(T)
    BY <2>2
  <2>5. CASE n = 0
    <3>1. T = {}
      BY <2>4, <2>5
    <3>2. Cardinality(T) = 0
      BY <3>1, FS_EmptySet
    <3>3. [i \in {} |-> i] \in [1..Cardinality(T) -> T]
      BY <3>1, <3>2
    <3>4. Listed(T)
      BY <3>3 DEF Listed
    <3> QED
      BY <2>4, <3>4
  <2>6. CASE n > 0
    <3> DEFINE m == n - 1
    <3>1. m \in Nat /\ m < n /\ 0..m - 1 = (0..m) \ {m} /\ 0..n - 1 = 0..m
      BY <2>3, <2>6
    <3>2. m \notin bad
      BY <1>1, <2>2, <2>3, <3>1
    <3>3. \A U \in SUBSET (0..m - 1) : Listed(U)
      BY <3>1, <3>2
    <3> HIDE DEF m
    <3>4. Listed(T \ {m})
      BY <2>4, <3>1, <3>3
    <3>5. CASE m \in T
      BY <2>4, <3>1, <3>4, <3>5, ListOneMore
    <3>6. CASE m \notin T
      <4>1. T \ {m} = T
        BY <3>6
      <4> QED
        BY <2>4, <3>4, <4>1
    <3> QED
      BY <3>5, <3>6
  <2> QED
    BY <2>3, <2>5, <2>6
<1>4. b + 1 \in Nat /\ 0..b + 1 - 1 = 0..b
  OBVIOUS
<1>5. b + 1 \notin bad
  BY <1>3
<1> QED
  BY <1>4, <1>5

----------------------------------------------------------------------------
(* Names through merges, restarts and the operator's entries.             *)

\* What a pattern keeps of the name it was made from by folding.
Carries(name, x) ==
  /\ x \in Name
  /\ ListSound /\ registered(name, Psl) =>
       registered(x, Psl) /\ owner(x, Psl) = owner(name, Psl)
  /\ fold(fold(name)) = fold(name) => x \in {name, fold(name)}

\* What a row keeps of the entry it was made for.
NameSound(row) ==
  LET e == row.entry
  IN  /\ row = row_of(row, e)
      /\ e \in DOMAIN typed \ DOMAIN merged
      /\ row.kind = typed[e].kind
      /\ row.port = typed[e].port
      /\ row.active => e \in standing
      /\ row.kind = "wildcard" => row.pattern = typed[e].name
      /\ Carries(typed[e].name, row.pattern)

KnownNames ==
  {t.raw.name : t \in Typed}
  \cup UNION {{d.rows[i].pattern : i \in DOMAIN d.rows} : d \in Databases}

\* What was typed, and what the operator was told of a wildcard.
EntrySound(e) ==
  LET ty == typed[e]
  IN  /\ ty.name \in Name \cap KnownNames
      /\ ty.kind \in {"exact", "wildcard"}
      /\ ty.port \in Nat
      /\ ty.by = "hand" /\ ty.kind = "wildcard" =>
           /\ Len(ty.name) > 1
           /\ \E t \in Typed : t.kind = "wildcard" /\ t.raw.name = ty.name
           /\ e \in override <=> wildcard_psl_conflict(ty.name, Psl) # "none"

Merging(p) == pc[p] \in {"dup", "write"}

Item == [id : Nat, port : Nat, target : Name]

\* What a merge knows of a row that it read and has not dealt with.
ItemSound(item) ==
  item.id \in DOMAIN rows =>
    /\ rows[item.id].kind = "exact"
    /\ Carries(typed[rows[item.id].entry].name, item.target)

TodoSound ==
  \A p \in Service : Merging(p) =>
    /\ todo[p] \in Seq(Item)
    /\ \A k \in 1..Len(todo[p]) : ItemSound(todo[p][k])

\* Rows as a process sees them, its own changes included.
Mirrors(r) ==
  \A i \in DOMAIN r :
    /\ i \in DOMAIN rows /\ NameSound(r[i])
    /\ r[i].entry = rows[i].entry /\ r[i].active = rows[i].active

NameInv ==
  /\ Mirrors(rows) /\ Mirrors(draft)
  /\ \A i, j \in DOMAIN rows : rows[i].entry = rows[j].entry => i = j
  /\ override \subseteq DOMAIN typed
  /\ \A e \in DOMAIN typed : EntrySound(e)
  /\ TodoSound

\* No entry is added under the id of a row that a merge under way has read.
IdsKept ==
  \A p \in Service : Merging(p) =>
    \A k \in DOMAIN todo[p] : todo[p][k].id \notin DOMAIN rows' \ DOMAIN rows

----------------------------------------------------------------------------

\* A name that is folded stays a name.
LEMMA FoldName ==
  ASSUME NEW n \in Name
  PROVE  fold(n) \in Name
<1>1. Len(n) > 0 => Tail(n) \in Name
  BY TailSuffix
<1>2. Len(n) \in Nat
  BY DEF Name
<1> QED
  BY <1>1, <1>2 DEF fold, canonical_host

\* Folding once more keeps what folding has kept.
LEMMA FoldCarries ==
  ASSUME NEW n \in Name, NEW x, Carries(n, x)
  PROVE  Carries(n, fold(x))
<1>1. fold(x) \in Name
  BY FoldName DEF Carries
<1>2. ASSUME ListSound, registered(n, Psl)
      PROVE  registered(fold(x), Psl) /\ owner(fold(x), Psl) = owner(n, Psl)
  BY <1>2, FoldingKeepsOwner DEF Carries, Name
<1>3. fold(fold(n)) = fold(n) => fold(x) \in {n, fold(n)}
  BY DEF Carries
<1> QED
  BY <1>1, <1>2, <1>3 DEF Carries

\* A name carries itself.
LEMMA SelfCarries == ASSUME NEW n \in Name PROVE Carries(n, n)
BY DEF Carries

\* Every row found is named as its entry.
LEMMA NameInit == Init => NameInv
<1> SUFFICES ASSUME Init PROVE NameInv
  OBVIOUS
<1>1. PICK d \in Databases :
        /\ rows = [i \in DOMAIN d.rows |-> row_of(d.rows[i], i)]
        /\ typed = [i \in DOMAIN d.rows |->
             approval(d.rows[i].pattern, d.rows[i].kind, d.rows[i].port, "old")]
        /\ standing = {i \in DOMAIN d.rows : d.rows[i].active}
  BY DEF Init
<1>2. d.rows \in Seq(Found)
  BY StartupAssumption
<1>3. draft = rows /\ DOMAIN merged = {} /\ override = {}
  BY DEF Init
<1>4. ASSUME NEW i \in DOMAIN rows
      PROVE  /\ rows[i].entry = i /\ i \in DOMAIN typed
             /\ NameSound(rows[i]) /\ EntrySound(i)
  <2>1. i \in DOMAIN d.rows /\ d.rows[i] \in Found
    BY <1>1, <1>2
  <2>2. rows[i] = row_of(d.rows[i], i)
    BY <1>1, <2>1
  <2>3. /\ i \in DOMAIN typed
        /\ typed[i] = approval(d.rows[i].pattern, d.rows[i].kind,
                               d.rows[i].port, "old")
    BY <1>1, <2>1
  <2>4. /\ d.rows[i].pattern \in Name /\ d.rows[i].port \in Nat
        /\ d.rows[i].kind \in {"exact", "wildcard"}
    BY <2>1 DEF Found, Name
  <2>5. /\ rows[i].entry = i /\ rows[i] = row_of(rows[i], i)
        /\ rows[i].pattern = d.rows[i].pattern /\ rows[i].kind = d.rows[i].kind
        /\ rows[i].port = d.rows[i].port /\ rows[i].active = d.rows[i].active
    BY <2>2 DEF row_of
  <2>6. /\ typed[i].name = d.rows[i].pattern /\ typed[i].kind = d.rows[i].kind
        /\ typed[i].port = d.rows[i].port /\ typed[i].by = "old"
    BY <2>3 DEF approval
  <2>7. Carries(typed[i].name, rows[i].pattern)
    BY <2>4, <2>5, <2>6, SelfCarries
  <2>8. NameSound(rows[i])
    BY <1>1, <1>3, <2>1, <2>3, <2>5, <2>6, <2>7 DEF NameSound
  <2>9. typed[i].name \in KnownNames
    BY <2>1, <2>6 DEF KnownNames
  <2> QED
    BY <2>3, <2>4, <2>5, <2>6, <2>8, <2>9 DEF EntrySound
<1>5. DOMAIN typed = DOMAIN rows
  BY <1>1
<1>6. TodoSound
  BY DEF Init, TodoSound, Merging, Process, Service
<1> QED
  BY <1>3, <1>4, <1>5, <1>6 DEF NameInv, Mirrors

\* Steps that change no entry and read no rows.
LEMMA QuietStep ==
  ASSUME NameInv, UNCHANGED <<rows, typed, standing, override, merged>>,
         draft' = draft \/ draft' = rows,
         \A q \in Service : Merging(q)' => Merging(q) /\ todo'[q] = todo[q]
  PROVE  NameInv'
<1>1. Mirrors(rows)'
  BY DEF NameInv, Mirrors, NameSound
<1>2. Mirrors(draft)'
  BY DEF NameInv, Mirrors, NameSound
<1>3. (\A e \in DOMAIN typed : EntrySound(e))'
  BY DEF NameInv, EntrySound
<1>4. TodoSound'
  BY DEF NameInv, TodoSound, ItemSound
<1> QED
  BY <1>1, <1>2, <1>3, <1>4 DEF NameInv

\* The reading of the rows to fold: all of them, each as it stands.
ToFold == {i \in www_rows(rows) :
             canonical_host(rows[i].pattern, Psl) # rows[i].pattern}

LEMMA SelectOrder ==
  ASSUME TypeInv, NEW p \in Service, Select(p)
  PROVE  \E c \in Nat : \E order \in [1..c -> ToFold] :
           /\ todo'[p] = [k \in 1..c |->
                [id |-> order[k], port |-> rows[order[k]].port,
                 target |-> canonical_host(rows[order[k]].pattern, Psl)]]
           /\ \A i \in ToFold : \E k \in 1..c : order[k] = i
<1> DEFINE c == Cardinality(ToFold)
           Ordered(s) == \A i, j \in DOMAIN s : i < j => s[i] < s[j]
           order == CHOOSE s \in [1..c -> ToFold] : Ordered(s)
           Items(s) == [k \in DOMAIN s |->
                      [id |-> s[k], port |-> rows[s[k]].port,
                       target |-> canonical_host(rows[s[k]].pattern, Psl)]]
<1>1. todo'[p] = Items(order)
  BY DEF Select, TypeInv, RowsInv, Process, ToFold
<1>2. PICK b \in Nat : DOMAIN rows \subseteq 0..b
  BY DEF TypeInv, RowsInv, RowsOK, Bounded
<1>3. ToFold \subseteq 0..b /\ ToFold \subseteq Nat
  <2>1. ToFold \subseteq 0..b
    BY <1>2 DEF ToFold, www_rows
  <2> QED
    BY <2>1
<1>4. IsFiniteSet(ToFold) /\ c \in Nat
  <2>1. IsFiniteSet(0..b)
    BY FS_Interval
  <2>2. IsFiniteSet(ToFold)
    BY <1>3, <2>1, FS_Subset
  <2> QED
    BY <2>2, FS_CardinalityType
<1>5. order \in [1..c -> ToFold] /\ Ordered(order)
  <2>1. \E s \in [1..c -> ToFold] : Ordered(s)
    BY <1>3, SortedListing DEF Listed
  <2> HIDE DEF Ordered
  <2> QED
    BY <2>1
<1> HIDE DEF order, c
<1>6. order \in Injection(1..c, ToFold)
  <2>1. ASSUME NEW k \in 1..c, NEW m \in 1..c, order[k] = order[m]
        PROVE  k = m
    <3>1. order[k] \in ToFold /\ order[m] \in ToFold
      BY <1>5
    <3>2. order[k] \in Nat /\ order[m] \in Nat
      BY <1>3, <3>1
    <3>3. /\ k < m => order[k] < order[m]
          /\ m < k => order[m] < order[k]
      BY <1>5
    <3> QED
      BY <1>4, <2>1, <3>2, <3>3
  <2> QED
    BY <1>5, <2>1 DEF Injection, IsInjective
<1>7. order \in Surjection(1..c, ToFold)
  <2>1. Cardinality(1..c) = c
    BY <1>4, FS_Interval
  <2> QED
    BY <1>4, <1>6, <2>1, FS_Injection DEF c
<1>8. \A i \in ToFold : \E k \in 1..c : order[k] = i
  BY <1>7 DEF Surjection
<1>9. Items(order) = [k \in 1..c |->
                [id |-> order[k], port |-> rows[order[k]].port,
                 target |-> canonical_host(rows[order[k]].pattern, Psl)]]
  BY <1>5
<1> QED
  BY <1>1, <1>4, <1>5, <1>8, <1>9

\* A merge knows what it needs of every row that it has read.
LEMMA SelectReads ==
  ASSUME TypeInv, NameInv, NEW p \in Service, Select(p)
  PROVE  /\ todo'[p] \in Seq(Item)
         /\ \A k \in 1..Len(todo'[p]) : ItemSound(todo'[p][k])
<1>1. PICK c \in Nat : \E order \in [1..c -> ToFold] :
        todo'[p] = [k \in 1..c |->
          [id |-> order[k], port |-> rows[order[k]].port,
           target |-> canonical_host(rows[order[k]].pattern, Psl)]]
  BY SelectOrder
<1>2. PICK order \in [1..c -> ToFold] :
        todo'[p] = [k \in 1..c |->
          [id |-> order[k], port |-> rows[order[k]].port,
           target |-> canonical_host(rows[order[k]].pattern, Psl)]]
  BY <1>1
<1>3. PICK b \in Nat : DOMAIN rows \subseteq 0..b
  BY DEF TypeInv, RowsInv, RowsOK, Bounded
<1>4. ToFold \subseteq DOMAIN rows /\ \A i \in ToFold : rows[i].kind = "exact"
  BY DEF ToFold, www_rows
<1> DEFINE items == todo'[p]
<1>5. ASSUME NEW k \in 1..c
      PROVE  /\ items[k] \in Item /\ ItemSound(items[k])
  <2>1. /\ order[k] \in DOMAIN rows /\ order[k] \in Nat
        /\ rows[order[k]].kind = "exact"
    BY <1>2, <1>3, <1>4
  <2>2. /\ NameSound(rows[order[k]])
        /\ EntrySound(rows[order[k]].entry)
    BY <2>1 DEF NameInv, Mirrors, NameSound
  <2> DEFINE e == rows[order[k]].entry
             x == rows[order[k]].pattern
  <2>3. /\ typed[e].name \in Name /\ rows[order[k]].port \in Nat
        /\ Carries(typed[e].name, x)
    BY <2>2 DEF NameSound, EntrySound
  <2>4. Carries(typed[e].name, canonical_host(x, Psl))
    BY <2>3, FoldCarries DEF fold
  <2>5. canonical_host(x, Psl) \in Name
    BY <2>4 DEF Carries
  <2>6. /\ items[k].id = order[k] /\ items[k].port = rows[order[k]].port
        /\ items[k].target = canonical_host(x, Psl)
        /\ items[k] \in Item
    BY <1>2, <2>1, <2>3, <2>5 DEF Item
  <2> QED
    BY <2>1, <2>4, <2>6 DEF ItemSound
<1>6. DOMAIN items = 1..c /\ items = [k \in DOMAIN items |-> items[k]]
  BY <1>2
<1> HIDE DEF items
<1>7. items \in [1..c -> Item]
  BY <1>5, <1>6
<1>8. items \in Seq(Item) /\ Len(items) = c
  BY <1>7
<1> QED
  BY <1>5, <1>8 DEF items

\* The reading itself changes no row.
LEMMA NamesAfterSelect ==
  ASSUME TypeInv, NameInv, NEW p \in Service, Select(p)
  PROVE  NameInv'
<1>1. /\ UNCHANGED <<rows, draft, typed, standing, override, merged>>
      /\ pc' = [pc EXCEPT ![p] = "dup"]
      /\ todo' = [todo EXCEPT ![p] = todo'[p]]
  BY DEF Select, Go, tableVars, historyVars, TypeInv, RowsInv, Process
<1>2. Mirrors(rows)' /\ Mirrors(draft)'
  BY <1>1 DEF NameInv, Mirrors, NameSound
<1>3. (\A e \in DOMAIN typed : EntrySound(e))'
  BY <1>1 DEF NameInv, EntrySound
<1>4. ASSUME NEW q \in Service, Merging(q)'
      PROVE  /\ todo'[q] \in Seq(Item)
             /\ \A k \in 1..Len(todo'[q]) : ItemSound(todo'[q][k])
  <2>1. CASE q = p
    BY <2>1, SelectReads
  <2>2. CASE q # p
    <3>1. pc'[q] = pc[q] /\ todo'[q] = todo[q]
      BY <1>1, <2>2 DEF TypeInv, SchemaInv, RowsInv, Process
    <3> QED
      BY <1>4, <3>1 DEF NameInv, TodoSound, Merging
  <2> QED
    BY <2>1, <2>2
<1>5. TodoSound'
  BY <1>1, <1>4 DEF TodoSound, ItemSound
<1> QED
  BY <1>1, <1>2, <1>3, <1>5 DEF NameInv

\* The DELETE or UPDATE of a merge.
LEMMA NamesAfterWrite ==
  ASSUME TypeInv, NameInv, NEW p \in Service, Write(p)
  PROVE  NameInv'
<1> DEFINE item == Head(todo[p])
           r == view(p)
<1>1. /\ UNCHANGED <<rows, typed, standing, override, merged>>
      /\ pc[p] = "write" /\ pc' = [pc EXCEPT ![p] = "dup"]
      /\ todo' = [todo EXCEPT ![p] = Tail(todo[p])]
      /\ draft' = IF item.id \notin DOMAIN r THEN r
                  ELSE IF twin[p] THEN Restrict(r, DOMAIN r \ {item.id})
                  ELSE [r EXCEPT ![item.id].pattern = item.target]
  BY DEF Write, Go, historyVars
<1>2. /\ todo[p] \in Seq(Item) /\ todo[p] # <<>>
      /\ \A k \in 1..Len(todo[p]) : ItemSound(todo[p][k])
  BY <1>1 DEF TypeInv, TypeOK, NameInv, TodoSound, Merging, Process
<1>3. item \in Item /\ ItemSound(item)
  <2>1. item = todo[p][1] /\ 1 \in 1..Len(todo[p])
    BY <1>2
  <2> QED
    BY <1>2, <2>1
<1>4. Mirrors(r)
  BY DEF view, NameInv
<1> HIDE DEF item, r
<1>5. Mirrors(rows)'
  BY <1>1 DEF NameInv, Mirrors, NameSound
<1> DEFINE x == draft'
<1>6. Mirrors(x)
  <2>1. CASE item.id \notin DOMAIN r
    BY <1>1, <1>4, <2>1
  <2>2. CASE item.id \in DOMAIN r /\ twin[p]
    <3>1. x = [i \in DOMAIN r \ {item.id} |-> r[i]]
      BY <1>1, <2>2 DEF Restrict
    <3> QED
      BY <1>4, <3>1 DEF Mirrors
  <2>3. CASE item.id \in DOMAIN r /\ ~ twin[p]
    <3> DEFINE k == item.id
               e == r[k].entry
    <3>1. /\ k \in DOMAIN rows /\ NameSound(r[k]) /\ NameSound(rows[k])
          /\ e = rows[k].entry /\ r[k].active = rows[k].active
      BY <1>4, <2>3 DEF Mirrors, NameInv
    <3>2. rows[k].kind = "exact" /\ Carries(typed[e].name, item.target)
      BY <1>3, <3>1 DEF ItemSound
    <3>3. r[k] = row_of(r[k], e) /\ r[k].kind = "exact"
      BY <3>1, <3>2 DEF NameSound
    <3> HIDE DEF k, e
    <3>4. x = [r EXCEPT ![k].pattern = item.target]
      BY <1>1, <2>3 DEF k
    <3>5. DOMAIN x = DOMAIN r /\ \A i \in DOMAIN r : i # k => x[i] = r[i]
      BY <3>4
    <3>6. x[k] = [r[k] EXCEPT !.pattern = item.target]
      BY <2>3, <3>4 DEF k
    <3>7. /\ x[k].entry = e /\ x[k].kind = "exact" /\ x[k].port = r[k].port
          /\ x[k].active = r[k].active /\ x[k].pattern = item.target
          /\ x[k] = row_of(x[k], e)
      BY <3>3, <3>6 DEF row_of
    <3>8. r[k].entry = e
      BY DEF k, e
    <3>9. NameSound(x[k])
      BY <3>1, <3>2, <3>3, <3>7, <3>8 DEF NameSound
    <3> QED
      BY <1>4, <3>1, <3>5, <3>7, <3>9 DEF Mirrors
  <2> QED
    BY <2>1, <2>2, <2>3
<1>7. Mirrors(draft)'
  <2>1. Mirrors(draft')
    BY <1>6
  <2>2. UNCHANGED <<rows, typed, standing, merged>>
    BY <1>1
  <2> QED
    BY <2>1, <2>2 DEF Mirrors, NameSound
<1>8. (\A e \in DOMAIN typed : EntrySound(e))'
  BY <1>1 DEF NameInv, EntrySound
<1>9. ASSUME NEW q \in Service, Merging(q)'
      PROVE  /\ todo'[q] \in Seq(Item)
             /\ \A k \in 1..Len(todo'[q]) : ItemSound(todo'[q][k])
  <2>1. CASE q = p
    <3>1. todo'[q] = Tail(todo[p])
      BY <1>1, <2>1 DEF TypeInv, RowsInv, Process
    <3>2. /\ Tail(todo[p]) \in Seq(Item) /\ Len(todo[p]) \in Nat
          /\ Len(Tail(todo[p])) = Len(todo[p]) - 1
          /\ \A k \in 1..Len(todo[p]) - 1 : Tail(todo[p])[k] = todo[p][k + 1]
      BY <1>2
    <3>3. ASSUME NEW k \in 1..Len(todo[p]) - 1
          PROVE  ItemSound(Tail(todo[p])[k])
      <4>1. k + 1 \in 1..Len(todo[p])
        BY <3>2
      <4> QED
        BY <1>2, <3>2, <4>1
    <3> QED
      BY <3>1, <3>2, <3>3
  <2>2. CASE q # p
    <3>1. pc'[q] = pc[q] /\ todo'[q] = todo[q]
      BY <1>1, <2>2 DEF TypeInv, SchemaInv, RowsInv, Process
    <3> QED
      BY <1>9, <3>1 DEF NameInv, TodoSound, Merging
  <2> QED
    BY <2>1, <2>2
<1>10. TodoSound'
  BY <1>1, <1>9 DEF TodoSound, ItemSound
<1>11. UNCHANGED <<rows, typed, override>>
  BY <1>1
<1> QED
  BY <1>5, <1>7, <1>8, <1>10, <1>11 DEF NameInv

\* The commit of a merge that has written.
LEMMA NamesAfterCommit ==
  ASSUME TypeInv, NameInv, NEW p \in Service, Commit(p), writer = p
  PROVE  NameInv'
<1> DEFINE gone == {i \in DOMAIN rows : \A j \in DOMAIN draft :
                      draft[j].entry # rows[i].entry}
<1>1. /\ UNCHANGED <<typed, standing, override, todo>>
      /\ rows' = draft /\ draft' = draft
      /\ pc' = [pc EXCEPT ![p] = "up"]
      /\ DOMAIN merged' = DOMAIN merged \cup {rows[i].entry : i \in gone}
  BY DEF Commit, Go, localVars
<1>2. ASSUME NEW i \in DOMAIN draft
      PROVE  /\ i \in DOMAIN rows /\ NameSound(draft[i]) /\ NameSound(rows[i])
             /\ draft[i].entry = rows[i].entry
             /\ draft[i].entry \notin DOMAIN merged'
  <2>1. /\ i \in DOMAIN rows /\ NameSound(draft[i]) /\ NameSound(rows[i])
        /\ draft[i].entry = rows[i].entry
    BY DEF NameInv, Mirrors
  <2>2. draft[i].entry \notin DOMAIN merged
    BY <2>1 DEF NameSound
  <2> QED
    BY <1>1, <2>1, <2>2
<1>3. Mirrors(rows)' /\ Mirrors(draft)'
  BY <1>1, <1>2 DEF Mirrors, NameSound
<1>4. (\A i, j \in DOMAIN rows : rows[i].entry = rows[j].entry => i = j)'
  BY <1>1, <1>2 DEF NameInv
<1>5. (\A e \in DOMAIN typed : EntrySound(e))'
  BY <1>1 DEF NameInv, EntrySound
<1>6. ASSUME NEW q \in Service, Merging(q)' PROVE Merging(q)
  BY <1>1, <1>6 DEF Merging, TypeInv, SchemaInv, Process
<1>7. ASSUME NEW q \in Service, Merging(q)'
      PROVE  /\ todo'[q] \in Seq(Item)
             /\ \A k \in 1..Len(todo'[q]) : ItemSound(todo[q][k])'
  <2>1. /\ todo'[q] = todo[q] /\ todo[q] \in Seq(Item)
        /\ \A k \in 1..Len(todo[q]) : ItemSound(todo[q][k])
    BY <1>1, <1>6, <1>7 DEF NameInv, TodoSound
  <2>2. ASSUME NEW k \in 1..Len(todo[q]), todo[q][k].id \in DOMAIN draft
        PROVE  /\ draft[todo[q][k].id].kind = "exact"
               /\ Carries(typed[draft[todo[q][k].id].entry].name,
                          todo[q][k].target)
    BY <1>2, <2>1, <2>2 DEF ItemSound, NameSound
  <2> QED
    BY <1>1, <2>1, <2>2 DEF ItemSound
<1>8. TodoSound'
  BY <1>1, <1>7 DEF TodoSound
<1>9. (override \subseteq DOMAIN typed)'
  BY <1>1 DEF NameInv
<1> QED
  BY <1>3, <1>4, <1>5, <1>8, <1>9 DEF NameInv

\* What the operator types, once it is accepted, is its own pattern or folds
\* to it.
LEMMA TypedPattern ==
  ASSUME NEW t \in Typed, pattern_of(t) # NotAName
  PROVE  /\ t.raw.name \in Name /\ Len(t.raw.name) > 1
         /\ t.raw.name \in KnownNames /\ t.kind \in {"exact", "wildcard"}
         /\ t.kind = "wildcard" => pattern_of(t) = t.raw.name
         /\ Carries(t.raw.name, pattern_of(t))
<1>1. t.raw \in Raw(Seq(STRING)) /\ t.kind \in {"exact", "wildcard"}
  BY StartupAssumption
<1>2. t.raw.name \in Name /\ Len(t.raw.name) \in Nat
  BY <1>1 DEF Raw, Name
<1>3. normalize_hostname(t.raw, FALSE) # NotAName
  BY DEF pattern_of
<1>4. /\ normalize_hostname(t.raw, FALSE) = t.raw.name
      /\ ~ (Len(t.raw.name) < 2)
  BY <1>3 DEF normalize_hostname
<1>5. pattern_of(t) = IF t.kind = "wildcard" THEN t.raw.name
                      ELSE fold(t.raw.name)
  BY <1>3, <1>4 DEF pattern_of, fold
<1>6. Carries(t.raw.name, pattern_of(t))
  BY <1>2, <1>5, SelfCarries, FoldCarries
<1> QED
  BY <1>1, <1>2, <1>4, <1>5, <1>6 DEF KnownNames

\* The operator adds an entry, under an id that no merge knows.
LEMMA NamesAfterAdd ==
  ASSUME TypeInv, NameInv, AddByHand, IdsKept
  PROVE  NameInv'
<1>1. PICK t \in Typed, id \in Nat, new \in Nat :
        /\ id \notin DOMAIN rows /\ new \notin DOMAIN typed
        /\ pattern_of(t) # NotAName
        /\ rows' = [i \in DOMAIN rows \cup {id} |->
             IF i \in DOMAIN rows THEN rows[i]
             ELSE row_of([pattern |-> pattern_of(t), kind |-> t.kind,
                          port |-> 443, active |-> TRUE], new)]
        /\ draft' = rows'
        /\ typed' = [e \in DOMAIN typed \cup {new} |->
                       IF e \in DOMAIN typed THEN typed[e]
                       ELSE approval(t.raw.name, t.kind, 443, "hand")]
        /\ override' =
             IF /\ t.kind = "wildcard"
                /\ wildcard_psl_conflict(pattern_of(t), Psl) # "none"
             THEN override \cup {new} ELSE override
        /\ standing' = standing \cup {new}
  <2>1. new_id \in Nat /\ new_id \notin DOMAIN rows
    BY FreshNumber DEF TypeInv, RowsInv, RowsOK, new_id
  <2>2. new_entry \in Nat /\ new_entry \notin DOMAIN typed
    BY FreshNumber DEF TypeInv, RowsInv, new_entry
  <2>3. PICK id \in Nat, new \in Nat : id = new_id /\ new = new_entry
    BY <2>1, <2>2
  <2> QED
    BY <2>1, <2>2, <2>3 DEF AddByHand
<1>2. UNCHANGED <<pc, todo, merged>>
  BY DEF AddByHand, localVars
<1>3. DOMAIN merged \subseteq DOMAIN typed
  BY DEF TypeInv, TypeOK
<1>4. /\ t.raw.name \in Name /\ Len(t.raw.name) > 1
      /\ t.raw.name \in KnownNames /\ t.kind \in {"exact", "wildcard"}
      /\ t.kind = "wildcard" => pattern_of(t) = t.raw.name
      /\ Carries(t.raw.name, pattern_of(t))
  BY <1>1, TypedPattern
<1>5. /\ DOMAIN typed' = DOMAIN typed \cup {new}
      /\ \A e \in DOMAIN typed : typed'[e] = typed[e]
      /\ typed'[new] = approval(t.raw.name, t.kind, 443, "hand")
  BY <1>1
<1>6. /\ DOMAIN rows' = DOMAIN rows \cup {id}
      /\ \A i \in DOMAIN rows : rows'[i] = rows[i]
      /\ rows'[id] = row_of([pattern |-> pattern_of(t), kind |-> t.kind,
                             port |-> 443, active |-> TRUE], new)
  BY <1>1
<1>7. ASSUME NEW i \in DOMAIN rows
      PROVE  NameSound(rows[i])' /\ rows'[i].entry \in DOMAIN typed
  <2>1. NameSound(rows[i]) /\ rows'[i] = rows[i]
    BY <1>6 DEF NameInv, Mirrors
  <2>2. rows[i].entry \in DOMAIN typed
    BY <2>1 DEF NameSound
  <2> QED
    BY <1>1, <1>2, <1>5, <2>1, <2>2 DEF NameSound
<1>8. NameSound(rows[id])' /\ rows'[id].entry = new
  <2> DEFINE row == row_of([pattern |-> pattern_of(t), kind |-> t.kind,
                            port |-> 443, active |-> TRUE], new)
  <2>1. /\ row = row_of(row, new) /\ row.entry = new
        /\ row.kind = t.kind /\ row.port = 443 /\ row.active
        /\ row.pattern = pattern_of(t)
    BY DEF row_of
  <2>2. rows'[id] = row
    BY <1>6
  <2> HIDE DEF row
  <2>3. /\ typed'[new].name = t.raw.name
        /\ typed'[new].kind = t.kind /\ typed'[new].port = 443
    BY <1>5 DEF approval
  <2>4. new \in DOMAIN typed' \ DOMAIN merged' /\ new \in standing'
    BY <1>1, <1>2, <1>3, <1>5
  <2> QED
    BY <1>4, <2>1, <2>2, <2>3, <2>4 DEF NameSound
<1>9. Mirrors(rows)' /\ Mirrors(draft)'
  <2>1. draft' = rows'
    BY <1>1
  <2>2. \A i \in DOMAIN rows' : NameSound(rows[i])'
    BY <1>6, <1>7, <1>8
  <2> QED
    BY <2>1, <2>2 DEF Mirrors
<1>10. (\A i, j \in DOMAIN rows : rows[i].entry = rows[j].entry => i = j)'
  BY <1>1, <1>6, <1>7, <1>8 DEF NameInv
<1>11. (override \subseteq DOMAIN typed)'
  BY <1>1, <1>5 DEF NameInv
<1>12. ASSUME NEW e \in DOMAIN typed' PROVE EntrySound(e)'
  <2>1. CASE e \in DOMAIN typed
    <3>1. typed'[e] = typed[e] /\ (e \in override' <=> e \in override)
      BY <1>1, <1>5, <2>1
    <3> QED
      BY <2>1, <3>1 DEF NameInv, EntrySound
  <2>2. CASE e = new
    <3>1. /\ typed'[e].name = t.raw.name /\ typed'[e].kind = t.kind
          /\ typed'[e].port = 443 /\ typed'[e].by = "hand"
      BY <1>5, <2>2 DEF approval
    <3>2. new \notin override
      BY <1>1 DEF NameInv
    <3>3. t.kind = "wildcard" =>
            (e \in override' <=>
               wildcard_psl_conflict(t.raw.name, Psl) # "none")
      BY <1>1, <1>4, <2>2, <3>2
    <3> QED
      BY <1>4, <3>1, <3>3 DEF EntrySound
  <2> QED
    BY <1>5, <2>1, <2>2
<1>13. ASSUME NEW q \in Service, Merging(q)'
       PROVE  /\ todo'[q] \in Seq(Item)
              /\ \A k \in 1..Len(todo'[q]) : ItemSound(todo[q][k])'
  <2>1. /\ Merging(q) /\ todo'[q] = todo[q] /\ todo[q] \in Seq(Item)
        /\ \A k \in 1..Len(todo[q]) : ItemSound(todo[q][k])
    BY <1>2, <1>13 DEF NameInv, TodoSound, Merging
  <2>2. ASSUME NEW k \in 1..Len(todo[q]), todo[q][k].id \in DOMAIN rows'
        PROVE  /\ rows'[todo[q][k].id].kind = "exact"
               /\ Carries(typed'[rows'[todo[q][k].id].entry].name,
                          todo[q][k].target)
    <3>1. k \in DOMAIN todo[q]
      BY <2>1, <2>2
    <3>2. todo[q][k].id \in DOMAIN rows
      BY <2>1, <2>2, <3>1 DEF IdsKept
    <3> QED
      BY <1>5, <1>6, <1>7, <2>1, <3>2 DEF ItemSound
  <2> QED
    BY <1>2, <2>1, <2>2 DEF ItemSound
<1>14. TodoSound'
  BY <1>2, <1>13 DEF TodoSound
<1> QED
  BY <1>9, <1>10, <1>11, <1>12, <1>14 DEF NameInv

\* An entry ends, and every approval merged into it.
LEMMA NamesAfterEnd ==
  ASSUME TypeInv, NameInv, NEW i \in DOMAIN rows, End(i)
  PROVE  NameInv'
<1>1. /\ rows' = [rows EXCEPT ![i].active = FALSE] /\ draft' = rows'
      /\ UNCHANGED <<pc, todo, typed, override, merged>>
  BY DEF End, localVars
<1>2. \A e \in standing : e \in standing' \/ e = rows[i].entry
                          \/ e \in DOMAIN merged
  BY DEF End
<1>3. /\ DOMAIN rows' = DOMAIN rows
      /\ \A j \in DOMAIN rows : j # i => rows'[j] = rows[j]
      /\ rows'[i] = [rows[i] EXCEPT !.active = FALSE]
  BY <1>1
<1>4. ASSUME NEW j \in DOMAIN rows
      PROVE  /\ NameSound(rows[j])' /\ rows'[j].entry = rows[j].entry
             /\ rows'[j].kind = rows[j].kind
  <2>1. NameSound(rows[j])
    BY DEF NameInv, Mirrors
  <2>2. CASE j = i
    <3>1. rows[i] = row_of(rows[i], rows[i].entry)
      BY <2>1, <2>2 DEF NameSound
    <3>2. /\ rows'[i].entry = rows[i].entry /\ rows'[i].kind = rows[i].kind
          /\ rows'[i].port = rows[i].port /\ rows'[i].active = FALSE
          /\ rows'[i].pattern = rows[i].pattern
          /\ rows'[i] = row_of(rows'[i], rows'[i].entry)
      BY <1>3, <3>1 DEF row_of
    <3> QED
      BY <1>1, <2>1, <2>2, <3>2 DEF NameSound
  <2>3. CASE j # i
    <3>1. rows'[j] = rows[j]
      BY <1>3, <2>3
    <3>2. rows[j].entry \in standing => rows[j].entry \in standing'
      BY <1>2, <2>1, <2>3 DEF NameInv, NameSound
    <3> QED
      BY <1>1, <2>1, <3>1, <3>2 DEF NameSound
  <2> QED
    BY <2>2, <2>3
<1>5. Mirrors(rows)' /\ Mirrors(draft)'
  BY <1>1, <1>3, <1>4 DEF Mirrors
<1>6. (\A j, k \in DOMAIN rows : rows[j].entry = rows[k].entry => j = k)'
  BY <1>3, <1>4 DEF NameInv
<1>7. (\A e \in DOMAIN typed : EntrySound(e))'
  BY <1>1 DEF NameInv, EntrySound
<1>8. TodoSound'
  <2>1. UNCHANGED <<pc, todo, typed>>
    BY <1>1
  <2> QED
    BY <1>3, <1>4, <2>1 DEF NameInv, TodoSound, ItemSound, Merging
<1>9. (override \subseteq DOMAIN typed)'
  BY <1>1 DEF NameInv
<1> QED
  BY <1>5, <1>6, <1>7, <1>8, <1>9 DEF NameInv

\* Every step but an addition under an id that a merge under way has read.
LEMMA NamesNext ==
  ASSUME TypeInv, NameInv, [Next]_vars, [IdsKept]_vars
  PROVE  NameInv'
<1>1. \A q \in Process : \A label : pc' = [pc EXCEPT ![q] = label] =>
        \A r \in Service : r # q => pc'[r] = pc[r]
  BY DEF TypeInv, SchemaInv, Process
<1>2. \A q \in Process : \A label : pc' = [pc EXCEPT ![q] = label] =>
        pc'[q] = label
  BY DEF TypeInv, SchemaInv
<1>3. \A q \in Service : q \in Process
  BY DEF Process
<1>4. ASSUME NEW p \in Process, NEW label, label \notin {"dup", "write"},
             Go(p, label), UNCHANGED <<rows, typed, standing, override, merged>>,
             draft' = draft \/ draft' = rows,
             \A q \in Service : q # p => todo'[q] = todo[q]
      PROVE  NameInv'
  <2>1. ASSUME NEW q \in Service, Merging(q)'
        PROVE  Merging(q) /\ todo'[q] = todo[q]
    BY <1>1, <1>2, <1>3, <1>4, <2>1 DEF Go, Merging
  <2> QED
    BY <1>4, <2>1, QuietStep
<1>5. ASSUME NEW p \in Process, Exit(p)
      PROVE  NameInv'
  <2>1. Go(p, "down") /\ UNCHANGED <<rows, typed, standing, override, merged>>
    BY <1>5 DEF Exit, historyVars
  <2>2. draft' = draft \/ draft' = rows
    BY <1>5 DEF Exit
  <2>3. todo' = todo
    BY <1>5 DEF Exit, localVars
  <2> QED
    BY <1>4, <2>1, <2>2, <2>3
<1>6. ASSUME NEW p \in Process, Start(p)
      PROVE  NameInv'
  <2>1. PICK label : /\ label \notin {"dup", "write"} /\ Go(p, label)
    BY <1>6 DEF Start
  <2>2. UNCHANGED <<rows, draft, typed, standing, override, merged>>
    BY <1>6 DEF Start, tableVars
  <2>3. todo' = [todo EXCEPT ![p] = <<>>]
    BY <1>6 DEF Start
  <2>4. \A q \in Service : q # p => todo'[q] = todo[q]
    BY <1>3, <2>3 DEF TypeInv, RowsInv
  <2> QED
    BY <1>4, <2>1, <2>2, <2>4
<1>7. ASSUME NEW p \in Process, Bind(p)
      PROVE  NameInv'
  <2>1. CASE Exit(p)
    BY <1>5, <2>1
  <2>2. CASE /\ Go(p, "create")
             /\ UNCHANGED <<tableVars, localVars, failures, historyVars>>
    <3>1. UNCHANGED <<rows, draft, typed, standing, override, merged, todo>>
      BY <2>2 DEF tableVars, localVars, historyVars
    <3> QED
      BY <1>4, <2>2, <3>1
  <2> QED
    BY <1>7, <2>1, <2>2 DEF Bind
<1>8. ASSUME NEW p \in Process, NEW t, Store(t, rows), UNCHANGED historyVars,
             UNCHANGED todo, NEW label, label \notin {"dup", "write"},
             Go(p, label)
      PROVE  NameInv'
  <2>1. UNCHANGED <<rows, typed, standing, override, merged, todo>>
    BY <1>8 DEF Store, historyVars
  <2>2. draft' = rows
    BY <1>8 DEF Store
  <2> QED
    BY <1>4, <1>8, <2>1, <2>2
<1>9. ASSUME NEW p \in Process, Create(p)
      PROVE  NameInv'
  <2>1. UNCHANGED historyVars /\ UNCHANGED todo /\ Go(p, "info")
    BY <1>9 DEF Create, localVars
  <2>2. PICK t : Store(t, rows)
    BY <1>9 DEF Create
  <2> QED
    BY <1>8, <2>1, <2>2
<1>10. ASSUME NEW p \in Process, Info(p)
       PROVE  NameInv'
  <2>1. /\ Go(p, "alter")
        /\ UNCHANGED <<rows, draft, typed, standing, override, merged, todo>>
    BY <1>10 DEF Info, tableVars, historyVars
  <2> QED
    BY <1>4, <2>1
<1>11. ASSUME NEW p \in Process, Alter(p)
       PROVE  NameInv'
  <2>1. CASE missing(p) = {}
    <3>1. /\ Go(p, "check")
          /\ UNCHANGED <<rows, draft, typed, standing, override, merged, todo>>
      BY <1>11, <2>1 DEF Alter, tableVars, localVars, historyVars
    <3> QED
      BY <1>4, <3>1
  <2>2. CASE Exit(p)
    BY <1>5, <2>2
  <2>3. CASE missing(p) # {} /\ ~ Exit(p)
    <3>1. PICK t : /\ Store(t, rows) /\ UNCHANGED historyVars
                   /\ UNCHANGED todo /\ pc' = pc
      BY <1>11, <2>3 DEF Alter
    <3>2. /\ UNCHANGED <<rows, typed, standing, override, merged, todo, pc>>
          /\ draft' = rows
      BY <3>1 DEF Store, historyVars
    <3>3. \A q \in Service : Merging(q)' => Merging(q) /\ todo'[q] = todo[q]
      BY <3>2 DEF Merging
    <3> QED
      BY <3>2, <3>3, QuietStep
  <2> QED
    BY <2>1, <2>2, <2>3
<1>12. ASSUME NEW p \in Process, Check(p)
       PROVE  NameInv'
  <2>1. /\ UNCHANGED <<rows, draft, typed, standing, override, merged, todo>>
        /\ \E label : label \notin {"dup", "write"} /\ Go(p, label)
    BY <1>12 DEF Check, tableVars, localVars, historyVars
  <2> QED
    BY <1>4, <2>1
<1>13. ASSUME NEW p \in Process, Rebuild(p)
       PROVE  NameInv'
  <2>1. /\ UNCHANGED historyVars /\ UNCHANGED todo
        /\ \E label : label \notin {"dup", "write"} /\ Go(p, label)
    BY <1>13 DEF Rebuild, localVars
  <2>2. Store(Current, rows)
    BY <1>13 DEF Rebuild
  <2> QED
    BY <1>8, <2>1, <2>2
<1>14. ASSUME NEW p \in Service, Dup(p)
       PROVE  NameInv'
  <2>1. /\ pc[p] = "dup" /\ \E label : Go(p, label)
        /\ UNCHANGED <<rows, draft, typed, standing, override, merged, todo>>
    BY <1>14 DEF Dup, tableVars, historyVars
  <2>2. \A q \in Service : Merging(q)' => Merging(q) /\ todo'[q] = todo[q]
    BY <1>1, <1>3, <2>1 DEF Merging, Go
  <2> QED
    BY <2>1, <2>2, QuietStep
<1>15. ASSUME NEW p \in Service, Commit(p)
       PROVE  NameInv'
  <2>1. CASE writer = p
    BY <1>15, <2>1, NamesAfterCommit
  <2>2. CASE writer # p
    <3>1. /\ Go(p, "up")
          /\ UNCHANGED <<rows, draft, typed, standing, override, merged, todo>>
      BY <1>15, <2>2 DEF Commit, tableVars, localVars
    <3> QED
      BY <1>3, <1>4, <3>1
  <2> QED
    BY <2>1, <2>2
<1>16. ASSUME NEW p \in Process, Fail(p)
       PROVE  NameInv'
  BY <1>5, <1>16 DEF Fail
<1>17. CASE AddByHand
  <2>1. vars' # vars
    <3>1. new_id \notin DOMAIN rows
      BY FreshNumber DEF TypeInv, RowsInv, RowsOK, new_id
    <3>2. DOMAIN rows' = DOMAIN rows \cup {new_id}
      BY <1>17 DEF AddByHand
    <3> QED
      BY <3>1, <3>2 DEF vars, tableVars
  <2>2. IdsKept
    BY <2>1
  <2> QED
    BY <1>17, <2>2, NamesAfterAdd
<1>18. CASE UNCHANGED vars
  <2>1. UNCHANGED <<rows, draft, typed, standing, override, merged, todo, pc>>
    BY <1>18 DEF vars, tableVars, localVars, historyVars
  <2>2. \A q \in Service : Merging(q)' => Merging(q) /\ todo'[q] = todo[q]
    BY <2>1 DEF Merging
  <2> QED
    BY <2>1, <2>2, QuietStep
<1> QED
  BY <1>6, <1>7, <1>9, <1>10, <1>11, <1>12, <1>13, <1>14, <1>15, <1>16, <1>17,
     <1>18, NamesAfterSelect, NamesAfterWrite, NamesAfterEnd DEF Next

\* Every approved name, and every name asked for, has at most one www to lose.
FoldOnce == \A n \in KnownNames \cup Names : fold(fold(n)) = fold(n)

\* The invariant of every behaviour that keeps the ids apart.
LEMMA NamesHold == Spec /\ [][IdsKept]_vars => [](TypeInv /\ NameInv)
<1>1. Init => TypeInv /\ NameInv
  BY TypeInit, SchemaInit, NameInit DEF TypeInv
<1>2. TypeInv /\ NameInv /\ [Next]_vars /\ [IdsKept]_vars
        => TypeInv' /\ NameInv'
  BY TypeNext, NamesNext
<1> QED
  BY <1>1, <1>2, PTL DEF Spec

\* The fold of canonical_host, when an entry is added and in merge_www_rows at
\* every start after, leaves an entry with whoever owned the name it was
\* approved for.
THEOREM OwnersKept ==
  ASSUME ListSound
  PROVE  Spec /\ [][IdsKept]_vars => []FoldKeepsOwner
<1>1. TypeInv /\ NameInv => FoldKeepsOwner
  <2> SUFFICES ASSUME NameInv, NEW i \in DOMAIN rows,
                      registered(typed[rows[i].entry].name, Psl)
               PROVE  owner(rows[i].pattern, Psl)
                        = owner(typed[rows[i].entry].name, Psl)
    BY DEF FoldKeepsOwner
  <2> QED
    BY DEF NameInv, Mirrors, NameSound, Carries
<1> QED
  BY <1>1, NamesHold, PTL

\* active_match admits a name only by an entry that stands and was approved
\* for it, or for a domain above it as a wildcard: neither the rebuild of
\* _migrate, nor the merges of two services, nor a crash in them brings an
\* ended entry back or makes one admit what it was not approved for.
THEOREM NothingIsGained ==
  ASSUME FoldOnce
  PROVE  Spec /\ [][IdsKept]_vars => []NothingGained
<1>1. TypeInv /\ NameInv => NothingGained
  <2> SUFFICES ASSUME NameInv, NEW name \in Names, NEW port \in Ports,
                      admitted(name, port)
               PROVE  \E e \in standing :
                        /\ typed[e].port = port
                        /\ \/ fold(name) \in {fold(typed[e].name),
                                              fold(fold(typed[e].name))}
                           \/ /\ typed[e].kind = "wildcard"
                              /\ below(fold(name), typed[e].name)
    BY DEF NothingGained
  <2>1. normalize_hostname(spelled(name), TRUE) = name
    <3>1. name \in Seq(STRING) /\ Len(name) > 1 /\ name[Len(name)] \in Tld
      BY StartupAssumption
    <3>2. ~ (Len(name) < 2)
      BY <3>1
    <3> QED
      BY <3>1, <3>2 DEF normalize_hostname, spelled
  <2>2. PICK i \in DOMAIN rows :
          /\ rows[i].active /\ rows[i].port = port
          /\ matches(rows[i].kind, rows[i].pattern, fold(name))
    BY <2>1 DEF admitted, fold
  <2> DEFINE e == rows[i].entry
             x == rows[i].pattern
             tn == typed[e].name
  <2>3. NameSound(rows[i]) /\ EntrySound(e)
    BY <2>2 DEF NameInv, Mirrors, NameSound
  <2>4. /\ e \in standing /\ typed[e].port = port
        /\ rows[i].kind = typed[e].kind
        /\ rows[i].kind = "wildcard" => x = tn
        /\ Carries(tn, x) /\ tn \in KnownNames
    BY <2>2, <2>3 DEF NameSound, EntrySound
  <2>5. /\ fold(fold(tn)) = fold(tn)
        /\ fold(fold(name)) = fold(name)
    BY <2>4 DEF FoldOnce
  <2>6. x \in {tn, fold(tn)}
    BY <2>4, <2>5 DEF Carries
  <2> HIDE DEF e, x, tn
  <2>7. CASE fold(name) = x
    <3>1. fold(name) = fold(tn)
      BY <2>5, <2>6, <2>7
    <3> QED
      BY <2>4, <3>1 DEF tn
  <2>8. CASE rows[i].kind = "wildcard" /\ below(fold(name), x)
    BY <2>4, <2>8 DEF tn
  <2> QED
    BY <2>2, <2>7, <2>8 DEF matches, x
<1> QED
  BY <1>1, NamesHold, PTL

\* manual_add and confirm_wildcard stamp a wildcard as an override exactly when
\* names of more owners than one are at or below it, and no merge makes the
\* stamp of a wildcard wrong later.
THEOREM WildcardsJudged ==
  ASSUME ListSound, RichNames
  PROVE  Spec /\ [][IdsKept]_vars => []WildcardJudged
<1>1. TypeInv /\ NameInv => WildcardJudged
  <2> SUFFICES ASSUME NameInv, NEW i \in DOMAIN rows,
                      rows[i].kind = "wildcard",
                      typed[rows[i].entry].by = "hand"
               PROVE  rows[i].entry \in override <=> spans(rows[i].pattern)
    BY DEF WildcardJudged
  <2> DEFINE e == rows[i].entry
             base == rows[i].pattern
  <2>1. NameSound(rows[i]) /\ EntrySound(e)
    BY DEF NameInv, Mirrors, NameSound
  <2>2. typed[e].kind = "wildcard" /\ typed[e].name = base
    BY <2>1 DEF NameSound
  <2>3. /\ Len(base) > 1
        /\ \E t \in Typed : t.kind = "wildcard" /\ t.raw.name = base
        /\ e \in override <=> wildcard_psl_conflict(base, Psl) # "none"
    BY <2>1, <2>2 DEF EntrySound
  <2>4. base \in Names
    BY <2>3 DEF RichNames
  <2> QED
    BY <2>3, <2>4, ConflictMeansSpan
<1> QED
  BY <1>1, NamesHold, PTL

----------------------------------------------------------------------------
(* Nothing approved is lost.                                              *)

\* What an entry is folded to; and the entries found that a merge has to fold.
final(e) == fold(typed[e].name)
early(e) == /\ typed[e].by = "old" /\ typed[e].kind = "exact"
            /\ final(e) # typed[e].name

exacts(r) == {i \in DOMAIN r : r[i].kind = "exact"}
Unfolded(r) == {i \in exacts(r) : r[i].pattern # final(r[i].entry)}
on(r, x, port) == twins_of(r, [target |-> x, port |-> port])
todo_ids(p) == {todo[p][k].id : k \in DOMAIN todo[p]}

\* An entry ends with its row.
EndedOnly ==
  \A i \in DOMAIN rows : rows[i].entry \in standing => rows[i].active

Spelled(r) == \A i \in Unfolded(r) : /\ early(r[i].entry)
                                     /\ r[i].pattern = typed[r[i].entry].name

\* A merge has read every row that is to be folded, and knows what to.
Reads(p) ==
  /\ Merging(p) => \A k \in DOMAIN todo[p] : todo[p][k].id \in DOMAIN rows =>
        LET e == rows[todo[p][k].id].entry
        IN  /\ early(e) /\ todo[p][k].target = final(e)
            /\ todo[p][k].port = typed[e].port
  /\ pc[p] = "commit" => todo[p] = <<>>
  /\ Merging(p) \/ pc[p] = "commit" => Unfolded(view(p)) \subseteq todo_ids(p)
  /\ pc[p] = "up" => Unfolded(rows) = {}

\* No merge has been committed; or one has, and of the rows it folded no two
\* are left on one name.
Phase ==
  \/ /\ DOMAIN merged = {}
     /\ \A i \in exacts(rows) : early(rows[i].entry) => i \in Unfolded(rows)
  \/ /\ Unfolded(rows) = {}
     /\ \A i, j \in exacts(rows) :
          /\ early(rows[i].entry) /\ early(rows[j].entry)
          /\ rows[i].pattern = rows[j].pattern /\ rows[i].port = rows[j].port
          => i = j

\* The writer has unfolded none, has folded a row only where there was none
\* on the name, and deleted one only where there is.
DraftKept(d) ==
  /\ Unfolded(d) \subseteq Unfolded(rows)
  /\ \A i \in Unfolded(rows), j \in exacts(d) :
       /\ i \in DOMAIN d \ Unfolded(d)
       /\ d[j].pattern = d[i].pattern /\ d[j].port = d[i].port
       => i = j
  /\ \A i \in DOMAIN rows \ DOMAIN d :
       /\ early(rows[i].entry)
       /\ on(d, final(rows[i].entry), rows[i].port) # {}

\* What a merge has found of a row's twins holds still when it writes: until
\* it writes for the first time, the twin is one that no merge deletes.
TwinKept(p) ==
  LET item == Head(todo[p])
      twins == twins_of(view(p), item) \ {item.id}
  IN  pc[p] = "write" /\ item.id \in DOMAIN view(p) =>
        /\ ~ twin[p] /\ item.id \in Unfolded(view(p)) => twins = {}
        /\ twin[p] => twins # {}
        /\ twin[p] /\ writer # p => \E k \in twins : ~ early(rows[k].entry)

\* What a merge deleted and no ended row has taken is carried, if there is a
\* row that no merge deletes, by such a one.
Carriers ==
  \A e \in DOMAIN merged :
    LET there == on(rows, final(e), typed[e].port)
        native == {j \in there : ~ early(rows[j].entry)}
    IN  e \in standing /\ merged[e] # "buried" =>
          /\ \E j \in there : rows[j].active
          /\ native # {} => \E j \in native : rows[j].active

KeepInv ==
  /\ twin \in [Process -> BOOLEAN]
  /\ EndedOnly /\ Spelled(rows) /\ Spelled(draft)
  /\ \A p \in Service : Reads(p) /\ TwinKept(p)
  /\ Phase /\ DraftKept(draft) /\ Carriers
  /\ \A e \in DOMAIN merged : early(e)

----------------------------------------------------------------------------

\* What is known of a row, as a process sees it.
LEMMA RowFacts ==
  ASSUME FoldOnce, NameInv, NEW r, Mirrors(r), NEW i \in DOMAIN r
  PROVE  /\ i \in DOMAIN rows /\ r[i].entry = rows[i].entry
         /\ r[i].active = rows[i].active
         /\ r[i].kind = rows[i].kind /\ r[i].port = rows[i].port
         /\ r[i].entry \in DOMAIN typed /\ r[i].entry \notin DOMAIN merged
         /\ r[i].kind = typed[r[i].entry].kind
         /\ r[i].port = typed[r[i].entry].port
         /\ r[i].kind \in {"exact", "wildcard"}
         /\ r[i].active => r[i].entry \in standing
         /\ r[i].kind = "wildcard" => r[i].pattern = typed[r[i].entry].name
         /\ typed[r[i].entry].name \in Name
         /\ r[i].pattern \in {typed[r[i].entry].name, final(r[i].entry)}
         /\ fold(final(r[i].entry)) = final(r[i].entry)
<1> DEFINE e == r[i].entry
<1>1. /\ i \in DOMAIN rows /\ NameSound(r[i]) /\ NameSound(rows[i])
      /\ e = rows[i].entry /\ r[i].active = rows[i].active
  BY DEF Mirrors, NameInv
<1>2. EntrySound(e)
  BY <1>1 DEF NameInv, NameSound
<1>3. /\ e \in DOMAIN typed /\ e \notin DOMAIN merged
      /\ r[i].kind = typed[e].kind /\ r[i].port = typed[e].port
      /\ rows[i].kind = typed[e].kind /\ rows[i].port = typed[e].port
      /\ r[i].active => e \in standing
      /\ r[i].kind = "wildcard" => r[i].pattern = typed[e].name
      /\ Carries(typed[e].name, r[i].pattern)
  BY <1>1 DEF NameSound
<1>4. /\ typed[e].name \in Name /\ typed[e].name \in KnownNames
      /\ typed[e].kind \in {"exact", "wildcard"}
  BY <1>2 DEF EntrySound
<1>5. fold(final(e)) = final(e)
  BY <1>4 DEF FoldOnce, final
<1>6. r[i].pattern \in {typed[e].name, final(e)}
  BY <1>3, <1>5 DEF Carries, final
<1> QED
  BY <1>1, <1>3, <1>4, <1>5, <1>6

\* Before the services start there is no merge, and every row is as found.
LEMMA KeepInit == Init => KeepInv
<1> SUFFICES ASSUME Init PROVE KeepInv
  OBVIOUS
<1>1. PICK d \in Databases :
        /\ rows = [i \in DOMAIN d.rows |-> row_of(d.rows[i], i)]
        /\ typed = [i \in DOMAIN d.rows |->
             approval(d.rows[i].pattern, d.rows[i].kind, d.rows[i].port, "old")]
        /\ standing = {i \in DOMAIN d.rows : d.rows[i].active}
  BY DEF Init
<1>2. /\ draft = rows /\ DOMAIN merged = {} /\ pc = [p \in Process |-> "down"]
      /\ twin \in [Process -> BOOLEAN]
  BY DEF Init
<1>3. ASSUME NEW i \in DOMAIN rows
      PROVE  /\ rows[i].entry = i /\ rows[i].pattern = typed[i].name
             /\ rows[i].kind = typed[i].kind /\ typed[i].by = "old"
             /\ i \in standing => rows[i].active
  <2>1. i \in DOMAIN d.rows
    BY <1>1
  <2>2. /\ rows[i] = row_of(d.rows[i], i)
        /\ typed[i] = approval(d.rows[i].pattern, d.rows[i].kind,
                               d.rows[i].port, "old")
    BY <1>1, <2>1
  <2>3. i \in standing => d.rows[i].active
    BY <1>1
  <2> QED
    BY <2>2, <2>3 DEF row_of, approval
<1>4. \A i \in exacts(rows) :
        i \in Unfolded(rows) <=> early(rows[i].entry)
  BY <1>3 DEF Unfolded, exacts, early
<1>5. EndedOnly
  BY <1>3 DEF EndedOnly
<1>6. Spelled(rows) /\ Spelled(draft)
  BY <1>2, <1>3, <1>4 DEF Spelled, Unfolded, exacts
<1>7. \A p \in Service : Reads(p) /\ TwinKept(p)
  BY <1>2 DEF Reads, TwinKept, Merging, Process
<1>8. Phase
  BY <1>2, <1>4 DEF Phase
<1>9. DraftKept(draft)
  BY <1>2 DEF DraftKept
<1>10. Carriers
  BY <1>2 DEF Carriers
<1> QED
  BY <1>2, <1>5, <1>6, <1>7, <1>8, <1>9, <1>10 DEF KeepInv

\* What concerns neither a process nor the draft, when no entry and no row
\* changes.
LEMMA KeepRows ==
  ASSUME KeepInv, UNCHANGED <<rows, typed, standing, merged>>
  PROVE  /\ EndedOnly' /\ Spelled(rows)' /\ Phase' /\ Carriers'
         /\ (\A e \in DOMAIN merged : early(e))'
<1>1. EndedOnly'
  BY DEF KeepInv, EndedOnly
<1>2. Spelled(rows)'
  BY DEF KeepInv, Spelled, Unfolded, exacts, early, final
<1>3. Phase'
  BY DEF KeepInv, Phase, Unfolded, exacts, early, final
<1>4. Carriers'
  BY DEF KeepInv, Carriers, on, twins_of, early, final
<1>5. (\A e \in DOMAIN merged : early(e))'
  BY DEF KeepInv, early, final
<1> QED
  BY <1>1, <1>2, <1>3, <1>4, <1>5

\* And with the draft, when the writer adds nothing to it.
LEMMA KeepRest ==
  ASSUME KeepInv, UNCHANGED <<rows, typed, standing, merged>>,
         draft' = draft \/ draft' = rows
  PROVE  /\ EndedOnly' /\ Spelled(rows)' /\ Spelled(draft)'
         /\ Phase' /\ DraftKept(draft)' /\ Carriers'
         /\ (\A e \in DOMAIN merged : early(e))'
<1>1. /\ EndedOnly' /\ Spelled(rows)' /\ Phase' /\ Carriers'
      /\ (\A e \in DOMAIN merged : early(e))'
  BY KeepRows
<1>3. CASE draft' = draft
  <2>1. Spelled(draft)'
    BY <1>3 DEF KeepInv, Spelled, Unfolded, exacts, early, final
  <2>2. DraftKept(draft)'
    BY <1>3 DEF KeepInv, DraftKept, Unfolded, exacts, on, twins_of, early,
                final
  <2> QED
    BY <1>1, <2>1, <2>2
<1>4. CASE draft' = rows
  <2>1. draft' = rows'
    BY <1>4
  <2>2. Spelled(draft)'
    BY <1>1, <2>1 DEF Spelled, Unfolded, exacts
  <2>3. DraftKept(draft)'
    BY <2>1 DEF DraftKept, Unfolded, exacts
  <2> QED
    BY <1>1, <2>2, <2>3
<1> QED
  BY <1>3, <1>4

\* What is folded is not what an unfolded row is called.
LEMMA UnfoldedNotFinal ==
  ASSUME NEW r, Spelled(r), NEW k \in Unfolded(r),
         NEW e, fold(final(e)) = final(e)
  PROVE  r[k].pattern # final(e)
BY DEF Spelled, Unfolded, final

\* A process that takes no step, while no entry and no row changes.
LEMMA Bystander ==
  ASSUME KeepInv, NEW q \in Service, UNCHANGED <<rows, typed>>,
         pc'[q] = pc[q], todo'[q] = todo[q], twin'[q] = twin[q],
         writer' = q <=> writer = q, writer = q => draft' = draft
  PROVE  Reads(q)' /\ TwinKept(q)'
<1>1. view(q)' = view(q)
  BY DEF view
<1>2. Reads(q) /\ TwinKept(q)
  BY DEF KeepInv
<1>3. Unfolded(rows)' = Unfolded(rows)
  BY DEF Unfolded, exacts, final
<1>4. Unfolded(view(q))' = Unfolded(view(q))
  BY <1>1 DEF Unfolded, exacts, final
<1>5. todo_ids(q)' = todo_ids(q)
  BY DEF todo_ids
<1>6. \A e : early(e)' = early(e) /\ final(e)' = final(e)
  BY DEF early, final
<1>7. Reads(q)'
  BY <1>2, <1>3, <1>4, <1>5, <1>6 DEF Reads, Merging
<1>8. TwinKept(q)'
  BY <1>1, <1>2, <1>4, <1>6 DEF TwinKept, twins_of
<1> QED
  BY <1>7, <1>8

\* Steps that read no rows, write none and commit no merge.
LEMMA QuietKeep ==
  ASSUME TypeInv, KeepInv, NEW p \in Process, NEW label,
         label \notin {"dup", "write", "commit", "up"}, Go(p, label),
         UNCHANGED <<rows, typed, standing, merged>>,
         draft' = draft \/ draft' = rows, twin' \in [Process -> BOOLEAN],
         \A q \in Service : q # p =>
           /\ todo'[q] = todo[q] /\ twin'[q] = twin[q]
           /\ writer' = q <=> writer = q
           /\ writer = q => draft' = draft
  PROVE  KeepInv'
<1>1. ASSUME NEW q \in Service PROVE Reads(q)' /\ TwinKept(q)'
  <2>1. CASE q = p
    <3>1. pc'[q] = label
      BY <2>1 DEF Go, TypeInv, SchemaInv
    <3> QED
      BY <3>1 DEF Reads, TwinKept, Merging
  <2>2. CASE q # p
    <3>1. pc'[q] = pc[q]
      BY <2>2 DEF Go, TypeInv, SchemaInv, Process
    <3> QED
      BY <2>2, <3>1, Bystander
  <2> QED
    BY <2>1, <2>2
<1> QED
  BY <1>1, KeepRest DEF KeepInv

\* Of the rows found, those not folded yet are among those a merge reads.
LEMMA UnfoldedRead ==
  ASSUME FoldOnce, NameInv, KeepInv
  PROVE  Unfolded(rows) = ToFold
<1>1. ASSUME NEW i \in Unfolded(rows) PROVE i \in ToFold
  <2> DEFINE e == rows[i].entry
             x == rows[i].pattern
  <2>1. /\ i \in DOMAIN rows /\ rows[i].kind = "exact" /\ x # final(e)
        /\ x = typed[e].name
    BY DEF KeepInv, Spelled, Unfolded, exacts
  <2>2. canonical_host(x, Psl) # x
    BY <2>1 DEF final, fold
  <2>3. Head(x) = Www /\ Len(x) > 2
    BY <2>2 DEF canonical_host
  <2>4. x \in Name
    BY <2>1, RowFacts DEF NameInv
  <2>5. Len(x) > 1
    BY <2>3, <2>4 DEF Name
  <2> QED
    BY <2>1, <2>2, <2>3, <2>5 DEF ToFold, www_rows
<1>2. ASSUME NEW i \in ToFold PROVE i \in Unfolded(rows)
  <2>1. /\ i \in DOMAIN rows /\ rows[i].kind = "exact"
        /\ fold(rows[i].pattern) # rows[i].pattern
    BY DEF ToFold, www_rows, fold
  <2>2. fold(final(rows[i].entry)) = final(rows[i].entry)
    BY <2>1, RowFacts DEF NameInv
  <2> QED
    BY <2>1, <2>2 DEF Unfolded, exacts
<1> QED
  BY <1>1, <1>2

LEMMA KeepSelect ==
  ASSUME FoldOnce, TypeInv, NameInv, KeepInv, NEW p \in Service, Select(p)
  PROVE  KeepInv'
<1>1. /\ UNCHANGED <<rows, draft, typed, standing, merged, writer, twin>>
      /\ pc' = [pc EXCEPT ![p] = "dup"]
      /\ todo' = [todo EXCEPT ![p] = todo'[p]]
  BY DEF Select, Go, tableVars, historyVars, TypeInv, RowsInv, Process
<1>2. pc'[p] = "dup"
  BY <1>1 DEF TypeInv, SchemaInv, Process
<1>3. ASSUME NEW q \in Service, q # p PROVE Reads(q)' /\ TwinKept(q)'
  <2>1. pc'[q] = pc[q] /\ todo'[q] = todo[q]
    BY <1>1, <1>3 DEF TypeInv, SchemaInv, RowsInv, Process
  <2> QED
    BY <1>1, <2>1, Bystander
<1>4. PICK c \in Nat : \E order \in [1..c -> ToFold] :
        /\ todo'[p] = [k \in 1..c |->
             [id |-> order[k], port |-> rows[order[k]].port,
              target |-> canonical_host(rows[order[k]].pattern, Psl)]]
        /\ \A i \in ToFold : \E k \in 1..c : order[k] = i
  BY SelectOrder
<1>5. PICK order \in [1..c -> ToFold] :
        /\ todo'[p] = [k \in 1..c |->
             [id |-> order[k], port |-> rows[order[k]].port,
              target |-> canonical_host(rows[order[k]].pattern, Psl)]]
        /\ \A i \in ToFold : \E k \in 1..c : order[k] = i
  BY <1>4
<1>6. ASSUME NEW k \in DOMAIN todo'[p]
      PROVE  LET e == rows[todo'[p][k].id].entry
             IN  /\ early(e) /\ todo'[p][k].target = final(e)
                 /\ todo'[p][k].port = typed[e].port
  <2> DEFINE i == order[k]
             e == rows[i].entry
  <2>1. /\ i \in Unfolded(rows) /\ todo'[p][k].id = i
        /\ todo'[p][k].port = rows[i].port
        /\ todo'[p][k].target = fold(rows[i].pattern)
    BY <1>5, UnfoldedRead DEF fold
  <2>2. i \in DOMAIN rows /\ early(e) /\ rows[i].pattern = typed[e].name
    BY <2>1 DEF KeepInv, Spelled, Unfolded, exacts
  <2>3. rows[i].port = typed[e].port
    BY <2>2, RowFacts DEF NameInv
  <2> QED
    BY <2>1, <2>2, <2>3 DEF final
<1>7. \A i \in Unfolded(rows) : i \in {todo'[p][k].id : k \in DOMAIN todo'[p]}
  BY <1>5, UnfoldedRead
<1>8. Unfolded(view(p)) \subseteq Unfolded(rows)
  BY DEF view, KeepInv, DraftKept
<1>9. \A e : early(e)' = early(e) /\ final(e)' = final(e)
  BY <1>1 DEF early, final
<1>10. Unfolded(view(p))' = Unfolded(view(p))
  BY <1>1 DEF view, Unfolded, exacts, final
<1>11. Reads(p)'
  BY <1>1, <1>2, <1>6, <1>7, <1>8, <1>9, <1>10 DEF Reads, Merging, todo_ids
<1>12. TwinKept(p)'
  BY <1>2 DEF TwinKept
<1> QED
  BY <1>1, <1>3, <1>11, <1>12, KeepRest DEF KeepInv

\* Whether a twin is there; one there before any merge is committed, or
\* beside a row that one has folded, no merge deletes.
LEMMA KeepDup ==
  ASSUME FoldOnce, TypeInv, NameInv, KeepInv, NEW p \in Service, Dup(p)
  PROVE  KeepInv'
<1>1. UNCHANGED <<rows, draft, typed, standing, merged, writer, todo>>
  BY DEF Dup, tableVars, historyVars
<1>2. /\ pc[p] = "dup"
      /\ pc' = [pc EXCEPT ![p] = pc'[p]]
      /\ \/ todo[p] = <<>> /\ pc'[p] = "commit"
         \/ /\ todo[p] # <<>> /\ pc'[p] = "write"
            /\ twin' = [twin EXCEPT ![p] =
                 twins_of(view(p), Head(todo[p])) \ {Head(todo[p]).id} # {}]
      /\ \A q \in Service : q # p => pc'[q] = pc[q] /\ twin'[q] = twin[q]
  BY DEF Dup, Go, TypeInv, SchemaInv, KeepInv, Process
<1>3. ASSUME NEW q \in Service, q # p PROVE Reads(q)' /\ TwinKept(q)'
  BY <1>1, <1>2, <1>3, Bystander
<1>4. Unfolded(view(p))' = Unfolded(view(p)) /\ view(p)' = view(p)
  BY <1>1 DEF view, Unfolded, exacts, final
<1>5. \A e : early(e)' = early(e) /\ final(e)' = final(e)
  BY <1>1 DEF early, final
<1>6. Reads(p)'
  <2>1. Reads(p) /\ Merging(p)
    BY <1>2 DEF KeepInv, Merging
  <2> QED
    BY <1>1, <1>2, <1>4, <1>5, <2>1 DEF Reads, Merging, todo_ids
<1>7. TwinKept(p)'
  <2> DEFINE item == Head(todo[p])
             i == item.id
             twins == twins_of(view(p), item) \ {i}
  <2>1. SUFFICES ASSUME pc'[p] = "write", i \in DOMAIN view(p)
                 PROVE  /\ ~ twin'[p] => twins = {}
                        /\ twin'[p] => twins # {}
                        /\ twin'[p] /\ writer # p =>
                             \E k \in twins : ~ early(rows[k].entry)
    BY <1>1, <1>4, <1>5 DEF TwinKept, twins_of
  <2>2. todo[p] # <<>> /\ twin'[p] = (twins # {})
    BY <1>2, <2>1 DEF KeepInv, Process
  <2>3. SUFFICES ASSUME writer # p, NEW k \in twins
                 PROVE  ~ early(rows[k].entry)
    BY <2>2
  <2>4. /\ k \in exacts(rows) /\ k # i /\ rows[k].pattern = item.target
        /\ rows[k].port = item.port
    BY <2>3 DEF twins_of, view, exacts
  <2>5. i \in DOMAIN rows
    BY <2>1, <2>3 DEF view
  <2> DEFINE e == rows[i].entry
  <2>6. early(e) /\ item.target = final(e) /\ item.port = typed[e].port
    <3>1. Merging(p) /\ todo[p] \in Seq(Item)
      BY <1>2 DEF Merging, NameInv, TodoSound
    <3>2. 1 \in DOMAIN todo[p] /\ item = todo[p][1]
      BY <2>2, <3>1
    <3> HIDE DEF item
    <3> QED
      BY <2>5, <3>1, <3>2 DEF KeepInv, Reads
  <2> HIDE DEF item, twins
  <2>7. /\ rows[i].port = typed[e].port /\ rows[i].kind = typed[e].kind
        /\ fold(final(e)) = final(e)
    BY <2>5, RowFacts DEF NameInv
  <2>8. k \notin Unfolded(rows)
    BY <2>4, <2>6, <2>7, UnfoldedNotFinal DEF KeepInv
  <2>9. i \notin Unfolded(rows) =>
          rows[i].pattern = final(e) /\ i \in exacts(rows)
    BY <2>5, <2>6, <2>7 DEF Unfolded, exacts, early
  <2> QED
    BY <2>4, <2>6, <2>7, <2>8, <2>9 DEF KeepInv, Phase
<1>8. twin' \in [Process -> BOOLEAN]
  BY <1>2 DEF KeepInv, Dup
<1> QED
  BY <1>1, <1>3, <1>6, <1>7, <1>8, KeepRest DEF KeepInv

\* The writer deletes row i, which has a twin t.
LEMMA DraftCut ==
  ASSUME FoldOnce, NameInv, KeepInv, NEW i \in DOMAIN draft, NEW x,
         DOMAIN x = DOMAIN draft \ {i}, \A k \in DOMAIN x : x[k] = draft[k],
         early(rows[i].entry), NEW t \in DOMAIN draft \ {i},
         draft[t].kind = "exact", draft[t].pattern = final(rows[i].entry),
         draft[t].port = rows[i].port
  PROVE  /\ Unfolded(x) \subseteq Unfolded(draft) \ {i}
         /\ Spelled(x) /\ DraftKept(x)
<1>1. Mirrors(draft) /\ DraftKept(draft) /\ Spelled(draft)
  BY DEF NameInv, KeepInv
<1>2. \A k \in DOMAIN draft : /\ k \in DOMAIN rows
                              /\ draft[k].entry = rows[k].entry
                              /\ draft[k].kind = rows[k].kind
                              /\ draft[k].port = rows[k].port
  BY <1>1, RowFacts
<1>3. \A d \in DOMAIN rows : fold(final(rows[d].entry)) = final(rows[d].entry)
  BY RowFacts DEF NameInv
<1>4. \A k : /\ k \in exacts(x) <=> k \in exacts(draft) /\ k # i
             /\ k \in Unfolded(x) <=> k \in Unfolded(draft) /\ k # i
             /\ k \in exacts(x) => x[k] = draft[k]
  BY DEF Unfolded, exacts
<1>5. \A k \in Unfolded(draft) : k \in exacts(draft)
  BY DEF Unfolded
<1>6. Spelled(x)
  BY <1>1, <1>4, <1>5 DEF Spelled
<1>7. \A k \in Unfolded(rows), j \in exacts(x) :
        /\ k \in DOMAIN x \ Unfolded(x)
        /\ x[j].pattern = x[k].pattern /\ x[j].port = x[k].port
        => k = j
  BY <1>1, <1>4 DEF DraftKept
<1>8. t \in DOMAIN x /\ x[t] = draft[t]
  OBVIOUS
<1>9. ASSUME NEW d \in DOMAIN rows \ DOMAIN x
      PROVE  /\ early(rows[d].entry)
             /\ on(x, final(rows[d].entry), rows[d].port) # {}
  <2>1. CASE d = i
    <3>1. t \in on(x, final(rows[i].entry), rows[i].port)
      BY <1>8 DEF on, twins_of
    <3> QED
      BY <2>1, <3>1
  <2>2. CASE d # i
    <3>1. /\ early(rows[d].entry)
          /\ on(draft, final(rows[d].entry), rows[d].port) # {}
      BY <1>1, <2>2 DEF DraftKept
    <3>2. PICK k : k \in on(draft, final(rows[d].entry), rows[d].port)
      BY <3>1
    <3>3. /\ k \in DOMAIN draft /\ draft[k].pattern = final(rows[d].entry)
          /\ draft[k].port = rows[d].port /\ draft[k].kind = "exact"
      BY <3>2 DEF on, twins_of
    <3>4. CASE k # i
      <4>1. k \in DOMAIN x /\ x[k] = draft[k]
        BY <3>3, <3>4
      <4>2. k \in on(x, final(rows[d].entry), rows[d].port)
        BY <3>3, <4>1 DEF on, twins_of
      <4> QED
        BY <3>1, <4>2
    <3>5. CASE k = i
      <4>1. i \notin Unfolded(draft)
        BY <1>1, <1>3, <3>3, <3>5, UnfoldedNotFinal
      <4>2. draft[i].pattern = final(rows[i].entry)
        BY <1>2, <3>3, <3>5, <4>1 DEF Unfolded, exacts
      <4>3. /\ x[t].pattern = final(rows[d].entry) /\ x[t].kind = "exact"
            /\ x[t].port = rows[d].port
        BY <1>2, <1>8, <3>3, <3>5, <4>2
      <4>4. t \in on(x, final(rows[d].entry), rows[d].port)
        BY <1>8, <4>3 DEF on, twins_of
      <4> QED
        BY <3>1, <4>4
    <3> QED
      BY <3>4, <3>5
  <2> QED
    BY <2>1, <2>2
<1>10. DraftKept(x)
  BY <1>1, <1>4, <1>7, <1>9 DEF DraftKept
<1> QED
  BY <1>4, <1>6, <1>10

\* The writer folds row i, which has no twin if it is not folded yet.
LEMMA DraftFolded ==
  ASSUME FoldOnce, NameInv, KeepInv, NEW i \in DOMAIN draft, NEW x,
         draft[i].kind = "exact", DOMAIN x = DOMAIN draft,
         \A k \in DOMAIN draft :
           /\ x[k].entry = draft[k].entry /\ x[k].kind = draft[k].kind
           /\ x[k].port = draft[k].port
           /\ k # i => x[k].pattern = draft[k].pattern,
         x[i].pattern = final(draft[i].entry),
         i \in Unfolded(draft) =>
           \A k \in exacts(draft) :
             /\ draft[k].pattern = final(draft[i].entry)
             /\ draft[k].port = draft[i].port
             => k = i
  PROVE  /\ Unfolded(x) \subseteq Unfolded(draft) \ {i}
         /\ Spelled(x) /\ DraftKept(x)
<1>1. Mirrors(draft) /\ DraftKept(draft) /\ Spelled(draft)
  BY DEF NameInv, KeepInv
<1>2. \A k \in DOMAIN draft : /\ k \in DOMAIN rows
                              /\ draft[k].kind = rows[k].kind
  BY <1>1, RowFacts
<1>3. \A d \in DOMAIN rows : fold(final(rows[d].entry)) = final(rows[d].entry)
  BY RowFacts DEF NameInv
<1>4. \A k : /\ k \in exacts(x) <=> k \in exacts(draft)
             /\ k \in Unfolded(x) <=> k \in Unfolded(draft) /\ k # i
  BY DEF Unfolded, exacts
<1>5. \A k \in Unfolded(draft) : k \in DOMAIN draft
  BY DEF Unfolded, exacts
<1>6. Spelled(x)
  BY <1>1, <1>4, <1>5 DEF Spelled
<1>7. i \notin Unfolded(draft) => draft[i].pattern = final(draft[i].entry)
  BY DEF Unfolded, exacts
<1>8. ASSUME NEW k \in Unfolded(rows), NEW j \in exacts(x),
             k \in DOMAIN x \ Unfolded(x),
             x[j].pattern = x[k].pattern, x[j].port = x[k].port
      PROVE  k = j
  <2>1. /\ j \in exacts(draft) /\ j \in DOMAIN draft /\ k \in DOMAIN draft
        /\ draft[j].port = draft[k].port
    BY <1>4, <1>8 DEF exacts
  <2>2. k \in exacts(draft)
    BY <1>2, <1>8, <2>1 DEF exacts, Unfolded
  <2>3. CASE i \notin Unfolded(draft) \/ (k # i /\ j # i)
    <3>1. draft[j].pattern = draft[k].pattern /\ k \notin Unfolded(draft)
      BY <1>4, <1>7, <1>8, <2>1, <2>3
    <3> QED
      BY <1>1, <1>8, <2>1, <3>1 DEF DraftKept
  <2>4. CASE i \in Unfolded(draft) /\ k = i /\ j # i
    BY <1>8, <2>1, <2>4
  <2>5. CASE i \in Unfolded(draft) /\ j = i /\ k # i
    BY <1>8, <2>1, <2>2, <2>5
  <2> QED
    BY <2>3, <2>4, <2>5
<1>9. ASSUME NEW d \in DOMAIN rows \ DOMAIN x
      PROVE  /\ early(rows[d].entry)
             /\ on(x, final(rows[d].entry), rows[d].port) # {}
  <2>1. /\ early(rows[d].entry)
        /\ on(draft, final(rows[d].entry), rows[d].port) # {}
    BY <1>1, <1>9 DEF DraftKept
  <2>2. PICK k : k \in on(draft, final(rows[d].entry), rows[d].port)
    BY <2>1
  <2>3. /\ k \in DOMAIN draft /\ draft[k].pattern = final(rows[d].entry)
        /\ draft[k].port = rows[d].port /\ draft[k].kind = "exact"
    BY <2>2 DEF on, twins_of
  <2>4. x[k].pattern = draft[k].pattern
    <3>1. k \notin Unfolded(draft)
      BY <1>1, <1>3, <1>9, <2>3, UnfoldedNotFinal
    <3> QED
      BY <1>7, <2>3, <3>1
  <2>5. k \in on(x, final(rows[d].entry), rows[d].port)
    BY <2>3, <2>4 DEF on, twins_of
  <2> QED
    BY <2>1, <2>5
<1>10. Unfolded(x) \subseteq Unfolded(rows)
  BY <1>1, <1>4 DEF DraftKept
<1>11. DraftKept(x)
  BY <1>8, <1>9, <1>10 DEF DraftKept
<1> QED
  BY <1>4, <1>6, <1>11

\* What the DELETE or UPDATE of a merge makes of the rows it sees.
Written(p, x) ==
  LET item == Head(todo[p])
  IN  x = IF item.id \notin DOMAIN draft THEN draft
          ELSE IF twin[p] THEN Restrict(draft, DOMAIN draft \ {item.id})
          ELSE [draft EXCEPT ![item.id].pattern = item.target]

LEMMA DraftWritten ==
  ASSUME FoldOnce, NameInv, KeepInv, NEW p \in Service, pc[p] = "write",
         todo[p] # <<>>, view(p) = draft, NEW item, item = Head(todo[p]),
         NEW i, i = item.id, NEW x, Written(p, x)
  PROVE  /\ Unfolded(x) \subseteq Unfolded(draft) \ {i}
         /\ Spelled(x) /\ DraftKept(x)
<1>1. Mirrors(draft) /\ DraftKept(draft) /\ Spelled(draft) /\ TwinKept(p)
  BY DEF NameInv, KeepInv
<1>2. CASE i \notin DOMAIN draft
  <2>1. x = draft /\ i \notin Unfolded(draft)
    BY <1>2 DEF Written, Unfolded, exacts
  <2> QED
    BY <1>1, <2>1
<1>3. CASE i \in DOMAIN draft
  <2> DEFINE e == rows[i].entry
             twins == twins_of(draft, item) \ {i}
  <2>1. /\ i \in DOMAIN rows /\ draft[i].entry = e
        /\ draft[i].port = rows[i].port /\ draft[i].kind = rows[i].kind
        /\ rows[i].kind = typed[e].kind /\ rows[i].port = typed[e].port
    BY <1>1, <1>3, RowFacts DEF NameInv
  <2>2. early(e) /\ item.target = final(e) /\ item.port = typed[e].port
    <3>1. Merging(p) /\ todo[p] \in Seq(Item)
      BY DEF Merging, NameInv, TodoSound
    <3>2. 1 \in DOMAIN todo[p] /\ item = todo[p][1]
      BY <3>1
    <3> QED
      BY <2>1, <3>1, <3>2 DEF KeepInv, Reads
  <2>3. draft[i].kind = "exact"
    BY <2>1, <2>2 DEF early
  <2>4. /\ ~ twin[p] /\ i \in Unfolded(draft) => twins = {}
        /\ twin[p] => twins # {}
    BY <1>1, <1>3 DEF TwinKept
  <2>5. CASE twin[p]
    <3>1. PICK t : t \in twins
      BY <2>4, <2>5
    <3>2. /\ t \in DOMAIN draft \ {i} /\ draft[t].kind = "exact"
          /\ draft[t].pattern = final(e) /\ draft[t].port = rows[i].port
      BY <2>1, <2>2, <3>1 DEF twins_of
    <3>3. DOMAIN x = DOMAIN draft \ {i} /\ \A k \in DOMAIN x : x[k] = draft[k]
      BY <1>3, <2>5 DEF Written, Restrict
    <3>4. i \in DOMAIN draft /\ early(rows[i].entry)
      BY <1>3, <2>2
    <3>5. draft[t].pattern = final(rows[i].entry)
      BY <3>2
    <3> HIDE DEF e, twins
    <3> QED
      BY <3>2, <3>3, <3>4, <3>5, DraftCut
  <2>6. CASE ~ twin[p]
    <3>1. x = [draft EXCEPT ![i].pattern = item.target]
      BY <1>3, <2>6 DEF Written
    <3>2. /\ DOMAIN x = DOMAIN draft
          /\ \A k \in DOMAIN draft : k # i => x[k] = draft[k]
          /\ x[i] = [draft[i] EXCEPT !.pattern = item.target]
      BY <1>3, <3>1
    <3>3. draft[i] = row_of(draft[i], draft[i].entry)
      BY <1>1, <1>3 DEF Mirrors, NameSound
    <3>4. /\ x[i].entry = draft[i].entry /\ x[i].kind = draft[i].kind
          /\ x[i].port = draft[i].port /\ x[i].pattern = item.target
      BY <3>2, <3>3 DEF row_of
    <3>5. i \in Unfolded(draft) =>
            \A k \in exacts(draft) :
              /\ draft[k].pattern = final(draft[i].entry)
              /\ draft[k].port = draft[i].port
              => k = i
      <4> SUFFICES ASSUME i \in Unfolded(draft), NEW k \in exacts(draft),
                          k # i, draft[k].pattern = final(draft[i].entry),
                          draft[k].port = draft[i].port
                   PROVE  FALSE
        OBVIOUS
      <4>1. k \in twins
        BY <2>1, <2>2 DEF twins_of, exacts
      <4> QED
        BY <2>4, <2>6, <4>1
    <3>6. x[i].pattern = final(draft[i].entry)
      BY <2>1, <2>2, <3>4
    <3>7. \A k \in DOMAIN draft :
            /\ x[k].entry = draft[k].entry /\ x[k].kind = draft[k].kind
            /\ x[k].port = draft[k].port
            /\ k # i => x[k].pattern = draft[k].pattern
      BY <3>2, <3>4
    <3> HIDE DEF e, twins
    <3> QED
      BY <1>3, <2>3, <3>2, <3>5, <3>6, <3>7, DraftFolded
  <2> QED
    BY <2>5, <2>6
<1> QED
  BY <1>2, <1>3

\* The DELETE or UPDATE of a merge: what it has still to deal with gets one less.
LEMMA KeepWrite ==
  ASSUME FoldOnce, TypeInv, NameInv, KeepInv, NEW p \in Service, Write(p)
  PROVE  KeepInv'
<1>1. /\ UNCHANGED <<rows, typed, standing, merged, twin>>
      /\ pc[p] = "write" /\ writer \in {Nobody, p} /\ writer' = p
  BY DEF Write, historyVars
<1>2. todo[p] # <<>> /\ p # Nobody
  BY <1>1, StartupAssumption DEF TypeInv, TypeOK, Process
<1>3. view(p) = draft
  BY <1>1 DEF view, TypeInv, TypeOK
<1>4. view(p)' = draft'
  BY <1>1 DEF view
<1>5. Written(p, draft')
  BY <1>3 DEF Write, Written
<1>6. /\ pc'[p] = "dup" /\ todo'[p] = Tail(todo[p])
      /\ \A q \in Service : q # p => pc'[q] = pc[q] /\ todo'[q] = todo[q]
  BY DEF Write, Go, TypeInv, SchemaInv, RowsInv, Process
<1>7. PICK i, x : i = Head(todo[p]).id /\ x = draft'
  OBVIOUS
<1>8. /\ Unfolded(x) \subseteq Unfolded(draft) \ {i}
      /\ Spelled(x) /\ DraftKept(x)
  <2>1. Written(p, x)
    BY <1>5, <1>7
  <2> QED
    BY <1>1, <1>2, <1>3, <1>7, <2>1, DraftWritten
<1>9. \A e : early(e)' = early(e) /\ final(e)' = final(e)
  BY <1>1 DEF early, final
<1>10. Unfolded(draft)' = Unfolded(x)
  <2>1. draft' = x
    BY <1>7
  <2> QED
    BY <1>9, <2>1 DEF Unfolded, exacts
<1>11. Spelled(draft)'
  <2>1. draft' = x /\ typed' = typed
    BY <1>1, <1>7
  <2> QED
    BY <1>8, <1>9, <1>10, <2>1 DEF Spelled
<1>12. DraftKept(draft)'
  <2>1. draft' = x /\ rows' = rows
    BY <1>1, <1>7
  <2>2. Unfolded(rows)' = Unfolded(rows) /\ exacts(draft)' = exacts(x)
    BY <1>9, <2>1 DEF Unfolded, exacts
  <2>3. \A name, port : on(draft, name, port)' = on(x, name, port)
    BY <2>1 DEF on, twins_of
  <2> QED
    BY <1>8, <1>9, <1>10, <2>1, <2>2, <2>3 DEF DraftKept
<1>13. ASSUME NEW q \in Service, q # p PROVE Reads(q)' /\ TwinKept(q)'
  <2>1. q # Nobody
    BY StartupAssumption DEF Process
  <2> QED
    BY <1>1, <1>6, <1>13, <2>1, Bystander
<1>14. /\ todo[p] \in Seq(Item) /\ Len(todo[p]) \in Nat
       /\ Len(Tail(todo[p])) = Len(todo[p]) - 1
       /\ DOMAIN Tail(todo[p]) = 1..Len(todo[p]) - 1
       /\ \A k \in 1..Len(todo[p]) - 1 : Tail(todo[p])[k] = todo[p][k + 1]
       /\ DOMAIN todo[p] = 1..Len(todo[p]) /\ Head(todo[p]) = todo[p][1]
  BY <1>1, <1>2 DEF NameInv, TodoSound, Merging
<1>15. Reads(p) /\ Merging(p)
  BY <1>1 DEF KeepInv, Merging
<1>16. ASSUME NEW k \in DOMAIN Tail(todo[p])
       PROVE  k + 1 \in DOMAIN todo[p] /\ Tail(todo[p])[k] = todo[p][k + 1]
  BY <1>14
<1>17. ASSUME NEW j \in todo_ids(p), j # i
       PROVE  \E k \in DOMAIN Tail(todo[p]) : Tail(todo[p])[k].id = j
  <2>1. PICK m \in 1..Len(todo[p]) : todo[p][m].id = j
    BY <1>14, <1>17 DEF todo_ids
  <2>2. m # 1
    BY <1>7, <1>14, <1>17, <2>1
  <2>3. m - 1 \in 1..Len(todo[p]) - 1 /\ m - 1 + 1 = m
    BY <1>14, <2>2
  <2>4. Tail(todo[p])[m - 1].id = j
    BY <1>14, <2>1, <2>3
  <2> QED
    BY <1>14, <2>3, <2>4
<1>18. Reads(p)'
  <2>1. Unfolded(view(p))' \subseteq todo_ids(p)'
    <3>1. Unfolded(view(p))' = Unfolded(x)
      BY <1>4, <1>10 DEF Unfolded, exacts, final
    <3>2. Unfolded(x) \subseteq todo_ids(p)
      BY <1>3, <1>8, <1>15 DEF Reads
    <3>3. i \notin Unfolded(x)
      BY <1>8
    <3>4. \A j \in Unfolded(x) : j \in todo_ids(p)'
      BY <1>6, <1>17, <3>2, <3>3 DEF todo_ids
    <3> QED
      BY <3>1, <3>4
  <2>2. ASSUME NEW k \in DOMAIN todo'[p], todo'[p][k].id \in DOMAIN rows
        PROVE  LET e == rows[todo'[p][k].id].entry
               IN  /\ early(e) /\ todo'[p][k].target = final(e)
                   /\ todo'[p][k].port = typed[e].port
    <3>1. k + 1 \in DOMAIN todo[p] /\ todo'[p][k] = todo[p][k + 1]
      BY <1>6, <1>16
    <3> QED
      BY <1>15, <2>2, <3>1 DEF Reads
  <2> QED
    BY <1>1, <1>6, <1>9, <2>1, <2>2 DEF Reads, Merging
<1>19. TwinKept(p)'
  BY <1>6 DEF TwinKept
<1>20. twin' \in [Process -> BOOLEAN]
  BY <1>1 DEF KeepInv
<1> QED
  BY <1>1, <1>11, <1>12, <1>13, <1>18, <1>19, <1>20, KeepRows DEF KeepInv

\* When all that the writer has is folded: natives are still there.
LEMMA DraftDone ==
  ASSUME FoldOnce, NameInv, KeepInv, Unfolded(draft) = {}
  PROVE  /\ \A k \in DOMAIN draft :
              /\ k \in DOMAIN rows /\ draft[k].entry = rows[k].entry
              /\ draft[k].kind = rows[k].kind /\ draft[k].port = rows[k].port
              /\ draft[k].active = rows[k].active
              /\ k \in exacts(draft) <=> k \in exacts(rows)
              /\ k \in exacts(draft) =>
                   draft[k].pattern = final(rows[k].entry)
         /\ \A k \in DOMAIN rows : ~ early(rows[k].entry) => k \in DOMAIN draft
         /\ \A k \in exacts(rows) :
              k \notin Unfolded(rows) => rows[k].pattern = final(rows[k].entry)
         /\ \A k \in exacts(rows) :
              ~ early(rows[k].entry) => k \notin Unfolded(rows)
<1>1. Mirrors(draft) /\ DraftKept(draft) /\ Spelled(rows)
  BY DEF NameInv, KeepInv
<1>2. \A k \in DOMAIN draft :
        /\ k \in DOMAIN rows /\ draft[k].entry = rows[k].entry
        /\ draft[k].kind = rows[k].kind /\ draft[k].port = rows[k].port
        /\ draft[k].active = rows[k].active
  BY <1>1, RowFacts
<1>3. \A k \in DOMAIN draft : k \in exacts(draft) <=> k \in exacts(rows)
  BY <1>2 DEF exacts
<1>4. \A k \in exacts(draft) : draft[k].pattern = final(rows[k].entry)
  <2> SUFFICES ASSUME NEW k \in exacts(draft)
               PROVE  draft[k].pattern = final(rows[k].entry)
    OBVIOUS
  <2>1. k \notin Unfolded(draft) /\ k \in DOMAIN draft
    BY DEF exacts
  <2> QED
    BY <1>2, <2>1 DEF Unfolded
<1>5. \A k \in DOMAIN rows : ~ early(rows[k].entry) => k \in DOMAIN draft
  BY <1>1 DEF DraftKept
<1>6. \A k \in exacts(rows) :
        k \notin Unfolded(rows) => rows[k].pattern = final(rows[k].entry)
  BY DEF Unfolded
<1>7. \A k \in exacts(rows) : ~ early(rows[k].entry) => k \notin Unfolded(rows)
  BY <1>1 DEF Spelled
<1> QED
  BY <1>2, <1>3, <1>4, <1>5, <1>6, <1>7

\* What the commit of a merge deletes is early and has a twin in the draft.
LEMMA FateOfGone ==
  ASSUME FoldOnce, NameInv, KeepInv, NEW c \in DOMAIN rows \ DOMAIN draft,
         NEW e, e = rows[c].entry
  PROVE  /\ early(e) /\ c \in exacts(rows) /\ rows[c].port = typed[e].port
         /\ fate(c) # "buried" =>
              \E j \in on(draft, final(e), typed[e].port) : draft[j].active
<1>1. /\ early(e) /\ on(draft, final(e), rows[c].port) # {}
  BY DEF KeepInv, DraftKept
<1>2. /\ rows[c].port = typed[e].port /\ rows[c].kind = typed[e].kind
      /\ rows[c].pattern \in {typed[e].name, final(e)}
      /\ fold(final(e)) = final(e)
  BY RowFacts DEF NameInv
<1>3. canonical_host(rows[c].pattern, Psl) = final(e)
  BY <1>2 DEF final, fold
<1>4. c \in exacts(rows)
  BY <1>1, <1>2 DEF exacts, early
<1> DEFINE twins == on(draft, final(e), rows[c].port)
<1>5. fate(c) = CASE \E j \in twins : draft[j].active -> "carried"
                  [] twins # {} /\ ~ \E j \in twins : draft[j].active -> "buried"
                  [] twins = {} /\ final(e) # rows[c].pattern -> "none"
                  [] twins = {} /\ final(e) = rows[c].pattern -> "mistaken"
  BY <1>3 DEF fate, on
<1>6. twins # {}
  BY <1>1
<1> HIDE DEF twins
<1>7. (~ \E j \in twins : draft[j].active) => fate(c) = "buried"
  BY <1>5, <1>6
<1> QED
  BY <1>1, <1>2, <1>4, <1>7 DEF twins

\* Who carries what a merge has deleted, once it is committed.
LEMMA CommitCarries ==
  ASSUME FoldOnce, NameInv, KeepInv, Unfolded(draft) = {}, NEW e, NEW port,
         \/ /\ Unfolded(rows) = {}
            /\ \E j \in on(rows, final(e), port) : rows[j].active
            /\ (\E j \in on(rows, final(e), port) : ~ early(rows[j].entry))
               => \E j \in on(rows, final(e), port) :
                    ~ early(rows[j].entry) /\ rows[j].active
         \/ /\ \E j \in on(draft, final(e), port) : draft[j].active
            /\ \E c \in exacts(rows) \ DOMAIN draft :
                 /\ early(rows[c].entry) /\ final(rows[c].entry) = final(e)
                 /\ rows[c].port = port,
         Phase
  PROVE  /\ \E j \in on(draft, final(e), port) : draft[j].active
         /\ (\E j \in on(draft, final(e), port) : ~ early(draft[j].entry))
            => \E j \in on(draft, final(e), port) :
                 ~ early(draft[j].entry) /\ draft[j].active
<1>1. /\ \A k \in DOMAIN draft :
           /\ k \in DOMAIN rows /\ draft[k].entry = rows[k].entry
           /\ draft[k].kind = rows[k].kind /\ draft[k].port = rows[k].port
           /\ draft[k].active = rows[k].active
           /\ k \in exacts(draft) <=> k \in exacts(rows)
           /\ k \in exacts(draft) => draft[k].pattern = final(rows[k].entry)
      /\ \A k \in DOMAIN rows : ~ early(rows[k].entry) => k \in DOMAIN draft
      /\ \A k \in exacts(rows) :
           k \notin Unfolded(rows) => rows[k].pattern = final(rows[k].entry)
  BY DraftDone
<1> DEFINE x == final(e)
           old == on(rows, x, port)
           new == on(draft, x, port)
<1>2. \A k \in new : /\ k \in DOMAIN draft /\ k \in exacts(draft)
                    /\ k \in exacts(rows) /\ rows[k].port = port
                    /\ draft[k].pattern = x /\ draft[k].port = port
                    /\ final(rows[k].entry) = x
                    /\ draft[k].entry = rows[k].entry
  BY <1>1 DEF on, twins_of, exacts
<1>3. \A k \in old : /\ k \in exacts(rows) /\ k \in DOMAIN rows
                    /\ rows[k].port = port /\ rows[k].pattern = x
  BY DEF on, twins_of, exacts
<1>4. DraftKept(draft)
  BY DEF KeepInv
<1>5. CASE /\ Unfolded(rows) = {}
           /\ \E j \in old : rows[j].active
           /\ (\E j \in old : ~ early(rows[j].entry))
              => \E j \in old : ~ early(rows[j].entry) /\ rows[j].active
  <2>1. \A k \in exacts(rows) : rows[k].pattern = final(rows[k].entry)
    BY <1>1, <1>5
  <2>2. \A k : k \in new => k \in old
    BY <1>2, <2>1 DEF on, twins_of, exacts
  <2>3. \A k \in old : k \in DOMAIN draft => k \in new
    BY <1>1, <1>3, <2>1 DEF on, twins_of, exacts
  <2>4. CASE \E j \in old : ~ early(rows[j].entry)
    <3>1. PICK j \in old : ~ early(rows[j].entry) /\ rows[j].active
      BY <1>5, <2>4
    <3>2. j \in DOMAIN rows
      BY DEF on, twins_of
    <3>3. /\ j \in DOMAIN draft /\ draft[j].active
          /\ draft[j].entry = rows[j].entry
      BY <1>1, <3>1, <3>2
    <3>4. j \in new
      BY <2>3, <3>3
    <3>5. draft[j].active /\ ~ early(draft[j].entry)
      BY <3>1, <3>3 DEF early
    <3>6. \E k \in new : ~ early(draft[k].entry) /\ draft[k].active
      BY <3>4, <3>5
    <3> HIDE DEF old
    <3> QED
      BY <3>6
  <2>5. CASE \A j \in old : early(rows[j].entry)
    <3>1. PICK j \in old : rows[j].active
      BY <1>5
    <3>2. \A k \in new : early(draft[k].entry)
      BY <1>2, <2>2, <2>5
    <3>3. CASE j \in DOMAIN draft
      <4>1. j \in new /\ draft[j].active
        BY <1>1, <2>3, <3>1, <3>3
      <4> QED
        BY <3>2, <4>1
    <3>4. CASE j \notin DOMAIN draft
      <4>1. final(rows[j].entry) = x /\ rows[j].port = port
        BY <1>3, <2>1
      <4>2. new # {}
        BY <1>3, <1>4, <3>4, <4>1 DEF DraftKept
      <4>3. PICK k : k \in new
        BY <4>2
      <4>4. /\ k \in exacts(rows) /\ j \in exacts(rows)
            /\ early(rows[k].entry) /\ early(rows[j].entry)
            /\ rows[k].pattern = rows[j].pattern
            /\ rows[k].port = rows[j].port /\ k \in DOMAIN draft
        BY <1>2, <1>3, <2>2, <2>5, <4>3
      <4>5. k = j
        <5> HIDE DEF old, new, x
        <5> QED
          BY <1>5, <4>4 DEF Phase
      <4> QED
        BY <3>4, <4>4, <4>5
    <3> QED
      BY <3>3, <3>4
  <2> QED
    BY <2>4, <2>5
<1>6. CASE /\ \E j \in new : draft[j].active
           /\ \E c \in exacts(rows) \ DOMAIN draft :
                /\ early(rows[c].entry) /\ final(rows[c].entry) = x
                /\ rows[c].port = port
  <2>1. PICK j \in new : draft[j].active
    BY <1>6
  <2>2. PICK c \in exacts(rows) \ DOMAIN draft :
          /\ early(rows[c].entry) /\ final(rows[c].entry) = x
          /\ rows[c].port = port
    BY <1>6
  <2>3. ASSUME NEW k \in new, ~ early(draft[k].entry), early(draft[j].entry)
        PROVE  FALSE
    <3>1. /\ k \in exacts(draft) /\ j \in DOMAIN draft
          /\ draft[k].pattern = draft[j].pattern
          /\ draft[k].port = draft[j].port
          /\ j \in exacts(rows) /\ early(rows[j].entry)
          /\ final(rows[j].entry) = x /\ rows[j].port = port
      BY <1>2, <2>3
    <3>2. CASE j \in Unfolded(rows)
      <4>1. j = k
        BY <1>4, <3>1, <3>2 DEF DraftKept
      <4> QED
        BY <2>3, <4>1
    <3>3. CASE j \notin Unfolded(rows)
      <4>1. Unfolded(rows) = {} /\ \A a, b \in exacts(rows) :
              /\ early(rows[a].entry) /\ early(rows[b].entry)
              /\ rows[a].pattern = rows[b].pattern
              /\ rows[a].port = rows[b].port
              => a = b
        <5> HIDE DEF x, new
        <5> QED
          BY <3>1, <3>3 DEF Phase
      <4>2. rows[c].pattern = rows[j].pattern
        BY <1>1, <2>2, <3>1, <4>1
      <4>3. c = j
        <5> HIDE DEF x, new
        <5> QED
          BY <2>2, <3>1, <4>1, <4>2
      <4> QED
        BY <2>2, <3>1, <4>3
    <3> QED
      BY <3>2, <3>3
  <2> QED
    BY <2>1, <2>3
<1> QED
  BY <1>5, <1>6

\* What the commit of the writer puts into merged.
LEMMA MergedBy ==
  ASSUME TypeInv, NameInv, NEW p \in Service, Commit(p), writer = p,
         NEW e \in DOMAIN merged'
  PROVE  \/ e \in DOMAIN merged /\ merged'[e] = merged[e]
         \/ \E c \in DOMAIN rows \ DOMAIN draft :
              rows[c].entry = e /\ merged'[e] = fate(c)
<1> DEFINE gone == {i \in DOMAIN rows : \A j \in DOMAIN draft :
                      draft[j].entry # rows[i].entry}
<1>1. merged' = [d \in DOMAIN merged \cup {rows[i].entry : i \in gone} |->
                   IF d \in DOMAIN merged THEN merged[d]
                   ELSE fate(CHOOSE i \in gone : rows[i].entry = d)]
  BY DEF Commit
<1>2. \A c \in gone : c \in DOMAIN rows \ DOMAIN draft
  BY DEF NameInv, Mirrors
<1> HIDE DEF gone
<1>3. CASE e \in DOMAIN merged
  BY <1>1, <1>3
<1>4. CASE e \notin DOMAIN merged
  <2> DEFINE c == CHOOSE i \in gone : rows[i].entry = e
  <2>1. \E i \in gone : rows[i].entry = e
    BY <1>1, <1>4
  <2>2. c \in gone /\ rows[c].entry = e
    BY <2>1
  <2>3. merged'[e] = fate(c)
    BY <1>1, <1>4
  <2> HIDE DEF c
  <2> QED
    BY <1>2, <2>2, <2>3
<1> QED
  BY <1>3, <1>4

\* Of the rows that a merge has folded no two are left on one name.
LEMMA OneEach ==
  ASSUME FoldOnce, NameInv, KeepInv, Unfolded(draft) = {},
         NEW i \in exacts(draft), NEW j \in exacts(draft),
         early(draft[i].entry), early(draft[j].entry),
         draft[i].pattern = draft[j].pattern, draft[i].port = draft[j].port
  PROVE  i = j
<1>1. \A k \in exacts(draft) :
        /\ k \in DOMAIN draft /\ k \in exacts(rows)
        /\ draft[k].entry = rows[k].entry /\ draft[k].port = rows[k].port
        /\ draft[k].pattern = final(rows[k].entry)
  BY DraftDone DEF exacts
<1>2. \A k \in exacts(rows) :
        k \notin Unfolded(rows) => rows[k].pattern = final(rows[k].entry)
  BY DraftDone
<1>3. CASE i \in Unfolded(rows)
  BY <1>1, <1>3 DEF KeepInv, DraftKept
<1>4. CASE i \notin Unfolded(rows)
  <2>1. early(rows[i].entry) /\ early(rows[j].entry)
    <3>1. draft[i].entry = rows[i].entry /\ draft[j].entry = rows[j].entry
      BY <1>1
    <3> QED
      BY <3>1 DEF early
  <2>2. /\ Unfolded(rows) = {}
        /\ \A a, b \in exacts(rows) :
             /\ early(rows[a].entry) /\ early(rows[b].entry)
             /\ rows[a].pattern = rows[b].pattern
             /\ rows[a].port = rows[b].port
             => a = b
    BY <1>1, <1>4, <2>1 DEF KeepInv, Phase
  <2>3. rows[i].pattern = rows[j].pattern /\ rows[i].port = rows[j].port
    BY <1>1, <1>2, <2>2
  <2> QED
    BY <1>1, <2>1, <2>2, <2>3
<1> QED
  BY <1>3, <1>4

\* A merge that another service has under way when one is committed.
LEMMA OtherKeeps ==
  ASSUME FoldOnce, NameInv, KeepInv, Unfolded(draft) = {}, NEW q \in Service,
         writer # q, rows' = draft, typed' = typed, writer' # q,
         pc'[q] = pc[q], todo'[q] = todo[q], twin'[q] = twin[q]
  PROVE  Reads(q)' /\ TwinKept(q)'
<1>1. Reads(q) /\ TwinKept(q)
  BY DEF KeepInv
<1>2. view(q) = rows /\ view(q)' = draft
  BY DEF view
<1>3. Unfolded(view(q))' = {} /\ Unfolded(rows)' = {}
  BY <1>2 DEF Unfolded, exacts, final
<1>4. \A e : early(e)' = early(e) /\ final(e)' = final(e)
  BY DEF early, final
<1>5. \A k \in DOMAIN draft :
        /\ k \in DOMAIN rows /\ draft[k].entry = rows[k].entry
        /\ draft[k].port = rows[k].port /\ draft[k].kind = rows[k].kind
        /\ k \in exacts(rows) => draft[k].pattern = final(rows[k].entry)
  BY DraftDone
<1>6. \A k \in exacts(rows) : ~ early(rows[k].entry) =>
        k \in DOMAIN draft /\ rows[k].pattern = final(rows[k].entry)
  BY DraftDone DEF exacts
<1>7. Reads(q)'
  BY <1>1, <1>3, <1>4, <1>5 DEF Reads, Merging
<1>8. TwinKept(q)'
  <2>1. SUFFICES ASSUME NEW item, item = Head(todo[q]), pc[q] = "write",
                        item.id \in DOMAIN draft, twin[q]
                 PROVE  \E k \in twins_of(draft, item) \ {item.id} :
                          ~ early(draft[k].entry)
    BY <1>2, <1>3, <1>4 DEF TwinKept, twins_of
  <2>2. PICK k \in twins_of(rows, item) \ {item.id} : ~ early(rows[k].entry)
    BY <1>1, <1>2, <1>5, <2>1 DEF TwinKept
  <2>3. /\ k \in exacts(rows) /\ k # item.id /\ rows[k].pattern = item.target
        /\ rows[k].port = item.port
    BY <2>2 DEF twins_of, exacts
  <2>4. /\ k \in DOMAIN draft /\ draft[k].pattern = item.target
        /\ draft[k].port = item.port /\ draft[k].kind = "exact"
        /\ draft[k].entry = rows[k].entry
    BY <1>5, <1>6, <2>2, <2>3 DEF exacts
  <2> QED
    BY <2>2, <2>3, <2>4 DEF twins_of
<1> QED
  BY <1>7, <1>8

\* What is deleted with the commit is carried from then on.
LEMMA CommitKeepsCarriers ==
  ASSUME FoldOnce, TypeInv, NameInv, KeepInv, NEW p \in Service, Commit(p),
         writer = p, Unfolded(draft) = {}, NEW e \in DOMAIN merged'
  PROVE  /\ early(e)
         /\ e \in standing /\ merged'[e] # "buried" =>
              /\ \E j \in on(draft, final(e), typed[e].port) : draft[j].active
              /\ (\E j \in on(draft, final(e), typed[e].port) :
                    ~ early(draft[j].entry))
                 => \E j \in on(draft, final(e), typed[e].port) :
                      ~ early(draft[j].entry) /\ draft[j].active
<1> DEFINE port == typed[e].port
<1>1. CASE e \in DOMAIN merged /\ merged'[e] = merged[e]
  <2>1. early(e)
    BY <1>1 DEF KeepInv
  <2>2. ASSUME e \in standing, merged'[e] # "buried"
        PROVE  /\ Unfolded(rows) = {}
               /\ \E j \in on(rows, final(e), port) : rows[j].active
               /\ (\E j \in on(rows, final(e), port) : ~ early(rows[j].entry))
                  => \E j \in on(rows, final(e), port) :
                       ~ early(rows[j].entry) /\ rows[j].active
    BY <1>1, <2>2 DEF KeepInv, Phase, Carriers
  <2>3. Phase
    BY DEF KeepInv
  <2> HIDE DEF port
  <2>4. ASSUME e \in standing, merged'[e] # "buried"
        PROVE  /\ \E j \in on(draft, final(e), port) : draft[j].active
               /\ (\E j \in on(draft, final(e), port) :
                     ~ early(draft[j].entry))
                  => \E j \in on(draft, final(e), port) :
                       ~ early(draft[j].entry) /\ draft[j].active
    BY <2>2, <2>3, <2>4, CommitCarries
  <2> QED
    BY <2>1, <2>4 DEF port
<1>2. CASE \E c \in DOMAIN rows \ DOMAIN draft :
             rows[c].entry = e /\ merged'[e] = fate(c)
  <2>1. PICK c \in DOMAIN rows \ DOMAIN draft :
          rows[c].entry = e /\ merged'[e] = fate(c)
    BY <1>2
  <2>2. /\ early(e) /\ c \in exacts(rows) /\ rows[c].port = port
        /\ fate(c) # "buried" =>
             \E j \in on(draft, final(e), port) : draft[j].active
    BY <2>1, FateOfGone
  <2>3. Phase
    BY DEF KeepInv
  <2>4. \E d \in exacts(rows) \ DOMAIN draft :
          /\ early(rows[d].entry) /\ final(rows[d].entry) = final(e)
          /\ rows[d].port = port
    BY <2>1, <2>2
  <2> HIDE DEF port
  <2>5. ASSUME merged'[e] # "buried"
        PROVE  /\ \E j \in on(draft, final(e), port) : draft[j].active
               /\ (\E j \in on(draft, final(e), port) :
                     ~ early(draft[j].entry))
                  => \E j \in on(draft, final(e), port) :
                       ~ early(draft[j].entry) /\ draft[j].active
    BY <2>1, <2>2, <2>3, <2>4, <2>5, CommitCarries
  <2> QED
    BY <2>2, <2>5 DEF port
<1> QED
  BY <1>1, <1>2, MergedBy

\* The commit of a merge.
LEMMA KeepCommit ==
  ASSUME FoldOnce, TypeInv, NameInv, KeepInv, NEW p \in Service, Commit(p)
  PROVE  KeepInv'
<1>1. /\ pc[p] = "commit" /\ UNCHANGED <<typed, standing, todo, twin>>
      /\ pc' = [pc EXCEPT ![p] = "up"]
  BY DEF Commit, Go, localVars
<1>2. /\ pc'[p] = "up"
      /\ \A q \in Service : q # p => pc'[q] = pc[q]
  BY <1>1 DEF TypeInv, SchemaInv, Process
<1>3. Unfolded(view(p)) = {}
  <2>1. Reads(p)
    BY DEF KeepInv
  <2>2. todo_ids(p) = {}
    BY <1>1, <2>1 DEF Reads, todo_ids
  <2> QED
    BY <1>1, <2>1, <2>2 DEF Reads
<1>4. twin' \in [Process -> BOOLEAN]
  BY <1>1 DEF KeepInv
<1>5. TwinKept(p)'
  BY <1>2 DEF TwinKept
<1>6. CASE writer # p
  <2>1. UNCHANGED <<rows, draft, writer, merged>>
    BY <1>6 DEF Commit, tableVars
  <2>2. Unfolded(rows)' = {}
    <3>1. Unfolded(rows) = {}
      BY <1>3, <1>6 DEF view
    <3> QED
      BY <1>1, <2>1, <3>1 DEF Unfolded, exacts, final
  <2>3. Reads(p)'
    BY <1>2, <2>2 DEF Reads, Merging
  <2>4. ASSUME NEW q \in Service, q # p PROVE Reads(q)' /\ TwinKept(q)'
    BY <1>1, <1>2, <2>1, <2>4, Bystander
  <2> QED
    BY <1>1, <1>4, <1>5, <2>1, <2>3, <2>4, KeepRest DEF KeepInv
<1>7. CASE writer = p
  <2>1. rows' = draft /\ draft' = draft /\ writer' = Nobody
    BY <1>7 DEF Commit
  <2>2. Unfolded(draft) = {}
    BY <1>3, <1>7 DEF view
  <2>3. \A e : early(e)' = early(e) /\ final(e)' = final(e)
    BY <1>1 DEF early, final
  <2>4. Unfolded(rows)' = {} /\ Unfolded(draft)' = {}
    BY <1>1, <2>1, <2>2 DEF Unfolded, exacts, final
  <2>5. EndedOnly'
    <3>1. \A i \in DOMAIN draft :
            /\ i \in DOMAIN rows /\ draft[i].entry = rows[i].entry
            /\ draft[i].active = rows[i].active
      BY DraftDone, <2>2
    <3> QED
      BY <1>1, <2>1, <3>1 DEF KeepInv, EndedOnly
  <2>6. Spelled(rows)' /\ Spelled(draft)'
    BY <2>4 DEF Spelled
  <2>7. Phase'
    <3>1. \A i, j \in exacts(draft) :
            /\ early(draft[i].entry) /\ early(draft[j].entry)
            /\ draft[i].pattern = draft[j].pattern
            /\ draft[i].port = draft[j].port
            => i = j
      BY <2>2, OneEach
    <3>2. exacts(rows)' = exacts(draft)
      BY <2>1 DEF exacts
    <3> QED
      BY <2>1, <2>3, <2>4, <3>1, <3>2 DEF Phase
  <2>8. DraftKept(draft)'
    <3>1. draft' = rows'
      BY <2>1
    <3> QED
      BY <2>4, <3>1 DEF DraftKept, exacts
  <2>9. Carriers'
    <3>1. \A x, port : on(rows, x, port)' = on(draft, x, port)
      BY <2>1 DEF on, twins_of
    <3>2. ASSUME NEW e \in DOMAIN merged', e \in standing,
                 merged'[e] # "buried"
          PROVE  /\ \E j \in on(draft, final(e), typed[e].port) :
                      draft[j].active
                 /\ (\E j \in on(draft, final(e), typed[e].port) :
                       ~ early(draft[j].entry))
                    => \E j \in on(draft, final(e), typed[e].port) :
                         ~ early(draft[j].entry) /\ draft[j].active
      BY <1>7, <2>2, <3>2, CommitKeepsCarriers
    <3> QED
      BY <1>1, <2>1, <2>3, <3>1, <3>2 DEF Carriers
  <2>10. (\A e \in DOMAIN merged : early(e))'
    BY <1>7, <2>2, <2>3, CommitKeepsCarriers
  <2>11. Reads(p)'
    BY <1>2, <2>4 DEF Reads, Merging
  <2>12. ASSUME NEW q \in Service, q # p PROVE Reads(q)' /\ TwinKept(q)'
    <3>1. writer # q /\ writer' # q
      BY <1>7, <2>1, <2>12, StartupAssumption DEF Process
    <3> QED
      BY <1>1, <1>2, <2>1, <2>2, <2>12, <3>1, OtherKeeps
  <2> QED
    BY <1>4, <1>5, <2>5, <2>6, <2>7, <2>8, <2>9, <2>10, <2>11, <2>12
       DEF KeepInv
<1> QED
  BY <1>6, <1>7

\* Once the panel serves, all is folded; and a write of its own waits for the
\* writer.
LEMMA PanelUp ==
  ASSUME TypeInv, KeepInv, pc["panel"] = "up", Unlocked
  PROVE  /\ Unfolded(rows) = {} /\ writer = Nobody /\ draft = rows
         /\ \A q \in Service : view(q) = rows /\ writer # q
<1>1. Unfolded(rows) = {}
  BY DEF KeepInv, Reads, Service
<1>2. writer = Nobody /\ draft = rows
  BY DEF Unlocked, TypeInv, TypeOK
<1>3. \A q \in Service : q # Nobody
  BY StartupAssumption DEF Process
<1> QED
  BY <1>1, <1>2, <1>3 DEF view

\* Among rows that are all folded, those that merges have folded differ.
LEMMA AllFolded ==
  ASSUME KeepInv, Unfolded(rows) = {},
         NEW i \in exacts(rows), NEW j \in exacts(rows),
         early(rows[i].entry), early(rows[j].entry),
         rows[i].pattern = rows[j].pattern, rows[i].port = rows[j].port
  PROVE  i = j
BY DEF KeepInv, Phase

\* The operator adds an entry, under an id that no merge knows.
LEMMA KeepAdd ==
  ASSUME FoldOnce, TypeInv, NameInv, KeepInv, AddByHand, IdsKept
  PROVE  KeepInv'
<1>1. PICK id, new, row :
        /\ id \notin DOMAIN rows /\ new \notin DOMAIN typed
        /\ DOMAIN rows' = DOMAIN rows \cup {id}
        /\ \A i \in DOMAIN rows : rows'[i] = rows[i]
        /\ rows'[id] = row /\ row.entry = new /\ row.active
        /\ draft' = rows' /\ standing' = standing \cup {new}
        /\ \A e \in DOMAIN typed : typed'[e] = typed[e]
        /\ typed'[new].by = "hand"
        /\ row.kind = "exact" => row.pattern = fold(typed'[new].name)
  <2>1. new_id \notin DOMAIN rows
    BY FreshNumber DEF TypeInv, RowsInv, RowsOK, new_id
  <2>2. new_entry \notin DOMAIN typed
    BY FreshNumber DEF TypeInv, RowsInv, new_entry
  <2>3. PICK t \in Typed :
          /\ pattern_of(t) # NotAName
          /\ ~ is_blocked(pattern_of(t), Blocked)
          /\ rows' = [i \in DOMAIN rows \cup {new_id} |->
               IF i \in DOMAIN rows THEN rows[i]
               ELSE row_of([pattern |-> pattern_of(t), kind |-> t.kind,
                            port |-> 443, active |-> TRUE], new_entry)]
          /\ draft' = rows'
          /\ typed' = [e \in DOMAIN typed \cup {new_entry} |->
                         IF e \in DOMAIN typed THEN typed[e]
                         ELSE approval(t.raw.name, t.kind, 443, "hand")]
          /\ override' =
               IF /\ t.kind = "wildcard"
                  /\ wildcard_psl_conflict(pattern_of(t), Psl) # "none"
               THEN override \cup {new_entry} ELSE override
    BY DEF AddByHand
  <2> DEFINE row == row_of([pattern |-> pattern_of(t), kind |-> t.kind,
                            port |-> 443, active |-> TRUE], new_entry)
  <2>4. /\ row.entry = new_entry /\ row.active /\ row.kind = t.kind
        /\ row.pattern = pattern_of(t)
    BY DEF row_of
  <2>5. /\ DOMAIN rows' = DOMAIN rows \cup {new_id} /\ rows'[new_id] = row
        /\ \A i \in DOMAIN rows : rows'[i] = rows[i]
    BY <2>1, <2>2, <2>3
  <2>6. /\ typed'[new_entry].name = t.raw.name /\ typed'[new_entry].by = "hand"
        /\ \A e \in DOMAIN typed : typed'[e] = typed[e]
    BY <2>1, <2>2, <2>3 DEF approval
  <2>7. row.kind = "exact" => row.pattern = fold(typed'[new_entry].name)
    <3>1. t.kind = "exact" => pattern_of(t) = fold(t.raw.name)
      BY <2>3 DEF pattern_of, fold, normalize_hostname
    <3> QED
      BY <2>4, <2>6, <3>1
  <2>8. standing' = standing \cup {new_entry}
    BY DEF AddByHand
  <2> HIDE DEF row
  <2>9. /\ new_id \notin DOMAIN rows /\ new_entry \notin DOMAIN typed
        /\ DOMAIN rows' = DOMAIN rows \cup {new_id}
        /\ \A i \in DOMAIN rows : rows'[i] = rows[i]
        /\ rows'[new_id] = row /\ row.entry = new_entry /\ row.active
        /\ draft' = rows' /\ standing' = standing \cup {new_entry}
        /\ \A e \in DOMAIN typed : typed'[e] = typed[e]
        /\ typed'[new_entry].by = "hand"
        /\ row.kind = "exact" => row.pattern = fold(typed'[new_entry].name)
    BY <2>1, <2>2, <2>3, <2>4, <2>5, <2>6, <2>7, <2>8
  <2> QED
    BY <2>9
<1>2. UNCHANGED <<pc, todo, twin, merged, writer>>
  BY DEF AddByHand, localVars
<1>3. /\ Unfolded(rows) = {} /\ writer = Nobody /\ draft = rows
      /\ \A q \in Service : view(q) = rows /\ writer # q
  BY PanelUp DEF AddByHand
<1>4. \A e \in DOMAIN typed :
        (early(e)' <=> early(e)) /\ final(e)' = final(e)
  BY <1>1 DEF early, final
<1>5. ~ early(new)'
  BY <1>1 DEF early
<1>6. \A i \in DOMAIN rows : rows[i].entry \in DOMAIN typed
  BY DEF NameInv, Mirrors, NameSound
<1>7. Unfolded(rows)' = {}
  <2>1. SUFFICES ASSUME NEW i \in DOMAIN rows', rows'[i].kind = "exact",
                        rows'[i].pattern # fold(typed'[rows'[i].entry].name)
                 PROVE  FALSE
    BY DEF Unfolded, exacts, final, fold
  <2>2. CASE i \in DOMAIN rows
    <3>1. i \in Unfolded(rows)
      BY <1>1, <1>6, <2>1, <2>2 DEF Unfolded, exacts, final
    <3> QED
      BY <1>3, <3>1
  <2>3. CASE i = id
    BY <1>1, <2>1, <2>3
  <2> QED
    BY <1>1, <2>2, <2>3
<1>8. EndedOnly'
  BY <1>1, <1>6 DEF KeepInv, EndedOnly
<1>9. Spelled(rows)' /\ Spelled(draft)' /\ DraftKept(draft)'
  <2>1. draft' = rows'
    BY <1>1
  <2>2. Unfolded(draft)' = {}
    BY <1>7, <2>1 DEF Unfolded, exacts
  <2> QED
    BY <1>7, <2>1, <2>2 DEF Spelled, DraftKept
<1>10. Phase'
  <2>1. SUFFICES ASSUME NEW i \in exacts(rows)', NEW j \in exacts(rows)',
                        early(rows[i].entry)', early(rows[j].entry)',
                        rows'[i].pattern = rows'[j].pattern,
                        rows'[i].port = rows'[j].port
                 PROVE  i = j
    BY <1>7 DEF Phase
  <2>2. \A k \in exacts(rows)' : early(rows[k].entry)' =>
          k \in exacts(rows) /\ early(rows[k].entry) /\ rows'[k] = rows[k]
    BY <1>1, <1>4, <1>5, <1>6 DEF exacts
  <2> QED
    BY <1>3, <2>1, <2>2, AllFolded
<1>11. Carriers'
  <2>1. SUFFICES ASSUME NEW e \in DOMAIN merged, e \in standing',
                        merged[e] # "buried"
                 PROVE  LET there == on(rows, final(e), typed[e].port)'
                        IN  /\ \E j \in there : rows'[j].active
                            /\ (\E j \in there : ~ early(rows[j].entry)') =>
                                 \E j \in there : ~ early(rows[j].entry)'
                                                  /\ rows'[j].active
    BY <1>2 DEF Carriers
  <2>2. e \in DOMAIN typed /\ e \in standing
    BY <1>1, <2>1 DEF TypeInv, TypeOK
  <2> DEFINE old == on(rows, final(e), typed[e].port)
             there == on(rows, final(e), typed[e].port)'
  <2>3. /\ \E j \in old : rows[j].active
        /\ (\E j \in old : ~ early(rows[j].entry)) =>
             \E j \in old : ~ early(rows[j].entry) /\ rows[j].active
    BY <2>1, <2>2 DEF KeepInv, Carriers
  <2>4. \A j \in old : /\ j \in there /\ rows'[j].active = rows[j].active
                       /\ early(rows[j].entry)' <=> early(rows[j].entry)
    BY <1>1, <1>4, <1>6, <2>2 DEF on, twins_of
  <2>5. \A j \in there : j \in old \/ j = id
    BY <1>1, <1>4, <2>2 DEF on, twins_of
  <2>6. rows'[id].active /\ ~ early(rows[id].entry)'
    BY <1>1, <1>5
  <2> HIDE DEF old, there
  <2>7. /\ \E j \in there : rows'[j].active
        /\ (\E j \in there : ~ early(rows[j].entry)') =>
             \E j \in there : ~ early(rows[j].entry)' /\ rows'[j].active
    BY <2>3, <2>4, <2>5, <2>6
  <2> QED
    BY <2>7 DEF there
<1>12. (\A e \in DOMAIN merged : early(e))'
  BY <1>2, <1>4 DEF KeepInv, TypeInv, TypeOK
<1>13. ASSUME NEW q \in Service
       PROVE  Reads(q)' /\ TwinKept(q)'
  <2>1. Reads(q) /\ TwinKept(q) /\ view(q)' = rows'
    BY <1>1, <1>2, <1>3 DEF KeepInv, view
  <2>2. Unfolded(view(q))' = {}
    BY <1>7, <2>1 DEF Unfolded, exacts
  <2>3. Merging(q) => \A k \in DOMAIN todo[q] :
          todo[q][k].id \in DOMAIN rows' => todo[q][k].id \in DOMAIN rows
    BY DEF IdsKept
  <2>4. Reads(q)'
    BY <1>1, <1>2, <1>4, <1>6, <1>7, <2>1, <2>2, <2>3 DEF Reads, Merging
  <2>5. TwinKept(q)'
    <3>1. SUFFICES ASSUME NEW item, item = Head(todo[q]), pc[q] = "write",
                          item.id \in DOMAIN rows', twin[q]
                   PROVE  \E k \in twins_of(rows', item) \ {item.id} :
                            ~ early(rows[k].entry)'
      BY <1>2, <2>1, <2>2 DEF TwinKept, twins_of
    <3>2. todo[q] # <<>> /\ Merging(q) /\ todo[q] \in Seq(Item)
      BY <3>1 DEF TypeInv, TypeOK, Merging, NameInv, TodoSound, Process
    <3>3. 1 \in DOMAIN todo[q] /\ item = todo[q][1]
      BY <3>1, <3>2
    <3>4. item.id \in DOMAIN rows
      BY <2>3, <3>1, <3>2, <3>3
    <3>5. PICK k \in twins_of(rows, item) \ {item.id} :
            ~ early(rows[k].entry)
      BY <1>3, <2>1, <3>1, <3>4 DEF TwinKept
    <3>6. k \in twins_of(rows', item) \ {item.id} /\ ~ early(rows[k].entry)'
      BY <1>1, <1>4, <1>6, <3>5 DEF twins_of
    <3> QED
      BY <3>6
  <2> QED
    BY <2>4, <2>5
<1>14. twin' \in [Process -> BOOLEAN]
  BY <1>2 DEF KeepInv
<1> QED
  BY <1>8, <1>9, <1>10, <1>11, <1>12, <1>13, <1>14 DEF KeepInv

\* An entry ends, with what was merged into it.
LEMMA KeepEnd ==
  ASSUME FoldOnce, TypeInv, NameInv, KeepInv, NEW i \in DOMAIN rows, End(i)
  PROVE  KeepInv'
<1>0. rows' = [rows EXCEPT ![i].active = FALSE]
  BY DEF End
<1>1. draft' = rows' /\ UNCHANGED <<pc, todo, twin, typed, merged, writer>>
  BY DEF End, localVars
<1>2. /\ Unfolded(rows) = {} /\ writer = Nobody /\ draft = rows
      /\ \A q \in Service : view(q) = rows /\ writer # q
  BY PanelUp DEF End
<1>3. /\ DOMAIN rows' = DOMAIN rows
      /\ \A j \in DOMAIN rows :
           /\ rows'[j].entry = rows[j].entry /\ rows'[j].kind = rows[j].kind
           /\ rows'[j].port = rows[j].port
           /\ rows'[j].pattern = rows[j].pattern
           /\ j # i => rows'[j].active = rows[j].active
  <2>1. rows[i] = row_of(rows[i], rows[i].entry)
    BY DEF NameInv, Mirrors, NameSound
  <2>2. /\ rows'[i].entry = rows[i].entry /\ rows'[i].kind = rows[i].kind
        /\ rows'[i].port = rows[i].port
        /\ rows'[i].pattern = rows[i].pattern
    BY <1>0, <2>1 DEF row_of
  <2> QED
    BY <1>0, <2>2
<1>4. \A e : (early(e)' <=> early(e)) /\ final(e)' = final(e)
  BY <1>1 DEF early, final
<1>5. \A x, port : on(rows, x, port)' = on(rows, x, port)
  BY <1>3 DEF on, twins_of
<1>6. exacts(rows)' = exacts(rows) /\ exacts(draft)' = exacts(rows)
  BY <1>1, <1>3 DEF exacts
<1>7. Unfolded(rows)' = {} /\ Unfolded(draft)' = {}
  <2>1. \A k \in exacts(rows) : rows[k].pattern = final(rows[k].entry)
    BY <1>2 DEF Unfolded
  <2> QED
    BY <1>1, <1>3, <1>4, <1>6, <2>1 DEF Unfolded, exacts
<1>8. standing' = standing \ ({rows[i].entry} \cup
        {e \in DOMAIN merged : /\ final(e) = rows[i].pattern
                              /\ typed[e].port = rows[i].port})
  BY DEF End, final, fold
<1>9. EndedOnly'
  BY <1>3, <1>8 DEF KeepInv, EndedOnly
<1>10. Spelled(rows)' /\ Spelled(draft)' /\ DraftKept(draft)'
  <2>1. draft' = rows'
    BY <1>1
  <2> QED
    BY <1>7, <2>1 DEF Spelled, DraftKept
<1>11. Phase'
  <2>1. \A j, k \in exacts(rows) :
          /\ early(rows[j].entry) /\ early(rows[k].entry)
          /\ rows[j].pattern = rows[k].pattern /\ rows[j].port = rows[k].port
          => j = k
    BY <1>2, AllFolded
  <2> QED
    BY <1>3, <1>4, <1>6, <1>7, <2>1 DEF Phase, exacts
<1>12. Carriers'
  <2>1. SUFFICES ASSUME NEW e \in DOMAIN merged, e \in standing',
                        merged[e] # "buried"
                 PROVE  LET there == on(rows, final(e), typed[e].port)
                        IN  /\ \E j \in there : rows'[j].active
                            /\ (\E j \in there : ~ early(rows'[j].entry)) =>
                                 \E j \in there : /\ ~ early(rows'[j].entry)
                                                  /\ rows'[j].active
    BY <1>1, <1>4, <1>5 DEF Carriers
  <2> DEFINE there == on(rows, final(e), typed[e].port)
  <2>2. e \in standing /\ i \notin there
    BY <1>8, <2>1 DEF on, twins_of
  <2>3. /\ \E j \in there : rows[j].active
        /\ (\E j \in there : ~ early(rows[j].entry)) =>
             \E j \in there : ~ early(rows[j].entry) /\ rows[j].active
    BY <2>1, <2>2 DEF KeepInv, Carriers
  <2>4. \A j \in there : /\ rows'[j].active = rows[j].active
                         /\ rows'[j].entry = rows[j].entry
    BY <1>3, <2>2 DEF on, twins_of
  <2> HIDE DEF there
  <2>5. /\ \E j \in there : rows'[j].active
        /\ (\E j \in there : ~ early(rows'[j].entry)) =>
             \E j \in there : ~ early(rows'[j].entry) /\ rows'[j].active
    BY <2>3, <2>4
  <2> QED
    BY <2>5 DEF there
<1>13. (\A e \in DOMAIN merged : early(e))'
  BY <1>1, <1>4 DEF KeepInv
<1>14. ASSUME NEW q \in Service
       PROVE  Reads(q)' /\ TwinKept(q)'
  <2>1. Reads(q) /\ TwinKept(q) /\ view(q)' = rows'
    BY <1>1, <1>2 DEF KeepInv, view
  <2>2. Unfolded(view(q))' = {}
    BY <1>7, <2>1 DEF Unfolded, exacts
  <2>3. Reads(q)'
    <3>1. \A k \in DOMAIN todo[q] : todo[q][k].id \in DOMAIN rows =>
            rows'[todo[q][k].id].entry = rows[todo[q][k].id].entry
      BY <1>3
    <3> QED
      BY <1>1, <1>3, <1>4, <1>7, <2>1, <2>2, <3>1 DEF Reads, Merging
  <2>4. \A item : twins_of(rows', item) = twins_of(rows, item)
    BY <1>3 DEF twins_of
  <2>5. \A item : \A k \in twins_of(rows, item) :
          rows'[k].entry = rows[k].entry
    BY <1>3 DEF twins_of
  <2>6. TwinKept(q)'
    <3>1. SUFFICES ASSUME NEW item, item = Head(todo[q]), pc[q] = "write",
                          item.id \in DOMAIN rows, twin[q]
                   PROVE  \E k \in twins_of(rows, item) \ {item.id} :
                            ~ early(rows[k].entry)'
      BY <1>1, <1>3, <2>1, <2>2, <2>4 DEF TwinKept
    <3>2. PICK k \in twins_of(rows, item) \ {item.id} :
            ~ early(rows[k].entry)
      BY <1>2, <2>1, <3>1 DEF TwinKept
    <3> QED
      BY <1>4, <2>5, <3>2
  <2> QED
    BY <2>3, <2>6
<1>15. twin' \in [Process -> BOOLEAN]
  BY <1>1 DEF KeepInv
<1> QED
  BY <1>9, <1>10, <1>11, <1>12, <1>13, <1>14, <1>15 DEF KeepInv

\* A step that brings a process to where it knows nothing of the rows.
LEMMA PlainKeep ==
  ASSUME TypeInv, KeepInv, NEW p \in Process, NEW label,
         label \notin {"dup", "write", "commit", "up"}, Go(p, label),
         UNCHANGED <<rows, draft, writer, typed, standing, merged>>,
         twin' = twin \/ twin' = [twin EXCEPT ![p] = FALSE],
         \A q \in Service : q # p => todo'[q] = todo[q]
  PROVE  KeepInv'
<1>1. twin' \in [Process -> BOOLEAN]
  BY DEF KeepInv
<1>2. \A q \in Service : q # p => twin'[q] = twin[q]
  BY DEF KeepInv, Process
<1> QED
  BY <1>1, <1>2, QuietKeep

\* A transaction that is rolled back.
LEMMA ExitKeep ==
  ASSUME TypeInv, KeepInv, NEW p \in Process, Exit(p)
  PROVE  KeepInv'
<1>1. /\ UNCHANGED <<rows, typed, standing, merged, todo, twin>>
      /\ Go(p, "down") /\ (draft' = draft \/ draft' = rows)
  BY DEF Exit, localVars, historyVars
<1>2. \A q \in Service : q # p =>
        (writer' = q <=> writer = q) /\ (writer = q => draft' = draft)
  BY StartupAssumption DEF Exit, Process
<1>3. twin' \in [Process -> BOOLEAN]
  BY <1>1 DEF KeepInv
<1> QED
  BY <1>1, <1>2, <1>3, QuietKeep

\* The statements of open_db and _migrate.
LEMMA OpeningKeep ==
  ASSUME TypeInv, KeepInv, NEW p \in Process,
         Start(p) \/ Bind(p) \/ Create(p) \/ Info(p) \/ Alter(p) \/ Check(p)
         \/ Rebuild(p) \/ Fail(p)
  PROVE  KeepInv'
<1> USE DEF tableVars, localVars, historyVars
<1>1. ASSUME NEW t, Store(t, rows) PROVE UNCHANGED <<rows, draft, writer>>
  BY <1>1 DEF Store, Unlocked, TypeInv, TypeOK
<1>2. CASE Start(p)
  <2>1. PICK label : /\ label \notin {"dup", "write", "commit", "up"}
                     /\ Go(p, label)
    BY <1>2 DEF Start
  <2>2. \A q \in Service : q # p => todo'[q] = todo[q]
    BY <1>2 DEF Start, TypeInv, RowsInv, Process
  <2>3. /\ UNCHANGED <<rows, draft, writer, typed, standing, merged>>
        /\ twin' = [twin EXCEPT ![p] = FALSE]
    BY <1>2 DEF Start
  <2> QED
    BY <2>1, <2>2, <2>3, PlainKeep
<1>3. CASE Bind(p) \/ Fail(p)
  <2>1. CASE Exit(p)
    BY <2>1, ExitKeep
  <2>2. CASE Go(p, "create") /\ UNCHANGED <<tableVars, localVars, historyVars>>
    <3>1. UNCHANGED <<rows, draft, writer, typed, standing, merged, todo,
                      twin>>
      BY <2>2
    <3> QED
      BY <2>2, <3>1, PlainKeep
  <2> QED
    BY <1>3, <2>1, <2>2 DEF Bind, Fail
<1>4. CASE Create(p) \/ Rebuild(p)
  <2>1. PICK label : /\ label \notin {"dup", "write", "commit", "up"}
                     /\ Go(p, label)
    BY <1>4 DEF Create, Rebuild
  <2>2. UNCHANGED <<rows, draft, writer, typed, standing, merged, todo, twin>>
    BY <1>1, <1>4 DEF Create, Rebuild
  <2> QED
    BY <2>1, <2>2, PlainKeep
<1>5. CASE Info(p) \/ Check(p)
  <2>1. PICK label : /\ label \notin {"dup", "write", "commit", "up"}
                     /\ Go(p, label)
    BY <1>5 DEF Info, Check
  <2>2. UNCHANGED <<rows, draft, writer, typed, standing, merged, todo, twin>>
    BY <1>5 DEF Info, Check
  <2> QED
    BY <2>1, <2>2, PlainKeep
<1>6. CASE Alter(p)
  <2>1. CASE Exit(p)
    BY <2>1, ExitKeep
  <2>2. CASE ~ Exit(p)
    <3>1. UNCHANGED <<rows, draft, writer, typed, standing, merged, todo,
                      twin>>
      BY <1>1, <1>6, <2>2 DEF Alter
    <3>2. Go(p, "check") \/ Go(p, "alter")
      <4>1. pc = [pc EXCEPT ![p] = pc[p]]
        BY DEF TypeInv, SchemaInv
      <4> QED
        BY <1>6, <2>2, <4>1 DEF Alter, Go
    <3> QED
      BY <3>1, <3>2, PlainKeep
  <2> QED
    BY <2>1, <2>2
<1> QED
  BY <1>2, <1>3, <1>4, <1>5, <1>6

\* Every step but an addition under an id that a merge under way has read.
LEMMA KeepNext ==
  ASSUME FoldOnce, TypeInv, NameInv, KeepInv, [Next]_vars, [IdsKept]_vars
  PROVE  KeepInv'
<1>1. CASE AddByHand
  <2>1. vars' # vars
    <3>1. new_id \notin DOMAIN rows
      BY FreshNumber DEF TypeInv, RowsInv, RowsOK, new_id
    <3>2. DOMAIN rows' = DOMAIN rows \cup {new_id}
      BY <1>1 DEF AddByHand
    <3> QED
      BY <3>1, <3>2 DEF vars, tableVars
  <2> QED
    BY <1>1, <2>1, KeepAdd
<1>2. CASE UNCHANGED vars
  <2>1. UNCHANGED <<rows, draft, writer, typed, standing, merged, pc, todo,
                    twin>>
    BY <1>2 DEF vars, tableVars, localVars, historyVars
  <2>2. \A q \in Service : Reads(q)' /\ TwinKept(q)'
    BY <2>1, Bystander
  <2> QED
    BY <2>1, <2>2, KeepRest DEF KeepInv
<1> QED
  BY <1>1, <1>2, OpeningKeep, KeepSelect, KeepDup, KeepWrite, KeepCommit,
     KeepEnd DEF Next

\* A name that look-ups take.
valid(name) == normalize_hostname(spelled(name), TRUE) = name

\* The names of the entries found are valid.
FoundValid ==
  \A d \in Databases : \A i \in DOMAIN d.rows : valid(d.rows[i].pattern)

Valid == \A e \in DOMAIN typed : valid(typed[e].name)

\* So are those the operator is let add.
LEMMA ValidNext ==
  ASSUME TypeInv, Valid, [Next]_vars
  PROVE  Valid'
<1>1. ASSUME NEW p \in Process, StepOf(p) PROVE Valid'
  BY <1>1, StepWrites DEF Valid, valid
<1>2. CASE AddByHand
  <2>1. new_entry \notin DOMAIN typed
    BY FreshNumber DEF TypeInv, RowsInv, new_entry
  <2>2. PICK t \in Typed :
          /\ pattern_of(t) # NotAName
          /\ typed' = [e \in DOMAIN typed \cup {new_entry} |->
                         IF e \in DOMAIN typed THEN typed[e]
                         ELSE approval(t.raw.name, t.kind, 443, "hand")]
    BY <1>2 DEF AddByHand
  <2>3. valid(t.raw.name)
    BY <2>2 DEF pattern_of, valid, normalize_hostname, spelled
  <2>4. /\ DOMAIN typed' = DOMAIN typed \cup {new_entry}
        /\ \A e \in DOMAIN typed : typed'[e].name = typed[e].name
        /\ typed'[new_entry].name = t.raw.name
    BY <2>1, <2>2 DEF approval
  <2> QED
    BY <2>3, <2>4 DEF Valid, valid
<1>3. CASE UNCHANGED vars
  BY <1>3 DEF vars, historyVars, Valid, valid
<1>4. ASSUME NEW i \in DOMAIN rows, End(i) PROVE Valid'
  BY <1>4 DEF End, Valid, valid
<1> QED
  BY <1>1, <1>2, <1>3, <1>4 DEF Next, StepOf, Service, Process

\* What is due is admitted.
LEMMA DueAdmitted ==
  ASSUME FoldOnce, TypeInv, NameInv, KeepInv, Valid, pc["broker"] = "up",
         NEW e \in DOMAIN typed, due(e),
         ~ (e \in DOMAIN merged /\ merged[e] = "buried")
  PROVE  admitted(typed[e].name, typed[e].port)
<1> DEFINE h == fold(typed[e].name)
<1>1. /\ canonical_host(normalize_hostname(spelled(typed[e].name), TRUE), Psl) = h
      /\ ~ is_blocked(h, Blocked)
  BY DEF Valid, valid, fold, due
<1>2. \E i \in DOMAIN rows : /\ rows[i].active /\ rows[i].port = typed[e].port
                             /\ matches(rows[i].kind, rows[i].pattern, h)
  <2>1. Unfolded(rows) = {}
    BY DEF KeepInv, Reads, Service
  <2>2. CASE \E i \in DOMAIN rows : rows[i].entry = e
    <3>1. PICK i \in DOMAIN rows : rows[i].entry = e
      BY <2>2
    <3>2. rows[i].active
      BY <3>1 DEF KeepInv, EndedOnly, due
    <3>3. /\ rows[i].port = typed[e].port /\ rows[i].kind = typed[e].kind
          /\ rows[i].kind \in {"exact", "wildcard"}
          /\ rows[i].kind = "wildcard" => rows[i].pattern = typed[e].name
      BY <3>1, RowFacts DEF NameInv
    <3>4. rows[i].pattern = h
      <4>1. rows[i].kind = "exact" => rows[i].pattern = h
        BY <2>1, <3>1 DEF Unfolded, exacts, final
      <4>2. rows[i].kind = "wildcard" => rows[i].pattern = h
        BY <3>3 DEF due
      <4> QED
        BY <3>3, <4>1, <4>2
    <3> QED
      BY <3>2, <3>3, <3>4 DEF matches
  <2>3. CASE e \in DOMAIN merged
    <3>1. PICK j \in on(rows, final(e), typed[e].port) : rows[j].active
      BY <2>3 DEF KeepInv, Carriers, due
    <3> QED
      BY <3>1 DEF on, twins_of, matches, final
  <2> QED
    BY <2>2, <2>3 DEF TypeInv, TypeOK
<1> QED
  BY <1>1, <1>2 DEF admitted

\* Once the broker serves, active_match admits every name under which an entry
\* was approved that still stands, whatever version the database came from and
\* however the migrations and merges of the two services, their crashes and
\* the operator's entries interleave: an approval is lost only to a twin that
\* had ended when merge_www_rows deleted the row.
THEOREM NothingIsLost ==
  ASSUME FoldOnce, FoundValid
  PROVE  Spec /\ [][IdsKept]_vars => []NothingLost
<1>1. Init => TypeInv /\ NameInv /\ KeepInv /\ Valid
  <2>1. ASSUME Init PROVE Valid
    <3>1. PICK d \in Databases : typed = [i \in DOMAIN d.rows |->
             approval(d.rows[i].pattern, d.rows[i].kind, d.rows[i].port, "old")]
      BY <2>1 DEF Init
    <3>2. /\ DOMAIN typed = DOMAIN d.rows
          /\ \A i \in DOMAIN d.rows : typed[i].name = d.rows[i].pattern
      BY <3>1 DEF approval
    <3> QED
      BY <3>2 DEF Valid, FoundValid, valid
  <2> QED
    BY <2>1, TypeInit, SchemaInit, NameInit, KeepInit DEF TypeInv
<1>2. TypeInv /\ NameInv /\ KeepInv /\ Valid /\ [Next]_vars /\ [IdsKept]_vars
        => TypeInv' /\ NameInv' /\ KeepInv' /\ Valid'
  BY TypeNext, NamesNext, KeepNext, ValidNext
<1>3. TypeInv /\ NameInv /\ KeepInv /\ Valid => NothingLost
  BY DueAdmitted DEF NothingLost
<1> QED
  BY <1>1, <1>2, <1>3, PTL DEF Spec
=============================================================================
