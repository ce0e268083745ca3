------------------------------ MODULE Startup ------------------------------
(***************************************************************************)
(* The start of the two services on a database of this or of an earlier    *)
(* version: open_db with _migrate, merge_www_rows (approval_broker/db.py)  *)
(* and, for the panel, resolve_bind_ip and serve before them.  systemd     *)
(* starts both again whenever they exit, and brokerctl opens the database  *)
(* in the same way from a process of its own.                              *)
(*                                                                         *)
(* Every statement is a step; a DDL statement commits by itself, and the   *)
(* merge is a transaction from its first write (draft, held by writer) to  *)
(* its commit.                                                             *)
(***************************************************************************)
EXTENDS Hostnames

CONSTANTS
  Databases,    \* databases to start on: [table, rows], see MCStartup
  Psl,          \* the public suffix list
  Blocked,      \* the blocked domains
  Names,        \* names that may be asked for
  Ports,        \* their ports
  Typed,        \* what the operator types: [raw, kind]
  Candidates,   \* number of places the tailscale CLI is looked for in
  Nobody,       \* nobody holds the write lock
  MaxFailures,  \* bound on failed starts, crashes and stops
  MaxOperations     \* bound on entries added or ended and runs of brokerctl

Service == {"broker", "panel"}
Process == Service \cup {"brokerctl"}

\* _ALLOWLIST_ADDED_COLUMNS, in order.
Columns == <<"group_id", "consumed_at">>
AllColumns == {"group_id", "consumed_at"}

\* Of the allowlist table: does it exist, which of these columns has it, and
\* does its CHECK take the source 'default'?
Table == [created : BOOLEAN, columns : SUBSET AllColumns,
          default_ok : BOOLEAN]

\* An entry the services find; a pattern is a list of labels.
Found == [pattern : Seq(STRING), kind : {"exact", "wildcard"}, port : Nat,
          active : BOOLEAN]

ASSUME StartupAssumption ==
  /\ \A d \in Databases : d.table \in Table /\ d.rows \in Seq(Found)
  /\ Psl \in [exact : SUBSET Seq(STRING), wild : SUBSET Seq(STRING),
             exc : SUBSET Seq(STRING)]
  /\ \A n \in Names : /\ n \in Seq(STRING) /\ Len(n) > 1
                      /\ n[Len(n)] \in Tld
  /\ Typed \subseteq [raw : Raw(Seq(STRING)), kind : {"exact", "wildcard"}]
  /\ Candidates \in Nat
  /\ MaxFailures \in Nat
  /\ MaxOperations \in Nat
  /\ Nobody \notin Process

Label == {"down", "bind", "create", "info", "alter", "check", "rebuild",
          "select", "dup", "write", "commit", "up"}

\* What the tailscale CLI at one place does.
Reply == {"absent", "fails", "no address", "tailnet", "elsewhere"}

VARIABLES
  table,     \* the allowlist table: created, its columns, its CHECK
  rows,      \* id -> pattern, kind, port, is the entry active, and, as
             \* history, which entry it is: ids are used again
  pc,        \* where each process is
  noted,     \* the columns it saw or added
  todo,      \* the rows merge_www_rows read and has not dealt with yet
  twin,      \* what it found for the first of them: has it a twin?
  writer,    \* who holds the write lock across statements
  draft,     \* the rows as the writer sees them
  failures,  \* failed starts, crashes and stops so far
  typed,     \* entry -> what it was approved for: name, kind, port
  standing,  \* the entries not withdrawn, expired or spent
  override,  \* the wildcards whose stamp says PSL-ZONE OVERRIDE
  merged,    \* entry deleted by a merge -> see fate
  done       \* what the operator has done so far

tableVars == <<table, rows, writer, draft>>
localVars == <<noted, todo, twin>>
historyVars == <<typed, standing, override, merged, done>>
vars == <<tableVars, pc, localVars, failures, historyVars>>

----------------------------------------------------------------------------

\* What an entry stands for: the name as it was typed; by is "old" for the
\* entries the services find.
approval(name, kind, port, by) ==
  [name |-> name, kind |-> kind, port |-> port, by |-> by]

\* The row of an entry.
row_of(r, entry) == [pattern |-> r.pattern, kind |-> r.kind, port |-> r.port,
                     active |-> r.active, entry |-> entry]

Init ==
  /\ \E d \in Databases :
       /\ table = d.table
       /\ rows = [i \in DOMAIN d.rows |-> row_of(d.rows[i], i)]
       /\ typed = [i \in DOMAIN d.rows |->
            approval(d.rows[i].pattern, d.rows[i].kind, d.rows[i].port, "old")]
       /\ standing = {i \in DOMAIN d.rows : d.rows[i].active}
  /\ pc = [p \in Process |-> "down"]
  /\ noted = [p \in Process |-> {}]
  /\ todo = [p \in Process |-> <<>>]
  /\ twin = [p \in Process |-> FALSE]
  /\ writer = Nobody
  /\ draft = rows
  /\ failures = 0
  /\ override = {}
  /\ merged = [e \in {} |-> "carried"]
  /\ done = 0

Go(p, label) == pc' = [pc EXCEPT ![p] = label]

\* Mutant of Exit: the transaction is not rolled back.
ExitUnrolled(p) ==
  /\ Go(p, "down")
  /\ writer' = IF writer = p THEN Nobody ELSE writer
  /\ UNCHANGED <<table, rows, draft, localVars, historyVars>>

\* Process p exits, or a statement of it raises; what it had not committed
\* is gone.
Exit(p) ==
  /\ Go(p, "down")
  /\ writer' = IF writer = p THEN Nobody ELSE writer
  /\ draft' = IF writer = p THEN rows ELSE draft
  /\ UNCHANGED <<table, rows, localVars, historyVars>>

\* A statement that fails on the write lock of another process after
\* busy_timeout, a signal, a crash.
Fail(p) ==
  /\ pc[p] # "down"
  /\ failures < MaxFailures
  /\ failures' = failures + 1
  /\ Exit(p)

\* systemd starts a service that is not running; somebody runs brokerctl.
Start(p) ==
  /\ pc[p] = "down"
  /\ p \in Service \/ done < MaxOperations
  /\ Go(p, IF p = "panel" THEN "bind" ELSE "create")
  /\ noted' = [noted EXCEPT ![p] = {}]
  /\ todo' = [todo EXCEPT ![p] = <<>>]
  /\ twin' = [twin EXCEPT ![p] = FALSE]
  /\ done' = IF p \in Service THEN done ELSE done + 1
  /\ UNCHANGED <<tableVars, failures, typed, standing, override, merged>>

----------------------------------------------------------------------------
(* The panel's address.                                                    *)

\* The first place that answers with an address decides; no answer and an
\* address outside 100.64/10 end the start.
resolve_bind_ip(said) ==
  LET answers == {i \in DOMAIN said : said[i] \in {"tailnet", "elsewhere"}}
  IN  IF answers = {} THEN "exit"
      ELSE IF said[Min(answers)] = "tailnet" THEN "tailnet" ELSE "exit"

\* bind_ip is "auto".
Bind(p) ==
  /\ pc[p] = "bind"
  /\ \E said \in [1..Candidates -> Reply] :
       \/ /\ resolve_bind_ip(said) = "tailnet"
          /\ Go(p, "create")
          /\ UNCHANGED <<tableVars, localVars, failures, historyVars>>
       \/ /\ resolve_bind_ip(said) = "exit"
          /\ failures < MaxFailures
          /\ failures' = failures + 1
          /\ Exit(p)

----------------------------------------------------------------------------
(* open_db and _migrate.                                                   *)

\* A commit outside the merge waits for the write lock.
Unlocked == writer = Nobody

\* The commit of table and rows as given.
Store(t, r) ==
  /\ Unlocked
  /\ table' = t
  /\ rows' = r
  /\ draft' = r
  /\ UNCHANGED writer

Current == [created |-> TRUE, columns |-> AllColumns, default_ok |-> TRUE]

\* CREATE TABLE IF NOT EXISTS.
Create(p) ==
  /\ pc[p] = "create"
  /\ Store(IF table.created THEN table ELSE Current, rows)
  /\ Go(p, "info")
  /\ UNCHANGED <<localVars, failures, historyVars>>

\* PRAGMA table_info.
Info(p) ==
  /\ pc[p] = "info"
  /\ noted' = [noted EXCEPT ![p] = table.columns]
  /\ Go(p, "alter")
  /\ UNCHANGED <<tableVars, todo, twin, failures, historyVars>>

\* Mutant of missing: what there is already is not looked at.
missing_unasked(p) == DOMAIN Columns

missing(p) == {i \in DOMAIN Columns : Columns[i] \notin noted[p]}

\* Mutant of Alter: only the first column an earlier version lacks is added.
AlterOnce(p) ==
  /\ pc[p] = "alter"
  /\ IF missing(p) = {}
     THEN /\ Go(p, "check")
          /\ UNCHANGED <<tableVars, localVars, failures, historyVars>>
     ELSE LET c == Columns[Min(missing(p))]
          IN  IF c \in table.columns THEN Exit(p) /\ UNCHANGED failures
              ELSE /\ Store([table EXCEPT !.columns = @ \cup {c}], rows)
                   /\ Go(p, "check")
                   /\ UNCHANGED <<localVars, failures, historyVars>>

\* ALTER TABLE ADD COLUMN for the next column not noted; it raises when
\* another process has added it since.
Alter(p) ==
  /\ pc[p] = "alter"
  /\ IF missing(p) = {}
     THEN /\ Go(p, "check")
          /\ UNCHANGED <<tableVars, localVars, failures, historyVars>>
     ELSE LET c == Columns[Min(missing(p))]
          IN  IF c \in table.columns THEN Exit(p) /\ UNCHANGED failures
              ELSE /\ Store([table EXCEPT !.columns = @ \cup {c}], rows)
                   /\ noted' = [noted EXCEPT ![p] = @ \cup {c}]
                   /\ UNCHANGED <<pc, todo, twin, failures, historyVars>>

\* The stored definition is read; brokerctl is then done opening the
\* database, and its own commit is not one of the allowlist's.
Check(p) ==
  /\ pc[p] = "check"
  /\ Go(p, IF ~ table.default_ok THEN "rebuild"
           ELSE IF p \in Service THEN "select" ELSE "down")
  /\ UNCHANGED <<tableVars, localVars, failures, historyVars>>

\* Mutant of Rebuild: the copy does not name consumed_at, so that spent
\* entries come back.
RebuildForgetful(p) ==
  /\ pc[p] = "rebuild"
  /\ Store(Current, [i \in DOMAIN rows |-> [rows[i] EXCEPT !.active = TRUE]])
  /\ Go(p, IF p \in Service THEN "select" ELSE "down")
  /\ UNCHANGED <<localVars, failures, historyVars>>

\* The table is renamed, created anew, filled with every column and the old
\* one dropped, in one transaction; the copy names every column, and would
\* raise on a table without one of them.
Rebuild(p) ==
  /\ pc[p] = "rebuild"
  /\ AllColumns \subseteq table.columns
  /\ Store(Current, rows)
  /\ Go(p, IF p \in Service THEN "select" ELSE "down")
  /\ UNCHANGED <<localVars, failures, historyVars>>

----------------------------------------------------------------------------
(* merge_www_rows.                                                         *)

\* The rows as process p reads them.
view(p) == IF writer = p THEN draft ELSE rows

www_rows(r) ==
  {i \in DOMAIN r : r[i].kind = "exact" /\ Len(r[i].pattern) > 1
                    /\ Head(r[i].pattern) = Www}

\* id, pattern and port of a row, read at once; what does not fold is passed
\* over later and left out here.
Select(p) ==
  /\ pc[p] = "select"
  /\ LET folding == {i \in www_rows(rows) :
                       canonical_host(rows[i].pattern, Psl) # rows[i].pattern}
         order == CHOOSE s \in [1..Cardinality(folding) -> folding] :
                    \A i, j \in DOMAIN s : i < j => s[i] < s[j]
     IN  todo' = [todo EXCEPT ![p] =
           [k \in DOMAIN order |->
             [id |-> order[k], port |-> rows[order[k]].port,
              target |-> canonical_host(rows[order[k]].pattern, Psl)]]]
  /\ Go(p, "dup")
  /\ UNCHANGED <<tableVars, noted, twin, failures, historyVars>>

twins_of(r, item) ==
  {i \in DOMAIN r : /\ r[i].pattern = item.target
                    /\ r[i].port = item.port
                    /\ r[i].kind = "exact"}

\* Mutant of Dup: the row itself counts as its twin.
DupItself(p) ==
  /\ pc[p] = "dup"
  /\ IF todo[p] = <<>>
     THEN Go(p, "commit") /\ UNCHANGED twin
     ELSE /\ Go(p, "write")
          /\ twin' = [twin EXCEPT ![p] =
                        twins_of(view(p), Head(todo[p])) # {}]
  /\ UNCHANGED <<tableVars, noted, todo, failures, historyVars>>

Dup(p) ==
  /\ pc[p] = "dup"
  /\ IF todo[p] = <<>>
     THEN Go(p, "commit") /\ UNCHANGED twin
     ELSE /\ Go(p, "write")
          /\ twin' = [twin EXCEPT ![p] =
               twins_of(view(p), Head(todo[p])) \ {Head(todo[p]).id} # {}]
  /\ UNCHANGED <<tableVars, noted, todo, failures, historyVars>>

\* DELETE or UPDATE; the first takes the write lock.  A row another process
\* has deleted meanwhile is not there to be written.
Write(p) ==
  /\ pc[p] = "write"
  /\ writer \in {Nobody, p}
  /\ writer' = p
  /\ LET item == Head(todo[p])
         r == view(p)
     IN  draft' = IF item.id \notin DOMAIN r THEN r
                  ELSE IF twin[p] THEN Restrict(r, DOMAIN r \ {item.id})
                  ELSE [r EXCEPT ![item.id].pattern = item.target]
  /\ todo' = [todo EXCEPT ![p] = Tail(@)]
  /\ Go(p, "dup")
  /\ UNCHANGED <<table, rows, noted, twin, failures, historyVars>>

\* What became of the approval of row i, deleted: another row on its name
\* carries it, or only rows that admit nothing are there, or none is left;
\* and then, was the row one to be folded at all?
fate(i) ==
  LET target == canonical_host(rows[i].pattern, Psl)
      twins  == twins_of(draft, [target |-> target, port |-> rows[i].port])
  IN  CASE \E j \in twins : draft[j].active             -> "carried"
        [] twins # {} /\ ~ \E j \in twins : draft[j].active -> "buried"
        [] twins = {} /\ target # rows[i].pattern         -> "none"
        [] twins = {} /\ target = rows[i].pattern         -> "mistaken"

\* The commit; nothing is written when nothing folded.
Commit(p) ==
  /\ pc[p] = "commit"
  /\ IF writer # p THEN UNCHANGED <<tableVars, merged>>
     ELSE /\ rows' = draft
          /\ writer' = Nobody
          /\ merged' =
               LET gone == {i \in DOMAIN rows : \A j \in DOMAIN draft :
                              draft[j].entry # rows[i].entry}
               IN  [e \in DOMAIN merged \cup {rows[i].entry : i \in gone} |->
                      IF e \in DOMAIN merged THEN merged[e]
                      ELSE fate(CHOOSE i \in gone : rows[i].entry = e)]
          /\ UNCHANGED <<table, draft>>
  /\ Go(p, "up")
  /\ UNCHANGED <<localVars, failures, typed, standing, override, done>>

----------------------------------------------------------------------------
(* The panel once it is up.                                                *)

\* What manual_add and confirm_wildcard store: exact names are folded,
\* wildcard bases are not.
pattern_of(t) ==
  LET name == normalize_hostname(t.raw, FALSE)
  IN  IF name = NotAName \/ t.kind = "wildcard" THEN name
      ELSE canonical_host(name, Psl)

\* SQLite's choice for an INTEGER PRIMARY KEY: a deleted row's id is free
\* again when it was the last.
new_id == Max({0} \cup DOMAIN rows) + 1

new_entry == Max({0} \cup DOMAIN typed) + 1

\* The operator adds an entry; a wildcard whose base is or spans a zone is
\* stamped as an override.
AddByHand ==
  /\ pc["panel"] = "up"
  /\ Unlocked
  /\ done < MaxOperations
  /\ done' = done + 1
  /\ \E t \in Typed :
       /\ pattern_of(t) # NotAName
       /\ ~ is_blocked(pattern_of(t), Blocked)
       /\ rows' = [i \in DOMAIN rows \cup {new_id} |->
            IF i \in DOMAIN rows THEN rows[i]
            ELSE row_of([pattern |-> pattern_of(t), kind |-> t.kind,
                         port |-> 443, active |-> TRUE], new_entry)]
       /\ draft' = rows'
       /\ typed' = [e \in DOMAIN typed \cup {new_entry} |->
                      IF e \in DOMAIN typed THEN typed[e]
                      ELSE approval(t.raw.name, t.kind, 443, "hand")]
       /\ override' =
            IF /\ t.kind = "wildcard"
               /\ wildcard_psl_conflict(pattern_of(t), Psl) # "none"
            THEN override \cup {new_entry} ELSE override
  /\ standing' = standing \cup {new_entry}
  /\ UNCHANGED <<table, writer, pc, localVars, failures, merged>>

\* An entry is revoked, spent or expires, and with it the approvals merged
\* into it.
End(i) ==
  /\ pc["panel"] = "up"
  /\ Unlocked
  /\ done < MaxOperations
  /\ rows[i].active
  /\ done' = done + 1
  /\ rows' = [rows EXCEPT ![i].active = FALSE]
  /\ draft' = rows'
  /\ standing' = standing \ ({rows[i].entry} \cup
       {e \in DOMAIN merged :
          /\ canonical_host(typed[e].name, Psl) = rows[i].pattern
          /\ typed[e].port = rows[i].port})
  /\ UNCHANGED <<table, writer, pc, localVars, failures, typed, override,
                 merged>>

----------------------------------------------------------------------------

Opening(p) ==
  \/ Start(p) \/ Bind(p) \/ Create(p) \/ Info(p) \/ Alter(p) \/ Check(p)
  \/ Rebuild(p) \/ Select(p) \/ Dup(p) \/ Write(p) \/ Commit(p)

Next ==
  \/ \E p \in Process : Start(p)
  \/ \E p \in Process : Bind(p)
  \/ \E p \in Process : Create(p)
  \/ \E p \in Process : Info(p)
  \/ \E p \in Process : Alter(p)
  \/ \E p \in Process : Check(p)
  \/ \E p \in Process : Rebuild(p)
  \/ \E p \in Service : Select(p)
  \/ \E p \in Service : Dup(p)
  \/ \E p \in Service : Write(p)
  \/ \E p \in Service : Commit(p)
  \/ \E p \in Process : Fail(p)
  \/ AddByHand
  \/ \E i \in DOMAIN rows : End(i)

Spec == Init /\ [][Next]_vars

\* systemd restarts (Restart=always) and statements that come to an end.
FairSpec == Spec /\ \A p \in Process : WF_vars(Opening(p))

----------------------------------------------------------------------------

TypeOK ==
  /\ table \in Table
  /\ pc \in [Process -> Label]
  /\ \A p \in Process : pc[p] \in {"write"} => todo[p] # <<>>
  /\ writer \in Service \cup {Nobody}
  /\ writer = Nobody => draft = rows
  /\ standing \subseteq DOMAIN typed
  /\ {rows[i].entry : i \in DOMAIN rows} \cup DOMAIN merged = DOMAIN typed

\* A service that reads or serves entries finds every column its queries
\* name and a table that takes entries of every source, whatever version the
\* database came from and whoever else was opening it: no query of it fails
\* with "no such column", which would deny every connection.
SchemaCurrent ==
  \A p \in Service :
    pc[p] \in {"select", "dup", "write", "commit", "up"} => table = Current

\* The answer of the broker to a name, were it asked now.
admitted(name, port) ==
  LET h == canonical_host(normalize_hostname(spelled(name), TRUE), Psl)
  IN  /\ ~ is_blocked(h, Blocked)
      /\ \E i \in DOMAIN rows : /\ rows[i].active
                                /\ rows[i].port = port
                                /\ matches(rows[i].kind, rows[i].pattern, h)

fold(name) == canonical_host(name, Psl)

\* What was approved and not withdrawn, under the name it was approved for.
\* Left out: what the blocked list refuses since; a wildcard on www.X, which
\* look-ups of www.X, folded to X, do not reach; and www.www.X, whose entry
\* is folded once when it is added and once more at the next start.
due(e) ==
  /\ e \in standing
  /\ ~ is_blocked(fold(typed[e].name), Blocked)
  /\ typed[e].kind = "wildcard" => fold(typed[e].name) = typed[e].name
  /\ fold(fold(typed[e].name)) = fold(typed[e].name)

\* Once the broker serves, every entry approved before or since admits the
\* name it was approved for: two services that migrate and merge the same
\* rows at once, on reads of before, never delete an entry together with its
\* twin.  (Two things do take an entry: a twin that is not active any more,
\* see ApprovalCarried; and a merge that began before the other service's
\* ended, when an entry was added in between and has got the id of a row that
\* the other one deleted.  It deletes that entry; and where two were added, it
\* may delete the twin that it finds for the second first, find none any more
\* and rename the second, which then admits another name than it was approved
\* for.  So this and FoldKeepsOwner fail when MaxOperations is 2; StartupProofs
\* shows them for every number of operations but those additions.)
NothingLost ==
  pc["broker"] = "up" =>
    \A e \in DOMAIN typed :
      due(e) => \/ admitted(typed[e].name, typed[e].port)
                \/ e \in DOMAIN merged /\ merged[e] \in {"buried", "mistaken"}

\* Neither the rebuild of the table nor the fold brings an entry back that
\* was revoked, expired or spent, nor makes one admit what it was not
\* approved for, in either spelling.
NothingGained ==
  \A name \in Names, port \in Ports : admitted(name, port) =>
    \E e \in standing :
      /\ typed[e].port = port
      /\ \/ fold(name) \in {fold(typed[e].name), fold(fold(typed[e].name))}
         \/ typed[e].kind = "wildcard" /\ below(fold(name), typed[e].name)

\* The fold, when an entry is added and at every start after, leaves an entry
\* with whoever owned the name it was approved for.  (A name that is a zone
\* itself, such as www.nom.br under *.nom.br, is nobody's.)
FoldKeepsOwner ==
  \A i \in DOMAIN rows :
    LET name == typed[rows[i].entry].name
    IN  rows[i].kind = "exact" /\ registered(name, Psl) =>
          owner(rows[i].pattern, Psl) = owner(name, Psl)

\* A wildcard admits names of more owners than one.
spans(base) ==
  \E name \in Names :
    /\ at_or_below(name, base)
    /\ ~ registered(name, Psl) \/ owner(name, Psl) # owner(base, Psl)

\* The operator is warned of a wildcard, and its stamp says so, exactly when
\* strangers can register names that it admits.
WildcardJudged ==
  \A i \in DOMAIN rows :
    rows[i].kind = "wildcard" /\ typed[rows[i].entry].by = "hand" =>
      (rows[i].entry \in override <=> spans(rows[i].pattern))

\* Both services come up and stay up, although each may make a start of the
\* other fail: one that finds a column added under its hands exits and finds
\* it there at its next start.
BothUp == <>[](\A p \in Service : pc[p] = "up")

\* db.py: "A twin whose bare form already exists at the same port is deleted
\* - the bare row carries the approval."
ApprovalCarried ==
  pc["broker"] = "up" =>
    \A e \in DOMAIN typed : due(e) => admitted(typed[e].name, typed[e].port)
=============================================================================
