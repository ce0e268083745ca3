------------------------------ MODULE Imports ------------------------------
(***************************************************************************)
(* Bulk imports into the allowlist: shipped files, groups of the catalog   *)
(* and pasted text, loaded by the panel under its lock or by brokerctl     *)
(* load-starter from a process of its own, while the operator adds and     *)
(* withdraws entries.                                                      *)
(*                                                                         *)
(* An import looks each line up and then adds an entry or corrects the     *)
(* description of the one it found, in separate statements.  Every add is  *)
(* a commit; the descriptions of pasted text are committed with the next   *)
(* add, or at the end.                                                     *)
(***************************************************************************)
EXTENDS Store, Functions

CONSTANTS
  Text,       \* descriptions
  NoText,     \* NULL note
  Malformed,  \* a host that normalize_hostname rejects, or a wildcard
  Lists,      \* the lists there are: kind, source and lines
  PanelLists, \* those the panel loads
  CliLists,   \* those brokerctl loads
  MaxByHand,  \* ManualAdd makes no table longer than this
  MaxImports  \* bound on imports begun

Process == {"panel", "brokerctl"}

\* One line: where to, and its description.
Line == [host : Host \cup {Malformed}, port : Port, text : Text \cup {NoText}]

\* file: import_list_file; group: import_catalog_group; text: import_text.
ListKind == {"file", "group", "text"}

ASSUME ImportAssumption ==
  /\ NoText \notin Text
  /\ Malformed \notin Host
  /\ Lists \subseteq [kind : ListKind, source : Source, lines : Seq(Line)]
  /\ PanelLists \subseteq Lists
  /\ CliLists \subseteq {l \in Lists : l.kind = "file"}
  /\ MaxByHand \in Nat /\ MaxImports \in Nat

VARIABLES
  notes,     \* the note column
  draft,     \* notes the panel has written and not committed
  at,        \* where each process is
  list,      \* the list it imports
  line,      \* the number of the line it is at
  ts,        \* its clock
  hit,       \* the entry it found
  touched,   \* history: another process committed since the import began
  begun      \* imports begun

importVars == <<notes, draft, at, list, line, ts, hit, touched, begun>>
vars == <<storeVars, importVars>>

Nothing == [kind |-> "file", source |-> "starter", lines |-> <<>>]

Clean == [i \in {} |-> NoText]

Init ==
  /\ StoreInit
  /\ notes = [i \in DOMAIN InitialRows |-> NoText]
  /\ draft = Clean
  /\ at = [p \in Process |-> "idle"]
  /\ list = [p \in Process |-> Nothing]
  /\ line = [p \in Process |-> 0]
  /\ ts = [p \in Process |-> 0]
  /\ hit = [p \in Process |-> 0]
  /\ touched = [p \in Process |-> FALSE]
  /\ begun = 0

----------------------------------------------------------------------------

bad(l) == l.host = Malformed \/ is_blocked(l.host)

\* Every line of a shipped file is validated before the first is inserted.
acceptable(lst) ==
  lst.kind = "file" => \A k \in DOMAIN lst.lines : ~ bad(lst.lines[k])

current(p) == list[p].lines[line[p]]

\* Mutant of present: revoked and expired entries count as present.
present_ever(l, at_ts) ==
  {i \in DOMAIN allowlist : /\ allowlist[i].pattern = l.host
                            /\ allowlist[i].port = l.port}

\* The active entries for the destination of line l.
present(l, at_ts) ==
  {i \in DOMAIN allowlist : /\ allowlist[i].pattern = l.host
                            /\ allowlist[i].port = l.port
                            /\ active(allowlist[i], at_ts)}

\* Descriptions with the panel's own uncommitted ones.
drafted == [i \in DOMAIN notes |-> IF i \in DOMAIN draft THEN draft[i]
                                                         ELSE notes[i]]

note_seen(p, i) == IF p = "panel" THEN drafted[i] ELSE notes[i]

\* Mutant of describes: the operator's rows are corrected as well.
describes_all(p, l, i) ==
  /\ l.text # NoText
  /\ \/ note_seen(p, i) = NoText
     \/ list[p].kind # "text" /\ l.text # note_seen(p, i)

\* Does line l give entry i a new description?  Shipped lists correct their
\* own, an empty one is always filled in.
describes(p, l, i) ==
  /\ l.text # NoText
  /\ \/ note_seen(p, i) = NoText
     \/ /\ list[p].kind # "text"
        /\ allowlist[i].source \in {"starter", "default"}
        /\ l.text # note_seen(p, i)

\* Only the panel is ever inside a write transaction between steps.
may_write(p) == p = "panel" \/ draft = Clean

\* A commit of p to the allowlist is seen by every other import under way.
CommitBy(p) ==
  touched' = [q \in Process |-> touched[q] \/ (q # p /\ at[q] # "idle")]

\* p goes on at the next line, or is done.
NextLine(p) ==
  IF line[p] < Len(list[p].lines)
  THEN /\ line' = [line EXCEPT ![p] = @ + 1]
       /\ at' = [at EXCEPT ![p] = "look"]
  ELSE /\ at' = [at EXCEPT ![p] = "finish"]
       /\ UNCHANGED line

----------------------------------------------------------------------------

Begin(p, lst) ==
  /\ at[p] = "idle"
  /\ acceptable(lst)
  /\ lst.lines # <<>>
  /\ begun < MaxImports
  /\ begun' = begun + 1
  /\ list' = [list EXCEPT ![p] = lst]
  /\ line' = [line EXCEPT ![p] = 1]
  /\ ts' = [ts EXCEPT ![p] = clock]
  /\ at' = [at EXCEPT ![p] = "look"]
  /\ UNCHANGED <<storeVars, notes, draft, hit, touched>>

PanelImport == \E lst \in PanelLists : Begin("panel", lst)

LoadStarter == \E lst \in CliLists : Begin("brokerctl", lst)

\* The next line is refused, found present, or to be added.
LookUp(p) ==
  /\ at[p] = "look"
  /\ LET l   == current(p)
         ids == present(l, ts[p])
     IN  IF bad(l) THEN NextLine(p) /\ UNCHANGED hit
         ELSE IF ids = {}
         THEN at' = [at EXCEPT ![p] = "add"] /\ UNCHANGED <<line, hit>>
         ELSE /\ hit' = [hit EXCEPT ![p] = Min(ids)]
              /\ IF describes(p, l, Min(ids))
                 THEN at' = [at EXCEPT ![p] = "describe"] /\ UNCHANGED line
                 ELSE NextLine(p)
  /\ UNCHANGED <<storeVars, notes, draft, list, ts, touched, begun>>

\* Mutant of Add: the rest of the list is not looked up again.
AddUnseen(p) ==
  /\ at[p] = "add"
  /\ may_write(p)
  /\ LET l == current(p)
     IN  /\ add_allowlist(new_row(l.host, "exact", l.port, "permanent", Null,
                                  list[p].source))
         /\ notes' = Append(IF p = "panel" THEN drafted ELSE notes, l.text)
  /\ draft' = IF p = "panel" THEN Clean ELSE draft
  /\ IF line[p] < Len(list[p].lines)
     THEN line' = [line EXCEPT ![p] = @ + 1] /\ UNCHANGED at
     ELSE at' = [at EXCEPT ![p] = "finish"] /\ UNCHANGED line
  /\ CommitBy(p)
  /\ UNCHANGED <<requests, paused_until, clock, list, ts, hit, begun>>

Add(p) ==
  /\ at[p] = "add"
  /\ may_write(p)
  /\ LET l == current(p)
     IN  /\ add_allowlist(new_row(l.host, "exact", l.port, "permanent", Null,
                                  list[p].source))
         /\ notes' = Append(IF p = "panel" THEN drafted ELSE notes, l.text)
  /\ draft' = IF p = "panel" THEN Clean ELSE draft
  /\ NextLine(p)
  /\ CommitBy(p)
  /\ UNCHANGED <<requests, paused_until, clock, list, ts, hit, begun>>

\* The UPDATE of a description: pasted text leaves it uncommitted.
Describe(p) ==
  /\ at[p] = "describe"
  /\ may_write(p)
  /\ IF list[p].kind = "text"
     THEN /\ draft' = [i \in DOMAIN draft \cup {hit[p]} |->
                         IF i = hit[p] THEN current(p).text ELSE draft[i]]
          /\ UNCHANGED <<notes, touched>>
     ELSE /\ notes' = [notes EXCEPT ![hit[p]] = current(p).text]
          /\ CommitBy(p)
          /\ UNCHANGED draft
  /\ NextLine(p)
  /\ UNCHANGED <<storeVars, list, ts, hit, begun>>

\* The process has nothing under way any more.
Idle(p) ==
  /\ at' = [at EXCEPT ![p] = "idle"]
  /\ list' = [list EXCEPT ![p] = Nothing]
  /\ line' = [line EXCEPT ![p] = 0]
  /\ ts' = [ts EXCEPT ![p] = 0]
  /\ hit' = [hit EXCEPT ![p] = 0]

\* The last commit, of the stamp too; the panel's lock is released.
Finish(p) ==
  /\ at[p] = "finish"
  /\ IF p = "panel" THEN notes' = drafted /\ draft' = Clean
                    ELSE UNCHANGED <<notes, draft>>
  /\ touched' = [q \in Process |->
                   IF q = p THEN FALSE
                   ELSE touched[q] \/ (at[q] # "idle" /\ notes' # notes)]
  /\ Idle(p)
  /\ UNCHANGED <<storeVars, begun>>

\* The import ends in the middle: what was committed stays.
Crash(p) ==
  /\ at[p] # "idle"
  /\ draft' = IF p = "panel" THEN Clean ELSE draft
  /\ touched' = [touched EXCEPT ![p] = FALSE]
  /\ Idle(p)
  /\ UNCHANGED <<storeVars, notes, begun>>

----------------------------------------------------------------------------
(* The operator, by the panel, which does one thing at a time.             *)

\* manual_add; the description is optional.
ManualAdd ==
  /\ at["panel"] = "idle"
  /\ Len(allowlist) < MaxByHand
  /\ \E h \in Host, s \in Scope, text \in Text \cup {NoText} :
       /\ ~ is_blocked(h)
       /\ add_allowlist(new_row(h, "exact", PanelPort, s,
                                IF Lifetime[s] = Null THEN Null
                                ELSE clock + Lifetime[s], "manual"))
       /\ notes' = Append(notes, text)
  /\ CommitBy("panel")
  /\ UNCHANGED <<requests, paused_until, clock, draft, at, list, line, ts,
                 hit, begun>>

\* revoke, remove_defaults and erase_all_entries.
Withdraw ==
  /\ at["panel"] = "idle"
  /\ \E ids \in {group_of(i) : i \in DOMAIN allowlist}
                \cup {rows_of_source("default"), DOMAIN allowlist} :
       retire(ids, clock)
  /\ CommitBy("panel")
  /\ UNCHANGED <<requests, paused_until, clock, notes, draft, at, list, line,
                 ts, hit, begun>>

Next ==
  \/ PanelImport \/ LoadStarter
  \/ \E p \in Process : LookUp(p)
  \/ \E p \in Process : Add(p)
  \/ \E p \in Process : Describe(p)
  \/ \E p \in Process : Finish(p)
  \/ \E p \in Process : Crash(p)
  \/ ManualAdd \/ Withdraw
  \/ Tick /\ UNCHANGED importVars

Spec == Init /\ [][Next]_vars

----------------------------------------------------------------------------

\* An import that nothing interfered with has done what it is for: the
\* destination of every line that is not refused is admitted.  So an import
\* that was cut short is completed by running it again.
ImportComplete ==
  \A p \in Process : at[p] = "finish" /\ ~ touched[p] =>
    \A k \in DOMAIN list[p].lines :
      LET l == list[p].lines[k]
      IN  bad(l) \/ active_match(l.host, l.port, ts[p]) # 0

\* Nothing is added that is there already, not even by a list that names a
\* destination twice or by a second run after a crash, unless another
\* process has written to the allowlist meanwhile.
NothingTwice ==
  [][\A p \in Process :
       /\ at[p] = "add" /\ ~ touched[p]
       /\ Len(allowlist') > Len(allowlist)
       => present(current(p), ts[p]) = {}]_vars

by_operator(i) == allowlist[i].source \in {"manual", "approval"}

\* A row the operator created keeps their words, as long as no process
\* writes while the other imports.
WordsKeptAlone ==
  [][(\A p \in Process : ~ touched[p]) =>
       \A i \in DOMAIN notes : by_operator(i) /\ notes[i] # NoText =>
                                 notes'[i] = notes[i]]_vars
=============================================================================
