------------------------------- MODULE Store -------------------------------
(***************************************************************************)
(* The shared database of agent-filter (approval_broker/db.py): the        *)
(* allowlist, the request queue and the enforcement-pause setting, with    *)
(* the queries and the commits the broker, the panel and brokerctl build   *)
(* on.  A row's id is its index: rows are never deleted by the operations  *)
(* modelled here.                                                          *)
(*                                                                         *)
(* Every query below is one SELECT and every update one commit.  The three *)
(* processes share the file and no lock, so the modules that use them make *)
(* each a step of its own.  Hostnames arrive normalised and folded         *)
(* (validation.canonical_host), so a host is a value of Host and the       *)
(* subdomain relation is the constant Below.                               *)
(***************************************************************************)
EXTENDS Integers, Sequences, FiniteSetsExt

CONSTANTS
  Host,         \* normalised, canonical hostnames
  Below,        \* <<h, d>>: h ends with "." followed by d
  Blocked,      \* blocked-domains.txt
  Port,         \* ports a client may name
  Permitted,    \* config ports.allowed
  PanelPort,    \* 443, the port of every entry the panel adds by hand
  Reason,       \* rationales an agent may give
  NoReason,     \* NULL rationale
  Scope,        \* the scopes in use, of once/session/24h/permanent
  Lifetime,     \* scope -> seconds, Null for permanent
  PauseLength,  \* PAUSE_MINUTES, in seconds
  PendingMax,   \* config limits.pending_max
  InitialRows,  \* the allowlist the services find when they start
  MaxTime       \* bound on the clock

Null == -1      \* SQL NULL in an integer column
Off  == -1      \* the setting "off": paused until resumed

Kind   == {"exact", "wildcard"}
Source == {"approval", "manual", "starter", "default"}
Status == {"pending", "approved", "denied"}

Row == [pattern : Host, kind : Kind, port : Port, scope : Scope,
        source : Source, created : Nat, expires : Nat \cup {Null},
        consumed : Nat \cup {Null}, group : Nat \cup {Null}]

Request == [host : Host, port : Port, rationale : Reason \cup {NoReason},
            status : Status, decided : Nat \cup {Null}]

ASSUME StoreAssumption ==
  /\ Host # {}
  /\ Below \subseteq Host \X Host
  /\ Blocked \subseteq Host
  /\ Permitted \subseteq Port
  /\ PanelPort \in Port
  /\ NoReason \notin Reason
  /\ Scope \subseteq {"once", "session", "24h", "permanent"}
  /\ "permanent" \in Scope
  /\ Lifetime \in [Scope -> Nat \cup {Null}]
  /\ \A s \in Scope : Lifetime[s] = Null <=> s = "permanent"
  /\ PauseLength \subseteq Nat \ {0}
  /\ PendingMax \in Nat
  /\ InitialRows \in Seq(Row)
  /\ MaxTime \in Nat

\* The rows of a group in the table that is found were added by one operation
\* of an earlier version, a bare domain and its www twin, and the group bears
\* the id of the first of them.
ASSUME GroupAssumption ==
  \A i \in DOMAIN InitialRows :
    LET row == InitialRows[i]
    IN  row.group # Null =>
          /\ row.group \in DOMAIN InitialRows
          /\ \A j \in DOMAIN InitialRows :
               InitialRows[j].group = row.group =>
                 /\ InitialRows[j].source = row.source
                 /\ InitialRows[j].scope = row.scope
                 /\ InitialRows[j].expires = row.expires

VARIABLES
  allowlist,    \* the allowlist table
  requests,     \* the requests table
  paused_until, \* settings: enforcement_paused_until
  clock         \* time.time(), in seconds

storeVars == <<allowlist, requests, paused_until, clock>>

StoreTypeOK ==
  /\ allowlist \in Seq(Row)
  /\ requests \in Seq(Request)
  /\ paused_until \in Nat \cup {Off}
  /\ clock \in Nat

StoreInit ==
  /\ allowlist = InitialRows
  /\ requests = <<>>
  /\ paused_until = 0
  /\ clock = 0

----------------------------------------------------------------------------
(* validation.py: what an entry and a blocked domain cover.                *)

is_blocked(h) == \E d \in Blocked : h = d \/ <<h, d>> \in Below

matches(row, h) ==
  \/ h = row.pattern
  \/ row.kind = "wildcard" /\ <<h, row.pattern>> \in Below

(* Queries.                                                                *)

unexpired(row, ts) == row.expires = Null \/ row.expires > ts

active(row, ts) == row.consumed = Null /\ unexpired(row, ts)

\* Mutant of active_match: an entry still works in its last second.
active_match_late(h, p, ts) ==
  LET hits == {i \in DOMAIN allowlist :
                 /\ allowlist[i].port = p
                 /\ allowlist[i].consumed = Null
                 /\ unexpired(allowlist[i], ts - 1)
                 /\ matches(allowlist[i], h)}
  IN  IF hits = {} THEN 0 ELSE Min(hits)

\* The id of the entry that admits <<h, p>> at ts, 0 if there is none: the
\* exact entry of least id if one matches, else the wildcard of least id.
active_match(h, p, ts) ==
  LET hits  == {i \in DOMAIN allowlist :
                  /\ allowlist[i].port = p
                  /\ active(allowlist[i], ts)
                  /\ matches(allowlist[i], h)}
      exact == {i \in hits : allowlist[i].kind = "exact"}
  IN  IF hits = {} THEN 0
      ELSE Min(IF exact = {} THEN hits ELSE exact)

pending_rows(h, p) ==
  {r \in DOMAIN requests : /\ requests[r].host = h
                           /\ requests[r].port = p
                           /\ requests[r].status = "pending"}

pending_request(h, p) ==
  IF pending_rows(h, p) = {} THEN 0 ELSE Min(pending_rows(h, p))

pending_count ==
  Cardinality({r \in DOMAIN requests : requests[r].status = "pending"})

resolved_rows(h, p) ==
  {r \in DOMAIN requests : /\ requests[r].host = h
                           /\ requests[r].port = p
                           /\ requests[r].status # "pending"}

\* ORDER BY decided_at DESC LIMIT 1: of rows decided in the same second
\* SQLite returns the one of least id.
latest_resolved(h, p) ==
  Min({r \in resolved_rows(h, p) :
         \A q \in resolved_rows(h, p) :
           requests[q].decided <= requests[r].decided})

\* The id of the request whose denial stands, 0 if none does.
standing_denial(h, p) ==
  IF /\ resolved_rows(h, p) # {}
     /\ requests[latest_resolved(h, p)].status = "denied"
  THEN latest_resolved(h, p)
  ELSE 0

pause_active(ts) == paused_until = Off \/ ts < paused_until

----------------------------------------------------------------------------
(* Commits.                                                                *)

\* Mutant of new_row: two columns of the INSERT change places.
new_row_swapped(h, kind, p, scope, expires, source) ==
  [pattern |-> h, kind |-> scope, port |-> p, scope |-> kind,
   source |-> source, created |-> clock, expires |-> expires,
   consumed |-> Null, group |-> Len(allowlist) + 1]

new_row(h, kind, p, scope, expires, source) ==
  [pattern |-> h, kind |-> kind, port |-> p, scope |-> scope,
   source |-> source, created |-> clock, expires |-> expires,
   consumed |-> Null, group |-> Len(allowlist) + 1]

add_allowlist(row) == allowlist' = Append(allowlist, row)

\* UPDATE allowlist SET expires_at = ts WHERE id IN ids AND unexpired
retire(ids, ts) ==
  allowlist' = [i \in DOMAIN allowlist |->
                  IF i \in ids /\ unexpired(allowlist[i], ts)
                  THEN [allowlist[i] EXCEPT !.expires = ts]
                  ELSE allowlist[i]]

\* Mutant of group_of: revoke by id alone.
group_of_id(id) == {id}

\* The rows revoke_entry retires: the whole group the entry was added in.
group_of(id) ==
  IF allowlist[id].group = Null THEN {id}
  ELSE {i \in DOMAIN allowlist : allowlist[i].group = allowlist[id].group}

rows_of_source(source) ==
  {i \in DOMAIN allowlist : allowlist[i].source = source}

spend(id, ts) == allowlist' = [allowlist EXCEPT ![id].consumed = ts]

insert_pending(h, p, why) ==
  requests' = Append(requests, [host |-> h, port |-> p, rationale |-> why,
                                status |-> "pending", decided |-> Null])

decide_request(id, status, ts) ==
  requests' = [requests EXCEPT ![id] =
                 IF @.status = "pending"
                 THEN [@ EXCEPT !.status = status, !.decided = ts]
                 ELSE @]

set_pause(value) == paused_until' = value

\* The wall clock.  It is assumed not to step back.
Tick ==
  /\ clock < MaxTime
  /\ clock' = clock + 1
  /\ UNCHANGED <<allowlist, requests, paused_until>>
=============================================================================
