----------------------------- MODULE Hostnames -----------------------------
(***************************************************************************)
(* Hostnames as approval_broker/validation.py treats them.  A name is a    *)
(* sequence of labels, the top-level domain last: www.a.org is             *)
(* <<Www, a, org>>.  A public suffix list is what load_psl returns: names  *)
(* that are zones (exact), names every child of which is a zone (wild) and *)
(* names exempt from that (exc).                                           *)
(***************************************************************************)
EXTENDS Naturals, Sequences, FiniteSetsExt

CONSTANTS
  Www,        \* the label www
  Tld,        \* tlds.txt without RESERVED_TLDS
  NotAName    \* a ValidationError

ASSUME HostnamesAssumption == Www \in STRING \ Tld

\* host.endswith("." + domain)
below(h, d) ==
  /\ Len(h) > Len(d)
  /\ SubSeq(h, Len(h) - Len(d) + 1, Len(h)) = d

at_or_below(h, d) == h = d \/ below(h, d)

\* The test canonical_host and wildcard_psl_conflict make of a name: is it
\* one that strangers register their names under?
is_zone(d, psl) ==
  /\ d \notin psl.exc
  /\ d \in psl.exact \/ (Len(d) > 1 /\ Tail(d) \in psl.wild)

\* Mutant of canonical_host: the remainder is folded whatever it is.
canonical_host_always(h, psl) ==
  IF Head(h) = Www /\ Len(h) > 2 THEN Tail(h) ELSE h

canonical_host(h, psl) ==
  IF Head(h) = Www /\ Len(h) > 2 /\ ~ is_zone(Tail(h), psl)
  THEN Tail(h) ELSE h

\* Mutant of wildcard_psl_conflict: a wildcard rule on the base itself is
\* taken for one above it.
wildcard_psl_conflict_below(base, psl) ==
  CASE is_zone(base, psl) -> "suffix"
    [] ~ is_zone(base, psl) /\ \E rule \in psl.exact \cup psl.wild :
                                  below(rule, base) -> "ancestor"
    [] OTHER -> "none"

wildcard_psl_conflict(base, psl) ==
  CASE is_zone(base, psl) -> "suffix"
    [] /\ ~ is_zone(base, psl)
       /\ \/ \E rule \in psl.exact : below(rule, base)
          \/ \E rule \in psl.wild : at_or_below(rule, base) -> "ancestor"
    [] OTHER -> "none"

is_blocked(h, blocked) == \E d \in blocked : at_or_below(h, d)

matches(kind, pattern, h) ==
  \/ h = pattern
  \/ kind = "wildcard" /\ below(h, pattern)

\* What a client or the operator types: a name, whether it is written in
\* ASCII, how many dots follow it, and whether it parses as an address.
Raw(names) == [name : names, ascii : BOOLEAN, dots : 0..2, address : BOOLEAN]

\* The name in canonical spelling.  Case, length and the characters of a
\* label are left out.
normalize_hostname(raw, ascii_only) ==
  IF \/ ascii_only /\ ~ raw.ascii
     \/ raw.address
     \/ raw.dots > 1
     \/ Len(raw.name) < 2
     \/ raw.name[Len(raw.name)] \notin Tld
  THEN NotAName
  ELSE raw.name

\* A name written plainly.
spelled(name) ==
  [name |-> name, ascii |-> TRUE, dots |-> 0, address |-> FALSE]

----------------------------------------------------------------------------
(* The meaning of a public suffix list, as publicsuffix.org defines it:    *)
(* of the rules that match a name an exception prevails, else the longest; *)
(* what it matches is the public suffix, and whoever registered the label  *)
(* below it owns the name and all names below that.                        *)

suffix_length(h, psl) ==
  LET exempt == {rule \in psl.exc : at_or_below(h, rule)}
      plain  == {rule \in psl.exact : at_or_below(h, rule)}
      starred == {rule \in psl.wild : below(h, rule)}
  IN  IF exempt # {} THEN Max({Len(rule) - 1 : rule \in exempt})
      ELSE Max({1} \cup {Len(rule) : rule \in plain}
                   \cup {Len(rule) + 1 : rule \in starred})

registered(h, psl) == Len(h) > suffix_length(h, psl)

owner(h, psl) ==
  IF registered(h, psl) THEN SubSeq(h, Len(h) - suffix_length(h, psl), Len(h))
                        ELSE h
=============================================================================
