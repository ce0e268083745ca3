----------------------------- MODULE MCStartup -----------------------------
(***************************************************************************)
(* Instances of Startup for TLC.  The public suffix list has four rules    *)
(* of the shipped one: co.uk, *.sch.uk, *.ck and the exception !www.ck.    *)
(***************************************************************************)
EXTENDS Startup

MCTld == {"com", "uk", "ck"}

MCPsl == [exact |-> {<<"co", "uk">>}, wild |-> {<<"sch", "uk">>, <<"ck">>},
          exc |-> {<<"www", "ck">>}]

a      == <<"a", "com">>
www_a  == <<"www", "a", "com">>
b_a    == <<"b", "a", "com">>
co_uk  == <<"co", "uk">>
www_uk == <<"www", "co", "uk">>
a_uk   == <<"a", "co", "uk">>
sch_uk == <<"sch", "uk">>
a_ck   == <<"a", "ck">>
b_ck   == <<"b", "a", "ck">>
www_ck == <<"www", "a", "ck">>
w_ck   == <<"www", "ck">>
ww_ck  == <<"www", "www", "ck">>

MCNames == {a, www_a, b_a, co_uk, www_uk, a_uk, <<"b", "a", "co", "uk">>, sch_uk,
            <<"b", "a", "sch", "uk">>,
            a_ck, b_ck, <<"c", "b", "a", "ck">>, www_ck, w_ck, ww_ck}

entry(pattern, kind, active) ==
  [pattern |-> pattern, kind |-> kind, port |-> 443, active |-> active]

exact(pattern) == entry(pattern, "exact", TRUE)

First  == [created |-> TRUE, columns |-> {}, default_ok |-> FALSE]
Second == [created |-> TRUE, columns |-> {"group_id"}, default_ok |-> FALSE]
Third  == [created |-> TRUE, columns |-> AllColumns, default_ok |-> FALSE]
Other  == [created |-> TRUE, columns |-> {}, default_ok |-> TRUE]
Fresh  == [created |-> FALSE, columns |-> {}, default_ok |-> FALSE]

database(t, r) == [table |-> t, rows |-> r]

\* Fresh; both spellings; one spelling twice and a lone row on a zone; the
\* columns missing alone; a spent bare row; a spent www row and an exception
\* of the list; another port.
MCDatabases ==
  {database(Fresh, <<>>),
   database(First, <<exact(www_a), exact(a)>>),
   database(Second, <<exact(www_a), exact(www_a), exact(www_uk)>>),
   database(Other, <<>>),
   database(Third, <<entry(a, "exact", FALSE), exact(www_a)>>),
   database(Third, <<entry(www_a, "exact", FALSE), exact(ww_ck)>>),
   database(Current, <<exact(www_a), [exact(a) EXCEPT !.port = 8443]>>)}

MCDeadTwin == {database(Current, <<entry(a, "exact", FALSE), exact(www_a)>>)}

MCBlocked == {b_a}

\* The panel takes a name that is not ASCII, one trailing dot, and no more.
MCTyped ==
  [raw : {spelled(n) : n \in {a, www_a, www_uk, ww_ck, b_a, <<"a", "local">>}}
         \cup {[spelled(a) EXCEPT !.ascii = FALSE],
               [spelled(a) EXCEPT !.dots = 1],
               [spelled(a_uk) EXCEPT !.dots = 2],
               [spelled(a_uk) EXCEPT !.address = TRUE]},
   kind : {"exact"}]
  \cup [raw : {spelled(n) : n \in {a, a_uk, co_uk, sch_uk, a_ck, w_ck}},
        kind : {"wildcard"}]
=============================================================================
