--------------------------- MODULE MCAgentFilter ---------------------------
(***************************************************************************)
(* Instances of AgentFilter for TLC.  base is a domain, api and evil are   *)
(* below it, evil is on the blocked list, so that wildcards on base reach  *)
(* both.  Every length of time is one tick.                                *)
(***************************************************************************)
EXTENDS AgentFilter, TLC

CONSTANTS base, api, evil

MCBelow == {<<h, d>> \in Host \X Host : d = base /\ h # base}

MCLifetime == [s \in Scope |-> IF s = "permanent" THEN Null ELSE 1]

\* A default entry loaded by the installer, on the host h.
Shipped(h) ==
  [pattern |-> h, kind |-> "exact", port |-> PanelPort,
   scope |-> "permanent", source |-> "default", created |-> 0,
   expires |-> Null, consumed |-> Null, group |-> 1]

NoRows == <<>>

\* A database from before the group column and the www fold: a row without
\* a group and two rows added together.
LegacyRows ==
  <<[Shipped(base) EXCEPT !.source = "manual", !.group = Null],
    [Shipped(base) EXCEPT !.group = 2],
    [Shipped(api) EXCEPT !.group = 2]>>

Interchangeable == Permutations(Worker) \cup Permutations(Tab)
=============================================================================
