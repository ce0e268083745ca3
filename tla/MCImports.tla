----------------------------- MODULE MCImports -----------------------------
(***************************************************************************)
(* Instances of Imports for TLC: a shipped file, the same destinations     *)
(* pasted by the operator, one of them twice and two lines refused, and a  *)
(* group of the catalog.                                                   *)
(***************************************************************************)
EXTENDS Imports

CONSTANTS base, api, evil, shipped, typed

At(h, text) == [host |-> h, port |-> PanelPort, text |-> text]

\* It names base twice: the second line corrects the description.
StarterFile == [kind |-> "file", source |-> "starter",
                lines |-> <<At(base, shipped), At(api, shipped),
                            At(base, typed)>>]

\* The blocked host makes the whole file unacceptable.
BadFile == [kind |-> "file", source |-> "starter",
            lines |-> <<At(base, shipped), At(evil, shipped)>>]

Pasted == [kind |-> "text", source |-> "manual",
           lines |-> <<At(base, typed), At(evil, typed), At(base, shipped),
                       At(api, typed)>>]

CatalogGroup == [kind |-> "group", source |-> "default",
                 lines |-> <<At(Malformed, typed), At(api, typed)>>]

MCLists == {StarterFile, BadFile, Pasted, CatalogGroup}
MCCliLists == {StarterFile, BadFile}

MCLifetime == [s \in Scope |-> IF s = "permanent" THEN Null ELSE 1]

NoRows == <<>>
=============================================================================
