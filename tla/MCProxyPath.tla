---------------------------- MODULE MCProxyPath ----------------------------
(***************************************************************************)
(* Instances of ProxyPath for TLC: one approved destination, one that is   *)
(* on the blocked list.                                                    *)
(***************************************************************************)
EXTENDS ProxyPath

CONSTANTS good, bad

\* An exact entry, and a wildcard above both.
MCCoverage == {{good}, {good, bad}}
=============================================================================
