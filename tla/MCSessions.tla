----------------------------- MODULE MCSessions -----------------------------
(***************************************************************************)
(* Instances of Sessions for TLC: a login lasts two ticks, so that one can *)
(* be made while another is about to end.                                  *)
(***************************************************************************)
EXTENDS Sessions, TLC

MCPassword == {"swordfish", "wrong"}

Interchangeable == Permutations(Request)
=============================================================================
