---------------------------- MODULE MCConfigSync ----------------------------
(***************************************************************************)
(* TLC instances of ConfigSync.                                            *)
(***************************************************************************)
EXTENDS ConfigSync, TLC

Interchangeable == Permutations(Handler) \cup Permutations(Upstream)

=============================================================================
