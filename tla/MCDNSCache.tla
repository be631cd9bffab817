----------------------------- MODULE MCDNSCache -----------------------------
(***************************************************************************)
(* TLC instances of DNSCache.                                              *)
(***************************************************************************)
EXTENDS DNSCache, TLC

Interchangeable == Permutations(Caller) \cup Permutations(Host)

=============================================================================
