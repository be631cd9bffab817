----------------------------- MODULE MCDispatcher -----------------------------
(***************************************************************************)
(* TLC instances of Dispatcher.                                            *)
(***************************************************************************)
EXTENDS Dispatcher, TLC

CONSTANTS u1, u2

\* Every account belongs to the first upstream of the configuration.
MCBound == [a \in Account |-> u1]
MCRank == [u \in Upstream |-> IF u = u1 THEN 1 ELSE 2]

Interchangeable == Permutations(Client)

=============================================================================
