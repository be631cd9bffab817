-------------------------- MODULE MCTunnelManager ---------------------------
(***************************************************************************)
(* TLC instances of TunnelManager.                                         *)
(***************************************************************************)
EXTENDS TunnelManager, TLC

CONSTANTS u1, u2

\* The web handlers append and delete, so a listing is a part of one order.
OneListing == {<<>>, <<u1>>}
TwoListings == {<<>>, <<u1>>, <<u2>>, <<u1, u2>>}

\* One fingerprint for all upstreams at a time: enough to change that of a running one.
SameKeys == {[u \in Upstream |-> k] : k \in Key}

\* The goroutine slots and the request slots are interchangeable: no definition and no
\* property checked with this symmetry tells two of them apart.
Interchangeable == Permutations(AutoSlot) \cup Permutations(Request)

=============================================================================
