--------------------------- MODULE MCListenServer ---------------------------
(***************************************************************************)
(* TLC instances of ListenServer.                                          *)
(***************************************************************************)
EXTENDS ListenServer, TLC

CONSTANTS proxy, web, p1, p2

\* The proxies and the web interface listen on addresses of their own at first.
BootAddr == [s \in Service |-> IF s = proxy THEN p1 ELSE p2]

Interchangeable == Permutations(Swapper)

=============================================================================
