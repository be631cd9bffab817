------------------------------- MODULE MCRelay -------------------------------
(***************************************************************************)
(* TLC instances of Relay.                                                 *)
(***************************************************************************)
EXTENDS Relay, TLC

=============================================================================
