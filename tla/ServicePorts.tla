---------------------------- MODULE ServicePorts ----------------------------
(***************************************************************************)
(* What the listening services (internal/listen/listen.go) promise, told   *)
(* without listeners, locks, queues or half-done swaps: a service has one  *)
(* address at a time and goes from one to the next in one instant, up on   *)
(* the new one; two services that are up never share an address; and the   *)
(* process ends only when it has been told that a service failed.          *)
(***************************************************************************)
CONSTANTS Service, Addr, Boot

VARIABLES
    at,     \* at[s]: the address of the service
    state,  \* state[s]: down (not started), up or failed
    main    \* what main does: it waits for an error, is told one, is gone

vars == <<at, state, main>>

Init ==
    /\ at = Boot
    /\ state = [s \in Service |-> "down"]
    /\ main = "waits"

Free(a) == \A t \in Service : state[t] = "up" => at[t] # a

Start(s) ==
    /\ main # "gone" /\ state[s] = "down" /\ Free(at[s])
    /\ state' = [state EXCEPT ![s] = "up"]
    /\ UNCHANGED <<at, main>>

\* A service that had failed is up again at its new address.
Move(s, a) ==
    /\ main # "gone" /\ a # at[s] /\ Free(a)
    /\ \A t \in Service : state[t] # "down"
    /\ at' = [at EXCEPT ![s] = a]
    /\ state' = [state EXCEPT ![s] = "up"]
    /\ UNCHANGED main

Fail(s) ==
    /\ main # "gone" /\ state[s] = "up"
    /\ state' = [state EXCEPT ![s] = "failed"]
    /\ UNCHANGED <<at, main>>

\* A service that has moved on since is no reason any more.
Tell(s) ==
    /\ main = "waits" /\ state[s] = "failed"
    /\ main' = "told"
    /\ UNCHANGED <<at, state>>

Exit ==
    /\ main = "told" /\ main' = "gone"
    /\ at' = Boot /\ state' = [s \in Service |-> "down"]

Next ==
    \/ \E s \in Service : Start(s) \/ Fail(s) \/ Tell(s)
    \/ \E s \in Service, a \in Addr : Move(s, a)
    \/ Exit

Spec == Init /\ [][Next]_vars

=============================================================================
