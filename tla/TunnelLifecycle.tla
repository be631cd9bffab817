---------------------------- MODULE TunnelLifecycle ----------------------------
(***************************************************************************)
(* What the tunnel manager (internal/tunnel/tunnel.go) does to a tunnel in *)
(* the course of its life, told without upstreams, configurations and      *)
(* counters: a tunnel is managed, stopped and started any number of times  *)
(* and removed for good, its device follows, and while it runs one worker  *)
(* at a time may take hold of it and rebuild the device.  A worker keeps   *)
(* its hold when the tunnel is stopped or removed meanwhile: that, and     *)
(* nothing else, is how the device of a tunnel that does not run comes up. *)
(***************************************************************************)
CONSTANTS
    Tunnel,
    Worker,   \* the goroutines that rebuild
    Nothing   \* what a worker holds that holds no tunnel

Phase == {"new", "stopped", "running", "removed"}

VARIABLES
    phase,    \* what the manager takes tunnel t for
    up,       \* up[t]: its device is up
    held      \* held[w]: the tunnel worker w has taken hold of

vars == <<phase, up, held>>

Init ==
    /\ phase = [t \in Tunnel |-> "new"]
    /\ up = [t \in Tunnel |-> FALSE]
    /\ held = [w \in Worker |-> Nothing]

\* Where one alignment may take a tunnel.
After(p) ==
    CASE p = "new"     -> {"new", "stopped", "running"}
      [] p = "removed" -> {"removed"}
      [] OTHER         -> {"stopped", "running", "removed"}

\* The manager aligns all tunnels at one time.  The devices of the ones it starts and
\* stops follow; a tunnel that goes on running may have its device rebuilt, in vain even;
\* the device of any other tunnel is left as it is.
Align ==
    /\ phase' \in [Tunnel -> Phase] /\ up' \in [Tunnel -> BOOLEAN]
    /\ \A t \in Tunnel :
           /\ phase'[t] \in After(phase[t])
           /\ phase[t] # "running" /\ phase'[t] = "running" => up'[t]
           /\ phase[t] = "running" /\ phase'[t] # "running" => ~up'[t]
           /\ phase[t] # "running" /\ phase'[t] # "running" => up'[t] = up[t]
    /\ UNCHANGED held

\* Only a running tunnel that nobody holds is taken hold of.
Hold(w, t) ==
    /\ held[w] = Nothing
    /\ phase[t] = "running" /\ \A v \in Worker : held[v] # t
    /\ held' = [held EXCEPT ![w] = t]
    /\ UNCHANGED <<phase, up>>

\* The two halves of a rebuild.
Rebuild(w) ==
    /\ held[w] # Nothing
    /\ \E b \in BOOLEAN : up' = [up EXCEPT ![held[w]] = b]
    /\ UNCHANGED <<phase, held>>

Release(w) ==
    /\ held[w] # Nothing
    /\ held' = [held EXCEPT ![w] = Nothing]
    /\ UNCHANGED <<phase, up>>

Next ==
    \/ Align
    \/ \E w \in Worker : Rebuild(w) \/ Release(w) \/ \E t \in Tunnel : Hold(w, t)

Spec == Init /\ [][Next]_vars

=============================================================================
