----------------------------- MODULE DurableConfig -----------------------------
(***************************************************************************)
(* What the configuration manager (internal/config/manager.go) promises    *)
(* its callers, told without files, locks or steps: a register that is     *)
(* changed by one edit at a time, each on top of the one before, that a    *)
(* reader finds whole and up to date, and that the death of the process    *)
(* does not touch.                                                         *)
(***************************************************************************)
CONSTANTS
    Upstream,
    Actor,   \* the goroutines that read the configuration
    None     \* what an actor holds that has not read it

Config == [Upstream -> {"absent", "off", "on"}]

VARIABLES
    value,   \* the configuration
    taken    \* taken[a]: the configuration actor a has read and works on

vars == <<value, taken>>

Init ==
    /\ value \in Config
    /\ taken = [a \in Actor |-> None]

\* One upstream is added, switched, deleted, or given other credentials.
Edit(u, s) ==
    /\ value[u] = "absent" => s # "off"
    /\ value' = [value EXCEPT ![u] = s]
    /\ UNCHANGED taken

Take(a) ==
    /\ taken' = [taken EXCEPT ![a] = value]
    /\ UNCHANGED value

\* Actors finish, one or, in a crash, all of them.
Forget(as) ==
    /\ taken' = [a \in Actor |-> IF a \in as THEN None ELSE taken[a]]
    /\ UNCHANGED value

Next ==
    \/ \E u \in Upstream, s \in {"absent", "off", "on"} : Edit(u, s)
    \/ \E a \in Actor : Take(a)
    \/ \E as \in SUBSET Actor : Forget(as)

Spec == Init /\ [][Next]_vars

=============================================================================
