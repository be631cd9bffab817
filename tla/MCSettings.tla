------------------------------ MODULE MCSettings ------------------------------
(***************************************************************************)
(* TLC instances of Settings.                                              *)
(***************************************************************************)
EXTENDS Settings, TLC

CONSTANTS web, p1, p2

\* Without and with a latency goroutine, and another interval.
Slow == [interval |-> 2, probe |-> 0]
Fast == [interval |-> 1, probe |-> 1]
TwoHealths == {Slow, Fast}
OneService == <<web>>

\* Every part takes two values, and between two of the three some differ and some do not.
ThreeSettings == {
    [health |-> Slow, dns |-> 0, prefer |-> FALSE, port |-> [s \in {web} |-> p1]],
    [health |-> Fast, dns |-> 1, prefer |-> FALSE, port |-> [s \in {web} |-> p1]],
    [health |-> Fast, dns |-> 0, prefer |-> TRUE, port |-> [s \in {web} |-> p2]]}

=============================================================================
