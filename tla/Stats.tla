-------------------------------- MODULE Stats --------------------------------
(***************************************************************************)
(* The collector (internal/stats/stats.go): the byte counters of one       *)
(* upstream and of one account, which every relay adds to, and the ring of *)
(* the latest dial times with its percentiles.  An upstream has a pair of  *)
(* counters for IPv4 and one for IPv6, a connection keeps to one: here it  *)
(* is one pair.  The counter of active connections is in Dispatcher.       *)
(***************************************************************************)
EXTENDS Integers, SequencesExt

CONSTANTS
    DialCap,  \* dialSampleCap, the places of the ring
    DialTime  \* dial times, in milliseconds

ASSUME StatsAssumption == DialCap \in Nat \ {0} /\ DialTime \subseteq Nat

Kind == {"up", "down"}

VARIABLES
    upstream,  \* upstream[k]: the upstream's counters
    account,   \* account[k]: the account's counters
    samples,   \* c.dialSamples
    dialPos    \* c.dialPos

statsVars == <<upstream, account, samples, dialPos>>

StatsTypeOK ==
    /\ upstream \in [Kind -> Nat]
    /\ account \in [Kind -> Nat]
    /\ samples \in Seq(DialTime) /\ Len(samples) <= DialCap
    /\ dialPos \in 0 .. DialCap - 1

StatsInit ==
    /\ upstream = [k \in Kind |-> 0]
    /\ account = [k \in Kind |-> 0]
    /\ samples = << >> /\ dialPos = 0

\* Mutants of RecordDial: the position is not moved; a full ring grows on.
RecordDialInPlace(ms) ==
    IF Len(samples) < DialCap
    THEN samples' = Append(samples, ms) /\ UNCHANGED dialPos
    ELSE samples' = [samples EXCEPT ![dialPos + 1] = ms] /\ UNCHANGED dialPos
RecordDialGrows(ms) == samples' = Append(samples, ms) /\ UNCHANGED dialPos

\* Fills the ring, then overwrites the oldest sample.
RecordDial(ms) ==
    IF Len(samples) < DialCap
    THEN samples' = Append(samples, ms) /\ UNCHANGED dialPos
    ELSE /\ samples' = [samples EXCEPT ![dialPos + 1] = ms]
         /\ dialPos' = (dialPos + 1) % DialCap

\* The nearest rank, computed in integers: ceil(p * n / 100), at least 1.
Rank(p, n) == LET r == (p * n + 99) \div 100 IN IF r < 1 THEN 1 ELSE r

\* sort.Slice: the same times, in order.
Sorted(s) ==
    LET order == CHOOSE f \in Bijection(DOMAIN s, DOMAIN s) :
                     \A i, j \in DOMAIN s : i < j => s[f[i]] <= s[f[j]]
    IN  [i \in DOMAIN s |-> s[order[i]]]

dialPercentiles(s) ==
    LET n == Len(s)
        sorted == Sorted(s)
    IN  IF n = 0 THEN [count |-> 0, p50 |-> 0, p95 |-> 0, max |-> 0]
        ELSE [count |-> n, p50 |-> sorted[Rank(50, n)], p95 |-> sorted[Rank(95, n)],
              max |-> sorted[n]]

\* The two steps in which a counted Read or Write books n bytes.
AddUpstream(k, n) == upstream' = [upstream EXCEPT ![k] = @ + n]
AddAccount(k, n) == account' = [account EXCEPT ![k] = @ + n]

----------------------------------------------------------------------------
\* What the percentiles mean

\* The smallest time that at least p of a hundred of the samples do not exceed.
Percentile(p, s) ==
    LET AtMost(v) == Cardinality({i \in DOMAIN s : s[i] <= v})
        Enough == {v \in ToSet(s) : 100 * AtMost(v) >= p * Len(s)}
    IN  CHOOSE v \in Enough : \A w \in Enough : v <= w

Latest(s) == SubSeq(s, Len(s) - (IF Len(s) < DialCap THEN Len(s) ELSE DialCap) + 1, Len(s))

=============================================================================
