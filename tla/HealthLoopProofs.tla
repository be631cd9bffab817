--------------------------- MODULE HealthLoopProofs ---------------------------
(***************************************************************************)
(* Proofs about HealthLoop, for every set of settings, tunnels and callers *)
(* and any number of latency goroutines.                                   *)
(*                                                                         *)
(* LoopBehindIsTold is inductive once it is known that latStop is nil      *)
(* whenever Run is about to start a latency goroutine, and that otherwise  *)
(* it belongs to one that ticks (StopIsSet): a goroutine that ends is then *)
(* never the one whose period counts.                                      *)
(***************************************************************************)
EXTENDS HealthLoop, TLAPS

\* latStop belongs to a goroutine that ticks, and is nil where Run starts one.
StopIsSet ==
    /\ pc \in {"new", "boot", "latency"} => latStop = NoSlot
    /\ latStop # NoSlot => gor[latStop].per # 0 /\ ~gor[latStop].told

LEMMA LoopTypeInit == ASSUME LoopInit PROVE LoopTypeOK
  BY HealthAssumption DEF LoopInit, LoopTypeOK, Call, Idle, Goroutine, NoGoroutine

\* The record a setter leaves in call[c] while it tells the tunnels is a call.
LEMMA TellingIsCall ==
    ASSUME NEW d \in TTL, NEW todo \in SUBSET Tunnel
    PROVE  Telling(d, todo) \in Call
<1>1. CASE todo = {}
  BY <1>1 DEF Telling, Call
<1>2. CASE todo # {}
  <2>1. todo \in (SUBSET Tunnel) \ {{}}
    BY <1>2
  <2>2. [pc |-> "ttl", ttl |-> d, todo |-> todo]
          \in [pc : {"ttl"}, ttl : TTL, todo : (SUBSET Tunnel) \ {{}}]
    BY <2>1
  <2> QED
    BY <1>2, <2>2 DEF Telling, Call
<1> QED
  BY <1>1, <1>2

LEMMA LoopTypeStep == ASSUME LoopTypeOK, [LoopNext]_loopState PROVE LoopTypeOK'
<1> USE DEF LoopTypeOK
<1>1. ASSUME NEW c \in Caller, NEW h \in Health, ApplyHealth(c, h) PROVE LoopTypeOK'
  <2>1. [pc |-> "signal"] \in Call
    BY DEF Call
  <2> QED
    BY <1>1, <2>1 DEF ApplyHealth, loopVars
<1>2. ASSUME NEW c \in Caller, NEW d \in TTL, SetDNSCacheTTL(c, d) PROVE LoopTypeOK'
  <2>1. Telling(d, Managed) \in Call
    BY TellingIsCall DEF Managed
  <2> QED
    BY <1>2, <2>1 DEF SetDNSCacheTTL, loopVars
<1>3. ASSUME NEW c \in Caller, Signal(c) PROVE LoopTypeOK'
  <2>1. Idle \in Call
    BY DEF Call
  <2> QED
    BY <1>3, <2>1 DEF Signal, loopVars
<1>4. ASSUME NEW c \in Caller, NEW t \in Tunnel, TellTunnel(c, t) PROVE LoopTypeOK'
  <2>1. call[c].ttl \in TTL /\ call[c].todo \in SUBSET Tunnel
    BY <1>4 DEF TellTunnel, Call, Idle
  <2>2. Telling(call[c].ttl, call[c].todo \ {t}) \in Call
    BY <2>1, TellingIsCall
  <2> QED
    BY <1>4, <2>1, <2>2 DEF TellTunnel, loopVars
<1>5. ASSUME NEW t \in Tunnel, CreateTunnel(t) PROVE LoopTypeOK'
  BY <1>5 DEF CreateTunnel, loopVars
<1>6. ASSUME NEW t \in Tunnel, RemoveTunnel(t) PROVE LoopTypeOK'
  BY <1>6 DEF RemoveTunnel, loopVars
<1>7. CASE RunBegins
  BY <1>7 DEF RunBegins, managerVars
<1>8. CASE StartLatency
  <2>1. [per |-> params.probe, told |-> FALSE] \in Goroutine
    BY HealthAssumption DEF Goroutine
  <2> QED
    BY <1>8, <2>1 DEF StartLatency, managerVars
<1>9. CASE ProbeEnds
  BY <1>9 DEF ProbeEnds, managerVars
<1>10. CASE Tick
  BY <1>10 DEF Tick, managerVars
<1>11. CASE Receive
  BY <1>11 DEF Receive, managerVars
<1>12. CASE Reset
  <2>1. \A g \in Slot : [gor[g] EXCEPT !.told = TRUE] \in Goroutine
    BY DEF Goroutine
  <2> QED
    BY <1>12, <2>1 DEF Reset, managerVars
<1>13. ASSUME NEW g \in Slot, Stops(g) PROVE LoopTypeOK'
  BY <1>13 DEF Stops, managerVars, Goroutine, NoGoroutine
<1>14. CASE UNCHANGED loopState
  BY <1>14 DEF loopState, managerVars, loopVars
<1> QED
  BY <1>1, <1>2, <1>3, <1>4, <1>5, <1>6, <1>7, <1>8, <1>9, <1>10, <1>11, <1>12, <1>13, <1>14
  DEF LoopNext, LoopStep, Run

\* Every variable of the loop and of the manager's settings keeps its type.
THEOREM LoopTypeCorrect == LoopSpec => []LoopTypeOK
  BY LoopTypeInit, LoopTypeStep, PTL DEF LoopSpec

----------------------------------------------------------------------------
\* A latency goroutine is started only after the last one has been told to stop.

LEMMA StopStep ==
    ASSUME LoopTypeOK, LoopTypeOK', StopIsSet, [LoopNext]_loopState
    PROVE  StopIsSet'
<1> USE DEF StopIsSet
<1>1. CASE UNCHANGED loopVars
  BY <1>1 DEF loopVars
<1>2. CASE RunBegins \/ ProbeEnds \/ Tick \/ Receive
  BY <1>2 DEF RunBegins, ProbeEnds, Tick, Receive
<1>3. CASE StartLatency
  BY <1>3, HealthAssumption DEF StartLatency, LoopTypeOK
<1>4. CASE Reset
  BY <1>4 DEF Reset
<1>5. ASSUME NEW g \in Slot, Stops(g) PROVE StopIsSet'
  <2>1. g # latStop
    BY <1>5, HealthAssumption DEF Stops
  <2> QED
    BY <1>5, <2>1 DEF Stops, LoopTypeOK
<1> QED
  BY <1>1, <1>2, <1>3, <1>4, <1>5
  DEF LoopNext, LoopStep, Run, ApplyHealth, SetDNSCacheTTL, Signal, TellTunnel, CreateTunnel,
      RemoveTunnel, loopState

LEMMA OneTickerStep ==
    ASSUME LoopTypeOK, LoopTypeOK', StopIsSet, OneLatencyTicker, [LoopNext]_loopState
    PROVE  OneLatencyTicker'
<1> USE DEF OneLatencyTicker
<1>1. CASE UNCHANGED loopVars
  BY <1>1 DEF loopVars
<1>2. CASE RunBegins \/ ProbeEnds \/ Tick \/ Receive
  BY <1>2 DEF RunBegins, ProbeEnds, Tick, Receive
<1>3. CASE StartLatency
  BY <1>3, HealthAssumption DEF StartLatency, LoopTypeOK, StopIsSet
<1>4. CASE Reset
  BY <1>4 DEF Reset, LoopTypeOK, Goroutine
<1>5. ASSUME NEW g \in Slot, Stops(g) PROVE OneLatencyTicker'
  BY <1>5 DEF Stops, LoopTypeOK, NoGoroutine
<1> QED
  BY <1>1, <1>2, <1>3, <1>4, <1>5
  DEF LoopNext, LoopStep, Run, ApplyHealth, SetDNSCacheTTL, Signal, TellTunnel, CreateTunnel,
      RemoveTunnel, loopState

\* However often the settings change, one latency goroutine at most is left to tick.
THEOREM OneTicker == LoopSpec => []OneLatencyTicker
<1>1. LoopInit => StopIsSet /\ OneLatencyTicker
  BY DEF LoopInit, StopIsSet, OneLatencyTicker, NoGoroutine
<1> QED
  BY <1>1, LoopTypeCorrect, StopStep, OneTickerStep, PTL DEF LoopSpec

----------------------------------------------------------------------------
\* A period that is out of date has a signal on its way.

\* A setter that leaves the callers that owe a signal as they are leaves it due.
LEMMA SignalStaysDue ==
    ASSUME LoopTypeOK, LoopBehindIsTold, UNCHANGED <<params, reload, loopVars>>,
           \A c \in Caller : call[c].pc = "signal" => call'[c].pc = "signal"
    PROVE  LoopBehindIsTold'
  BY DEF LoopBehindIsTold, SignalDue, Period, loopVars

LEMMA BehindStep ==
    ASSUME LoopTypeOK, StopIsSet, LoopBehindIsTold, [LoopNext]_loopState
    PROVE  LoopBehindIsTold'
<1>1. ASSUME NEW c \in Caller, NEW h \in Health, ApplyHealth(c, h) PROVE LoopBehindIsTold'
  <2>1. call'[c].pc = "signal"
    BY <1>1 DEF ApplyHealth, LoopTypeOK
  <2> QED
    BY <2>1 DEF LoopBehindIsTold, SignalDue
<1>2. ASSUME NEW c \in Caller, NEW d \in TTL, SetDNSCacheTTL(c, d) PROVE LoopBehindIsTold'
  BY <1>2, SignalStaysDue DEF SetDNSCacheTTL, Idle, LoopTypeOK
<1>3. ASSUME NEW c \in Caller, Signal(c) PROVE LoopBehindIsTold'
  BY <1>3 DEF Signal, LoopBehindIsTold, SignalDue
<1>4. ASSUME NEW c \in Caller, NEW t \in Tunnel, TellTunnel(c, t) PROVE LoopBehindIsTold'
  BY <1>4, SignalStaysDue DEF TellTunnel, LoopTypeOK
<1>5. ASSUME NEW t \in Tunnel, CreateTunnel(t) \/ RemoveTunnel(t) PROVE LoopBehindIsTold'
  BY <1>5, SignalStaysDue DEF CreateTunnel, RemoveTunnel
<1>6. CASE RunBegins
  BY <1>6 DEF RunBegins, managerVars, LoopBehindIsTold
<1>7. CASE StartLatency
  <2>1. params' = params /\ ticker' = ticker /\ SignalDue' = SignalDue
    BY <1>7 DEF StartLatency, managerVars, SignalDue
  <2>2. Period' = params.probe
    <3>1. latStop = NoSlot
      BY <1>7 DEF StartLatency, StopIsSet
    <3>2. CASE params.probe = 0
      BY <1>7, <3>1, <3>2 DEF StartLatency, Period
    <3>3. CASE params.probe # 0
      BY <1>7, <3>3, HealthAssumption DEF StartLatency, Period, LoopTypeOK
    <3> QED
      BY <3>2, <3>3
  <2>3. pc \notin {"new", "reset"}
    BY <1>7 DEF StartLatency
  <2> QED
    BY <2>1, <2>2, <2>3 DEF LoopBehindIsTold
<1>8. CASE ProbeEnds \/ Tick
  BY <1>8 DEF ProbeEnds, Tick, managerVars, LoopBehindIsTold, SignalDue, Period
<1>9. CASE Receive
  BY <1>9 DEF Receive, LoopBehindIsTold
<1>10. CASE Reset
  BY <1>10 DEF Reset, managerVars, LoopBehindIsTold
<1>11. ASSUME NEW g \in Slot, Stops(g) PROVE LoopBehindIsTold'
  <2>1. g # latStop
    BY <1>11, HealthAssumption DEF Stops, StopIsSet
  <2>2. Period' = Period
    BY <1>11, <2>1 DEF Stops, Period, LoopTypeOK
  <2> QED
    BY <1>11, <2>2 DEF Stops, managerVars, LoopBehindIsTold, SignalDue
<1>12. CASE UNCHANGED loopState
  BY <1>12, SignalStaysDue DEF loopState, managerVars
<1> QED
  BY <1>1, <1>2, <1>3, <1>4, <1>5, <1>6, <1>7, <1>8, <1>9, <1>10, <1>11, <1>12
  DEF LoopNext, LoopStep, Run

\* When a ticker has another period than the settings ask for, a signal is in the channel,
\* or about to be sent, or Run is on its way to read that period: no change of the
\* intervals is lost, although the channel drops signals and has one place.
THEOREM BehindIsTold == LoopSpec => []LoopBehindIsTold
<1>1. LoopInit => StopIsSet /\ LoopBehindIsTold
  BY DEF LoopInit, StopIsSet, LoopBehindIsTold
<1> QED
  BY <1>1, LoopTypeCorrect, StopStep, BehindStep, PTL DEF LoopSpec

=============================================================================
