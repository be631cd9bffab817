------------------------------ MODULE HealthLoop ------------------------------
(***************************************************************************)
(* The health loop (Manager.Run, internal/tunnel/tunnel.go) and the        *)
(* settings of the tunnel manager that change while it runs: the intervals *)
(* it waits for, handed over by a signal in a channel of one place, and    *)
(* the lifetime of DNS answers, handed on to every tunnel.                 *)
(*                                                                         *)
(* Actors: the goroutine of Run, the latency goroutines it starts and      *)
(* tells to stop, the goroutines that call ApplyHealth or SetDNSCacheTTL   *)
(* (Caller), and Sync, which creates and removes tunnels.  What a round of *)
(* probes does is module TunnelManager.  There is no clock: a ticker may   *)
(* fire at any time.                                                       *)
(***************************************************************************)
EXTENDS Integers, FiniteSets

CONSTANTS
    Health,   \* health settings: the interval and the probe interval (0 is off), in seconds
    TTL,      \* lifetimes of DNS answers
    Tunnel,   \* tunnels ever created
    Caller,   \* goroutines that may be inside a setter at one time
    Slot,     \* bound: latency goroutines that exist at one time
    NoSlot    \* latStop is nil

ASSUME HealthAssumption ==
    /\ Health \subseteq [interval : Nat \ {0}, probe : Nat] /\ Health # {}
    /\ TTL \subseteq Nat /\ TTL # {}
    /\ NoSlot \notin Slot

VARIABLES
    params,   \* m.interval and m.probeIvl
    reload,   \* m.reload holds its one signal
    dnsTTL,   \* m.dnsTTL
    tun,      \* tun[t]: t is still to be created, managed or removed
    ttl,      \* ttl[t]: the lifetime t's cache goes by
    call,     \* call[c]: where caller c stands in a setter
    pc,       \* where Run stands
    ticker,   \* the interval of healthT
    gor,      \* gor[g]: the period of a latency goroutine, 0 for none; told it is to stop
    latStop   \* the goroutine latStop belongs to

managerVars == <<params, dnsTTL, tun, ttl, call>>
loopVars == <<pc, ticker, gor, latStop>>
loopState == <<managerVars, reload, loopVars>>

Idle == [pc |-> "idle"]
Call == {Idle, [pc |-> "signal"]} \cup [pc : {"ttl"}, ttl : TTL, todo : (SUBSET Tunnel) \ {{}}]
Goroutine == [per : Nat, told : BOOLEAN]
NoGoroutine == [per |-> 0, told |-> FALSE]

\* Every variable keeps its type.
LoopTypeOK ==
    /\ params \in Health /\ reload \in BOOLEAN
    /\ dnsTTL \in TTL
    /\ tun \in [Tunnel -> {"new", "in", "gone"}]
    /\ ttl \in [Tunnel -> TTL]
    /\ call \in [Caller -> Call]
    /\ pc \in {"new", "boot", "probing", "select", "reset", "latency"}
    /\ ticker \in {h.interval : h \in Health} \cup {0}
    /\ gor \in [Slot -> Goroutine]
    /\ latStop \in Slot \cup {NoSlot}

\* main sets the intervals before it starts Run; the probe interval leaves a signal.
LoopInit ==
    /\ params \in Health /\ reload = (params.probe # 0)
    /\ dnsTTL \in TTL
    /\ tun = [t \in Tunnel |-> "new"]
    /\ ttl = [t \in Tunnel |-> dnsTTL]
    /\ call = [c \in Caller |-> Idle]
    /\ pc = "new" /\ ticker = 0
    /\ gor = [g \in Slot |-> NoGoroutine]
    /\ latStop = NoSlot

----------------------------------------------------------------------------
\* The setters

\* ApplyHealth under m.mu.  (Its threshold and latency limit are in TunnelManager.)
ApplyHealth(c, h) ==
    /\ call[c] = Idle
    /\ params' = h
    /\ call' = [call EXCEPT ![c] = [pc |-> "signal"]]
    /\ UNCHANGED <<dnsTTL, tun, ttl, reload, loopVars>>

\* After the lock: a signal, unless there is one already.
Signal(c) ==
    /\ call[c].pc = "signal"
    /\ reload' = TRUE
    /\ call' = [call EXCEPT ![c] = Idle]
    /\ UNCHANGED <<params, dnsTTL, tun, ttl, loopVars>>

\* The tunnels in m.entries.
Managed == {t \in Tunnel : tun[t] = "in"}
\* Mutant of Telling: the setter goes on when there is nothing left to tell.
TellingNone(d, todo) == [pc |-> "ttl", ttl |-> d, todo |-> todo]
Telling(d, todo) == IF todo = {} THEN Idle ELSE [pc |-> "ttl", ttl |-> d, todo |-> todo]

\* SetDNSCacheTTL collects the tunnels under m.mu.
SetDNSCacheTTL(c, d) ==
    /\ call[c] = Idle
    /\ dnsTTL' = d
    /\ call' = [call EXCEPT ![c] = Telling(d, Managed)]
    /\ UNCHANGED <<params, tun, ttl, reload, loopVars>>

\* After the lock: one tunnel after the other is told, removed or not.
TellTunnel(c, t) ==
    /\ call[c].pc = "ttl" /\ t \in call[c].todo
    /\ ttl' = [ttl EXCEPT ![t] = call[c].ttl]
    /\ call' = [call EXCEPT ![c] = Telling(call[c].ttl, call[c].todo \ {t})]
    /\ UNCHANGED <<params, dnsTTL, tun, reload, loopVars>>

\* Sync, under m.mu, creates a tunnel and gives it the lifetime of the moment.
CreateTunnel(t) ==
    /\ tun[t] = "new"
    /\ tun' = [tun EXCEPT ![t] = "in"]
    /\ ttl' = [ttl EXCEPT ![t] = dnsTTL]
    /\ UNCHANGED <<params, dnsTTL, call, reload, loopVars>>

RemoveTunnel(t) ==
    /\ tun[t] = "in"
    /\ tun' = [tun EXCEPT ![t] = "gone"]
    /\ UNCHANGED <<params, dnsTTL, ttl, call, reload, loopVars>>

----------------------------------------------------------------------------
\* Run

\* The first interval is read without the lock, before or after a setter's write.
RunBegins ==
    /\ pc = "new"
    /\ ticker' = params.interval
    /\ pc' = "boot"
    /\ UNCHANGED <<managerVars, reload, gor, latStop>>

\* startLatency.  At the start a round of probes follows, after a reload none.
StartLatency ==
    /\ pc \in {"boot", "latency"}
    /\ IF params.probe = 0 THEN UNCHANGED <<gor, latStop>>
       ELSE \E g \in Slot :
                /\ gor[g] = NoGoroutine
                /\ gor' = [gor EXCEPT ![g] = [per |-> params.probe, told |-> FALSE]]
                /\ latStop' = g
    /\ pc' = IF pc = "boot" THEN "probing" ELSE "select"
    /\ UNCHANGED <<managerVars, reload, ticker>>

\* probeAll returns: every probe has a time limit.
ProbeEnds ==
    /\ pc = "probing" /\ pc' = "select"
    /\ UNCHANGED <<managerVars, reload, ticker, gor, latStop>>

\* A tick of healthT, or one forwarded by a latency goroutine, or by one that has ended.
Tick ==
    /\ pc = "select" /\ pc' = "probing"
    /\ UNCHANGED <<managerVars, reload, ticker, gor, latStop>>

\* The signal is taken out of the channel before the intervals are read.
Receive ==
    /\ pc = "select" /\ reload
    /\ pc' = "reset" /\ reload' = FALSE
    /\ UNCHANGED <<managerVars, ticker, gor, latStop>>

\* Mutants of Reset: it leaves the latency goroutine running; it returns to the select
\* with the latency goroutine of the old period, or with none.
ResetKeepsLatency ==
    /\ pc = "reset"
    /\ ticker' = params.interval
    /\ latStop' = NoSlot
    /\ pc' = "latency"
    /\ UNCHANGED <<managerVars, reload, gor>>
ResetOnly ==
    /\ pc = "reset"
    /\ ticker' = params.interval
    /\ pc' = "select"
    /\ UNCHANGED <<managerVars, reload, gor, latStop>>

ResetStops ==
    /\ pc = "reset"
    /\ ticker' = params.interval
    /\ gor' = [g \in Slot |-> IF g = latStop THEN [gor[g] EXCEPT !.told = TRUE] ELSE gor[g]]
    /\ latStop' = NoSlot
    /\ pc' = "select"
    /\ UNCHANGED <<managerVars, reload>>

\* healthT.Reset and stopLatency.
Reset ==
    /\ pc = "reset"
    /\ ticker' = params.interval
    /\ gor' = [g \in Slot |-> IF g = latStop THEN [gor[g] EXCEPT !.told = TRUE] ELSE gor[g]]
    /\ latStop' = NoSlot
    /\ pc' = "latency"
    /\ UNCHANGED <<managerVars, reload>>

\* A latency goroutine that has been told to stop does so.
Stops(g) ==
    /\ gor[g].told
    /\ gor' = [gor EXCEPT ![g] = NoGoroutine]
    /\ UNCHANGED <<managerVars, reload, pc, ticker, latStop>>

Run == RunBegins \/ StartLatency \/ ProbeEnds \/ Tick \/ Receive \/ Reset

LoopStep == Run \/ \E g \in Slot : Stops(g)

LoopNext ==
    \/ \E c \in Caller, h \in Health : ApplyHealth(c, h)
    \/ \E c \in Caller, d \in TTL : SetDNSCacheTTL(c, d)
    \/ \E c \in Caller : Signal(c) \/ \E t \in Tunnel : TellTunnel(c, t)
    \/ \E t \in Tunnel : CreateTunnel(t) \/ RemoveTunnel(t)
    \/ LoopStep

LoopSpec == LoopInit /\ [][LoopNext]_loopState

\* The goroutine of Run runs whenever it can, its probes return, and the select chooses
\* at random among what is ready: the signal cannot be passed over for ever for ticks.
LoopFairness ==
    /\ WF_loopState(Run)
    /\ SF_loopState(Receive)
    /\ \A g \in Slot : WF_loopState(Stops(g))

----------------------------------------------------------------------------
\* Properties

Period == IF latStop = NoSlot THEN 0 ELSE gor[latStop].per
SignalDue == reload \/ \E c \in Caller : call[c].pc = "signal"

\* The loop never sleeps on intervals that are out of date: when one of its tickers has
\* another period than the manager's settings ask for, a signal is in the channel, or a
\* setter is about to send one, or the loop is on its way to read that period.  (The
\* channel has one place, signals are dropped, and the two periods are read under
\* separate locks after the signal has been taken.)
LoopBehindIsTold ==
    /\ ticker # params.interval => SignalDue \/ pc \in {"new", "reset"}
    /\ Period # params.probe => SignalDue \/ pc \in {"new", "boot", "reset", "latency"}

\* However often the settings change, at most one latency goroutine goes on ticking: every
\* other one has been told to stop.
OneLatencyTicker ==
    \A g \in Slot : gor[g].per # 0 /\ ~gor[g].told => g = latStop

\* Once the settings stay as they are the loop comes to run by them, and goes on so.
LoopFollows ==
    \A h \in Health : <>[](params = h) => <>[](ticker = h.interval /\ Period = h.probe)

=============================================================================
