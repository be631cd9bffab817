---------------------------- MODULE TunnelManager ----------------------------
(***************************************************************************)
(* The tunnel manager (internal/tunnel/tunnel.go, type Manager) and the    *)
(* device of each tunnel it owns (wiretunnel.go, type wireTunnel).         *)
(*                                                                         *)
(* Actors: whoever calls Sync (the web handlers and start-up), the health  *)
(* loop with one probe goroutine per running upstream, the web handlers    *)
(* that ask for a manual rebuild (Request) and the goroutines RecordProbe  *)
(* starts for an automatic one (AutoSlot).  A critical section of m.mu is  *)
(* one action; the two halves of wireTunnel.Rebuild, which each take only  *)
(* the tunnel's own w.mu, are two.                                         *)
(*                                                                         *)
(* A deleted upstream that comes back under its ID gets a new tunnelEntry, *)
(* while goroutines may still hold the old one: entries are told apart by  *)
(* a generation, and a tunnel is a pair <<upstream, generation>>.          *)
(***************************************************************************)
EXTENDS Integers, Sequences, FiniteSets, Functions

CONSTANTS
    Upstream,    \* upstream IDs
    Listing,     \* the orders in which a configuration may list upstreams
    Malformed,   \* the ones whose factory call fails (WireFactory, bad address)
    Key,         \* configuration fingerprints
    Keying,      \* the fingerprints a configuration may give the upstreams
    Request,     \* handlers that may be inside Manager.Rebuild at one time
    AutoSlot,    \* automatic rebuild goroutines that may exist at one time
    Threshold,   \* values of m.threshold
    LatencyMax,  \* values of m.latencyMax, 0 switching the limit off
    Latency,     \* latencies a probe can measure (0 is "unknown")
    MaxGen,      \* bound: entries ever created under one ID
    MaxFails     \* bound: where the failure counter saturates

Worker == Request \cup AutoSlot
Tunnel == Upstream \X (1..MaxGen)

ASSUME ConstantsAssumption ==
    /\ Upstream # {} /\ Key # {}
    /\ Listing \subseteq {s \in Seq(Upstream) : IsInjective(s)} /\ <<>> \in Listing
    /\ Malformed \subseteq Upstream
    /\ Keying \subseteq [Upstream -> Key]
    /\ Request \cap AutoSlot = {}
    /\ MaxGen \in Nat \ {0}
    /\ MaxFails \in Nat
    /\ Threshold \subseteq 1..MaxFails /\ Threshold # {}
    /\ LatencyMax \subseteq Nat /\ LatencyMax # {}
    /\ Latency \subseteq Nat \ {0}

VARIABLES
    order,       \* m.order
    entries,     \* the IDs m.entries holds
    gen,         \* gen[u]: the generation of u's newest entry, 0 before the first
    enabled,     \* the upstreams the last Sync was asked to run
    synced,      \* how the last Sync ended
    built,       \* built[t]: the fingerprint frozen in t by the factory
    running,     \* entry t: e.running
    rebuilding,  \* entry t: e.rebuilding
    healthy,     \* entry t: e.state.Healthy
    fails,       \* entry t: e.state.ConsecutiveFails
    latency,     \* entry t: e.state.LastLatency, 0 when unknown
    dev,         \* dev[t]: w.dev # nil, the WireGuard device is up
    threshold,   \* m.threshold
    latencyMax,  \* m.latencyMax
    probe,       \* probe[u]: the probe goroutine of u
    pc,          \* pc[w]: where rebuild goroutine w stands
    on           \* on[w]: the entry it holds (while polling, the upstream asked for)

syncVars   == <<order, entries, gen, enabled, synced, built>>
healthVars == <<healthy, fails, latency>>
paramVars  == <<threshold, latencyMax>>
workVars   == <<pc, on>>
vars == <<syncVars, running, rebuilding, healthVars, dev, paramVars, probe, workVars>>

----------------------------------------------------------------------------
\* States and inputs

\* What a caller hands to Sync, and the upstreams whose device cannot start now.
Configs == {c \in [ids : Listing, run : SUBSET Upstream, key : Keying,
                   down : SUBSET Upstream] : c.run \cup c.down \subseteq Range(c.ids)}

Probe == [pc : {"idle", "flying", "done"}, gen : 0..MaxGen,
          res : Latency \cup {0}]
PC == {"idle", "poll", "stop", "start", "settle", "clear"}
Busy == {"stop", "start", "settle", "clear"}

TypeOK ==
    /\ order \in Listing
    /\ entries \subseteq Upstream
    /\ gen \in [Upstream -> 0..MaxGen]
    /\ \A u \in entries : gen[u] # 0
    /\ enabled \subseteq Upstream
    /\ synced \in {"none", "ok", "error", "panic", "exit"}
    /\ built \in [Tunnel -> Key]
    /\ running \in [Tunnel -> BOOLEAN]
    /\ rebuilding \in [Tunnel -> BOOLEAN]
    /\ healthy \in [Tunnel -> BOOLEAN]
    /\ fails \in [Tunnel -> 0..MaxFails]
    /\ latency \in [Tunnel -> Latency \cup {0}]
    /\ dev \in [Tunnel -> BOOLEAN]
    /\ threshold \in Threshold
    /\ latencyMax \in LatencyMax
    /\ probe \in [Upstream -> Probe]
    /\ pc \in [Worker -> PC]
    /\ on \in [Worker -> Tunnel]

Current(u) == <<u, gen[u]>>
IsRunning(u) == u \in entries /\ running[Current(u)]
Managed(t) == t[1] \in entries /\ t = Current(t[1]) /\ running[t]

AnyTunnel == CHOOSE t \in Tunnel : TRUE
AnyKey == CHOOSE k \in Key : TRUE

Init ==
    /\ order = <<>> /\ entries = {} /\ enabled = {} /\ synced = "none"
    /\ gen = [u \in Upstream |-> 0]
    /\ built = [t \in Tunnel |-> AnyKey]
    /\ running = [t \in Tunnel |-> FALSE]
    /\ rebuilding = [t \in Tunnel |-> FALSE]
    /\ healthy = [t \in Tunnel |-> TRUE]
    /\ fails = [t \in Tunnel |-> 0]
    /\ latency = [t \in Tunnel |-> 0]
    /\ dev = [t \in Tunnel |-> FALSE]
    /\ threshold \in Threshold
    /\ latencyMax \in LatencyMax
    /\ probe = [u \in Upstream |-> [pc |-> "idle", gen |-> 0, res |-> 0]]
    /\ pc = [w \in Worker |-> "idle"]
    /\ on = [w \in Worker |-> AnyTunnel]

----------------------------------------------------------------------------
\* Sync: the whole call runs under m.mu.

\* The IDs the removal loop goes through m.order for.
Gone(c) == Range(order) \ Range(c.ids)

\* The first of them it finds no entry for: e := m.entries[id] is nil there and
\* e.running panics.
Nils(c) == {i \in DOMAIN order : order[i] \in Gone(c) \ entries}
PanicAt(c) == CHOOSE i \in Nils(c) : \A j \in Nils(c) : i <= j

\* The tunnels device teardown and start-up touch, Sync holding the configuration c.
Fresh(c) == Range(c.ids) \ (entries \cup Malformed)
Inst(c, u) == <<u, IF u \in Fresh(c) THEN gen[u] + 1 ELSE gen[u]>>
Kept(c) == {Inst(c, u) : u \in (entries \cap Range(c.ids)) \cup Fresh(c)}

\* Mutant of Removed: a tunnel that is being rebuilt is left to its goroutine.
RemovedIdle(c) == {t \in {Current(u) : u \in Gone(c)} : running[t] /\ ~rebuilding[t]}
Removed(c) == {t \in {Current(u) : u \in Gone(c)} : running[t]}

Changed(c) == {t \in Kept(c) : running[t] /\ built[t] # c.key[t[1]]}
Starting(c) == {t \in Kept(c) : t[1] \in c.run /\ ~running[t]}
\* Mutant of Stopping: a rebuild in flight keeps Sync from stopping the entry.
StoppingIdleOnly(c) == {t \in Kept(c) : t[1] \notin c.run /\ running[t] /\ ~rebuilding[t]}
Stopping(c) == {t \in Kept(c) : t[1] \notin c.run /\ running[t]}
\* wireTunnel.Start returns nil at once when the device is already up.
StartFails(c, t) == t[1] \in c.down /\ ~dev[t]
Started(c) == {t \in Starting(c) : ~StartFails(c, t)}

\* Mutant of NewOrder: the new IDs are appended to m.order instead of a fresh slice.
AppendedOrder(c) == order \o c.ids
\* Mutant of NewOrder: only the upstreams that had an entry are listed.
KnownOrder(c) == SelectSeq(c.ids, LAMBDA u : u \in entries)
NewOrder(c) == c.ids

SyncOutcome(c) ==
    IF \/ Range(c.ids) \cap Malformed # {}
       \/ Started(c) # Starting(c)
       \/ \E t \in Changed(c) : t[1] \in c.down
    THEN "error" ELSE "ok"

SyncAligns(c) ==
    LET fresh == Fresh(c)
        started == Started(c)
        stopping == Stopping(c)
        changed == Changed(c)
        torn == changed \cup stopping \cup Removed(c)
    IN
    /\ Nils(c) = {}
    /\ \A u \in fresh : gen[u] < MaxGen
    /\ order' = NewOrder(c)
    /\ entries' = (entries \ Gone(c)) \cup fresh
    /\ gen' = [u \in Upstream |-> Inst(c, u)[2]]
    /\ enabled' = c.run
    /\ built' = [t \in Tunnel |->
           IF t[1] \in fresh /\ t = Inst(c, t[1]) THEN c.key[t[1]] ELSE built[t]]
    /\ running' = [t \in Tunnel |-> (running[t] /\ t \notin stopping) \/ t \in started]
    /\ healthy' = [t \in Tunnel |-> healthy[t] \/ t \in started]
    /\ fails' = [t \in Tunnel |-> IF t \in started THEN 0 ELSE fails[t]]
    /\ dev' = [t \in Tunnel |->
           \/ t \in started
           \/ t \in changed \ stopping /\ t[1] \notin c.down
           \/ dev[t] /\ t \notin torn]
    /\ synced' = SyncOutcome(c)
    /\ UNCHANGED <<rebuilding, latency, paramVars, probe, workVars>>

\* The removals before the nil entry stay done; m.order and the rest are not reached.
SyncPanics(c) ==
    /\ Nils(c) # {}
    /\ LET gone == {order[i] : i \in 1..(PanicAt(c) - 1)} \ Range(c.ids)
           torn == {t \in {Current(u) : u \in gone} : running[t]}
       IN /\ entries' = entries \ gone
          /\ dev' = [t \in Tunnel |-> dev[t] /\ t \notin torn]
    /\ enabled' = c.run
    /\ synced' = "panic"
    /\ UNCHANGED <<order, gen, built, running, rebuilding, healthVars, paramVars, probe, workVars>>

Sync(c) == SyncAligns(c) \/ SyncPanics(c)

\* StopAll, called by main just before the process ends.
StopAll ==
    LET up == {t \in Tunnel : Managed(t)}
    IN /\ up # {}
       /\ running' = [t \in Tunnel |-> running[t] /\ t \notin up]
       /\ dev' = [t \in Tunnel |-> dev[t] /\ t \notin up]
       /\ synced' = "exit"
       /\ UNCHANGED <<order, entries, gen, enabled, built, rebuilding,
                      healthVars, paramVars, probe, workVars>>

\* ApplyHealth (and SetLatencyMax): hot reload of the two limits RecordProbe reads.
ApplyHealth(th, lm) ==
    /\ <<th, lm>> # paramVars
    /\ threshold' = th /\ latencyMax' = lm
    /\ UNCHANGED <<syncVars, running, rebuilding, healthVars, dev, probe, workVars>>

----------------------------------------------------------------------------
\* The health loop: one round at a time, one goroutine per running upstream.

ProbeAll ==
    /\ \A u \in Upstream : probe[u].pc = "idle"
    /\ \E u \in Upstream : IsRunning(u)
    /\ probe' = [u \in Upstream |->
           IF IsRunning(u) THEN [probe[u] EXCEPT !.pc = "flying", !.gen = gen[u]]
           ELSE probe[u]]
    /\ UNCHANGED <<syncVars, running, rebuilding, healthVars, dev, paramVars, workVars>>

\* m.probe returns: a latency needs the device the round captured to be up.
Measure(u, res) ==
    /\ probe[u].pc = "flying"
    /\ res # 0 => dev[<<u, probe[u].gen>>]
    /\ probe' = [probe EXCEPT ![u] = [@ EXCEPT !.pc = "done", !.res = res]]
    /\ UNCHANGED <<syncVars, running, rebuilding, healthVars, dev, paramVars, workVars>>

Reported(u) == probe[u].pc = "done"
ProbeEnds(u) == probe' = [probe EXCEPT ![u] = [pc |-> "idle", gen |-> 0, res |-> 0]]

\* The result of u's probe counts as a success of the tunnel.
Passed(u) == probe[u].res # 0 /\ (latencyMax = 0 \/ probe[u].res <= latencyMax)

\* LastLatency after a measurement: the first one as it is, then the moving average,
\* which lies between the old value and the new one.
Smoothed(old, new) ==
    IF old = 0 THEN {new}
    ELSE {l \in Latency : (old <= l /\ l <= new) \/ (new <= l /\ l <= old)}

\* RecordProbe looks the ID up again: the entry may be gone, or be another one.
RecordMissing(u) ==
    /\ Reported(u) /\ u \notin entries
    /\ ProbeEnds(u)
    /\ UNCHANGED <<syncVars, running, rebuilding, healthVars, dev, paramVars, workVars>>

RecordSuccess(u) ==
    /\ Reported(u) /\ u \in entries /\ Passed(u)
    /\ ProbeEnds(u)
    /\ \E l \in Smoothed(latency[Current(u)], probe[u].res) :
           latency' = [latency EXCEPT ![Current(u)] = l]
    /\ healthy' = [healthy EXCEPT ![Current(u)] = TRUE]
    /\ fails' = [fails EXCEPT ![Current(u)] = 0]
    /\ UNCHANGED <<syncVars, running, rebuilding, dev, paramVars, workVars>>

\* ConsecutiveFails++, and the threshold test.
FailsAfter(t) == IF fails[t] < MaxFails THEN fails[t] + 1 ELSE MaxFails

StaysHealthy(t) == healthy[t] /\ FailsAfter(t) < threshold

\* Mutants of NeedsRebuild: blind to a rebuild in flight; only on the turn to unhealthy.
NeedsRebuildAgain(t) == ~StaysHealthy(t) /\ running[t]
NeedsRebuildOnce(t) == healthy[t] /\ ~StaysHealthy(t) /\ running[t] /\ ~rebuilding[t]

NeedsRebuild(t) == ~StaysHealthy(t) /\ running[t] /\ ~rebuilding[t]

\* A failed probe, or a latency over the limit: at the threshold the tunnel turns
\* unhealthy, and an unhealthy running tunnel gets a rebuild goroutine.
RecordFailure(u) ==
    LET t == Current(u)
    IN /\ Reported(u) /\ u \in entries /\ ~Passed(u)
       /\ ProbeEnds(u)
       /\ IF probe[u].res = 0 THEN latency' = latency
          ELSE \E l \in Smoothed(latency[t], probe[u].res) :
                   latency' = [latency EXCEPT ![t] = l]
       /\ fails' = [fails EXCEPT ![t] = FailsAfter(t)]
       /\ healthy' = [healthy EXCEPT ![t] = StaysHealthy(t)]
       /\ \/ /\ NeedsRebuild(t)
             /\ rebuilding' = [rebuilding EXCEPT ![t] = TRUE]
             /\ \E w \in AutoSlot :
                    /\ pc[w] = "idle"
                    /\ pc' = [pc EXCEPT ![w] = "stop"]
                    /\ on' = [on EXCEPT ![w] = t]
          \/ ~NeedsRebuild(t) /\ UNCHANGED <<rebuilding, workVars>>
       /\ UNCHANGED <<syncVars, running, dev, paramVars>>

----------------------------------------------------------------------------
\* Manager.Rebuild: the handler looks the ID up every 50 ms until it can begin.

RequestRebuild(r, u) ==
    /\ pc[r] = "idle"
    /\ pc' = [pc EXCEPT ![r] = "poll"]
    /\ on' = [on EXCEPT ![r] = <<u, 1>>]
    /\ UNCHANGED <<syncVars, running, rebuilding, healthVars, dev, paramVars, probe>>

Asked(r) == on[r][1]
Leave(w) == pc' = [pc EXCEPT ![w] = "idle"] /\ on' = [on EXCEPT ![w] = AnyTunnel]

\* Mutant of PollReject: an entry that stopped running is waited for.
PollRejectMissing(r) ==
    /\ pc[r] = "poll" /\ Asked(r) \notin entries
    /\ Leave(r)
    /\ UNCHANGED <<syncVars, running, rebuilding, healthVars, dev, paramVars, probe>>

\* ErrTunnelNotFound and ErrTunnelNotRunning.
PollReject(r) ==
    /\ pc[r] = "poll" /\ ~IsRunning(Asked(r))
    /\ Leave(r)
    /\ UNCHANGED <<syncVars, running, rebuilding, healthVars, dev, paramVars, probe>>

\* The caller's context ends while another rebuild is in flight.
PollCancel(r) ==
    /\ pc[r] = "poll" /\ IsRunning(Asked(r)) /\ rebuilding[Current(Asked(r))]
    /\ Leave(r)
    /\ UNCHANGED <<syncVars, running, rebuilding, healthVars, dev, paramVars, probe>>

\* Mutant of PollBegin: no test of e.running.
PollBeginStopped(r) ==
    LET t == Current(Asked(r))
    IN /\ pc[r] = "poll" /\ Asked(r) \in entries /\ ~rebuilding[t]
       /\ rebuilding' = [rebuilding EXCEPT ![t] = TRUE]
       /\ pc' = [pc EXCEPT ![r] = "stop"]
       /\ on' = [on EXCEPT ![r] = t]
       /\ UNCHANGED <<syncVars, running, healthVars, dev, paramVars, probe>>

PollBegin(r) ==
    LET t == Current(Asked(r))
    IN /\ pc[r] = "poll" /\ IsRunning(Asked(r)) /\ ~rebuilding[t]
       /\ rebuilding' = [rebuilding EXCEPT ![t] = TRUE]
       /\ pc' = [pc EXCEPT ![r] = "stop"]
       /\ on' = [on EXCEPT ![r] = t]
       /\ UNCHANGED <<syncVars, running, healthVars, dev, paramVars, probe>>

\* t.Rebuild outside m.mu: Stop, then Start, each under w.mu alone.
RebuildStop(w) ==
    /\ pc[w] = "stop"
    /\ dev' = [dev EXCEPT ![on[w]] = FALSE]
    /\ pc' = [pc EXCEPT ![w] = "start"]
    /\ UNCHANGED <<syncVars, running, rebuilding, healthVars, paramVars, probe, on>>

\* Mutant of RebuildStart: a failure returns past the deferred function.
RebuildStartLeaks(w, ok) ==
    /\ pc[w] = "start"
    /\ dev[on[w]] => ok
    /\ dev' = [dev EXCEPT ![on[w]] = ok]
    /\ pc' = [pc EXCEPT ![w] = IF ok THEN "settle" ELSE "idle"]
    /\ UNCHANGED <<syncVars, running, rebuilding, healthVars, paramVars, probe, on>>

\* ok: the endpoint resolves and the device comes up.
RebuildStart(w, ok) ==
    /\ pc[w] = "start"
    /\ dev[on[w]] => ok
    /\ dev' = [dev EXCEPT ![on[w]] = ok]
    /\ pc' = [pc EXCEPT ![w] = IF ok THEN "settle" ELSE "clear"]
    /\ UNCHANGED <<syncVars, running, rebuilding, healthVars, paramVars, probe, on>>

\* Mutant of Settle: the failure counter survives a manual rebuild.
SettleKeepsFails(w) ==
    /\ pc[w] = "settle"
    /\ latency' = [latency EXCEPT ![on[w]] = 0]
    /\ healthy' = [healthy EXCEPT ![on[w]] = @ \/ w \in Request]
    /\ pc' = [pc EXCEPT ![w] = "clear"]
    /\ UNCHANGED <<syncVars, running, rebuilding, fails, dev, paramVars, probe, on>>

\* After a success the latency is unknown again; only a manual rebuild also
\* declares the tunnel healthy.
Settle(w) ==
    /\ pc[w] = "settle"
    /\ latency' = [latency EXCEPT ![on[w]] = 0]
    /\ IF w \in Request
       THEN /\ healthy' = [healthy EXCEPT ![on[w]] = TRUE]
            /\ fails' = [fails EXCEPT ![on[w]] = 0]
       ELSE UNCHANGED <<healthy, fails>>
    /\ pc' = [pc EXCEPT ![w] = "clear"]
    /\ UNCHANGED <<syncVars, running, rebuilding, dev, paramVars, probe, on>>

\* The deferred function, run whether the rebuild succeeded or not.
Clear(w) ==
    /\ pc[w] = "clear"
    /\ rebuilding' = [rebuilding EXCEPT ![on[w]] = FALSE]
    /\ Leave(w)
    /\ UNCHANGED <<syncVars, running, healthVars, dev, paramVars, probe>>

----------------------------------------------------------------------------
Next ==
    \/ \E c \in Configs : Sync(c)
    \/ StopAll
    \/ \E th \in Threshold, lm \in LatencyMax : ApplyHealth(th, lm)
    \/ ProbeAll
    \/ \E u \in Upstream, res \in Latency \cup {0} : Measure(u, res)
    \/ \E u \in Upstream : RecordMissing(u) \/ RecordSuccess(u) \/ RecordFailure(u)
    \/ \E r \in Request, u \in Upstream : RequestRebuild(r, u)
    \/ \E r \in Request : PollReject(r) \/ PollCancel(r) \/ PollBegin(r)
    \/ \E w \in Worker : RebuildStop(w) \/ Settle(w) \/ Clear(w)
    \/ \E w \in Worker, ok \in BOOLEAN : RebuildStart(w, ok)

Spec == Init /\ [][Next]_vars

\* Go runs every goroutine that can run: the health loop, the probes it waits for and
\* the rebuild goroutines.  The 50 ms poll samples the rebuilding flag often enough
\* to find it clear when it is clear again and again (strong fairness), and name
\* resolution and the device do not fail for ever.
Fairness ==
    /\ WF_vars(ProbeAll)
    /\ \A u \in Upstream :
           /\ WF_vars(\E res \in Latency \cup {0} : Measure(u, res))
           /\ WF_vars(RecordMissing(u) \/ RecordSuccess(u) \/ RecordFailure(u))
    /\ \A r \in Request : WF_vars(PollReject(r)) /\ SF_vars(PollBegin(r))
    /\ \A w \in Worker :
           /\ WF_vars(RebuildStop(w) \/ Settle(w) \/ Clear(w))
           /\ WF_vars(\E ok \in BOOLEAN : RebuildStart(w, ok))
           /\ SF_vars(RebuildStart(w, TRUE))

FairSpec == Spec /\ Fairness

----------------------------------------------------------------------------
\* Properties

\* The rebuilding flag is a lock on the entry: no two goroutines are ever inside
\* t.Rebuild on behalf of the same entry, whatever mixture of manual requests and
\* failed probes asked for it, and the flag is up exactly while one is.
RebuildExclusive ==
    /\ \A w1, w2 \in Worker :
           pc[w1] \in Busy /\ pc[w2] \in Busy /\ on[w1] = on[w2] => w1 = w2
    /\ \A t \in Tunnel : rebuilding[t] <=> \E w \in Worker : pc[w] \in Busy /\ on[w] = t

\* Health and the failure counter agree across Sync, manual rebuilds, results that
\* arrive during a rebuild and thresholds changed while failures are being counted:
\* an unhealthy entry has failed at least as often in a row as the smallest threshold
\* in use, and a healthy one less often than the largest.
HealthTracksFailures ==
    \A t \in Tunnel :
        /\ ~healthy[t] => \E n \in Threshold : fails[t] >= n
        /\ healthy[t] => \E n \in Threshold : fails[t] < n

\* A tunnel that is stopped, down and not being rebuilt is left alone by probes,
\* rebuild requests and parameter changes: it leaves that state only by a Sync that
\* starts it (Manager.Rebuild must not wake a tunnel the Manager has stopped).
Asleep(t) == ~Managed(t) /\ ~rebuilding[t] /\ ~dev[t]
SleepersStayAsleep == [][\A t \in Tunnel : Asleep(t) => Asleep(t)' \/ Managed(t)']_vars

\* What the lifecycle of TunnelLifecycle knows of the manager's state.
PhaseOf(t) ==
    CASE t[2] > gen[t[1]]                          -> "new"
      [] t = Current(t[1]) /\ t[1] \in entries /\ running[t] -> "running"
      [] t = Current(t[1]) /\ t[1] \in entries /\ ~running[t] -> "stopped"
      [] OTHER                                     -> "removed"
Phases == [t \in Tunnel |-> PhaseOf(t)]
Holds == [w \in Worker |-> IF pc[w] \in Busy THEN on[w] ELSE <<>>]

Lifecycle == INSTANCE TunnelLifecycle
                 WITH phase <- Phases, up <- dev, held <- Holds, Nothing <- <<>>

\* Requests, probes, rebuilds and Syncs, interleaved as they like, amount to the lifecycle
\* of TunnelLifecycle: a removed entry is never run again, a device is touched only by
\* Sync, StopAll or the one goroutine whose rebuild was begun while the entry ran, and
\* what Sync starts and stops is up and down when it returns.
FollowsLifecycle == Lifecycle!Spec

\* Between two Syncs the entries that run are upstreams the last one was asked to run:
\* none that was disabled or deleted keeps being routed to.
RunningAreEnabled == \A u \in Upstream : IsRunning(u) => u \in enabled

\* A Sync that returned, whatever it could not build or start, has stopped everything
\* it was not asked to run, and so has StopAll, even when Syncs before it had panicked:
\* only a Sync that panicked leaves more running than the configuration asks for.
OnlyPanicsMisalign == synced # "panic" => RunningAreEnabled

\* Every entry the Manager holds is in m.order, through rejected upstreams and Syncs that
\* panic half way: the removal loop and the status page go through m.order, so an entry
\* that was not listed there could never be removed again.
EntriesAreListed == entries \subseteq Range(order)

\* A device is up only for an entry the Manager has and runs: Stop, and the removal
\* of an upstream, are final until Sync starts it again.
NoOrphanDevice == \A t \in Tunnel : dev[t] => Managed(t)

\* Every rebuild gives the flag back, those that fail included.
RebuildEnds == \A t \in Tunnel : rebuilding[t] ~> ~rebuilding[t]

\* A manual rebuild request is answered, even when automatic rebuilds keep taking the
\* flag before it.
RequestAnswered == \A r \in Request : pc[r] = "poll" ~> pc[r] = "idle"

\* A running tunnel whose device went down (a rebuild that could not start it again)
\* is brought up again by the health loop with nobody's help, or stopped.
OutageRepaired ==
    \A u \in Upstream :
        IsRunning(u) /\ ~dev[Current(u)] ~> ~IsRunning(u) \/ dev[Current(u)]

=============================================================================
