# Formal models of multi-cf-proxy

This directory holds TLA+ models of the proxy's own logic, TLC configurations that
check them on small instances, and TLAPS proofs of the results that matter most for
every instance. Everything is translated from the Go source under `src/`; line numbers
refer to it.

    tlc -workers 2 -config ConfigSync.cfg MCConfigSync.tla      # one run
    tlapm DNSCacheProofs.tla                                    # one set of proofs

## 1. Inventory

The program is one process: two proxies (SOCKS5 and HTTP) and a web interface in front
of a set of user-space WireGuard tunnels to Cloudflare WARP, one per configured
*upstream*. Each upstream has one account; a client that logs in with it leaves through
that upstream's tunnel, or through another healthy one.

| component | source | state | operations | hard because |
|---|---|---|---|---|
| Tunnel manager | `internal/tunnel/tunnel.go` | `entries`, `order`, per entry `running`, `rebuilding`, health, failure counter, latency; limits | `Sync`, `Rebuild`, `RecordProbe`, `probeAll`, `ApplyHealth`, `Run`, `StopAll` | rebuilds run outside the lock; results are booked by ID, later |
| WireGuard tunnel | `internal/tunnel/wiretunnel.go` | the device, the frozen configuration | `Start`, `Stop`, `Rebuild`, `DialContext` | `Rebuild` is two critical sections |
| DNS cache | `internal/tunnel/dnscache.go` | `entries`, `order`, `ttl` | `resolveHost`, `setTTL` | resolving is outside the lock, TTL read without it |
| Listening services | `internal/listen/listen.go` | registered address and listener per service, `errCh` | `Start`, `Swap`, `serveLoop` | bind and close outside the lock |
| Configuration manager | `internal/config/*.go` | the configuration in memory, the file | `Update`, `Save`, `Load`, `EnsureAdminPassword` | crash between steps |
| Web handlers | `internal/web/web.go` | sessions | one handler per route; `SyncNow` | concurrent requests, no lock over change and hand-over |
| Account index | `internal/auth/auth.go` | username to upstream | `Rebuild`, `Authenticate` | keeps pointers into one configuration |
| Start-up, settings applier | `main.go` | last applied settings | order of start-up; applier | requests before the applier exists, concurrent appliers, failing swaps |
| Dispatcher | `internal/dispatcher/*.go` | routing mode, sticky table | `Route`, `candidates`, `SetLatencyRouting` | reads under separate locks |
| Statistics | `internal/stats/stats.go` | counters, ring of dial samples | `WrapConn`, `ConnOpen/Close`, `RecordDial`, `Snapshot` | atomics, double close |
| Inbound | `internal/inbound/*.go` | one goroutine per client | negotiation, `transfer` | half-closed connections |
| WARP client | `internal/warp/warp.go` | none | `Register`, `ParseConf` | – |
| Front end, deployment | `web/`, `deploy/` | none | – | – |

How they interact. A web handler changes the configuration (`Update`: copy, mutate,
validate, save, swap) and then calls `SyncNow`, which rebuilds the account index and
calls `Manager.Sync`. The settings handler calls the applier instead, once main has set one, which calls
`ApplyHealth`, `SetDNSCacheTTL`, `SetLatencyRouting` and `Server.Swap`. The health loop
probes every running tunnel and books the results with `RecordProbe`, which may start a
rebuild. A proxied connection authenticates in the account index, asks the manager for
candidates, dials through a tunnel (and its DNS cache), is wrapped by the statistics and
relayed. A failing listener ends the process through `errCh`.

What must hold, component by component:

* tunnel manager – a stopped or deleted tunnel stays down; one rebuild of an entry at a
  time, each giving the flag back; health follows the failures; an outage is repaired;
* DNS cache – order and map are one index within the capacity; bounded staleness;
* listening services – no orphan port, no interruption by a failed swap, a failure of a
  current listener (and of no other) reaches main;
* configuration – memory is disk, whatever fails or dies; the runtime follows;
* dispatcher – the bound upstream first while it is healthy; no failure reply while a
  healthy upstream is untried; no exit noted outside the global mode; active connections
  counted as they are;
* health loop, settings – the loop never sleeps on intervals that are out of date, with one
  latency ticker; when the requests have returned the snapshot says what the runtime is, part
  by part, and the saved settings are the snapshot;
* statistics, relay – what the proxy has read it delivers; the counters follow the bytes;
  a relay ends when one of its directions does; the percentiles are those of the latest dials.

`PROJECT.json` lists the hazards behind these, line by line.

## 2. Plan

1. `TunnelManager` with the devices, its proofs; `TunnelLifecycle`, the life of one tunnel, and
   the refinement – **done**
2. `ListenServer`, its proofs; `ServicePorts`, what it promises, and the refinement – **done**
3. `DNSCache`, its proofs – **done**
4. `ConfigSync`, its proofs; `DurableConfig`, what it promises, and the refinement – **done**
5. `HealthLoop`, the ticker and reload loop of `Run` with the setters beside it, its proofs –
   **done**
6. `Settings`, `handleSettings` and main's applier on top of `HealthLoop`, two requests at
   once, its proofs and the refinement of `HealthLoop` – **done**
7. `Dispatcher`, its proofs – **done**
8. `Stats` (counters, ring, percentiles) and `Relay` (`transfer`, half-closed connections,
   deadlines, early data), the proofs of `Relay` and of the percentiles – **done**
9. the composition of `Dispatcher` with `ConfigSync`: what a login can reach between the two
   halves of `SyncNow`, where the bindings of the index and the entries of the manager come
   from different configurations – to do
10. the sessions of the web interface – to do, if they are found to hold a promise worth a run
11. abstract specifications of `DNSCache` and `Dispatcher` and their refinements – to do

Modules are written to be proved about as well as checked: parameters are constants with
named assumptions, there is one action per operation or critical section, and nothing is
`RECURSIVE`.

## 3. The models

### TunnelManager

A critical section of `m.mu` is one action. `Sync` holds `m.mu` from beginning to end,
through device starts and stops, so it is one action too; the steps of a rebuild that
take only the tunnel's `w.mu` can fall between its inner steps in the program, but they
touch one device, and a `Sync` that sees the device before or after them has an outcome
the model also has (whether a start succeeds is free, `down`). `wireTunnel.Rebuild` is
`RebuildStop` and `RebuildStart`, because `Stop` and `Start` lock separately.

| code | model |
|---|---|
| `Sync` 202-277, incl. panic at 217 | `Sync(c)` = `SyncAligns` or `SyncPanics` |
| `RecordProbe` 402-464 | `RecordMissing`, `RecordSuccess`, `RecordFailure` |
| `probeAll` 545-576, `m.probe` | `ProbeAll`, `Measure` |
| `Rebuild` 294-326 | `RequestRebuild`, `PollReject`, `PollCancel`, `PollBegin` |
| `t.Rebuild`, 330-347, 446-462 | `RebuildStop`, `RebuildStart`, `Settle`, `Clear` |
| `ApplyHealth`, `SetLatencyMax` | `ApplyHealth` |
| `StopAll` | `StopAll` |

Entries are pairs of an ID and a generation: an upstream deleted and created again under
its ID has a new `tunnelEntry`, and goroutines may hold the old one. A configuration is
an order of IDs, the enabled ones, and a fingerprint each. The moving average of the
latency is abstracted to any value between the old and the measured one; the failure
counter saturates at `MaxFails`, which changes no comparison since every threshold is at
most `MaxFails`. `Rebuilds`, `LastError` and `LastCheck` are display fields and left out.

`Sync` removes by `m.order` (`Gone`), as the code does, not by the entries it holds. That the
two agree is `EntriesAreListed`: an entry missing from `m.order` could never be removed, and an ID
in it without an entry is what makes the next `Sync` panic.

*What it promises* (`TunnelLifecycle`, `FollowsLifecycle`). A tunnel is new, stopped, running
or removed for good; an alignment may take each tunnel on, and the devices of those it starts and
stops follow; a worker may take hold of a running tunnel that nobody holds, rebuild its
device and let go. The refinement mapping is `phase <- Phases` (from generation, entry and
`running`), `up <- dev` and `held <- Holds` (the entry of a worker that is inside a rebuild). Probes,
limits, requests that wait and the counters are stutters; a `Sync` that panics and
`StopAll` are alignments too. A worker keeps its hold when its tunnel is stopped, so the abstract
specification admits the orphan device of `tunnel_orphan`, but in that way only: the device of
a tunnel that does not run comes up through a hold that was taken while it ran.

*Bounds.* `MaxGen` entries per ID; two automatic rebuild goroutines suffice for one
upstream with two generations, because the flag admits one per entry. `TunnelManager-
Generations.cfg` has one upstream and two generations, one request, two automatic slots;
`TunnelManagerMalformed.cfg` two upstreams, one rejected by the factory, with two
thresholds and two latencies around one limit. Two well-formed upstreams together are
beyond a run of a few minutes; entries share no state but `m.order`, and the proofs cover
any number of them.

*Fairness* (`FairSpec`). Go runs every goroutine that can run: weak fairness for the
probe round, probes, their booking and each step of a rebuild. The manual request polls
every 50 ms for a flag that automatic rebuilds also take, but these are at least half a
probe interval apart, so the poll finds it clear: strong fairness of `PollBegin`. And a
start of a device does not fail for ever: strong fairness of `RebuildStart(w, TRUE)`,
needed only by `OutageRepaired`. `Sync`, requests and changes of parameters have no fairness.

### ListenServer

| code | model |
|---|---|
| `Start` 38-48 | `Start` |
| `Swap` 52-72 | `SwapBegin`, `SwapBind`, `SwapBindFails` |
| `commitSwap` 76-99 | `SwapCommit` or `SwapConflict`, then `SwapClose` |
| `serveLoop` 102-118 | `ServeClosed`, `ServeFails`, `CheckStale`, `Report` |
| main 177-188 | `MainExits` |

The kernel is `InUse`/`Binds`: one open listener per address. `http.Serve` closes the
listener it fails on, the proxies' loops leave it open: `SelfClosing`. A service can be
swapped only after all have been started, as main installs the applier last. When main
receives an error the process ends, and nothing runs any more; that is why deadlock is
not checked here.
*What it promises* (`ServicePorts`, `SwapsAreMoves`). A service has one address, and is down, up
or failed; it moves from one address to the next in one instant, never onto that of one that is up,
and the process ends only after it has been told that a service failed. The refinement mapping
is `at <- Address`, `state <- State`, `main <- Main`. A swap is a move at its commit; binding, conflict,
closing and the send are stutters; the telling is the check under the lock (`CheckStale`), not the
send, since a swap may come between the two (hazard at `listen.go:114`).
*Bounds*: two services, three addresses, two swaps at once, four
listeners in all (two of the start, two of swaps), a queue of one to make it overflow.
The swaps are interchangeable (symmetry).

### DNSCache

`resolveHost` is cut where it takes the lock: `Begin` (TTL without lock, time), `Hit` or
`Miss`, `Answer` or `NoAnswer` (resolver), `Store`. An answer is abstracted to the time
at which the resolver gave it, which is all that staleness depends on. `evictLocked`'s
loop is the number of elements it drops. *Bounds*: three hosts for two places, two callers,
TTLs 0 (off), 1, 2 and a clock up to 2, so that entries expire, are refreshed and evicted
while another caller resolves.

### ConfigSync

| code | model |
|---|---|
| `Update` under `m.mu` | `UpdateBegin`, `Save`, `Rename`, `Commit`; `SaveFails`, `RenameFails` |
| handlers 356-559 | `Additions`, `Patches`, `Deletions`, `Regenerations` |
| `handleAutoRegister` 356-401 | `UpdateMore`, `MoreRejected`, `RegisterFails` |
| `SyncNow` 170-178 | `SyncGet`, `SyncAuth`, `SyncTunnels` |
| start-up, `EnsureAdminPassword` | `Load` (then the same steps, by `Main`) |
| death of the process | `Crash` |

A request whose first `Update` is rejected changes nothing and is not an action. What
`Manager.Sync` makes of a configuration, errors included, is the business of
`TunnelManager`; here `tuns` is the configuration it was last given. `missed` is a history
variable: it records that a batch gave up without `SyncNow` (`web.go` 389-393) or that a
configuration was applied after a newer one had been saved. Nothing else in the model
reads it. A crash is the death of the process: what the kernel has accepted is kept.
*What it promises* (`DurableConfig`, `IsDurable`). A register with three operations: one
edit of one upstream, taking the whole value, and forgetting it. The refinement mapping is
`value <- OnDisk` (what a start from the file would load) and `taken <- InHand` (what a
`SyncNow` between its Get and its end works on). The edit happens at the rename, not at the
swap in memory; a batch of registrations is one edit per upstream; a failed save, and a
crash before the rename, are stutters; a crash ends all readers. It would be broken by a
copy taken outside the lock, a rename of a half-written file, or a memory that is ahead of the
file when a reader asks.
*Bounds*: two upstreams, two handlers and main, batches of two; crashes and requests
without bound. Upstreams and handlers are interchangeable (symmetry).

### Dispatcher

| code | model |
|---|---|
| `serve` (SOCKS5), `handle` (HTTP) around `Route` | `Login`, `Asks`, `Leaves`, `Reply` |
| `Route` 76-80 | `Authenticate` |
| `candidates` 129-153: three locks, four reads | `SortHealthy`, `ReadMode`, `GetBound`, `CheckBound` |
| `HealthySortedByLatency` | `Faster`, `Before`, `Sorted` |
| dial loop 87-101 | `DialFails`, `DialSucceeds`, `GivesUp` |
| `rememberSticky`, `SetLatencyRouting` | `RememberSticky`, `SetLatencyRouting` |
| `WrapConn`, `countingConn.Close` | `WrapConn`, `Close` |

`candidates` reads the sorted healthy tunnels, the mode, the bound tunnel and its health one
after the other; between any two of them the manager may start, stop, judge, measure or
remove an upstream. To the dispatcher the manager is what its readers return, so it
appears as `EntryMoves`, any change of one upstream, and the index as `IndexRebuilt`, any
change of the accepted accounts: everything `TunnelManager` and `ConfigSync` can do is
among them. A dial goes to the tunnel object that was captured, which may meanwhile belong
to a deleted entry, so it may succeed or fail whatever the manager says. `steady` is a
history variable, the upstreams that were usable at every moment since the request sorted
them; nothing else reads it. An account keeps its upstream and upstreams keep their order
for the length of a run (constants `Bound` and `Rank`). `RecordDial` and the byte counters
change nothing that is read here and are left to `Stats`. `StickyOnlyPreferred` is about
a request that reads the mode in one critical section and notes its exit in a later one;
it holds because `rememberSticky` reads the mode again. *Bounds*: two upstreams (one bound,
one to fall back on), one account with two connections at once, and two latencies, unknown
and known, which make both orders of the list; the proofs cover the rest. The clients are
interchangeable (symmetry).

### HealthLoop

| code | model |
|---|---|
| `ApplyHealth` 188-199: write under `m.mu`, signal after it | `ApplyHealth`, `Signal` |
| `SetDNSCacheTTL` 152-169: collect under `m.mu`, tell each tunnel after it | `SetDNSCacheTTL`, `TellTunnel` |
| `Sync`'s creation and removal of an entry, for its TTL | `CreateTunnel`, `RemoveTunnel` |
| `Run` 480-491, 521-524 | `RunBegins`, `StartLatency`, `ProbeEnds` |
| `startLatency`, `stopLatency` and the goroutine 492-520 | `StartLatency`, `Reset`, `Stops` |
| the `select` 526-540 | `Tick`, `Receive`, then `Reset`, `StartLatency` |

The reload channel is `reload`, full or empty. Every read of a setting by `Run` is a step of
its own: `m.interval` without the lock at the start, both intervals under separate locks
after a signal. There is no clock: a ticker may fire at any time, so the ticks of the two
tickers are one action (the latency channel forwards to the same probe round), and what
matters of a ticker is the interval it was given. A round of probes is one `ProbeEnds`;
`TunnelManager` has its inside, and its fair `ProbeAll` is what this loop does between two
`Receive`. `SetLatencyProbeInterval` is called before `Run` only and is part of `LoopInit`,
with the signal it leaves.

*Fairness* (`LoopFairness`). `Run` and the latency goroutines run when they can. A Go
`select` chooses at random among the ready cases, so a signal is not passed over for ever
for ticks: strong fairness of `Receive`. Settings that changed again and again faster
than the interval would keep resetting the ticker; `LoopFollows` speaks of the time
after the last change.

### Settings

| code | model |
|---|---|
| start-up: the settings in force 68-105; snapshot and applier 122-123; `go tm.Run` 171 | `Init`; `SetApplier`; `LoopStep` only after it |
| `handleSettings`: `Update`, then `if s.applier != nil`, then `Get` | `Save`; `Unheard` or `Get` |
| applier: load of the snapshot, main 123-126 | `Load` |
| health, DNS, routing, 127-146 | `SetHealth`, `SetDNS`, `SetLatencyRouting`, each only if it differs, or `Skip`; `SetterGoesOn` is the rest of a setter |
| ports, 147-159 | `Swap`, `SwapFails`, `SkipPort`, one service after the other |
| the new snapshot, 160 | `Store` |

It extends `HealthLoop`: the applier's calls are its actions, and `ImplementsLoop` proves that
nothing else moves the loop. `ListenServer` has the inside of a swap, `ConfigSync` that
of `Update`. The web interface serves from main.go:101 and is given its applier at 123: a
request that comes between ends in `Unheard`, saved and answered like any other. Until then
`snap` is what main will store at 122, the settings it loaded at 68 and started everything
by, and not the configuration of that moment. `Init` is the state in which the web interface
begins to serve. `s.applier` is one word without a lock, found unset or set.

`saves`, `newest` and `astray` are history variables, and so is `ver` in a request, the save
it carries. `newest` is what became of the newest save: still to be applied, the one the
snapshot was stored from, stored before an older one (`outrun`), or met by no applier
(`unheard`). A part (`Part`: the health settings, the TTL, the routing mode, each port) is
`astray` from the moment two requests inside the applier want it differently, or its
swap fails, to the moment a request that nobody inside contradicts sets it. `InForceUnlessAstray`
says that nothing else can go wrong: a part is only lost to a dispute about that very part, what
is not in force is not in the snapshot either, so that the next request finds the difference,
and only the three things named keep the saved settings from being the snapshot.
*Bounds*: two requests, two saves, one tunnel that comes and goes, one service, and
three settings chosen so that each part differs between some two and is equal between
others; two latency goroutines, one that ticks and one that is stopping. Saves are
bounded because the numbering of requests would otherwise be unbounded. Two are enough for a
request before the applier and one after it, for two that disagree inside, and for one of the
two to set a disputed part once the other has left. The proofs cover any number of each.

### Relay and Stats

| code | model |
|---|---|
| `Route` after a dial (`RecordDial`, `WrapConn`) | `Open` |
| `HTTP.tunnel` 122-130: early data; `SOCKS5.serve`: none | `Start(k)` |
| `transfer` 228-242: two goroutines of `io.Copy` | `Read`, `ReadFails`, `WriteByte`, `WriteReturns` |
| `countingConn.Read`, `.Write` | `Count`, `Account` |
| `SetDeadline(pastDeadline())` | `Wake` |
| the two deferred closes | `Close` |
| `RecordDial`, `dialPercentiles` (stats.go 74-114) | `RecordDial`, `Sorted`, `Rank`, `dialPercentiles` |

A byte has no content: an end is a stream, and the counts of what was sent, taken, delivered and
read say which bytes they are. A `Write` delivers a byte at a time, blocks while the
peer's window is full, and may end short when the connection breaks. A read from the remote
is counted between the read and the write to the client, a write to the remote after it, for the
upstream first and the account next: four steps with the peers in between. The early data
(at most the 4096 bytes of a `bufio.Reader`) fit into an empty window, and the result of their
write is ignored, as in the code. The peers send, end their half, stop reading and die as
they like, with no fairness at all. Left out: the reset a kernel sends when a connection is
closed over unread data, so `NothingTakenIsLost` speaks of what was handed to the connection;
the split of the counters by address family; HTTP requests forwarded without CONNECT, whose bytes
are copied by `net/http`. `DialStatsAreLatest` compares ring, position and rank with the
definition of a percentile over the latest dials, which knows nothing of the three. `sort.Slice` is
`Sorted`, some ordered rearrangement of the samples.
`RelayEnds` states its exception: a deadline is set on the connection a direction wrote
to, so a direction blocked in writing to the *other* connection is woken only by its peer.
*Bounds*: two bytes, a window of one, so that windows fill and partial writes happen;
four connections with two dial times over a ring of two, so that it fills and wraps twice.

## 4. Runs

| run | asks | shows |
|---|---|---|
| `tunnel_generations` | `RebuildExclusive`, `RunningAreEnabled`, `SleepersStayAsleep`, `FollowsLifecycle` | hold |
| `tunnel_malformed` | `TypeOK`, `HealthTracksFailures`, `OnlyPanicsMisalign`, `EntriesAreListed` | hold |
| `tunnel_liveness` | `RebuildEnds`, `RequestAnswered`, `OutageRepaired` | hold under `FairSpec` |
| `listen_swap` | `TypeOK`, `NoOrphanListener`, `ServiceUninterrupted`, `SwapsAreMoves` | hold |
| `dns_cache` | `TypeOK`, `OrderIsIndex`, `LifetimeBounded`, `ServedFresh` | hold |
| `config_sync` | `TypeOK`, `DiskIsMemory`, `AlignedUnlessMissed`, `IsDurable` | hold |
| `dispatch` | `TypeOK`, `BoundServesFirst`, `NoUpstreamMissed`, `ConnsBalanced`, `StickyOnlyPreferred` | hold |
| `settings` | `TypeOK`, `LoopBehindIsTold`, `OneLatencyTicker`, `InForceUnlessAstray`, `LoopFollows` | hold, the last under `FairSpec` |
| `relay` | `TypeOK`, `NothingTakenIsLost`, `BooksFollowBytes`, `DialStatsAreLatest`, `RelayEnds` | hold, the last under `FairSpec` |
| `tunnel_orphan` | `NoOrphanDevice` | **violated**: a rebuild in flight wakes a stopped tunnel |
| `tunnel_nil_entry` | `RunningAreEnabled` with a rejected upstream | **violated**: Sync panics half-way |
| `config_overtaken` | `RuntimeAligned` | **violated**: an older configuration is applied last |

The violated ones are disagreements between the code and its own comments or README,
quoted in `PROJECT.json`. `RunningAreEnabled` holds if the factory rejects no upstream and
fails if it may; `OnlyPanicsMisalign` is what remains true of it then: as soon as a `Sync`
returns, whatever it could not build and whatever panicked before, nothing runs that should
not. What remains true of `NoOrphanDevice` is `FollowsLifecycle`, as said above. `AlignedUnlessMissed` is what remains true of `RuntimeAligned`: the two
recorded ways are the *only* ones in which the runtime falls behind.

More flaws are in the models without a run of their own, and are noted with their hazards in
`PROJECT.json`:

* a tunnel whose first start fails is never retried (`tunnel.go:259`);
* the check for a replaced listener is under the lock, the error is sent after it
  (`listen.go:114`);
* a registration that gives up in its second upstream does not hand on the first (`web.go:389`);
* a settings request before the applier is there is saved, answered 即時生效 (in force at once)
  and not in force until the next one (`web.go:623`);
* of two settings requests at once the older may be stored last, and what they disagree on may
  be left as neither wants it, up to tunnels on different TTLs (`main.go:124`, `tunnel.go:163`);
* a port whose swap failed counts as applied: saving it again does nothing (`main.go:160`);
* a relay direction blocked in writing is not woken by the other (`socks5.go:227`).

`InForceUnlessAstray`, `AlignedUnlessMissed` and `RelayEnds` state these as exceptions: they
do not catch them, they show that the damage has no other cause and how far it goes.

Deadlock is checked except in `listen_swap` (the process may end) and `relay` (the last
connection may be over, or wait for a peer that does nothing).

Every property of a passing run is also run against a mutant of the model (an operator
named in `PROJECT.json`, written just before the definition it replaces), and must fail.

## 5. Proofs

TLAPS proves these for all values of the constants that satisfy the named assumptions
(each module names its own, `...Assumption`), with no bound on the number of upstreams,
workers, callers, handlers, services, swaps, settings, connections or clients. The
bounds on generations, time, failures, saves and bytes stay parameters.

* `TunnelManagerProofs` – `TypeCorrect`; `RebuildsExclude` (the invariant itself is
  inductive given the types: a worker enters `Busy` only by raising a flag that is down, and
  lowers it only on leaving); `HealthInStep` (inductive given the types);
  `NothingUnlisted` (inductive: a `Sync` lists what it keeps and creates, one that panics only
  removes); `ReturnAligns`, which rests on it: what a `Sync` that returns does not remove is
  configured, because everything it had was listed; `SyncAligned` (assumes `Malformed = {}`:
  then every ID in `m.order` has an entry, `NeverNil`, and no Sync panics);
  `StoppedStaysStopped`, an action property, from `RebuildExclusive`: the device of an entry is
  started outside Sync only by a worker that holds its flag; `Implements`, the
  refinement of `TunnelLifecycle`. It needs `RebuildExclusive`, since a tunnel is taken hold of
  only if nobody holds it, and `NothingUnborn`: what is up, running or being rebuilt belongs to
  an entry that was created, so a fresh generation starts with a clean device. `PhaseTable`
  says which phase an entry has before and after a step. For a `Sync` that panics, `Least` (from
  the well-foundedness of the naturals) gives the first missing entry, so that all it
  removed before had one.
* `DNSCacheProofs` – `TypeCorrect` and `CacheIndexed` together (the capacity and the index
  need each other: an eviction is a tail only because the order never exceeds the capacity;
  `EvictionIsTail` and `StoreKeepsIndex` are the lemmas), `AnswersFresh` (strengthened by
  `AnswerLater`: the resolver answers after its call began), `LifetimesBounded`.
* `ConfigSyncProofs` – `TypeCorrect` with `SaveInStep` (how far the holder of the lock has
  come with file and temporary file), from which `MemoryIsDisk` follows; `RuntimeFollows`
  (strengthened to `Owed`: as long as index or tunnels are behind, some actor will still
  hand the configuration on); `Implements`, the refinement of `DurableConfig` (strengthened by
  `WorkIsEdit`: the copy inside `Update` is one edit away from what the file holds).
* `ListenServerProofs` – `TypeCorrect`, `NoOrphans`, `Uninterrupted`, from one invariant: the
  properties need to know in whose hands each listener is (`Hands`: those held by swaps are
  all different, none of them registered, open until they are being closed, and bound where the
  swap says), so that a commit exchanges one owner for another. `Implements`, the
  refinement of `ServicePorts`, needs three more: `OnePort` (no two open listeners share an
  address, which is why a move never lands on a service that is up), `Elsewhere` (a swap that
  goes on has an address to go to that is not the one it found) and `AtBoot` (an unregistered
  service is still at its first address).
* `HealthLoopProofs` – `LoopTypeCorrect`, `OneTicker`, `BehindIsTold`. The last is inductive
  with `StopIsSet`: `latStop` is nil where a latency goroutine is about to be started and
  otherwise belongs to one that ticks, so that a goroutine that ends is never the one
  whose period counts.
* `SettingsProofs` – `TypeCorrect`; `ImplementsLoop` (every step is one of `HealthLoop`'s or a
  stutter), which carries the loop's theorems over (`LoopUnderSettings`); `SettingsInForce`.
  The property speaks of moments at rest and is far from inductive: `PartInOrder` says, for one
  part that is not astray, what a request may rely on while it is inside (those inside want the
  same of it; where one of them has passed it, or found it equal in its snapshot, or would
  find it equal in the present one, it is in force), and that with nobody inside it is as the
  snapshot says. A request that enters without a dispute inherits this from those inside or from
  rest (`LoadKeepsOrder`); one that stores has passed every part (`StoreKeepsOrder`). `Books`
  ties a request to its save, a due save to a request, and a setter to its request.
* `RelayProofs` – `TypeCorrect`, `NothingLost`, `BooksBalanced`, `DialsLatest`. For each direction, `Flow`:
  what was taken is what was delivered and what is in the buffer; `Settled`: the buffer is
  empty, or the other end broken, whenever the goroutine is not writing; `Marked`: a deadline is
  on the connection a direction writes to only when that direction is done, so no deadline
  cuts a write; `Booked`: how far the counters are behind at each of the four steps.
  `DialsLatest` needs no induction over data: a percentile counts samples, and counting does
  not depend on their order (`ReorderedCounts`, `PercentileOfReordered`: a bijection between two
  sequences carries the samples of one up to a value onto those of the other); an ordered
  rearrangement exists, since the place of a sample, the number of those up to it, is a
  bijection (`PlaceIsBijection`); in an ordered sequence the sample at the nearest rank is the
  percentile (`RankIsPercentile`). `Ring` says which of the dials each cell of the ring holds,
  and so that the ring is a rearrangement of the latest ones (`RingIsLatest`).
* `DispatcherProofs` – `TypeCorrect`, `ConnectionsCounted`, `BoundFirst`, `FailsAfterAll`,
  `ExitsOnlyPreferred`: every property of the run. `IInv` is `TypeOK`, `ConnsBalanced` and
  `ChosenWell`. The first two need each other: a counter stays in `Nat` because it equals
  the number of connections it counts. `Chosen(c)` says that whatever is owed to a request
  (`steady[c]`) is usable now and on its list, with the bound upstream at the head in the
  default mode; without "usable now" the later health check could leave the bound upstream
  where the sort had put it. Before it, `SortedIsList`, `WithoutDrops` and the lemma on
  `Promoted` say that the list holds the usable upstreams, each once. Upstreams, accounts
  and clients are arbitrary sets, the first and the last finite.

Only model-checked: the liveness properties (`RebuildEnds`, `RequestAnswered`,
`OutageRepaired`, `LoopFollows`, `RelayEnds`), since liveness under fairness and `ENABLED`
are out of the prover's reach. Every other property of a passing run is a theorem.

## 6. Not modelled

* Byte formats (SOCKS5, HTTP, WireGuard configuration, JSON), cryptography and constant-time
  comparison, the WARP API, the HTML page and the installer: no state shared between
  actors.
* `Validate` and `FillDefaults` beyond accepting or rejecting an edit, and the overflow of an
  interval in `time.Duration`: the intervals are assumed to fit.
* Sessions, login and the change of the password: a map of tokens under a lock of its own,
  which no other component reads. The views and snapshots, which change nothing.
* HTTP requests forwarded without CONNECT are routed and closed as the others are (in
  `Dispatcher`, one request after the other); the copying of their bodies is not modelled.
* Loss of power: a crash is the death of the process, and what the kernel has accepted is
  kept.
