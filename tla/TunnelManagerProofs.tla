------------------------- MODULE TunnelManagerProofs -------------------------
(***************************************************************************)
(* Theorems about TunnelManager, for every set of upstreams, requests and  *)
(* rebuild goroutines and every set of thresholds and latencies.           *)
(*                                                                         *)
(* In order: types; the flag as a lock; health; what m.order lists and     *)
(* what a Sync leaves running; stopped tunnels; and the refinement of      *)
(* TunnelLifecycle, with NothingUnborn: what is up, running or being       *)
(* rebuilt belongs to an entry that was created.                           *)
(***************************************************************************)
EXTENDS TunnelManager, WellFoundedInduction, TLAPS

\* The instance an entry's ID stands for is a tunnel of the model.
LEMMA CurrentType ==
    ASSUME TypeOK, NEW u \in entries
    PROVE  u \in Upstream /\ Current(u) \in Tunnel
BY ConstantsAssumption DEF TypeOK, Current, Tunnel

\* What Sync takes an ID to stand for once it holds configuration c.
LEMMA InstType ==
    ASSUME TypeOK, NEW c \in Configs, \A u \in Fresh(c) : gen[u] < MaxGen,
           NEW u \in Upstream
    PROVE  /\ Inst(c, u)[1] = u
           /\ Inst(c, u)[2] \in 0..MaxGen
           /\ u \in Fresh(c) => Inst(c, u)[2] # 0
           /\ u \in entries => Inst(c, u)[2] # 0
           /\ u \notin Fresh(c) => Inst(c, u)[2] = gen[u]
BY ConstantsAssumption DEF TypeOK, Inst

LEMMA ConfigType ==
    ASSUME NEW c \in Configs
    PROVE  /\ c.ids \in Listing
           /\ Range(c.ids) \subseteq Upstream
           /\ c.run \subseteq Range(c.ids)
           /\ c.key \in [Upstream -> Key]
<1>1. c.ids \in Listing /\ c.key \in Keying /\ c.run \subseteq Range(c.ids)
  BY DEF Configs
<1>2. c.ids \in Seq(Upstream)
  BY <1>1, ConstantsAssumption
<1>3. \A i \in DOMAIN c.ids : c.ids[i] \in Upstream
  BY <1>2
<1> QED
  BY <1>1, <1>3, ConstantsAssumption DEF Range

LEMMA SmoothedType ==
    ASSUME NEW old \in Latency \cup {0}, NEW new \in Latency, NEW l \in Smoothed(old, new)
    PROVE  l \in Latency
BY DEF Smoothed

-----------------------------------------------------------------------------
\* Type correctness.

LEMMA TypeInit == Init => TypeOK
<1> SUFFICES ASSUME Init PROVE TypeOK
  OBVIOUS
<1>1. AnyTunnel \in Tunnel
  <2>1. PICK u \in Upstream : TRUE
    BY ConstantsAssumption
  <2>2. <<u, 1>> \in Tunnel
    BY ConstantsAssumption DEF Tunnel
  <2> QED
    BY <2>2 DEF AnyTunnel
<1>2. AnyKey \in Key
  BY ConstantsAssumption DEF AnyKey
<1>3. /\ order \in Listing /\ entries \subseteq Upstream /\ enabled \subseteq Upstream
      /\ synced \in {"none", "ok", "error", "panic", "exit"}
      /\ threshold \in Threshold /\ latencyMax \in LatencyMax
      /\ \A u \in entries : gen[u] # 0
  BY ConstantsAssumption DEF Init
<1>4. /\ gen \in [Upstream -> 0..MaxGen]
      /\ built \in [Tunnel -> Key]
      /\ fails \in [Tunnel -> 0..MaxFails]
      /\ latency \in [Tunnel -> Latency \cup {0}]
  BY <1>2, ConstantsAssumption DEF Init
<1>5. /\ running \in [Tunnel -> BOOLEAN] /\ rebuilding \in [Tunnel -> BOOLEAN]
      /\ healthy \in [Tunnel -> BOOLEAN] /\ dev \in [Tunnel -> BOOLEAN]
  BY DEF Init
<1>6. probe \in [Upstream -> Probe]
  BY ConstantsAssumption DEF Init, Probe
<1>7. pc \in [Worker -> PC] /\ on \in [Worker -> Tunnel]
  BY <1>1 DEF Init, PC
<1> QED
  BY <1>3, <1>4, <1>5, <1>6, <1>7 DEF TypeOK

LEMMA TypeSyncAligns ==
    ASSUME TypeOK, NEW c \in Configs, SyncAligns(c)
    PROVE  TypeOK'
<1> USE DEF syncVars, healthVars, paramVars, workVars
<1>1. /\ c.ids \in Listing /\ Range(c.ids) \subseteq Upstream /\ c.run \subseteq Upstream
      /\ c.key \in [Upstream -> Key]
  BY ConfigType
<1>2. \A u \in Fresh(c) : gen[u] < MaxGen
  BY DEF SyncAligns
<1>3. Fresh(c) \subseteq Upstream
  BY <1>1 DEF Fresh
<1>4. order' \in Listing /\ entries' \subseteq Upstream /\ enabled' \subseteq Upstream
  BY <1>1, <1>3 DEF SyncAligns, TypeOK, NewOrder
<1>5. gen' \in [Upstream -> 0..MaxGen] /\ \A u \in entries' : gen'[u] # 0
  <2>1. gen' = [u \in Upstream |-> Inst(c, u)[2]]
    BY DEF SyncAligns
  <2>2. \A u \in Upstream : Inst(c, u)[2] \in 0..MaxGen
    BY <1>2, InstType
  <2>3. \A u \in entries' : Inst(c, u)[2] # 0
    <3>1. entries' = (entries \ Gone(c)) \cup Fresh(c)
      BY DEF SyncAligns
    <3> QED
      BY <3>1, <1>2, <1>3, <1>4, InstType
  <2> QED
    BY <2>1, <2>2, <2>3, <1>4
<1>6. built' \in [Tunnel -> Key]
  BY <1>1 DEF SyncAligns, TypeOK, Tunnel
<1>7. /\ running' \in [Tunnel -> BOOLEAN] /\ healthy' \in [Tunnel -> BOOLEAN]
      /\ dev' \in [Tunnel -> BOOLEAN]
  BY DEF SyncAligns, TypeOK
<1>8. fails' \in [Tunnel -> 0..MaxFails]
  BY ConstantsAssumption DEF SyncAligns, TypeOK
<1>9. synced' \in {"none", "ok", "error", "panic", "exit"}
  BY DEF SyncAligns, SyncOutcome
<1> QED
  BY <1>4, <1>5, <1>6, <1>7, <1>8, <1>9 DEF SyncAligns, TypeOK

LEMMA TypeSyncPanics ==
    ASSUME TypeOK, NEW c \in Configs, SyncPanics(c)
    PROVE  TypeOK'
<1> USE DEF syncVars, healthVars, paramVars, workVars
<1>1. c.run \subseteq Upstream
  BY ConfigType
<1>2. /\ entries' \subseteq entries
      /\ dev' \in [Tunnel -> BOOLEAN]
  BY DEF SyncPanics, TypeOK
<1> QED
  BY <1>1, <1>2 DEF SyncPanics, TypeOK

\* A probe that ends leaves the record of an idle one.
LEMMA ProbeEndsType ==
    ASSUME TypeOK, NEW u \in Upstream, ProbeEnds(u)
    PROVE  probe' \in [Upstream -> Probe]
<1>1. [pc |-> "idle", gen |-> 0, res |-> 0] \in Probe
  BY ConstantsAssumption DEF Probe
<1> QED
  BY <1>1 DEF ProbeEnds, TypeOK

LEMMA TypeNext == TypeOK /\ [Next]_vars => TypeOK'
<1> USE DEF syncVars, healthVars, paramVars, workVars
<1> SUFFICES ASSUME TypeOK, [Next]_vars PROVE TypeOK'
  OBVIOUS
<1>1. ASSUME NEW c \in Configs, Sync(c) PROVE TypeOK'
  BY <1>1, TypeSyncAligns, TypeSyncPanics DEF Sync
<1>2. CASE StopAll
  BY <1>2 DEF StopAll, TypeOK
<1>3. ASSUME NEW th \in Threshold, NEW lm \in LatencyMax, ApplyHealth(th, lm) PROVE TypeOK'
  BY <1>3 DEF ApplyHealth, TypeOK
<1>4. CASE ProbeAll
  <2>1. \A u \in Upstream : probe[u] \in Probe /\ gen[u] \in 0..MaxGen
    BY DEF TypeOK
  <2>2. \A u \in Upstream : [probe[u] EXCEPT !.pc = "flying", !.gen = gen[u]] \in Probe
    <3> SUFFICES ASSUME NEW r \in Probe, NEW g \in 0..MaxGen
                 PROVE  [r EXCEPT !.pc = "flying", !.gen = g] \in Probe
      BY <2>1
    <3> QED
      BY DEF Probe
  <2>3. probe' \in [Upstream -> Probe]
    BY <1>4, <2>1, <2>2 DEF ProbeAll
  <2> QED
    BY <1>4, <2>3 DEF ProbeAll, TypeOK
<1>5. ASSUME NEW u \in Upstream, NEW res \in Latency \cup {0}, Measure(u, res) PROVE TypeOK'
  <2>1. [probe[u] EXCEPT !.pc = "done", !.res = res] \in Probe
    BY DEF TypeOK, Probe
  <2>2. probe' \in [Upstream -> Probe]
    BY <1>5, <2>1 DEF Measure, TypeOK
  <2> QED
    BY <1>5, <2>2 DEF Measure, TypeOK
<1>6. ASSUME NEW u \in Upstream, RecordMissing(u) PROVE TypeOK'
  <2>1. probe' \in [Upstream -> Probe]
    BY <1>6, ProbeEndsType DEF RecordMissing
  <2> QED
    BY <1>6, <2>1 DEF RecordMissing, TypeOK
<1>7. ASSUME NEW u \in Upstream, RecordSuccess(u) PROVE TypeOK'
  <2>1. probe' \in [Upstream -> Probe]
    BY <1>7, ProbeEndsType DEF RecordSuccess
  <2>2. Current(u) \in Tunnel
    BY <1>7, CurrentType DEF RecordSuccess
  <2>3. PICK l \in Smoothed(latency[Current(u)], probe[u].res) :
            latency' = [latency EXCEPT ![Current(u)] = l]
    BY <1>7 DEF RecordSuccess
  <2>4. probe[u].res \in Latency
    BY <1>7 DEF RecordSuccess, Passed, TypeOK, Probe
  <2>5. l \in Latency
    BY <2>2, <2>3, <2>4, SmoothedType DEF TypeOK
  <2>6. latency' \in [Tunnel -> Latency \cup {0}]
    BY <2>3, <2>5 DEF TypeOK
  <2>7. healthy' \in [Tunnel -> BOOLEAN] /\ fails' \in [Tunnel -> 0..MaxFails]
    <3>1. 0 \in 0..MaxFails
      BY ConstantsAssumption
    <3> QED
      BY <1>7, <3>1, Zenon DEF RecordSuccess, TypeOK
  <2> QED
    BY <1>7, <2>1, <2>6, <2>7 DEF RecordSuccess, TypeOK
<1>8. ASSUME NEW u \in Upstream, RecordFailure(u) PROVE TypeOK'
  <2> DEFINE t == Current(u)
  <2>1. probe' \in [Upstream -> Probe]
    BY <1>8, ProbeEndsType DEF RecordFailure
  <2>2. t \in Tunnel
    BY <1>8, CurrentType DEF RecordFailure
  <2>3. latency' \in [Tunnel -> Latency \cup {0}]
    <3>1. CASE probe[u].res = 0
      BY <1>8, <3>1 DEF RecordFailure, TypeOK
    <3>2. CASE probe[u].res # 0
      <4>1. PICK l \in Smoothed(latency[t], probe[u].res) : latency' = [latency EXCEPT ![t] = l]
        BY <1>8, <3>2 DEF RecordFailure
      <4>2. probe[u].res \in Latency
        BY <1>8, <3>2 DEF TypeOK, Probe
      <4>3. l \in Latency
        BY <2>2, <4>1, <4>2, SmoothedType DEF TypeOK
      <4> QED
        BY <4>1, <4>3 DEF TypeOK
    <3> QED
      BY <3>1, <3>2
  <2>4. fails' \in [Tunnel -> 0..MaxFails]
    <3>1. FailsAfter(t) \in 0..MaxFails
      BY <2>2, ConstantsAssumption DEF FailsAfter, TypeOK
    <3> QED
      BY <1>8, <3>1 DEF RecordFailure, TypeOK
  <2>5. healthy' \in [Tunnel -> BOOLEAN]
    BY <1>8, <2>2 DEF RecordFailure, TypeOK, StaysHealthy
  <2>6. /\ rebuilding' \in [Tunnel -> BOOLEAN]
        /\ pc' \in [Worker -> PC] /\ on' \in [Worker -> Tunnel]
    <3>1. CASE rebuilding' = rebuilding /\ pc' = pc /\ on' = on
      BY <3>1 DEF TypeOK
    <3>2. ASSUME NEW w \in AutoSlot,
                 rebuilding' = [rebuilding EXCEPT ![t] = TRUE],
                 pc' = [pc EXCEPT ![w] = "stop"],
                 on' = [on EXCEPT ![w] = t]
          PROVE  /\ rebuilding' \in [Tunnel -> BOOLEAN]
                 /\ pc' \in [Worker -> PC] /\ on' \in [Worker -> Tunnel]
      BY <2>2, <3>2 DEF TypeOK, PC
    <3> QED
      BY <1>8, <3>1, <3>2 DEF RecordFailure
  <2> QED
    BY <1>8, <2>1, <2>3, <2>4, <2>5, <2>6 DEF RecordFailure, TypeOK
<1>9. ASSUME NEW r \in Request, NEW u \in Upstream, RequestRebuild(r, u) PROVE TypeOK'
  <2>1. <<u, 1>> \in Tunnel
    BY ConstantsAssumption DEF Tunnel
  <2> QED
    BY <1>9, <2>1 DEF RequestRebuild, TypeOK, PC
<1>10. \A w \in Worker : Leave(w) => pc' \in [Worker -> PC] /\ on' \in [Worker -> Tunnel]
  BY DEF Leave, TypeOK, PC, AnyTunnel
<1>11. ASSUME NEW r \in Request, PollReject(r) PROVE TypeOK'
  BY <1>10, <1>11 DEF PollReject, TypeOK, Worker
<1>12. ASSUME NEW r \in Request, PollCancel(r) PROVE TypeOK'
  BY <1>10, <1>12 DEF PollCancel, TypeOK, Worker
<1>13. ASSUME NEW r \in Request, PollBegin(r) PROVE TypeOK'
  <2>1. Current(Asked(r)) \in Tunnel
    BY <1>13, CurrentType DEF PollBegin, IsRunning
  <2> QED
    BY <1>13, <2>1 DEF PollBegin, TypeOK, PC
<1>14. ASSUME NEW w \in Worker, RebuildStop(w) PROVE TypeOK'
  BY <1>14 DEF RebuildStop, TypeOK, PC
<1>15. ASSUME NEW w \in Worker, Settle(w) PROVE TypeOK'
  <2>1. pc' \in [Worker -> PC] /\ latency' \in [Tunnel -> Latency \cup {0}]
    BY <1>15 DEF Settle, TypeOK, PC
  <2>2. healthy' \in [Tunnel -> BOOLEAN] /\ fails' \in [Tunnel -> 0..MaxFails]
    <3>1. 0 \in 0..MaxFails
      BY ConstantsAssumption
    <3> QED
      BY <1>15, <3>1, Zenon DEF Settle, TypeOK
  <2> QED
    BY <1>15, <2>1, <2>2 DEF Settle, TypeOK
<1>16. ASSUME NEW w \in Worker, Clear(w) PROVE TypeOK'
  BY <1>10, <1>16 DEF Clear, TypeOK
<1>17. ASSUME NEW w \in Worker, NEW ok \in BOOLEAN, RebuildStart(w, ok) PROVE TypeOK'
  BY <1>17 DEF RebuildStart, TypeOK, PC
<1>18. CASE UNCHANGED vars
  BY <1>18 DEF vars, TypeOK
<1> QED
  BY <1>1, <1>2, <1>3, <1>4, <1>5, <1>6, <1>7, <1>8, <1>9, <1>11, <1>12, <1>13, <1>14,
     <1>15, <1>16, <1>17, <1>18 DEF Next

\* Every reachable state of the manager is well typed: the entries' generations, the
\* failure counters and what the rebuild goroutines hold.
THEOREM TypeCorrect == Spec => []TypeOK
<1>1. Init => TypeOK
  BY TypeInit
<1>2. TypeOK /\ [Next]_vars => TypeOK'
  BY TypeNext
<1> QED
  BY <1>1, <1>2, PTL DEF Spec

-----------------------------------------------------------------------------
\* The rebuilding flag as a lock.

\* Steps that neither take nor give back the flag and leave the goroutines inside
\* t.Rebuild where they are, or move them on within it.
LEMMA ExclusiveFrame ==
    ASSUME RebuildExclusive, rebuilding' = rebuilding,
           \A w \in Worker : /\ pc'[w] \in Busy <=> pc[w] \in Busy
                             /\ pc[w] \in Busy => on'[w] = on[w]
    PROVE  RebuildExclusive'
BY DEF RebuildExclusive

\* Taking the flag of an entry whose flag is down.
LEMMA ExclusiveBegin ==
    ASSUME TypeOK, RebuildExclusive, NEW w \in Worker, NEW t \in Tunnel,
           pc[w] \notin Busy, ~rebuilding[t],
           rebuilding' = [rebuilding EXCEPT ![t] = TRUE],
           pc' = [pc EXCEPT ![w] = "stop"], on' = [on EXCEPT ![w] = t]
    PROVE  RebuildExclusive'
<1>1. \A v \in Worker : ~(pc[v] \in Busy /\ on[v] = t)
  BY DEF RebuildExclusive
<1>2. pc'[w] \in Busy /\ on'[w] = t
  BY DEF TypeOK, Busy
<1>3. \A v \in Worker \ {w} : pc'[v] = pc[v] /\ on'[v] = on[v]
  BY DEF TypeOK
<1>4. rebuilding'[t] /\ \A x \in Tunnel \ {t} : rebuilding'[x] = rebuilding[x]
  BY DEF TypeOK
<1>5. \A w1, w2 \in Worker :
         pc'[w1] \in Busy /\ pc'[w2] \in Busy /\ on'[w1] = on'[w2] => w1 = w2
  BY <1>1, <1>2, <1>3 DEF RebuildExclusive
<1>6. ASSUME NEW x \in Tunnel
      PROVE  rebuilding'[x] <=> \E v \in Worker : pc'[v] \in Busy /\ on'[v] = x
  <2>1. CASE x = t
    BY <2>1, <1>2, <1>4
  <2>2. CASE x # t
    BY <2>2, <1>2, <1>3, <1>4 DEF RebuildExclusive
  <2> QED
    BY <2>1, <2>2
<1> QED
  BY <1>5, <1>6 DEF RebuildExclusive

LEMMA ExclusiveNext == TypeOK /\ RebuildExclusive /\ [Next]_vars => RebuildExclusive'
<1> USE DEF syncVars, healthVars, paramVars, workVars
<1> SUFFICES ASSUME TypeOK, RebuildExclusive, [Next]_vars PROVE RebuildExclusive'
  OBVIOUS
<1>1. ASSUME UNCHANGED <<rebuilding, pc, on>> PROVE RebuildExclusive'
  BY <1>1, ExclusiveFrame
<1>2. ASSUME NEW w \in Worker, pc[w] \notin Busy, Leave(w), rebuilding' = rebuilding
      PROVE  RebuildExclusive'
  <2>1. \A v \in Worker : pc'[v] \in Busy <=> pc[v] \in Busy
    BY <1>2 DEF Leave, TypeOK, Busy
  <2>2. \A v \in Worker : pc[v] \in Busy => on'[v] = on[v]
    BY <1>2 DEF Leave, TypeOK
  <2> QED
    BY <1>2, <2>1, <2>2, ExclusiveFrame
<1>3. ASSUME NEW c \in Configs, Sync(c) PROVE RebuildExclusive'
  BY <1>1, <1>3 DEF Sync, SyncAligns, SyncPanics
<1>4. CASE StopAll
  BY <1>1, <1>4 DEF StopAll
<1>5. ASSUME NEW th \in Threshold, NEW lm \in LatencyMax, ApplyHealth(th, lm)
      PROVE  RebuildExclusive'
  BY <1>1, <1>5 DEF ApplyHealth
<1>6. CASE ProbeAll
  BY <1>1, <1>6 DEF ProbeAll
<1>7. ASSUME NEW u \in Upstream, NEW res \in Latency \cup {0}, Measure(u, res)
      PROVE  RebuildExclusive'
  BY <1>1, <1>7 DEF Measure
<1>8. ASSUME NEW u \in Upstream, RecordMissing(u) \/ RecordSuccess(u) PROVE RebuildExclusive'
  BY <1>1, <1>8 DEF RecordMissing, RecordSuccess
<1>9. ASSUME NEW u \in Upstream, RecordFailure(u) PROVE RebuildExclusive'
  <2> DEFINE t == Current(u)
  <2>1. t \in Tunnel
    BY <1>9, CurrentType DEF RecordFailure
  <2>2. CASE NeedsRebuild(t)
    <3>1. PICK w \in AutoSlot : /\ pc[w] = "idle"
                                /\ pc' = [pc EXCEPT ![w] = "stop"]
                                /\ on' = [on EXCEPT ![w] = t]
      BY <1>9, <2>2 DEF RecordFailure
    <3>2. rebuilding' = [rebuilding EXCEPT ![t] = TRUE] /\ ~rebuilding[t]
      BY <1>9, <2>2 DEF RecordFailure, NeedsRebuild
    <3>3. w \in Worker /\ pc[w] \notin Busy
      BY <3>1 DEF Worker, Busy
    <3> QED
      BY <2>1, <3>1, <3>2, <3>3, ExclusiveBegin
  <2>3. CASE ~NeedsRebuild(t)
    BY <1>1, <1>9, <2>3 DEF RecordFailure
  <2> QED
    BY <2>2, <2>3
<1>10. ASSUME NEW r \in Request, NEW u \in Upstream, RequestRebuild(r, u) PROVE RebuildExclusive'
  <2>1. \A v \in Worker : pc'[v] \in Busy <=> pc[v] \in Busy
    BY <1>10 DEF RequestRebuild, TypeOK, Busy
  <2>2. \A v \in Worker : pc[v] \in Busy => on'[v] = on[v]
    BY <1>10 DEF RequestRebuild, TypeOK, Busy
  <2> QED
    BY <1>10, <2>1, <2>2, ExclusiveFrame DEF RequestRebuild
<1>11. ASSUME NEW r \in Request, PollReject(r) \/ PollCancel(r) PROVE RebuildExclusive'
  BY <1>2, <1>11 DEF PollReject, PollCancel, Worker, Busy
<1>12. ASSUME NEW r \in Request, PollBegin(r) PROVE RebuildExclusive'
  <2>1. Current(Asked(r)) \in Tunnel
    BY <1>12, CurrentType DEF PollBegin, IsRunning
  <2>2. r \in Worker /\ pc[r] \notin Busy
    BY <1>12 DEF PollBegin, Worker, Busy
  <2> QED
    BY <1>12, <2>1, <2>2, ExclusiveBegin DEF PollBegin
<1>13. ASSUME NEW w \in Worker, pc[w] \in Busy, rebuilding' = rebuilding, on' = on,
              NEW p \in Busy, pc' = [pc EXCEPT ![w] = p]
       PROVE  RebuildExclusive'
  <2>1. \A v \in Worker : pc'[v] \in Busy <=> pc[v] \in Busy
    BY <1>13 DEF TypeOK
  <2> QED
    BY <1>13, <2>1, ExclusiveFrame
<1>14. ASSUME NEW w \in Worker, RebuildStop(w) PROVE RebuildExclusive'
  BY <1>13, <1>14 DEF RebuildStop, Busy
<1>15. ASSUME NEW w \in Worker, Settle(w) PROVE RebuildExclusive'
  BY <1>13, <1>15 DEF Settle, Busy
<1>16. ASSUME NEW w \in Worker, NEW ok \in BOOLEAN, RebuildStart(w, ok) PROVE RebuildExclusive'
  <2>1. (IF ok THEN "settle" ELSE "clear") \in Busy /\ pc[w] \in Busy
    BY <1>16 DEF RebuildStart, Busy
  <2> QED
    BY <1>13, <1>16, <2>1 DEF RebuildStart
<1>17. ASSUME NEW w \in Worker, Clear(w) PROVE RebuildExclusive'
  <2> DEFINE t == on[w]
  <2>1. t \in Tunnel /\ pc[w] \in Busy
    BY <1>17 DEF Clear, TypeOK, Busy
  <2>2. pc'[w] \notin Busy /\ \A v \in Worker \ {w} : pc'[v] = pc[v] /\ on'[v] = on[v]
    BY <1>17 DEF Clear, Leave, TypeOK, Busy
  <2>3. ~rebuilding'[t] /\ \A x \in Tunnel \ {t} : rebuilding'[x] = rebuilding[x]
    BY <1>17, <2>1 DEF Clear, TypeOK
  <2>4. \A v \in Worker \ {w} : ~(pc[v] \in Busy /\ on[v] = t)
    BY <2>1 DEF RebuildExclusive
  <2>5. \A w1, w2 \in Worker :
           pc'[w1] \in Busy /\ pc'[w2] \in Busy /\ on'[w1] = on'[w2] => w1 = w2
    BY <2>2 DEF RebuildExclusive
  <2>6. ASSUME NEW x \in Tunnel
        PROVE  rebuilding'[x] <=> \E v \in Worker : pc'[v] \in Busy /\ on'[v] = x
    <3>1. CASE x = t
      BY <3>1, <2>2, <2>3, <2>4
    <3>2. CASE x # t
      BY <3>2, <2>2, <2>3 DEF RebuildExclusive
    <3> QED
      BY <3>1, <3>2
  <2> QED
    BY <2>5, <2>6 DEF RebuildExclusive
<1>18. CASE UNCHANGED vars
  BY <1>1, <1>18 DEF vars
<1> QED
  BY <1>3, <1>4, <1>5, <1>6, <1>7, <1>8, <1>9, <1>10, <1>11, <1>12, <1>14, <1>15, <1>16,
     <1>17, <1>18 DEF Next

\* No two goroutines are ever inside t.Rebuild for one entry, and the flag is up exactly
\* while one is: for any number of upstreams, manual requests and automatic rebuilds.
THEOREM RebuildsExclude == Spec => []RebuildExclusive
<1>1. Init => RebuildExclusive
  BY DEF Init, RebuildExclusive, Busy
<1> QED
  BY <1>1, TypeInit, TypeNext, ExclusiveNext, PTL DEF Spec

-----------------------------------------------------------------------------
\* Health and the failure counter.

\* What the health fields of one entry must satisfy.
HealthOK(h, f) ==
    /\ ~h => \E n \in Threshold : f >= n
    /\ h => \E n \in Threshold : f < n

LEMMA HealthByEntry ==
    HealthTracksFailures <=> \A t \in Tunnel : HealthOK(healthy[t], fails[t])
BY DEF HealthTracksFailures, HealthOK

\* A counter at zero fits a healthy entry: thresholds are positive.
LEMMA HealthReset == HealthOK(TRUE, 0)
<1>1. PICK n \in Threshold : TRUE
  BY ConstantsAssumption
<1>2. 0 < n
  BY ConstantsAssumption
<1> QED
  BY <1>2 DEF HealthOK

\* One more failure keeps the two fields in step, saturation included.
LEMMA HealthFailure ==
    ASSUME TypeOK, NEW t \in Tunnel, HealthOK(healthy[t], fails[t])
    PROVE  HealthOK(StaysHealthy(t), FailsAfter(t))
<1>1. threshold \in Threshold /\ threshold \in 1..MaxFails /\ MaxFails \in Nat
  BY ConstantsAssumption DEF TypeOK
<1>2. fails[t] \in 0..MaxFails /\ healthy[t] \in BOOLEAN
  BY DEF TypeOK
<1>3. FailsAfter(t) \in 0..MaxFails /\ FailsAfter(t) >= fails[t]
  BY <1>1, <1>2 DEF FailsAfter
<1>4. CASE StaysHealthy(t)
  <2>1. FailsAfter(t) < threshold
    BY <1>4 DEF StaysHealthy
  <2> QED
    BY <1>1, <1>4, <2>1 DEF HealthOK
<1>5. CASE ~StaysHealthy(t) /\ ~healthy[t]
  <2>1. PICK n \in Threshold : fails[t] >= n
    BY <1>5 DEF HealthOK
  <2>2. n \in 1..MaxFails
    BY ConstantsAssumption
  <2>3. FailsAfter(t) >= n
    BY <1>1, <1>2, <1>3, <2>1, <2>2
  <2> QED
    BY <1>5, <2>3 DEF HealthOK
<1>6. CASE ~StaysHealthy(t) /\ healthy[t]
  <2>1. ~(FailsAfter(t) < threshold)
    BY <1>6 DEF StaysHealthy
  <2>2. FailsAfter(t) >= threshold
    BY <1>1, <1>3, <2>1
  <2> QED
    BY <1>1, <1>6, <2>2 DEF HealthOK
<1> QED
  BY <1>4, <1>5, <1>6

LEMMA HealthNext == TypeOK /\ HealthTracksFailures /\ [Next]_vars => HealthTracksFailures'
<1> USE DEF syncVars, healthVars, paramVars, workVars
<1> SUFFICES ASSUME TypeOK, HealthTracksFailures, [Next]_vars, NEW x \in Tunnel
             PROVE  HealthOK(healthy'[x], fails'[x])
  BY HealthByEntry DEF HealthTracksFailures, HealthOK
<1> DEFINE InStep == HealthOK(healthy'[x], fails'[x])
<1>0. HealthOK(healthy[x], fails[x]) /\ healthy[x] \in BOOLEAN
  BY HealthByEntry DEF TypeOK
<1>1. ASSUME healthy'[x] = healthy[x], fails'[x] = fails[x] PROVE InStep
  BY <1>0, <1>1
<1>2. ASSUME healthy'[x] = TRUE, fails'[x] = 0 PROVE InStep
  BY <1>2, HealthReset
<1>3. ASSUME NEW c \in Configs, Sync(c) PROVE InStep
  <2>1. CASE SyncAligns(c) /\ x \in Started(c)
    <3>1. healthy'[x] = TRUE /\ fails'[x] = 0
      BY <2>1 DEF SyncAligns
    <3> QED
      BY <1>2, <3>1
  <2>2. CASE SyncAligns(c) /\ x \notin Started(c)
    <3>1. healthy'[x] = healthy[x] /\ fails'[x] = fails[x]
      BY <1>0, <2>2 DEF SyncAligns
    <3> QED
      BY <1>1, <3>1
  <2>3. CASE SyncPanics(c)
    BY <1>1, <2>3 DEF SyncPanics
  <2> QED
    BY <1>3, <2>1, <2>2, <2>3 DEF Sync
<1>4. CASE StopAll
  BY <1>1, <1>4 DEF StopAll
<1>5. ASSUME NEW th \in Threshold, NEW lm \in LatencyMax, ApplyHealth(th, lm) PROVE InStep
  BY <1>1, <1>5 DEF ApplyHealth
<1>6. CASE ProbeAll
  BY <1>1, <1>6 DEF ProbeAll
<1>7. ASSUME NEW u \in Upstream, NEW res \in Latency \cup {0}, Measure(u, res) PROVE InStep
  BY <1>1, <1>7 DEF Measure
<1>8. ASSUME NEW u \in Upstream, RecordMissing(u) PROVE InStep
  BY <1>1, <1>8 DEF RecordMissing
<1>9. ASSUME NEW u \in Upstream, RecordSuccess(u) PROVE InStep
  <2>1. CASE x = Current(u)
    <3>1. healthy'[x] = TRUE /\ fails'[x] = 0
      BY <1>9, <2>1 DEF RecordSuccess, TypeOK
    <3> QED
      BY <1>2, <3>1
  <2>2. CASE x # Current(u)
    BY <1>1, <1>9, <2>2 DEF RecordSuccess, TypeOK
  <2> QED
    BY <2>1, <2>2
<1>10. ASSUME NEW u \in Upstream, RecordFailure(u) PROVE InStep
  <2>1. CASE x = Current(u)
    <3>1. healthy'[x] = StaysHealthy(x) /\ fails'[x] = FailsAfter(x)
      BY <1>10, <2>1 DEF RecordFailure, TypeOK
    <3> QED
      BY <1>0, <3>1, HealthFailure
  <2>2. CASE x # Current(u)
    BY <1>1, <1>10, <2>2 DEF RecordFailure, TypeOK
  <2> QED
    BY <2>1, <2>2
<1>11. ASSUME NEW r \in Request, NEW u \in Upstream, RequestRebuild(r, u) PROVE InStep
  BY <1>1, <1>11 DEF RequestRebuild
<1>12. ASSUME NEW r \in Request, PollReject(r) \/ PollCancel(r) \/ PollBegin(r) PROVE InStep
  BY <1>1, <1>12 DEF PollReject, PollCancel, PollBegin
<1>13. ASSUME NEW w \in Worker, RebuildStop(w) \/ Clear(w) PROVE InStep
  BY <1>1, <1>13 DEF RebuildStop, Clear
<1>14. ASSUME NEW w \in Worker, Settle(w) PROVE InStep
  <2>1. CASE w \in Request /\ x = on[w]
    <3>1. healthy'[x] = TRUE /\ fails'[x] = 0
      BY <1>14, <2>1 DEF Settle, TypeOK
    <3> QED
      BY <1>2, <3>1
  <2>2. CASE w \in Request /\ x # on[w]
    BY <1>1, <1>14, <2>2 DEF Settle, TypeOK
  <2>3. CASE w \notin Request
    BY <1>1, <1>14, <2>3 DEF Settle
  <2> QED
    BY <2>1, <2>2, <2>3
<1>15. ASSUME NEW w \in Worker, NEW ok \in BOOLEAN, RebuildStart(w, ok) PROVE InStep
  BY <1>1, <1>15 DEF RebuildStart
<1>16. CASE UNCHANGED vars
  BY <1>1, <1>16 DEF vars
<1> QED
  BY <1>3, <1>4, <1>5, <1>6, <1>7, <1>8, <1>9, <1>10, <1>11, <1>12, <1>13, <1>14, <1>15,
     <1>16 DEF Next

\* Healthy and the failure counter stay in step through probes, hot-reloaded
\* thresholds, rebuilds and Syncs in any order, for any set of thresholds.
THEOREM HealthInStep == Spec => []HealthTracksFailures
<1>1. Init => HealthTracksFailures
  BY HealthByEntry, HealthReset DEF Init
<1> QED
  BY <1>1, TypeInit, TypeNext, HealthNext, PTL DEF Spec

-----------------------------------------------------------------------------
\* Sync's alignment: what it holds of m.order and of the entries that run.

\* No Sync panicked and none can: every listed ID has its entry.
NeverNil ==
    /\ synced # "panic"
    /\ Range(order) \subseteq entries

\* An ID that Sync does not remove and has an entry for afterwards is a configured one,
\* provided m.order lists every entry it had before.
LEMMA EntriesAfter ==
    ASSUME NEW c \in Configs, SyncAligns(c), EntriesAreListed
    PROVE  entries' = (entries \cap Range(c.ids)) \cup Fresh(c)
BY DEF SyncAligns, EntriesAreListed, Gone

LEMMA ListedSync ==
    ASSUME EntriesAreListed, NEW c \in Configs, Sync(c)
    PROVE  EntriesAreListed'
<1>1. CASE SyncAligns(c)
  <2>1. entries' \subseteq Range(c.ids)
    BY <1>1, EntriesAfter DEF Fresh
  <2>2. order' = c.ids
    BY <1>1 DEF SyncAligns, NewOrder
  <2> QED
    BY <2>1, <2>2 DEF EntriesAreListed
<1>2. CASE SyncPanics(c)
  BY <1>2 DEF SyncPanics, EntriesAreListed
<1> QED
  BY <1>1, <1>2 DEF Sync

\* A Sync that reaches its end has started only what was asked for and stopped the rest.
LEMMA AlignedSync ==
    ASSUME TypeOK, EntriesAreListed, NEW c \in Configs, SyncAligns(c)
    PROVE  RunningAreEnabled'
<1>1. entries' = (entries \cap Range(c.ids)) \cup Fresh(c)
  BY EntriesAfter
<1>2. ASSUME NEW u \in Upstream, IsRunning(u)' PROVE u \in enabled'
  <2> DEFINE t == Inst(c, u)
  <2>1. u \in entries' /\ running'[Current(u)']
    BY <1>2 DEF IsRunning
  <2>2. gen'[u] = Inst(c, u)[2]
    BY DEF SyncAligns
  <2>3. t = Current(u)'
    BY <2>2 DEF Inst, Current
  <2>4. t \in Kept(c) /\ t[1] = u
    BY <1>1, <2>1 DEF Kept, Inst
  <2>5. t \in Tunnel
    <3>1. \A v \in Fresh(c) : gen[v] < MaxGen
      BY DEF SyncAligns
    <3>2. Inst(c, u)[2] \in 0..MaxGen /\ Inst(c, u)[2] # 0
      BY <1>1, <2>1, <3>1, InstType
    <3>3. gen'[u] \in 1..MaxGen
      BY <2>2, <3>2, ConstantsAssumption
    <3> QED
      BY <2>3, <3>3 DEF Tunnel, Current
  <2>6. (running[t] /\ t \notin Stopping(c)) \/ t \in Started(c)
    BY <2>1, <2>3, <2>5 DEF SyncAligns
  <2>7. t[1] \in c.run
    BY <2>4, <2>6 DEF Stopping, Started, Starting
  <2> QED
    BY <2>4, <2>7 DEF SyncAligns
<1> QED
  BY <1>2 DEF RunningAreEnabled

\* Without a rejected upstream every listed ID gets its entry, and no removal panics.
LEMMA NeverNilSync ==
    ASSUME Malformed = {}, NeverNil, NEW c \in Configs, Sync(c)
    PROVE  NeverNil'
<1>1. Nils(c) = {}
  BY DEF NeverNil, Nils, Gone, Range
<1>2. SyncAligns(c)
  BY <1>1 DEF Sync, SyncPanics
<1>3. Range(order') \subseteq entries'
  <2>1. order' = c.ids /\ entries' = (entries \ Gone(c)) \cup Fresh(c)
    BY <1>2 DEF SyncAligns, NewOrder
  <2> QED
    BY <2>1 DEF Fresh, Gone
<1>4. synced' # "panic"
  BY <1>2 DEF SyncAligns, SyncOutcome
<1> QED
  BY <1>3, <1>4 DEF NeverNil

\* What the steps other than Sync and StopAll leave alone.
LEMMA OnlySyncAligns ==
    [Next]_vars => \/ \E c \in Configs : Sync(c)
                   \/ StopAll
                   \/ UNCHANGED <<syncVars, running>>
<1> USE DEF syncVars, healthVars, paramVars, workVars
<1> SUFFICES ASSUME [Next]_vars
             PROVE  \/ \E c \in Configs : Sync(c)
                    \/ StopAll
                    \/ UNCHANGED <<syncVars, running>>
  OBVIOUS
<1> DEFINE Same == UNCHANGED <<syncVars, running>>
<1>1. ASSUME NEW th \in Threshold, NEW lm \in LatencyMax, ApplyHealth(th, lm) PROVE Same
  BY <1>1 DEF ApplyHealth
<1>2. CASE ProbeAll
  BY <1>2 DEF ProbeAll
<1>3. ASSUME NEW u \in Upstream, NEW res \in Latency \cup {0}, Measure(u, res) PROVE Same
  BY <1>3 DEF Measure
<1>4. ASSUME NEW u \in Upstream, RecordMissing(u) \/ RecordSuccess(u) \/ RecordFailure(u)
      PROVE  Same
  BY <1>4 DEF RecordMissing, RecordSuccess, RecordFailure
<1>5. ASSUME NEW r \in Request, NEW u \in Upstream, RequestRebuild(r, u) PROVE Same
  BY <1>5 DEF RequestRebuild
<1>6. ASSUME NEW r \in Request, PollReject(r) \/ PollCancel(r) \/ PollBegin(r) PROVE Same
  BY <1>6 DEF PollReject, PollCancel, PollBegin
<1>7. ASSUME NEW w \in Worker, RebuildStop(w) \/ Settle(w) \/ Clear(w) PROVE Same
  BY <1>7 DEF RebuildStop, Settle, Clear
<1>8. ASSUME NEW w \in Worker, NEW ok \in BOOLEAN, RebuildStart(w, ok) PROVE Same
  BY <1>8 DEF RebuildStart
<1>9. CASE UNCHANGED vars
  BY <1>9 DEF vars
<1> QED
  BY <1>1, <1>2, <1>3, <1>4, <1>5, <1>6, <1>7, <1>8, <1>9 DEF Next

LEMMA ListedNext == EntriesAreListed /\ [Next]_vars => EntriesAreListed'
<1> USE DEF syncVars
<1> SUFFICES ASSUME EntriesAreListed, [Next]_vars PROVE EntriesAreListed'
  OBVIOUS
<1>1. ASSUME NEW c \in Configs, Sync(c) PROVE EntriesAreListed'
  BY <1>1, ListedSync
<1>2. CASE StopAll
  BY <1>2 DEF StopAll, EntriesAreListed
<1>3. CASE UNCHANGED <<syncVars, running>>
  BY <1>3 DEF EntriesAreListed
<1> QED
  BY <1>1, <1>2, <1>3, OnlySyncAligns

LEMMA MisalignNext ==
    TypeOK /\ EntriesAreListed /\ OnlyPanicsMisalign /\ [Next]_vars => OnlyPanicsMisalign'
<1> USE DEF syncVars
<1> SUFFICES ASSUME TypeOK, EntriesAreListed, OnlyPanicsMisalign, [Next]_vars
             PROVE  OnlyPanicsMisalign'
  OBVIOUS
<1>1. ASSUME NEW c \in Configs, Sync(c) PROVE OnlyPanicsMisalign'
  <2>1. CASE SyncAligns(c)
    BY <2>1, AlignedSync DEF OnlyPanicsMisalign
  <2>2. CASE SyncPanics(c)
    BY <2>2 DEF SyncPanics, OnlyPanicsMisalign
  <2> QED
    BY <1>1, <2>1, <2>2 DEF Sync
<1>2. CASE StopAll
  <2>1. ASSUME NEW u \in Upstream PROVE ~IsRunning(u)'
    <3>1. CASE u \in entries
      <4>1. Current(u) \in Tunnel /\ Current(u)' = Current(u)
        BY <1>2, <3>1, CurrentType DEF StopAll, Current
      <4>2. running'[Current(u)] => running[Current(u)] /\ ~Managed(Current(u))
        BY <1>2, <4>1 DEF StopAll
      <4> QED
        BY <3>1, <4>1, <4>2 DEF Managed, IsRunning, Current
    <3>2. CASE u \notin entries
      BY <1>2, <3>2 DEF StopAll, IsRunning
    <3> QED
      BY <3>1, <3>2
  <2> QED
    BY <2>1 DEF OnlyPanicsMisalign, RunningAreEnabled
<1>3. CASE UNCHANGED <<syncVars, running>>
  BY <1>3 DEF OnlyPanicsMisalign, RunningAreEnabled, IsRunning, Current
<1> QED
  BY <1>1, <1>2, <1>3, OnlySyncAligns

LEMMA NeverNilNext ==
    ASSUME Malformed = {}
    PROVE  NeverNil /\ [Next]_vars => NeverNil'
<1> USE DEF syncVars
<1> SUFFICES ASSUME NeverNil, [Next]_vars PROVE NeverNil'
  OBVIOUS
<1>1. ASSUME NEW c \in Configs, Sync(c) PROVE NeverNil'
  BY <1>1, NeverNilSync
<1>2. CASE StopAll
  BY <1>2 DEF StopAll, NeverNil
<1>3. CASE UNCHANGED <<syncVars, running>>
  BY <1>3 DEF NeverNil
<1> QED
  BY <1>1, <1>2, <1>3, OnlySyncAligns

LEMMA AlignInit ==
    Init => EntriesAreListed /\ OnlyPanicsMisalign /\ NeverNil
BY DEF Init, EntriesAreListed, OnlyPanicsMisalign, RunningAreEnabled, IsRunning,
       NeverNil, Range

\* m.order lists every entry the Manager holds, rejected upstreams and panics included.
THEOREM NothingUnlisted == Spec => []EntriesAreListed
BY AlignInit, ListedNext, PTL DEF Spec

\* Whatever upstreams the factory rejects and however often Sync has panicked, the next
\* Sync that returns leaves nothing running it was not asked to run.
THEOREM ReturnAligns == Spec => []OnlyPanicsMisalign
BY AlignInit, TypeInit, TypeNext, ListedNext, MisalignNext, PTL DEF Spec

\* As long as every configured upstream is one the factory accepts, no Sync panics, and
\* nothing runs that the last one was not asked to run.
THEOREM SyncAligned ==
    ASSUME Malformed = {}
    PROVE  Spec => []RunningAreEnabled
<1>1. NeverNil /\ [Next]_vars => NeverNil'
  BY NeverNilNext
<1>2. NeverNil /\ OnlyPanicsMisalign => RunningAreEnabled
  BY DEF NeverNil, OnlyPanicsMisalign
<1> QED
  BY <1>1, <1>2, AlignInit, TypeInit, TypeNext, ListedNext, MisalignNext, PTL DEF Spec

-----------------------------------------------------------------------------
\* Stopped tunnels.

\* One step wakes a sleeping tunnel only by making it a running one.
Wakes(t) == Asleep(t) => Asleep(t)' \/ Managed(t)'

LEMMA SleepSync ==
    ASSUME TypeOK, NEW c \in Configs, Sync(c), NEW t \in Tunnel
    PROVE  Wakes(t)
<1> SUFFICES ASSUME Asleep(t), dev'[t] PROVE Managed(t)'
  BY DEF Wakes, Asleep, Sync, SyncAligns, SyncPanics
<1>1. ~dev[t] /\ ~Managed(t)
  BY DEF Asleep
<1>2. ~SyncPanics(c)
  BY <1>1 DEF SyncPanics
<1>3. SyncAligns(c)
  BY <1>2 DEF Sync
<1>4. t \in Started(c) \/ t \in Changed(c) \ Stopping(c)
  BY <1>1, <1>3 DEF SyncAligns
<1>5. running'[t]
  BY <1>3, <1>4 DEF SyncAligns, Started, Changed
<1>6. t \in Kept(c)
  BY <1>4 DEF Started, Starting, Changed
<1>7. PICK u \in (entries \cap Range(c.ids)) \cup Fresh(c) : t = Inst(c, u)
  BY <1>6 DEF Kept
<1>8. u \in Upstream /\ u \in entries' /\ gen'[u] = Inst(c, u)[2]
  BY <1>3, ConfigType DEF SyncAligns, TypeOK, Fresh, Gone
<1>9. t[1] = u /\ t = Current(u)'
  BY <1>7, <1>8 DEF Inst, Current
<1> QED
  BY <1>5, <1>8, <1>9 DEF Managed, Current

LEMMA SleepNext ==
    TypeOK /\ RebuildExclusive /\ [Next]_vars => \A t \in Tunnel : Wakes(t)
<1> USE DEF syncVars, healthVars, paramVars, workVars
<1> SUFFICES ASSUME TypeOK, RebuildExclusive, [Next]_vars, NEW t \in Tunnel
             PROVE  Wakes(t)
  OBVIOUS
<1>1. ASSUME UNCHANGED <<entries, gen, running>>, dev'[t] => dev[t],
             rebuilding'[t] => rebuilding[t]
      PROVE  Wakes(t)
  BY <1>1 DEF Wakes, Asleep, Managed, Current
<1>2. ASSUME UNCHANGED <<syncVars, running, rebuilding, dev>> PROVE Wakes(t)
  BY <1>1, <1>2
<1>3. ASSUME NEW c \in Configs, Sync(c) PROVE Wakes(t)
  BY <1>3, SleepSync
<1>4. CASE StopAll
  BY <1>4 DEF StopAll, Wakes, Asleep, Managed, Current
<1>5. ASSUME NEW th \in Threshold, NEW lm \in LatencyMax, ApplyHealth(th, lm) PROVE Wakes(t)
  BY <1>2, <1>5 DEF ApplyHealth
<1>6. CASE ProbeAll
  BY <1>2, <1>6 DEF ProbeAll
<1>7. ASSUME NEW u \in Upstream, NEW res \in Latency \cup {0}, Measure(u, res) PROVE Wakes(t)
  BY <1>2, <1>7 DEF Measure
<1>8. ASSUME NEW u \in Upstream, RecordMissing(u) \/ RecordSuccess(u) PROVE Wakes(t)
  BY <1>2, <1>8 DEF RecordMissing, RecordSuccess
<1>9. ASSUME NEW u \in Upstream, RecordFailure(u) PROVE Wakes(t)
  <2>1. UNCHANGED <<syncVars, running, dev>> /\ u \in entries
    BY <1>9 DEF RecordFailure
  <2>2. CASE NeedsRebuild(Current(u))
    <3>1. Managed(Current(u))
      BY <2>1, <2>2 DEF NeedsRebuild, Managed, Current
    <3>2. rebuilding' = [rebuilding EXCEPT ![Current(u)] = TRUE]
      BY <1>9, <2>2 DEF RecordFailure
    <3>3. CASE t = Current(u)
      BY <3>1, <3>3 DEF Wakes, Asleep
    <3>4. CASE t # Current(u)
      BY <1>1, <2>1, <3>2, <3>4 DEF TypeOK
    <3> QED
      BY <3>3, <3>4
  <2>3. CASE ~NeedsRebuild(Current(u))
    BY <1>2, <1>9, <2>1, <2>3 DEF RecordFailure
  <2> QED
    BY <2>2, <2>3
<1>10. ASSUME NEW r \in Request, NEW u \in Upstream, RequestRebuild(r, u) PROVE Wakes(t)
  BY <1>2, <1>10 DEF RequestRebuild
<1>11. ASSUME NEW r \in Request, PollReject(r) \/ PollCancel(r) PROVE Wakes(t)
  BY <1>2, <1>11 DEF PollReject, PollCancel
<1>12. ASSUME NEW r \in Request, PollBegin(r) PROVE Wakes(t)
  <2>1. CASE t = Current(Asked(r))
    <3>1. Managed(t)
      BY <1>12, <2>1 DEF PollBegin, IsRunning, Managed, Current
    <3> QED
      BY <3>1 DEF Wakes, Asleep
  <2>2. CASE t # Current(Asked(r))
    BY <1>1, <1>12, <2>2 DEF PollBegin, TypeOK
  <2> QED
    BY <2>1, <2>2
<1>13. ASSUME NEW w \in Worker, RebuildStop(w) PROVE Wakes(t)
  BY <1>1, <1>13 DEF RebuildStop, TypeOK
<1>14. ASSUME NEW w \in Worker, Settle(w) PROVE Wakes(t)
  BY <1>2, <1>14 DEF Settle
<1>15. ASSUME NEW w \in Worker, Clear(w) PROVE Wakes(t)
  BY <1>1, <1>15 DEF Clear, TypeOK
<1>16. ASSUME NEW w \in Worker, NEW ok \in BOOLEAN, RebuildStart(w, ok) PROVE Wakes(t)
  <2>1. CASE t = on[w]
    <3>1. rebuilding[t]
      BY <1>16, <2>1 DEF RebuildStart, RebuildExclusive, Busy
    <3> QED
      BY <3>1 DEF Wakes, Asleep
  <2>2. CASE t # on[w]
    BY <1>1, <1>16, <2>2 DEF RebuildStart, TypeOK
  <2> QED
    BY <2>1, <2>2
<1>17. CASE UNCHANGED vars
  BY <1>2, <1>17 DEF vars
<1> QED
  BY <1>3, <1>4, <1>5, <1>6, <1>7, <1>8, <1>9, <1>10, <1>11, <1>12, <1>13, <1>14, <1>15,
     <1>16, <1>17 DEF Next

\* Nothing but a Sync that starts it wakes a tunnel that is stopped, down and not being
\* rebuilt: the guards of Manager.Rebuild and RecordProbe suffice, for any interleaving.
\* (What they do not rule out is a stop that comes while a rebuild is in flight.)
THEOREM StoppedStaysStopped == Spec => SleepersStayAsleep
<1>1. Init => RebuildExclusive
  BY DEF Init, RebuildExclusive, Busy
<1>2. TypeOK /\ RebuildExclusive /\ [Next]_vars
         => [\A t \in Tunnel : Asleep(t) => Asleep(t)' \/ Managed(t)']_vars
  BY SleepNext DEF Wakes
<1> QED
  BY <1>1, <1>2, TypeInit, TypeNext, ExclusiveNext, PTL DEF Spec, SleepersStayAsleep

-----------------------------------------------------------------------------
\* The lifecycle.

\* What is up, running or being rebuilt belongs to an entry that has been created.
NothingUnborn ==
    \A t \in Tunnel : dev[t] \/ running[t] \/ rebuilding[t] => t[2] <= gen[t[1]]

\* A set of indices has a least element.
LEMMA Least ==
    ASSUME NEW T, T \subseteq Nat, T # {}
    PROVE  \E x \in T : \A y \in T : x <= y
<1>1. PICK x \in T : \A y \in T : ~(<<y, x>> \in OpToRel(<, Nat))
  BY NatLessThanWellFounded, WFMin, Zenon
<1>2. ASSUME NEW y \in T PROVE x <= y
  <2>1. ~(y < x)
    BY <1>1, Zenon DEF OpToRel
  <2> QED
    BY <2>1
<1> QED
  BY <1>2

\* The entries a panicking Sync removes before the nil one are there.
LEMMA GoneHaveEntries ==
    ASSUME TypeOK, NEW c \in Configs, Nils(c) # {},
           NEW i \in 1..(PanicAt(c) - 1), order[i] \notin Range(c.ids)
    PROVE  order[i] \in entries
<1>1. order \in Seq(Upstream)
  BY ConstantsAssumption DEF TypeOK
<1>2. Nils(c) \subseteq DOMAIN order /\ DOMAIN order = 1..Len(order) /\ Len(order) \in Nat
  BY <1>1 DEF Nils
<1>3. \E j \in Nils(c) : \A k \in Nils(c) : j <= k
  BY <1>2, Least
<1>4. PanicAt(c) \in Nils(c) /\ \A j \in Nils(c) : PanicAt(c) <= j
  BY <1>3 DEF PanicAt
<1>5. i \notin Nils(c) /\ i \in DOMAIN order
  BY <1>2, <1>4
<1> QED
  BY <1>5 DEF Nils, Gone, Range

\* PhaseOf by cases.
PhaseTable ==
    \A t \in Tunnel :
        /\ PhaseOf(t) = "new" <=> t[2] > gen[t[1]]
        /\ PhaseOf(t) = "running" <=> t[1] \in entries /\ t[2] = gen[t[1]] /\ running[t]
        /\ PhaseOf(t) = "stopped" <=> t[1] \in entries /\ t[2] = gen[t[1]] /\ ~running[t]
        /\ PhaseOf(t) = "removed" <=> \/ t[2] < gen[t[1]]
                                      \/ t[2] = gen[t[1]] /\ t[1] \notin entries
        /\ PhaseOf(t) \in {"new", "stopped", "running", "removed"}

LEMMA TunnelParts ==
    ASSUME TypeOK, NEW t \in Tunnel
    PROVE  /\ t[1] \in Upstream /\ t[2] \in 1..MaxGen /\ gen[t[1]] \in 0..MaxGen
           /\ t = Current(t[1]) <=> t[2] = gen[t[1]]
BY ConstantsAssumption DEF TypeOK, Tunnel, Current

LEMMA PhaseIs == TypeOK => PhaseTable
<1> SUFFICES ASSUME TypeOK, NEW t \in Tunnel
             PROVE  /\ PhaseOf(t) = "new" <=> t[2] > gen[t[1]]
                    /\ PhaseOf(t) = "running"
                           <=> t[1] \in entries /\ t[2] = gen[t[1]] /\ running[t]
                    /\ PhaseOf(t) = "stopped"
                           <=> t[1] \in entries /\ t[2] = gen[t[1]] /\ ~running[t]
                    /\ PhaseOf(t) = "removed"
                           <=> t[2] < gen[t[1]] \/ (t[2] = gen[t[1]] /\ t[1] \notin entries)
                    /\ PhaseOf(t) \in {"new", "stopped", "running", "removed"}
  BY DEF PhaseTable
<1>1. /\ t[2] \in 1..MaxGen /\ gen[t[1]] \in 0..MaxGen /\ MaxGen \in Nat
      /\ t = Current(t[1]) <=> t[2] = gen[t[1]]
  BY TunnelParts, ConstantsAssumption
<1>2. CASE t[2] > gen[t[1]]
  BY <1>1, <1>2 DEF PhaseOf
<1>3. CASE t[2] < gen[t[1]]
  BY <1>1, <1>3 DEF PhaseOf
<1>4. CASE t[2] = gen[t[1]]
  BY <1>1, <1>4 DEF PhaseOf
<1> QED
  BY <1>1, <1>2, <1>3, <1>4

LEMMA PhaseIsAfter == TypeOK' => PhaseTable'
BY PhaseIs, PTL

\* A Sync that reaches its end: what becomes of the generations and the entries.
LEMMA InstNow ==
    ASSUME TypeOK, NEW c \in Configs, SyncAligns(c), NEW u \in Upstream
    PROVE  /\ Inst(c, u) = Current(u)'
           /\ gen'[u] = IF u \in Fresh(c) THEN gen[u] + 1 ELSE gen[u]
           /\ gen[u] \in 0..MaxGen
           /\ u \in entries' <=> u \in Fresh(c) \/ (u \in entries /\ u \notin Gone(c))
           /\ u \in Fresh(c) => u \notin entries
           /\ u \in Gone(c) => u \in entries /\ u \notin Range(c.ids)
<1>1. gen'[u] = Inst(c, u)[2]
  BY DEF SyncAligns
<1>2. Inst(c, u) = Current(u)'
  BY <1>1 DEF Inst, Current
<1>3. gen'[u] = IF u \in Fresh(c) THEN gen[u] + 1 ELSE gen[u]
  BY <1>1 DEF Inst
<1>4. u \in entries' <=> u \in Fresh(c) \/ (u \in entries /\ u \notin Gone(c))
  BY DEF SyncAligns
<1>5. u \in Gone(c) => u \in entries
  BY DEF SyncAligns, Nils, Gone, Range
<1> QED
  BY <1>2, <1>3, <1>4, <1>5 DEF Fresh, Gone, TypeOK

\* The tunnels Sync works on are entries afterwards.
LEMMA KeptStay ==
    ASSUME TypeOK, EntriesAreListed, NEW c \in Configs, SyncAligns(c),
           NEW t \in Tunnel, t \in Kept(c)
    PROVE  t[1] \in entries' /\ t = Current(t[1])' /\ t[1] \notin Gone(c)
<1>1. PICK u \in (entries \cap Range(c.ids)) \cup Fresh(c) : t = Inst(c, u)
  BY DEF Kept
<1>2. u \in Upstream /\ t[1] = u
  BY <1>1, ConfigType DEF Fresh, Inst
<1> QED
  BY <1>1, <1>2, InstNow DEF Fresh, Gone

LEMMA UnbornSync ==
    ASSUME TypeOK, EntriesAreListed, NothingUnborn, NEW c \in Configs, Sync(c)
    PROVE  NothingUnborn'
<1>1. CASE SyncAligns(c)
  <2> SUFFICES ASSUME NEW t \in Tunnel, dev'[t] \/ running'[t] \/ rebuilding'[t]
               PROVE  t[2] <= gen'[t[1]]
    BY DEF NothingUnborn
  <2>1. t[1] \in Upstream /\ t[2] \in 1..MaxGen
    BY DEF Tunnel
  <2>2. gen'[t[1]] >= gen[t[1]] /\ gen[t[1]] \in 0..MaxGen /\ gen'[t[1]] \in Nat
    BY <1>1, <2>1, InstNow, ConstantsAssumption
  <2>3. CASE t \in Kept(c)
    <3>1. t = Current(t[1])'
      BY <1>1, <2>3, KeptStay
    <3> QED
      BY <2>1, <2>2, <3>1 DEF Current
  <2>4. CASE t \notin Kept(c)
    <3>1. dev[t] \/ running[t] \/ rebuilding[t]
      BY <1>1, <2>4 DEF SyncAligns, Started, Starting, Changed
    <3> QED
      BY <2>1, <2>2, <3>1, ConstantsAssumption DEF NothingUnborn
  <2> QED
    BY <2>3, <2>4
<1>2. CASE SyncPanics(c)
  BY <1>2 DEF SyncPanics, NothingUnborn
<1> QED
  BY <1>1, <1>2 DEF Sync

LEMMA UnbornNext ==
    TypeOK /\ EntriesAreListed /\ RebuildExclusive /\ NothingUnborn /\ [Next]_vars
        => NothingUnborn'
<1> USE DEF syncVars, healthVars, paramVars, workVars
<1> SUFFICES ASSUME TypeOK, EntriesAreListed, RebuildExclusive, NothingUnborn, [Next]_vars
             PROVE  NothingUnborn'
  OBVIOUS
<1>1. ASSUME gen' = gen,
             \A t \in Tunnel : dev'[t] \/ running'[t] \/ rebuilding'[t]
                                   => dev[t] \/ running[t] \/ rebuilding[t]
      PROVE  NothingUnborn'
  BY <1>1 DEF NothingUnborn
<1>2. ASSUME UNCHANGED <<gen, running, rebuilding, dev>> PROVE NothingUnborn'
  BY <1>1, <1>2
<1>3. ASSUME NEW c \in Configs, Sync(c) PROVE NothingUnborn'
  BY <1>3, UnbornSync
<1>4. CASE StopAll
  BY <1>1, <1>4 DEF StopAll
<1>5. ASSUME NEW th \in Threshold, NEW lm \in LatencyMax, ApplyHealth(th, lm)
      PROVE  NothingUnborn'
  BY <1>2, <1>5 DEF ApplyHealth
<1>6. CASE ProbeAll
  BY <1>2, <1>6 DEF ProbeAll
<1>7. ASSUME NEW u \in Upstream, NEW res \in Latency \cup {0}, Measure(u, res)
      PROVE  NothingUnborn'
  BY <1>2, <1>7 DEF Measure
<1>8. ASSUME NEW u \in Upstream, RecordMissing(u) \/ RecordSuccess(u) PROVE NothingUnborn'
  BY <1>2, <1>8 DEF RecordMissing, RecordSuccess
<1>9. ASSUME NEW u \in Upstream, RecordFailure(u) PROVE NothingUnborn'
  <2>1. CASE NeedsRebuild(Current(u))
    <3>1. running[Current(u)]
      BY <2>1 DEF NeedsRebuild
    <3>2. rebuilding' = [rebuilding EXCEPT ![Current(u)] = TRUE] /\ UNCHANGED <<gen, running, dev>>
      BY <1>9, <2>1 DEF RecordFailure
    <3> QED
      BY <1>1, <3>1, <3>2 DEF TypeOK
  <2>2. CASE ~NeedsRebuild(Current(u))
    BY <1>2, <1>9, <2>2 DEF RecordFailure
  <2> QED
    BY <2>1, <2>2
<1>10. ASSUME NEW r \in Request, NEW u \in Upstream, RequestRebuild(r, u) PROVE NothingUnborn'
  BY <1>2, <1>10 DEF RequestRebuild
<1>11. ASSUME NEW r \in Request, PollReject(r) \/ PollCancel(r) PROVE NothingUnborn'
  BY <1>2, <1>11 DEF PollReject, PollCancel
<1>12. ASSUME NEW r \in Request, PollBegin(r) PROVE NothingUnborn'
  BY <1>1, <1>12 DEF PollBegin, IsRunning, TypeOK
<1>13. ASSUME NEW w \in Worker, RebuildStop(w) \/ Clear(w) PROVE NothingUnborn'
  BY <1>1, <1>13 DEF RebuildStop, Clear, TypeOK
<1>14. ASSUME NEW w \in Worker, Settle(w) PROVE NothingUnborn'
  BY <1>2, <1>14 DEF Settle
<1>15. ASSUME NEW w \in Worker, NEW ok \in BOOLEAN, RebuildStart(w, ok) PROVE NothingUnborn'
  <2>1. on[w] \in Tunnel /\ rebuilding[on[w]]
    BY <1>15 DEF RebuildStart, RebuildExclusive, Busy, TypeOK
  <2> QED
    BY <1>1, <1>15, <2>1 DEF RebuildStart, TypeOK
<1>16. CASE UNCHANGED vars
  BY <1>2, <1>16 DEF vars
<1> QED
  BY <1>3, <1>4, <1>5, <1>6, <1>7, <1>8, <1>9, <1>10, <1>11, <1>12, <1>13, <1>14, <1>15,
     <1>16 DEF Next

\* A Sync that reaches its end, as an alignment: tunnel by tunnel.
LEMMA SyncAlignsPhase ==
    ASSUME TypeOK, EntriesAreListed, NothingUnborn,
           NEW c \in Configs, SyncAligns(c), TypeOK', NEW t \in Tunnel
    PROVE  /\ PhaseOf(t)' \in Lifecycle!After(PhaseOf(t))
           /\ PhaseOf(t) # "running" /\ PhaseOf(t)' = "running" => dev'[t]
           /\ PhaseOf(t) = "running" /\ PhaseOf(t)' # "running" => ~dev'[t]
           /\ PhaseOf(t) # "running" /\ PhaseOf(t)' # "running" => dev'[t] = dev[t]
<1> DEFINE u == t[1]
<1>1. /\ u \in Upstream /\ t[2] \in 1..MaxGen /\ gen[u] \in 0..MaxGen /\ MaxGen \in Nat
      /\ gen'[u] = IF u \in Fresh(c) THEN gen[u] + 1 ELSE gen[u]
      /\ u \in entries' <=> u \in Fresh(c) \/ (u \in entries /\ u \notin Gone(c))
      /\ u \in Fresh(c) => u \notin entries
      /\ u \in Gone(c) => u \in entries
  BY TunnelParts, InstNow, ConstantsAssumption
<1>2. /\ PhaseOf(t) = "new" <=> t[2] > gen[u]
      /\ PhaseOf(t) = "running" <=> u \in entries /\ t[2] = gen[u] /\ running[t]
      /\ PhaseOf(t) = "stopped" <=> u \in entries /\ t[2] = gen[u] /\ ~running[t]
      /\ PhaseOf(t) = "removed" <=> t[2] < gen[u] \/ (t[2] = gen[u] /\ u \notin entries)
      /\ PhaseOf(t) \in {"new", "stopped", "running", "removed"}
  BY PhaseIs DEF PhaseTable
<1>3. /\ PhaseOf(t)' = "new" <=> t[2] > gen'[u]
      /\ PhaseOf(t)' = "running" <=> u \in entries' /\ t[2] = gen'[u] /\ running'[t]
      /\ PhaseOf(t)' = "stopped" <=> u \in entries' /\ t[2] = gen'[u] /\ ~running'[t]
      /\ PhaseOf(t)' = "removed" <=> t[2] < gen'[u] \/ (t[2] = gen'[u] /\ u \notin entries')
      /\ PhaseOf(t)' \in {"new", "stopped", "running", "removed"}
  BY PhaseIsAfter DEF PhaseTable
<1>4. running'[t] <=> (running[t] /\ t \notin Stopping(c)) \/ t \in Started(c)
  BY DEF SyncAligns
<1>5. dev'[t] <=> \/ t \in Started(c)
                  \/ t \in Changed(c) \ Stopping(c) /\ u \notin c.down
                  \/ dev[t] /\ t \notin Changed(c) \cup Stopping(c) \cup Removed(c)
  BY DEF SyncAligns
<1>6. running[t] => t[2] <= gen[u]
  BY DEF NothingUnborn
<1>7. /\ t \in Started(c) => t \in Kept(c) /\ ~running[t]
      /\ t \in Changed(c) \cup Stopping(c) => t \in Kept(c) /\ running[t]
      /\ t \in Removed(c) <=> u \in Gone(c) /\ t[2] = gen[u] /\ running[t]
  BY <1>1, TunnelParts DEF Started, Starting, Changed, Stopping, Removed, Current
<1>8. t \in Kept(c) => u \in entries' /\ t[2] = gen'[u] /\ u \notin Gone(c)
  BY KeptStay DEF Current
<1>9. PhaseOf(t)' \in Lifecycle!After(PhaseOf(t))
  <2>1. CASE PhaseOf(t) = "new"
    BY <1>1, <1>2, <1>3, <2>1 DEF Lifecycle!After
  <2>2. CASE PhaseOf(t) = "removed"
    BY <1>1, <1>2, <1>3, <2>2 DEF Lifecycle!After
  <2>3. CASE PhaseOf(t) \in {"stopped", "running"}
    BY <1>1, <1>2, <1>3, <2>3 DEF Lifecycle!After
  <2> QED
    BY <1>2, <2>1, <2>2, <2>3
<1>10. ASSUME PhaseOf(t) # "running", PhaseOf(t)' = "running" PROVE dev'[t]
  BY <1>1, <1>2, <1>3, <1>4, <1>5, <1>6, <1>10
<1>11. ASSUME PhaseOf(t) = "running", PhaseOf(t)' # "running" PROVE ~dev'[t]
  <2>1. running[t] /\ u \in entries /\ t[2] = gen[u] /\ gen'[u] = gen[u]
    BY <1>1, <1>2, <1>11
  <2>2. t \notin Started(c)
    BY <1>7, <2>1
  <2>3. CASE u \in entries'
    BY <1>3, <1>4, <1>5, <1>11, <2>1, <2>2, <2>3
  <2>4. CASE u \notin entries'
    <3>1. t \in Removed(c) /\ t \notin Kept(c)
      BY <1>1, <1>7, <1>8, <2>1, <2>4
    <3> QED
      BY <1>5, <1>7, <2>2, <3>1
  <2> QED
    BY <2>3, <2>4
<1>12. ASSUME PhaseOf(t) # "running", PhaseOf(t)' # "running" PROVE dev'[t] = dev[t]
  <2>1. t \notin Started(c)
    BY <1>3, <1>4, <1>7, <1>8, <1>12
  <2>2. ~(t \in Kept(c) /\ running[t])
    BY <1>1, <1>2, <1>6, <1>8, <1>12
  <2>3. t \notin Removed(c)
    BY <1>1, <1>2, <1>7, <1>12
  <2>4. dev'[t] <=> dev[t]
    BY <1>5, <1>7, <2>1, <2>2, <2>3
  <2> QED
    BY <2>4 DEF TypeOK
<1> QED
  BY <1>9, <1>10, <1>11, <1>12

\* What a step has to do to be an alignment of the lifecycle.
LEMMA AlignsIf ==
    ASSUME TypeOK, TypeOK', UNCHANGED workVars,
           \A t \in Tunnel :
               /\ PhaseOf(t)' \in Lifecycle!After(PhaseOf(t))
               /\ PhaseOf(t) # "running" /\ PhaseOf(t)' = "running" => dev'[t]
               /\ PhaseOf(t) = "running" /\ PhaseOf(t)' # "running" => ~dev'[t]
               /\ PhaseOf(t) # "running" /\ PhaseOf(t)' # "running" => dev'[t] = dev[t]
    PROVE  Lifecycle!Align
<1>1. Phases = [t \in Tunnel |-> PhaseOf(t)] /\ Phases' = [t \in Tunnel |-> PhaseOf(t)']
  BY DEF Phases
<1>2. \A t \in Tunnel : PhaseOf(t)' \in Lifecycle!Phase
  <2> SUFFICES ASSUME NEW t \in Tunnel PROVE PhaseOf(t)' \in Lifecycle!Phase
    OBVIOUS
  <2>1. PhaseOf(t)' \in Lifecycle!After(PhaseOf(t)) /\ PhaseOf(t) \in {"new", "stopped", "running", "removed"}
    BY PhaseIs DEF PhaseTable
  <2> QED
    BY <2>1 DEF Lifecycle!Phase, Lifecycle!After
<1>3. Holds' = Holds
  BY DEF Holds, workVars
<1>4. dev' \in [Tunnel -> BOOLEAN]
  BY DEF TypeOK
<1> QED
  BY <1>1, <1>2, <1>3, <1>4 DEF Lifecycle!Align

\* A phase that stays, with its device, is an alignment of that tunnel.
LEMMA SameAligns ==
    ASSUME TypeOK, NEW t \in Tunnel
    PROVE  PhaseOf(t) \in Lifecycle!After(PhaseOf(t))
<1>1. PhaseOf(t) \in {"new", "stopped", "running", "removed"}
  BY PhaseIs DEF PhaseTable
<1> QED
  BY <1>1 DEF Lifecycle!After

\* A Sync that panics half way has removed tunnels and nothing else.
LEMMA SyncPanicsIsAlign ==
    ASSUME TypeOK, TypeOK', NEW c \in Configs, SyncPanics(c)
    PROVE  Lifecycle!Align
<1> DEFINE gone == {order[i] : i \in 1..(PanicAt(c) - 1)} \ Range(c.ids)
           torn == {t \in {Current(u) : u \in gone} : running[t]}
<1>1. /\ entries' = entries \ gone
      /\ dev' = [t \in Tunnel |-> dev[t] /\ t \notin torn]
      /\ gen' = gen /\ running' = running /\ UNCHANGED workVars
  BY DEF SyncPanics
<1>2. gone \subseteq entries
  <2> SUFFICES ASSUME NEW i \in 1..(PanicAt(c) - 1), order[i] \notin Range(c.ids)
               PROVE  order[i] \in entries
    OBVIOUS
  <2> QED
    BY GoneHaveEntries DEF SyncPanics
<1> SUFFICES ASSUME NEW t \in Tunnel
             PROVE  /\ PhaseOf(t)' \in Lifecycle!After(PhaseOf(t))
                    /\ PhaseOf(t) # "running" /\ PhaseOf(t)' = "running" => dev'[t]
                    /\ PhaseOf(t) = "running" /\ PhaseOf(t)' # "running" => ~dev'[t]
                    /\ PhaseOf(t) # "running" /\ PhaseOf(t)' # "running" => dev'[t] = dev[t]
  BY <1>1, AlignsIf
<1> DEFINE u == t[1]
<1> HIDE DEF gone
<1>3. t[2] \in 1..MaxGen /\ gen[u] \in 0..MaxGen /\ MaxGen \in Nat
  BY TunnelParts, ConstantsAssumption
<1>4. /\ PhaseOf(t) = "new" <=> t[2] > gen[u]
      /\ PhaseOf(t) = "running" <=> u \in entries /\ t[2] = gen[u] /\ running[t]
      /\ PhaseOf(t) = "stopped" <=> u \in entries /\ t[2] = gen[u] /\ ~running[t]
      /\ PhaseOf(t) = "removed" <=> t[2] < gen[u] \/ (t[2] = gen[u] /\ u \notin entries)
      /\ PhaseOf(t) \in {"new", "stopped", "running", "removed"}
  BY PhaseIs DEF PhaseTable
<1>5. /\ PhaseOf(t)' = "new" <=> t[2] > gen[u]
      /\ PhaseOf(t)' = "running" <=> u \in entries' /\ t[2] = gen[u] /\ running[t]
      /\ PhaseOf(t)' = "stopped" <=> u \in entries' /\ t[2] = gen[u] /\ ~running[t]
      /\ PhaseOf(t)' = "removed" <=> t[2] < gen[u] \/ (t[2] = gen[u] /\ u \notin entries')
      /\ PhaseOf(t)' \in {"new", "stopped", "running", "removed"}
  BY <1>1, PhaseIsAfter DEF PhaseTable
<1>6. u \in entries' <=> u \in entries /\ u \notin gone
  BY <1>1
<1>7. t \in torn <=> u \in gone /\ t[2] = gen[u] /\ running[t]
  BY TunnelParts DEF Current
<1>8. dev'[t] = (dev[t] /\ t \notin torn)
  BY <1>1
<1> HIDE DEF torn
<1>9. \/ PhaseOf(t)' = PhaseOf(t)
      \/ PhaseOf(t) \in {"stopped", "running"} /\ PhaseOf(t)' = "removed"
  <2>1. CASE t[2] = gen[u] /\ u \in entries /\ u \notin entries'
    BY <1>3, <1>4, <1>5, <2>1
  <2>2. CASE t[2] = gen[u] /\ (u \in entries <=> u \in entries')
    BY <1>3, <1>4, <1>5, <2>2
  <2>3. CASE t[2] # gen[u]
    BY <1>3, <1>4, <1>5, <2>3
  <2> QED
    BY <1>6, <2>1, <2>2, <2>3
<1>10. PhaseOf(t)' \in Lifecycle!After(PhaseOf(t))
  BY <1>9, SameAligns DEF Lifecycle!After
<1>11. PhaseOf(t) = "running" /\ PhaseOf(t)' # "running" => ~dev'[t]
  BY <1>4, <1>5, <1>6, <1>7, <1>8
<1>12. ASSUME PhaseOf(t) # "running" PROVE dev'[t] = dev[t]
  <2>1. t \notin torn
    BY <1>2, <1>4, <1>7, <1>12
  <2> QED
    BY <1>8, <2>1 DEF TypeOK
<1> QED
  BY <1>9, <1>10, <1>11, <1>12

\* StopAll stops what runs.
LEMMA StopAllIsAlign ==
    ASSUME TypeOK, TypeOK', StopAll
    PROVE  Lifecycle!Align
<1>1. /\ entries' = entries /\ gen' = gen /\ UNCHANGED workVars
      /\ running' = [t \in Tunnel |-> running[t] /\ ~Managed(t)]
      /\ dev' = [t \in Tunnel |-> dev[t] /\ ~Managed(t)]
  BY DEF StopAll
<1> SUFFICES ASSUME NEW t \in Tunnel
             PROVE  /\ PhaseOf(t)' \in Lifecycle!After(PhaseOf(t))
                    /\ PhaseOf(t) # "running" /\ PhaseOf(t)' = "running" => dev'[t]
                    /\ PhaseOf(t) = "running" /\ PhaseOf(t)' # "running" => ~dev'[t]
                    /\ PhaseOf(t) # "running" /\ PhaseOf(t)' # "running" => dev'[t] = dev[t]
  BY <1>1, AlignsIf
<1> DEFINE u == t[1]
<1>2. t[2] \in 1..MaxGen /\ gen[u] \in 0..MaxGen /\ MaxGen \in Nat
  BY TunnelParts, ConstantsAssumption
<1>3. /\ PhaseOf(t) = "new" <=> t[2] > gen[u]
      /\ PhaseOf(t) = "running" <=> u \in entries /\ t[2] = gen[u] /\ running[t]
      /\ PhaseOf(t) = "stopped" <=> u \in entries /\ t[2] = gen[u] /\ ~running[t]
      /\ PhaseOf(t) = "removed" <=> t[2] < gen[u] \/ (t[2] = gen[u] /\ u \notin entries)
      /\ PhaseOf(t) \in {"new", "stopped", "running", "removed"}
  BY PhaseIs DEF PhaseTable
<1>4. /\ PhaseOf(t)' = "new" <=> t[2] > gen[u]
      /\ PhaseOf(t)' = "running" <=> u \in entries /\ t[2] = gen[u] /\ running'[t]
      /\ PhaseOf(t)' = "stopped" <=> u \in entries /\ t[2] = gen[u] /\ ~running'[t]
      /\ PhaseOf(t)' = "removed" <=> t[2] < gen[u] \/ (t[2] = gen[u] /\ u \notin entries)
      /\ PhaseOf(t)' \in {"new", "stopped", "running", "removed"}
  BY <1>1, PhaseIsAfter DEF PhaseTable
<1>5. Managed(t) <=> PhaseOf(t) = "running"
  BY <1>3, TunnelParts DEF Managed
<1>6. /\ running'[t] = (running[t] /\ ~Managed(t))
      /\ dev'[t] = (dev[t] /\ ~Managed(t))
  BY <1>1
<1>7. PhaseOf(t)' = IF Managed(t) THEN "stopped" ELSE PhaseOf(t)
  BY <1>2, <1>3, <1>4, <1>5, <1>6
<1>8. PhaseOf(t)' \in Lifecycle!After(PhaseOf(t))
  BY <1>5, <1>7, SameAligns DEF Lifecycle!After
<1>9. ASSUME ~Managed(t) PROVE dev'[t] = dev[t]
  BY <1>6, <1>9 DEF TypeOK
<1> QED
  BY <1>5, <1>6, <1>7, <1>8, <1>9

\* The steps that leave the entries alone leave the phases alone.
LEMMA PhasesStay ==
    ASSUME UNCHANGED <<entries, gen, running>>
    PROVE  Phases' = Phases
BY DEF Phases, PhaseOf, Current

\* Steps in which nobody takes or gives up the flag.
LEMMA HoldsStay ==
    ASSUME \A w \in Worker : /\ pc'[w] \in Busy <=> pc[w] \in Busy
                             /\ pc[w] \in Busy => on'[w] = on[w]
    PROVE  Holds' = Holds
BY DEF Holds

\* What a goroutine inside t.Rebuild holds is a tunnel.
LEMMA HoldsIs ==
    ASSUME TypeOK, NEW w \in Worker
    PROVE  /\ pc[w] \in Busy => Holds[w] = on[w] /\ Holds[w] \in Tunnel /\ Holds[w] # <<>>
           /\ pc[w] \notin Busy => Holds[w] = <<>>
<1>1. \A t \in Tunnel : t # <<>>
  BY DEF Tunnel
<1>2. on[w] \in Tunnel
  BY DEF TypeOK
<1> QED
  BY <1>1, <1>2 DEF Holds

\* Taking the flag, by a request or for a failed probe.
LEMMA BeginIsHold ==
    ASSUME TypeOK, RebuildExclusive, NEW w \in Worker, NEW t \in Tunnel,
           pc[w] \notin Busy, ~rebuilding[t], PhaseOf(t) = "running",
           pc' = [pc EXCEPT ![w] = "stop"], on' = [on EXCEPT ![w] = t],
           UNCHANGED <<entries, gen, running, dev>>
    PROVE  Lifecycle!Hold(w, t)
<1>1. Holds[w] = <<>> /\ Phases' = Phases /\ Phases[t] = "running"
  BY HoldsIs, PhasesStay DEF Phases
<1>2. \A v \in Worker : Holds[v] # t
  <2> SUFFICES ASSUME NEW v \in Worker, Holds[v] = t PROVE FALSE
    OBVIOUS
  <2>1. t # <<>>
    BY DEF Tunnel
  <2>2. pc[v] \in Busy /\ on[v] = t
    BY <2>1, HoldsIs
  <2> QED
    BY <2>2 DEF RebuildExclusive
<1>3. Holds' = [Holds EXCEPT ![w] = t]
  BY DEF Holds, TypeOK, Busy
<1> QED
  BY <1>1, <1>2, <1>3 DEF Lifecycle!Hold

\* Every step of the manager is one of the lifecycle, or leaves what it shows alone.
LEMMA LifecycleStep ==
    ASSUME TypeOK, TypeOK', EntriesAreListed, RebuildExclusive, NothingUnborn, [Next]_vars
    PROVE  Lifecycle!Next \/ UNCHANGED <<Phases, dev, Holds>>
<1> USE DEF syncVars, healthVars, paramVars, workVars
<1> DEFINE Goal == Lifecycle!Next \/ UNCHANGED <<Phases, dev, Holds>>
<1>1. ASSUME UNCHANGED <<entries, gen, running, dev, pc, on>> PROVE Goal
  BY <1>1, PhasesStay, HoldsStay
<1>2. ASSUME NEW w \in Worker, pc[w] \notin Busy, pc'[w] \notin Busy,
             \A v \in Worker \ {w} : pc'[v] = pc[v] /\ on'[v] = on[v],
             UNCHANGED <<entries, gen, running, dev>>
      PROVE  Goal
  BY <1>2, PhasesStay, HoldsStay
<1>3. ASSUME NEW c \in Configs, Sync(c) PROVE Goal
  <2>1. CASE SyncAligns(c)
    <3>1. \A t \in Tunnel :
              /\ PhaseOf(t)' \in Lifecycle!After(PhaseOf(t))
              /\ PhaseOf(t) # "running" /\ PhaseOf(t)' = "running" => dev'[t]
              /\ PhaseOf(t) = "running" /\ PhaseOf(t)' # "running" => ~dev'[t]
              /\ PhaseOf(t) # "running" /\ PhaseOf(t)' # "running" => dev'[t] = dev[t]
      BY <2>1, SyncAlignsPhase
    <3>2. UNCHANGED workVars
      BY <2>1 DEF SyncAligns
    <3> QED
      BY <3>1, <3>2, AlignsIf DEF Lifecycle!Next
  <2>2. CASE SyncPanics(c)
    BY <2>2, SyncPanicsIsAlign DEF Lifecycle!Next
  <2> QED
    BY <1>3, <2>1, <2>2 DEF Sync
<1>4. CASE StopAll
  BY <1>4, StopAllIsAlign DEF Lifecycle!Next
<1>5. ASSUME NEW th \in Threshold, NEW lm \in LatencyMax, ApplyHealth(th, lm) PROVE Goal
  BY <1>1, <1>5 DEF ApplyHealth
<1>6. CASE ProbeAll
  BY <1>1, <1>6 DEF ProbeAll
<1>7. ASSUME NEW u \in Upstream, NEW res \in Latency \cup {0}, Measure(u, res) PROVE Goal
  BY <1>1, <1>7 DEF Measure
<1>8. ASSUME NEW u \in Upstream, RecordMissing(u) \/ RecordSuccess(u) PROVE Goal
  BY <1>1, <1>8 DEF RecordMissing, RecordSuccess
<1>9. ASSUME NEW u \in Upstream, RecordFailure(u) PROVE Goal
  <2> DEFINE t == Current(u)
  <2>1. u \in entries /\ t \in Tunnel /\ UNCHANGED <<entries, gen, running, dev>>
    BY <1>9, CurrentType DEF RecordFailure
  <2>2. CASE NeedsRebuild(t)
    <3>1. PICK w \in AutoSlot : /\ pc[w] = "idle"
                                /\ pc' = [pc EXCEPT ![w] = "stop"]
                                /\ on' = [on EXCEPT ![w] = t]
      BY <1>9, <2>2 DEF RecordFailure
    <3>2. running[t] /\ ~rebuilding[t]
      BY <2>2 DEF NeedsRebuild
    <3>3. PhaseOf(t) = "running"
      BY <2>1, <3>2, PhaseIs DEF PhaseTable, Current
    <3>4. w \in Worker /\ pc[w] \notin Busy
      BY <3>1 DEF Worker, Busy
    <3> QED
      BY <2>1, <3>1, <3>2, <3>3, <3>4, BeginIsHold DEF Lifecycle!Next
  <2>3. CASE ~NeedsRebuild(t)
    BY <1>1, <1>9, <2>3 DEF RecordFailure
  <2> QED
    BY <2>2, <2>3
<1>10. ASSUME NEW r \in Request, NEW u \in Upstream, RequestRebuild(r, u) PROVE Goal
  <2>1. r \in Worker /\ pc[r] \notin Busy /\ pc'[r] \notin Busy
    BY <1>10 DEF RequestRebuild, Worker, Busy, TypeOK
  <2> QED
    BY <1>2, <1>10, <2>1 DEF RequestRebuild, TypeOK
<1>11. ASSUME NEW r \in Request, PollReject(r) \/ PollCancel(r) PROVE Goal
  <2>1. r \in Worker /\ pc[r] = "poll" /\ Leave(r) /\ UNCHANGED <<entries, gen, running, dev>>
    BY <1>11 DEF PollReject, PollCancel, Worker
  <2>2. /\ pc[r] \notin Busy /\ pc'[r] \notin Busy
        /\ \A v \in Worker \ {r} : pc'[v] = pc[v] /\ on'[v] = on[v]
    BY <2>1 DEF Leave, Busy, TypeOK
  <2> QED
    BY <1>2, <2>1, <2>2
<1>12. ASSUME NEW r \in Request, PollBegin(r) PROVE Goal
  <2> DEFINE t == Current(Asked(r))
  <2>1. /\ r \in Worker /\ pc[r] \notin Busy /\ ~rebuilding[t]
        /\ Asked(r) \in entries /\ running[t]
        /\ pc' = [pc EXCEPT ![r] = "stop"] /\ on' = [on EXCEPT ![r] = t]
        /\ UNCHANGED <<entries, gen, running, dev>>
    BY <1>12 DEF PollBegin, IsRunning, Worker, Busy
  <2>2. t \in Tunnel
    BY <2>1, CurrentType
  <2>3. PhaseOf(t) = "running"
    BY <2>1, <2>2, PhaseIs DEF PhaseTable, Current
  <2> QED
    BY <2>1, <2>2, <2>3, BeginIsHold DEF Lifecycle!Next
<1>13. ASSUME NEW w \in Worker, NEW b \in BOOLEAN, pc[w] \in Busy, pc'[w] \in Busy,
              pc' = [pc EXCEPT ![w] = pc'[w]], dev' = [dev EXCEPT ![on[w]] = b],
              UNCHANGED <<entries, gen, running, on>>
       PROVE  Lifecycle!Rebuild(w)
  <2>1. Holds[w] # <<>> /\ Holds[w] = on[w]
    BY <1>13, HoldsIs
  <2>2. \A v \in Worker : pc'[v] \in Busy <=> pc[v] \in Busy
    BY <1>13 DEF TypeOK
  <2> QED
    BY <1>13, <2>1, <2>2, PhasesStay, HoldsStay DEF Lifecycle!Rebuild
<1>14. ASSUME NEW w \in Worker, RebuildStop(w) PROVE Goal
  <2>1. pc[w] \in Busy /\ pc'[w] \in Busy /\ pc' = [pc EXCEPT ![w] = pc'[w]]
    BY <1>14 DEF RebuildStop, Busy, TypeOK
  <2> QED
    BY <1>13, <1>14, <2>1 DEF RebuildStop, Lifecycle!Next
<1>15. ASSUME NEW w \in Worker, Settle(w) PROVE Goal
  <2>1. \A v \in Worker : pc'[v] \in Busy <=> pc[v] \in Busy
    BY <1>15 DEF Settle, Busy, TypeOK
  <2> QED
    BY <1>15, <2>1, PhasesStay, HoldsStay DEF Settle
<1>16. ASSUME NEW w \in Worker, Clear(w) PROVE Goal
  <2>1. Holds[w] # <<>>
    BY <1>16, HoldsIs DEF Clear, Busy
  <2>2. Holds' = [Holds EXCEPT ![w] = <<>>]
    BY <1>16 DEF Clear, Leave, Holds, Busy, TypeOK
  <2>3. Phases' = Phases /\ dev' = dev
    BY <1>16, PhasesStay DEF Clear
  <2> QED
    BY <2>1, <2>2, <2>3 DEF Lifecycle!Next, Lifecycle!Release
<1>17. ASSUME NEW w \in Worker, NEW ok \in BOOLEAN, RebuildStart(w, ok) PROVE Goal
  <2>1. pc[w] \in Busy /\ pc'[w] \in Busy /\ pc' = [pc EXCEPT ![w] = pc'[w]]
    BY <1>17 DEF RebuildStart, Busy, TypeOK
  <2> QED
    BY <1>13, <1>17, <2>1 DEF RebuildStart, Lifecycle!Next
<1>18. CASE UNCHANGED vars
  BY <1>1, <1>18 DEF vars
<1> QED
  BY <1>3, <1>4, <1>5, <1>6, <1>7, <1>8, <1>9, <1>10, <1>11, <1>12, <1>14, <1>15, <1>16,
     <1>17, <1>18 DEF Next

LEMMA LifecycleInit == Init => Lifecycle!Init /\ NothingUnborn
<1> SUFFICES ASSUME Init PROVE Lifecycle!Init /\ NothingUnborn
  OBVIOUS
<1>1. NothingUnborn
  BY DEF Init, NothingUnborn
<1>2. \A t \in Tunnel : PhaseOf(t) = "new"
  BY ConstantsAssumption DEF Init, PhaseOf, Tunnel
<1>3. Phases = [t \in Tunnel |-> "new"] /\ Holds = [w \in Worker |-> <<>>]
  BY <1>2 DEF Init, Phases, Holds, Busy
<1> QED
  BY <1>1, <1>3 DEF Init, Lifecycle!Init

\* Whatever Syncs, probes, requests and rebuilds interleave, the manager takes every tunnel
\* through the lifecycle of TunnelLifecycle: its device is touched by Sync, StopAll and the
\* holder of its flag only, and nobody takes hold of one that does not run.
THEOREM Implements == Spec => FollowsLifecycle
<1>1. Init => Lifecycle!Init /\ NothingUnborn /\ RebuildExclusive /\ EntriesAreListed /\ TypeOK
  BY LifecycleInit, TypeInit, AlignInit DEF Init, RebuildExclusive, Busy
<1>2. TypeOK /\ TypeOK' /\ EntriesAreListed /\ RebuildExclusive /\ NothingUnborn /\ [Next]_vars
         => [Lifecycle!Next]_<<Phases, dev, Holds>>
  BY LifecycleStep
<1> QED
  BY <1>1, <1>2, TypeNext, ExclusiveNext, ListedNext, UnbornNext, PTL
     DEF Spec, FollowsLifecycle, Lifecycle!Spec, Lifecycle!vars

=============================================================================
