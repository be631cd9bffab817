---------------------------- MODULE SettingsProofs ----------------------------
(***************************************************************************)
(* Proofs about Settings, for every set of settings, services, tunnels and *)
(* callers, and any number of saves.                                       *)
(*                                                                         *)
(* The applier moves the loop and the manager only by steps of HealthLoop, *)
(* so what is proved of HealthLoop holds here.                             *)
(*                                                                         *)
(* InForceUnlessAstray speaks of moments at which nothing runs, and is far *)
(* from inductive.  PartInOrder says what a request may rely on while it   *)
(* is inside the applier, for one part of the settings that is not astray: *)
(* the requests inside want the same of it, and where one of them has      *)
(* passed the part, or found it equal in its snapshot, or would find it    *)
(* equal in the present one, it is in force.  The books (Books) tie a      *)
(* request to its save.                                                    *)
(***************************************************************************)
EXTENDS Settings, HealthLoopProofs

InApplier == [pc : Applying, next : Setting, ver : 0..MaxSave, cur : Setting,
              nth : 1..Len(Services) + 1]
Loading == [pc : {"load"}, next : Setting, ver : 0..MaxSave]

LEMMA ServicesAre ==
    /\ Len(Services) \in Nat
    /\ DOMAIN Services = 1..Len(Services)
    /\ \A i \in DOMAIN Services : Services[i] \in Service
    /\ \A s \in Service : \E i \in DOMAIN Services : Services[i] = s
<1>1. Services \in Seq(Service)
  BY SettingsAssumption
<1> QED
  BY <1>1 DEF Service, Range

LEMMA SettingsAre ==
    ASSUME NEW s \in Setting
    PROVE  s.health \in Health /\ s.dns \in TTL /\ s.prefer \in BOOLEAN /\ s.port \in [Service -> Addr]
  BY SettingsAssumption

\* What stands in proc, by where the request is.
LEMMA ProcIs ==
    ASSUME TypeOK, NEW c \in Caller
    PROVE  /\ IsApplying(c) => proc[c] \in InApplier
           /\ proc[c].pc = "load" => proc[c] \in Loading
           /\ proc[c].pc \in {"idle", "get", "load"} \cup Applying
<1>1. proc[c] \in {NoRequest} \cup Request
  BY DEF TypeOK
<1> QED
  BY <1>1 DEF Request, InApplier, Loading, NoRequest, IsApplying, Applying

\* Every step is, for the manager and the loop, one of HealthLoop's or none.
LEMMA StepsOfLoop == ASSUME TypeOK, [Next]_vars PROVE [LoopNext]_loopState
<1>1. ASSUME NEW c \in Caller,
             Unheard(c) \/ Get(c) \/ Load(c) \/ SetLatencyRouting(c) \/ Skip(c) \/ Store(c)
      PROVE  UNCHANGED loopState
  BY <1>1 DEF Unheard, Get, Load, SetLatencyRouting, Skip, Store
<1>2. ASSUME NEW c \in Caller, NEW s \in Service, SkipPort(c, s) \/ Swap(c, s) \/ SwapFails(c, s)
      PROVE  UNCHANGED loopState
  BY <1>2 DEF SkipPort, Swap, SwapFails, Swapping
<1>3. ASSUME NEW c \in Caller, SetHealth(c) PROVE LoopNext
  <2>1. Wanted(c).health \in Health
    BY <1>3, ProcIs, SettingsAre DEF SetHealth, At, IsApplying, Applying, InApplier, Wanted
  <2> QED
    BY <1>3, <2>1 DEF SetHealth, LoopNext
<1>4. ASSUME NEW c \in Caller, SetDNS(c) PROVE LoopNext
  <2>1. Wanted(c).dns \in TTL
    BY <1>4, ProcIs, SettingsAre DEF SetDNS, At, IsApplying, Applying, InApplier, Wanted
  <2> QED
    BY <1>4, <2>1 DEF SetDNS, LoopNext
<1>5. ASSUME NEW c \in Caller, SetterGoesOn(c) PROVE LoopNext
  BY <1>5 DEF SetterGoesOn, LoopNext
<1>6. ASSUME NEW c \in Caller, NEW s \in Setting, Save(c, s) PROVE UNCHANGED loopState
  BY <1>6 DEF Save
<1>7. ASSUME (\E t \in Tunnel : CreateTunnel(t) \/ RemoveTunnel(t)) \/ LoopStep PROVE LoopNext
  BY <1>7 DEF LoopNext
<1>8. CASE SetApplier
  BY <1>8 DEF SetApplier
<1>9. CASE UNCHANGED vars
  BY <1>9 DEF vars
<1> QED
  BY <1>1, <1>2, <1>3, <1>4, <1>5, <1>6, <1>7, <1>8, <1>9 DEF Next, Handle

----------------------------------------------------------------------------
\* Types

LEMMA MovesInApplier ==
    ASSUME NEW r \in InApplier, NEW p \in Applying
    PROVE  [r EXCEPT !.pc = p] \in InApplier
  BY DEF InApplier

LEMMA TypeStep == ASSUME TypeOK, [Next]_vars PROVE TypeOK'
<1>0. LoopTypeOK'
  BY StepsOfLoop, LoopTypeStep DEF TypeOK
<1> USE DEF TypeOK
<1>a. InApplier \subseteq Request /\ Loading \subseteq Request /\ [pc |-> "get"] \in Request
  BY DEF InApplier, Loading, Request
<1>1. ASSUME NEW c \in Caller, Get(c) PROVE TypeOK'
  <2>1. [pc |-> "load", next |-> saved, ver |-> saves] \in Loading
    BY DEF Loading
  <2> QED
    BY <1>0, <1>1, <1>a, <2>1 DEF Get, history
<1>2. ASSUME NEW c \in Caller, Load(c) PROVE TypeOK'
  <2>1. proc[c] \in Loading
    BY <1>2, ProcIs DEF Load, At
  <2>2. [pc |-> "health", next |-> Wanted(c), ver |-> proc[c].ver, cur |-> snap, nth |-> 1]
          \in InApplier
    BY <2>1, ServicesAre DEF Loading, InApplier, Applying, Wanted
  <2>3. astray' \subseteq Part
    BY <1>2 DEF Load, Disputed
  <2> QED
    BY <1>0, <1>2, <1>a, <2>2, <2>3 DEF Load
<1>3. ASSUME NEW c \in Caller, SetHealth(c) \/ SetDNS(c) \/ Skip(c) PROVE TypeOK'
  <2>1. proc[c] \in InApplier
    BY <1>3, ProcIs DEF SetHealth, SetDNS, Skip, At, IsApplying, Applying
  <2>2. \A p \in Applying : [proc[c] EXCEPT !.pc = p] \in {NoRequest} \cup Request
    BY <2>1, <1>a, MovesInApplier
  <2>3. PICK p \in Applying : proc' = [proc EXCEPT ![c] = [@ EXCEPT !.pc = p]]
    BY <1>3 DEF SetHealth, SetDNS, Skip, Moves, Applying
  <2>4. proc' \in [Caller -> {NoRequest} \cup Request]
    BY <2>2, <2>3
  <2> QED
    BY <1>0, <1>3, <2>4 DEF SetHealth, SetDNS, Skip, Settles, history
<1>4. ASSUME NEW c \in Caller, SetLatencyRouting(c) PROVE TypeOK'
  <2>1. proc[c] \in InApplier
    BY <1>4, ProcIs DEF SetLatencyRouting, At, IsApplying, Applying
  <2>2. [proc[c] EXCEPT !.pc = "port"] \in {NoRequest} \cup Request
    BY <2>1, <1>a, MovesInApplier DEF Applying
  <2>3. proc' \in [Caller -> {NoRequest} \cup Request]
    BY <1>4, <2>2 DEF SetLatencyRouting, Moves
  <2>4. prefer' \in BOOLEAN
    BY <1>4, <2>1, SettingsAre DEF SetLatencyRouting, Wanted, InApplier
  <2> QED
    BY <1>0, <1>4, <2>3, <2>4 DEF SetLatencyRouting, Settles
<1>5. ASSUME NEW c \in Caller, NEW s \in Service, SkipPort(c, s) \/ Swap(c, s) \/ SwapFails(c, s)
      PROVE  TypeOK'
  <2>0. Swapping(c, s)
    BY <1>5 DEF SkipPort, Swap, SwapFails
  <2>1. proc[c] \in InApplier
    BY <2>0, ProcIs DEF Swapping, At, IsApplying, Applying
  <2>2. [proc[c] EXCEPT !.nth = @ + 1] \in InApplier
    BY <2>0, <2>1, ServicesAre DEF Swapping, InApplier
  <2>3. proc' \in [Caller -> {NoRequest} \cup Request]
    BY <2>0, <2>2, <1>a DEF Swapping
  <2>4. port' \in [Service -> Addr]
    BY <1>5, <2>1, SettingsAre DEF SkipPort, Swap, SwapFails, Wanted, InApplier
  <2>5. astray' \subseteq Part
    BY <1>5 DEF SkipPort, Swap, SwapFails, Settles, Part
  <2> QED
    BY <1>0, <2>0, <2>3, <2>4, <2>5 DEF Swapping
<1>6. ASSUME NEW c \in Caller, Store(c) PROVE TypeOK'
  <2>1. Wanted(c) \in Setting
    BY <1>6, ProcIs DEF Store, At, IsApplying, Applying, InApplier, Wanted
  <2>2. newest' \in Fate
    BY <1>6 DEF Store, Fate
  <2> QED
    BY <1>0, <1>6, <2>1, <2>2 DEF Store
<1>7. ASSUME NEW c \in Caller, NEW s \in Setting, Save(c, s) PROVE TypeOK'
  <2>1. saves' \in 0..MaxSave
    BY <1>7, SettingsAssumption DEF Save
  <2> QED
    BY <1>0, <1>7, <1>a, <2>1 DEF Save, Fate
<1>8. ASSUME NEW c \in Caller, Unheard(c) PROVE TypeOK'
  BY <1>0, <1>8 DEF Unheard, Fate
<1>9. CASE SetApplier
  BY <1>0, <1>9 DEF SetApplier, history
<1>10. CASE UNCHANGED applierVars
  BY <1>0, <1>10 DEF applierVars, history
<1> QED
  BY <1>1, <1>2, <1>3, <1>4, <1>5, <1>6, <1>7, <1>8, <1>9, <1>10
  DEF Next, Handle, SetterGoesOn, vars

LEMMA TypeInit == ASSUME Init PROVE TypeOK
<1>1. saved \in Setting /\ snap \in Setting
  BY DEF Init
<1>2. prefer \in BOOLEAN /\ port \in [Service -> Addr]
  <2>1. saved.prefer \in BOOLEAN /\ saved.port \in [Service -> Addr]
    BY <1>1, SettingsAre
  <2> QED
    BY <2>1 DEF Init
<1>3. proc \in [Caller -> {NoRequest} \cup Request]
  BY DEF Init
<1>4. saves \in 0..MaxSave
  <2>1. saves = 0
    BY DEF Init
  <2> QED
    BY <2>1, SettingsAssumption
<1>5. applier \in BOOLEAN /\ newest \in Fate /\ astray \subseteq Part
  BY DEF Init, Fate
<1> QED
  BY <1>1, <1>2, <1>3, <1>4, <1>5, LoopTypeInit DEF Init, TypeOK

\* Every variable keeps its type.
THEOREM TypeCorrect == Spec => []TypeOK
  BY TypeInit, TypeStep, PTL DEF Spec

\* Whatever settings requests do, the manager and its loop see only what HealthLoop says
\* they may: Settings implements it.
THEOREM ImplementsLoop == Spec => LoopSpec
<1>1. Init => LoopInit
  BY DEF Init
<1> QED
  BY <1>1, StepsOfLoop, TypeCorrect, PTL DEF Spec, LoopSpec

\* So under the applier too no change of the intervals is lost, and one latency goroutine
\* at most goes on ticking.
COROLLARY LoopUnderSettings == Spec => [](LoopBehindIsTold /\ OneLatencyTicker)
  BY ImplementsLoop, BehindIsTold, OneTicker, PTL

----------------------------------------------------------------------------
\* The books

Known(c) == proc[c].pc = "load" \/ IsApplying(c)

\* A setter that is under way belongs to the request that called it, at its place.
SettersOwned ==
    \A c \in Caller :
        /\ call[c].pc = "signal" => proc[c].pc = "dns"
        /\ call[c].pc = "ttl" => proc[c].pc = "prefer" /\ call[c].ttl = Wanted(c).dns

\* What carries the number of the newest save carries its settings; as long as the newest
\* save is due, some request will apply it; and the snapshot stored from it is it.
Numbered ==
    /\ \A c \in Caller : Known(c) =>
          /\ proc[c].ver <= saves
          /\ proc[c].ver = saves => Wanted(c) = saved
    /\ newest = "due" =>
          \E c \in Caller : proc[c].pc = "get" \/ (Known(c) /\ proc[c].ver = saves)
    /\ newest = "stored" => snap = saved

\* The first service is next until the ports are reached.
FirstNext == \A c \in Caller : proc[c].pc \in {"health", "dns", "prefer"} => proc[c].nth = 1

Books == SettersOwned /\ Numbered /\ FirstNext

LEMMA OwnedStep ==
    ASSUME TypeOK, TypeOK', SettersOwned, [Next]_vars
    PROVE  SettersOwned'
<1> USE DEF SettersOwned, Wanted
<1>0. \A c \in Caller : call[c] \in Call
  BY DEF TypeOK, LoopTypeOK
<1>1. ASSUME NEW c \in Caller, Unheard(c) \/ Get(c) \/ Load(c) \/ SetLatencyRouting(c) \/ Skip(c)
             \/ Store(c) \/ \E s \in Setting : Save(c, s)
      PROVE  SettersOwned'
  <2>1. call' = call /\ call[c] = Idle
    BY <1>1 DEF Unheard, Get, Load, SetLatencyRouting, Skip, Store, Save, At, loopState, managerVars
  <2>2. \A d \in Caller \ {c} : proc'[d] = proc[d]
    BY <1>1 DEF Unheard, Get, Load, SetLatencyRouting, Skip, Store, Save, Moves, TypeOK
  <2> QED
    BY <2>1, <2>2 DEF Idle
<1>2. ASSUME NEW c \in Caller, NEW s \in Service, SkipPort(c, s) \/ Swap(c, s) \/ SwapFails(c, s)
      PROVE  SettersOwned'
  <2>1. call' = call /\ call[c] = Idle
    BY <1>2 DEF SkipPort, Swap, SwapFails, Swapping, At, loopState, managerVars
  <2>2. \A d \in Caller \ {c} : proc'[d] = proc[d]
    BY <1>2 DEF SkipPort, Swap, SwapFails, Swapping, TypeOK
  <2> QED
    BY <2>1, <2>2 DEF Idle
<1>3. ASSUME NEW c \in Caller, SetHealth(c) PROVE SettersOwned'
  <2>1. call'[c] = [pc |-> "signal"] /\ proc'[c].pc = "dns"
    BY <1>3, ProcIs DEF SetHealth, ApplyHealth, Moves, At, IsApplying, Applying, InApplier, TypeOK,
       LoopTypeOK
  <2>2. \A d \in Caller \ {c} : proc'[d] = proc[d] /\ call'[d] = call[d]
    BY <1>3 DEF SetHealth, ApplyHealth, Moves, TypeOK, LoopTypeOK
  <2> QED
    BY <2>1, <2>2
<1>4. ASSUME NEW c \in Caller, SetDNS(c) PROVE SettersOwned'
  <2>1. /\ call'[c] = Telling(Wanted(c).dns, Managed)
        /\ proc'[c].pc = "prefer" /\ proc'[c].next = proc[c].next
    BY <1>4, ProcIs DEF SetDNS, SetDNSCacheTTL, Moves, At, IsApplying, Applying, InApplier, TypeOK,
       LoopTypeOK
  <2>2. \A d \in Caller \ {c} : proc'[d] = proc[d] /\ call'[d] = call[d]
    BY <1>4 DEF SetDNS, SetDNSCacheTTL, Moves, TypeOK, LoopTypeOK
  <2> QED
    BY <2>1, <2>2 DEF Telling, Idle
<1>5. ASSUME NEW c \in Caller, SetterGoesOn(c) PROVE SettersOwned'
  <2>1. proc' = proc
    BY <1>5 DEF SetterGoesOn, applierVars
  <2>2. CASE Signal(c)
    BY <2>1, <2>2 DEF Signal, Idle, TypeOK, LoopTypeOK
  <2>3. ASSUME NEW t \in Tunnel, TellTunnel(c, t) PROVE SettersOwned'
    <3>1. call'[c] = Telling(call[c].ttl, call[c].todo \ {t}) /\ call[c].pc = "ttl"
      BY <2>3 DEF TellTunnel, TypeOK, LoopTypeOK
    <3>2. \A d \in Caller \ {c} : call'[d] = call[d]
      BY <2>3 DEF TellTunnel, TypeOK, LoopTypeOK
    <3> QED
      BY <2>1, <3>1, <3>2 DEF Telling, Idle
  <2> QED
    BY <1>5, <2>2, <2>3 DEF SetterGoesOn
<1>6. CASE /\ UNCHANGED applierVars
           /\ (\E t \in Tunnel : CreateTunnel(t) \/ RemoveTunnel(t)) \/ LoopStep
  <2>1. call' = call
    BY <1>6 DEF CreateTunnel, RemoveTunnel, LoopStep, Run, RunBegins, StartLatency, ProbeEnds, Tick,
       Receive, Reset, Stops, managerVars
  <2> QED
    BY <1>6, <2>1 DEF applierVars
<1>7. CASE SetApplier
  BY <1>7 DEF SetApplier, loopState, managerVars
<1>8. CASE UNCHANGED vars
  BY <1>8 DEF vars, applierVars, loopState, managerVars
<1> QED
  BY <1>1, <1>2, <1>3, <1>4, <1>5, <1>6, <1>7, <1>8 DEF Next, Handle

\* A request that takes its settings along keeps the books.
LEMMA CarriesOn ==
    ASSUME Numbered, NEW c \in Caller, Known(c), Known(c)',
           proc'[c].ver = proc[c].ver, Wanted(c)' = Wanted(c),
           \A d \in Caller \ {c} : proc'[d] = proc[d],
           UNCHANGED <<saved, saves, newest, snap>>
    PROVE  Numbered'
<1>1. \A d \in Caller :
         /\ Known(d)' <=> Known(d)
         /\ Wanted(d)' = Wanted(d)
         /\ Known(d) => proc'[d].ver = proc[d].ver
         /\ proc[d].pc = "get" => proc'[d].pc = "get"
  BY DEF Known, IsApplying, Applying, Wanted
<1> QED
  BY <1>1 DEF Numbered

LEMMA NumberedStep ==
    ASSUME TypeOK, TypeOK', Numbered, [Next]_vars
    PROVE  Numbered'
<1>0. saves \in Nat /\ \A c \in Caller : Known(c) => proc[c].ver \in Nat
  BY ProcIs, SettingsAssumption DEF TypeOK, Known, InApplier, Loading
<1>1. ASSUME NEW c \in Caller, NEW s \in Setting, Save(c, s) PROVE Numbered'
  <2>1. ~Known(c)' /\ proc'[c].pc = "get"
    BY <1>1 DEF Save, Known, IsApplying, Applying, TypeOK
  <2>2. \A d \in Caller \ {c} : proc'[d] = proc[d]
    BY <1>1 DEF Save, TypeOK
  <2>3. \A d \in Caller : Known(d)' => Known(d) /\ proc'[d] = proc[d]
    BY <2>1, <2>2 DEF Known, IsApplying
  <2> QED
    BY <1>0, <1>1, <2>1, <2>3 DEF Save, Numbered
<1>2. ASSUME NEW c \in Caller, Get(c) PROVE Numbered'
  <2>1. proc'[c] = [pc |-> "load", next |-> saved, ver |-> saves] /\ Known(c)'
    BY <1>2 DEF Get, TypeOK, Known
  <2>2. \A d \in Caller \ {c} : proc'[d] = proc[d] /\ Known(d)' = Known(d)
    BY <1>2 DEF Get, TypeOK, Known, IsApplying
  <2>3. UNCHANGED <<saved, saves, newest, snap>>
    BY <1>2 DEF Get, history
  <2> QED
    BY <1>0, <2>1, <2>2, <2>3 DEF Wanted, Numbered
<1>3. ASSUME NEW c \in Caller, Unheard(c) PROVE Numbered'
  <2>1. \A d \in Caller \ {c} : proc'[d] = proc[d]
    BY <1>3 DEF Unheard, TypeOK
  <2>2. ~Known(c)'
    BY <1>3 DEF Unheard, TypeOK, Known, IsApplying, Applying, NoRequest
  <2>3. \A d \in Caller : Known(d)' => Known(d) /\ proc'[d] = proc[d]
    BY <2>1, <2>2 DEF Known, IsApplying
  <2> QED
    BY <1>3, <2>3 DEF Unheard, Wanted, Numbered
<1>4. ASSUME NEW c \in Caller, Load(c) PROVE Numbered'
  <2>1. Known(c) /\ Known(c)' /\ proc'[c].ver = proc[c].ver /\ Wanted(c)' = Wanted(c)
    BY <1>4 DEF Load, Known, At, Wanted, IsApplying, Applying, TypeOK
  <2> QED
    BY <1>4, <2>1, CarriesOn DEF Load, TypeOK
<1>5. ASSUME NEW c \in Caller, SetHealth(c) \/ SetDNS(c) \/ SetLatencyRouting(c) \/ Skip(c)
      PROVE  Numbered'
  <2>1. proc[c] \in InApplier /\ Known(c)
    BY <1>5, ProcIs DEF SetHealth, SetDNS, SetLatencyRouting, Skip, At, Known, IsApplying, Applying
  <2>2. PICK p \in Applying : Moves(c, p)
    BY <1>5 DEF SetHealth, SetDNS, SetLatencyRouting, Skip, Applying
  <2>3. /\ Known(c)' /\ proc'[c].ver = proc[c].ver /\ Wanted(c)' = Wanted(c)
        /\ \A d \in Caller \ {c} : proc'[d] = proc[d]
    BY <2>1, <2>2 DEF Moves, Known, IsApplying, Wanted, InApplier, TypeOK
  <2>4. UNCHANGED <<saved, saves, newest, snap>>
    BY <1>5 DEF SetHealth, SetDNS, SetLatencyRouting, Skip, history
  <2> QED
    BY <2>1, <2>3, <2>4, CarriesOn
<1>6. ASSUME NEW c \in Caller, NEW s \in Service, Swapping(c, s) PROVE Numbered'
  <2>1. proc[c] \in InApplier /\ Known(c)
    BY <1>6, ProcIs DEF Swapping, At, Known, IsApplying, Applying
  <2>2. /\ Known(c)' /\ proc'[c].ver = proc[c].ver /\ Wanted(c)' = Wanted(c)
        /\ \A d \in Caller \ {c} : proc'[d] = proc[d]
    BY <1>6, <2>1 DEF Swapping, At, Known, IsApplying, Applying, Wanted, InApplier, TypeOK
  <2> QED
    BY <1>6, <2>1, <2>2, CarriesOn DEF Swapping
<1>7. ASSUME NEW c \in Caller, Store(c) PROVE Numbered'
  <2>1. Known(c) /\ ~Known(c)' /\ proc[c].pc # "get"
    BY <1>7 DEF Store, Known, IsApplying, Applying, NoRequest, At, TypeOK
  <2>2. \A d \in Caller \ {c} : proc'[d] = proc[d]
    BY <1>7 DEF Store, TypeOK
  <2>3. \A d \in Caller : Known(d)' => Known(d) /\ proc'[d] = proc[d]
    BY <2>1, <2>2 DEF Known, IsApplying
  <2>4. \A d \in Caller \ {c} : Known(d)' = Known(d)
    BY <2>2 DEF Known, IsApplying
  <2>5. CASE proc[c].ver = saves
    BY <1>7, <2>1, <2>3, <2>5 DEF Store, Wanted, Numbered
  <2>6. CASE proc[c].ver # saves
    <3>1. newest' # "stored" /\ (newest' = "due" => newest = "due")
      BY <1>7, <2>6 DEF Store
    <3> QED
      BY <1>7, <2>1, <2>2, <2>3, <2>4, <2>6, <3>1 DEF Store, Wanted, Numbered
  <2> QED
    BY <2>5, <2>6
<1>8. CASE UNCHANGED <<proc, saved, saves, newest, snap>>
  BY <1>8 DEF Known, IsApplying, Wanted, Numbered
<1> QED
  BY <1>1, <1>2, <1>3, <1>4, <1>5, <1>6, <1>7, <1>8
  DEF Next, Handle, SetterGoesOn, SkipPort, Swap, SwapFails, SetApplier, vars, applierVars, history

LEMMA FirstStep == ASSUME TypeOK, FirstNext, [Next]_vars PROVE FirstNext'
<1> USE DEF FirstNext
<1>1. ASSUME NEW c \in Caller,
             Unheard(c) \/ Get(c) \/ Load(c) \/ Store(c) \/ \E s \in Setting : Save(c, s)
      PROVE  FirstNext'
  BY <1>1 DEF Unheard, Get, Load, Store, Save, NoRequest, TypeOK
<1>2. ASSUME NEW c \in Caller, SetHealth(c) \/ SetDNS(c) \/ SetLatencyRouting(c) \/ Skip(c)
      PROVE  FirstNext'
  <2>1. proc[c] \in InApplier /\ proc[c].nth = 1
    BY <1>2, ProcIs DEF SetHealth, SetDNS, SetLatencyRouting, Skip, At, IsApplying, Applying
  <2>2. proc'[c].nth = 1
    BY <1>2, <2>1 DEF SetHealth, SetDNS, SetLatencyRouting, Skip, Moves, InApplier, TypeOK
  <2>3. \A d \in Caller \ {c} : proc'[d] = proc[d]
    BY <1>2 DEF SetHealth, SetDNS, SetLatencyRouting, Skip, Moves, TypeOK
  <2> QED
    BY <2>2, <2>3
<1>3. ASSUME NEW c \in Caller, NEW s \in Service, Swapping(c, s) PROVE FirstNext'
  <2>1. proc[c] \in InApplier /\ proc[c].pc = "port"
    BY <1>3, ProcIs DEF Swapping, At, IsApplying, Applying
  <2> QED
    BY <1>3, <2>1 DEF Swapping, InApplier, TypeOK
<1>4. CASE UNCHANGED proc
  BY <1>4
<1> QED
  BY <1>1, <1>2, <1>3, <1>4
  DEF Next, Handle, SetterGoesOn, SkipPort, Swap, SwapFails, SetApplier, vars, applierVars

----------------------------------------------------------------------------
\* What a request may rely on of a part that is not astray

\* Every tunnel goes by lifetime v, or will be told so.
DNSIs(v) ==
    /\ dnsTTL = v
    /\ \A t \in Managed : ttl[t] = v \/ \E c \in Caller : call[c].pc = "ttl" /\ t \in call[c].todo

\* Part p of the runtime is x.
PartIs(p, x) ==
    /\ p = "health" => params = x
    /\ p = "dns" => DNSIs(x)
    /\ p = "prefer" => prefer = x
    /\ p \in Service => port[p] = x

Want(c, p) == Of(Wanted(c), p)

Passed(c, p) ==
    \/ p = "health" /\ proc[c].pc # "health"
    \/ p = "dns" /\ proc[c].pc \notin {"health", "dns"}
    \/ p = "prefer" /\ proc[c].pc = "port"
    \/ p \in Service /\ proc[c].pc = "port"
       /\ \E i \in DOMAIN Services : i < proc[c].nth /\ Services[i] = p

\* The request has passed the part, or found it equal in its snapshot, or would find it
\* equal in the present one.
Sure(c, p) ==
    Passed(c, p) \/ Of(proc[c].cur, p) = Want(c, p) \/ Of(snap, p) = Want(c, p)

\* The requests inside want the same of p, p is in force where one of them is sure of it,
\* and with nobody inside p is as the snapshot says.
Agreed(p) ==
    \A c, d \in Caller : IsApplying(c) /\ IsApplying(d) => Want(c, p) = Want(d, p)
PartInOrder(p) ==
    /\ Agreed(p)
    /\ \A c \in Caller : IsApplying(c) /\ Sure(c, p) => PartIs(p, Want(c, p))
    /\ (\A c \in Caller : ~IsApplying(c)) => PartIs(p, Of(snap, p))

InOrder == \A p \in Part \ astray : PartInOrder(p)

LEMMA PartsAre ==
    /\ \A s : /\ Of(s, "health") = s.health /\ Of(s, "dns") = s.dns /\ Of(s, "prefer") = s.prefer
              /\ \A q \in Service : Of(s, q) = s.port[q]
    /\ \A q \in Service : q # "health" /\ q # "dns" /\ q # "prefer"
    /\ {"health", "dns", "prefer"} \subseteq Part /\ Service \subseteq Part
    /\ \A p \in Part : p \in {"health", "dns", "prefer"} \/ p \in Service
  BY SettingsAssumption DEF Of, Part, Field

\* Nothing a step keeps of the setters and tunnels disturbs DNSIs.
LEMMA DNSKept ==
    ASSUME UNCHANGED <<dnsTTL, tun, ttl>>,
           \A c \in Caller : call[c].pc = "ttl" => call'[c] = call[c],
           NEW v, DNSIs(v)
    PROVE  DNSIs(v)'
  BY DEF DNSIs, Managed

\* A step that leaves alone the requests inside, the snapshot and the part.
LEMMA AsideKeepsPart ==
    ASSUME NEW p \in Part, PartInOrder(p), snap' = snap,
           \A d \in Caller : IsApplying(d)' = IsApplying(d)
                             /\ (IsApplying(d) => proc'[d] = proc[d]),
           \A x : PartIs(p, x) => PartIs(p, x)'
    PROVE  PartInOrder(p)'
<1>1. \A d \in Caller : IsApplying(d) => Want(d, p)' = Want(d, p) /\ Sure(d, p)' = Sure(d, p)
  BY DEF Want, Wanted, Of, Sure, Passed
<1> QED
  BY <1>1 DEF PartInOrder, Agreed, Of

\* Request c goes on inside the applier.
Inside(c) ==
    /\ IsApplying(c) /\ IsApplying(c)'
    /\ proc'[c].next = proc[c].next /\ proc'[c].cur = proc[c].cur
    /\ \A d \in Caller \ {c} : proc'[d] = proc[d]
    /\ snap' = snap

LEMMA InsideWants ==
    ASSUME NEW c \in Caller, Inside(c), NEW p \in Part
    PROVE  \A d \in Caller : IsApplying(d)' = IsApplying(d) /\ Want(d, p)' = Want(d, p)
  BY DEF Inside, IsApplying, Want, Wanted, Of

\* A part that c sets, or finds set, is in order if nobody disputes it.
LEMMA SetKeepsPart ==
    ASSUME NEW c \in Caller, Inside(c), NEW p \in Part, PartIs(p, Want(c, p))',
           PartInOrder(p) \/ p \notin Disputed(c)
    PROVE  PartInOrder(p)'
<1>1. \A d \in Caller : IsApplying(d) => Want(d, p) = Want(c, p)
  BY DEF PartInOrder, Agreed, Disputed, Want, Inside
<1> QED
  BY <1>1, InsideWants DEF PartInOrder, Agreed, Inside

\* A part that c does not deal with stays in order, if what is as c wants it remains so.
LEMMA OthersKeepPart ==
    ASSUME NEW c \in Caller, Inside(c), NEW p \in Part, PartInOrder(p),
           Passed(c, p)' => Passed(c, p),
           \A x : x = Want(c, p) /\ PartIs(p, x) => PartIs(p, x)'
    PROVE  PartInOrder(p)'
<1>1. \A d \in Caller : IsApplying(d) /\ Sure(d, p)' => Sure(d, p)
  BY InsideWants DEF Inside, Sure, Passed, Of
<1>2. \A d \in Caller : IsApplying(d) => Want(d, p) = Want(c, p)
  BY DEF PartInOrder, Agreed, Inside
<1> QED
  BY <1>1, <1>2, InsideWants DEF PartInOrder, Agreed, Inside

LEMMA MovesInside ==
    ASSUME TypeOK, NEW c \in Caller, NEW p \in Applying, IsApplying(c), Moves(c, p), snap' = snap
    PROVE  Inside(c) /\ proc'[c].pc = p /\ proc'[c].nth = proc[c].nth /\ Wanted(c)' = Wanted(c)
<1>1. proc[c] \in InApplier
  BY ProcIs
<1> QED
  BY <1>1 DEF Moves, Inside, IsApplying, InApplier, TypeOK, Wanted

LEMMA HealthKeepsOrder ==
    ASSUME TypeOK, InOrder, NEW c \in Caller, SetHealth(c)
    PROVE  InOrder'
<1>1. IsApplying(c) /\ proc[c].pc = "health" /\ snap' = snap
  BY DEF SetHealth, At, IsApplying, Applying
<1>2. Inside(c) /\ proc'[c].pc = "dns" /\ Wanted(c)' = Wanted(c)
  BY <1>1, MovesInside DEF SetHealth, Applying
<1>3. \A v : DNSIs(v) => DNSIs(v)'
  <2>1. \A d \in Caller : call[d].pc = "ttl" => call'[d] = call[d]
    BY DEF SetHealth, ApplyHealth, Idle, TypeOK, LoopTypeOK
  <2> QED
    BY <2>1, DNSKept DEF SetHealth, ApplyHealth
<1>4. ASSUME NEW p \in Part, p \notin astray' PROVE PartInOrder(p)'
  <2>1. CASE p = "health"
    <3>1. PartIs(p, Want(c, p))'
      BY <1>2, <2>1, PartsAre DEF PartIs, Want, SetHealth, ApplyHealth
    <3>2. PartInOrder(p) \/ p \notin Disputed(c)
      BY <1>4, <2>1 DEF InOrder, SetHealth, Settles
    <3> QED
      BY <1>2, <3>1, <3>2, SetKeepsPart
  <2>2. CASE p # "health"
    <3>1. PartInOrder(p)
      BY <1>4, <2>2 DEF InOrder, SetHealth, Settles
    <3>2. Passed(c, p)' => Passed(c, p)
      BY <1>1, <1>2, <2>2 DEF Passed
    <3>3. \A x : PartIs(p, x) => PartIs(p, x)'
      BY <1>3, <2>2 DEF PartIs, SetHealth
    <3> QED
      BY <1>2, <3>1, <3>2, <3>3, OthersKeepPart
  <2> QED
    BY <2>1, <2>2
<1> QED
  BY <1>4 DEF InOrder

LEMMA DNSKeepsOrder ==
    ASSUME TypeOK, InOrder, NEW c \in Caller, SetDNS(c)
    PROVE  InOrder'
<1>1. IsApplying(c) /\ proc[c].pc = "dns" /\ snap' = snap
  BY DEF SetDNS, At, IsApplying, Applying
<1>2. Inside(c) /\ proc'[c].pc = "prefer" /\ Wanted(c)' = Wanted(c)
  BY <1>1, MovesInside DEF SetDNS, Applying
<1>3. DNSIs(Wanted(c).dns)'
  <2>1. call'[c] = Telling(Wanted(c).dns, Managed) /\ Managed' = Managed
    BY DEF SetDNS, SetDNSCacheTTL, TypeOK, LoopTypeOK, Managed
  <2>2. \A t \in Managed : call'[c].pc = "ttl" /\ t \in call'[c].todo
    BY <2>1 DEF Telling
  <2> QED
    BY <1>2, <2>1, <2>2 DEF DNSIs, SetDNS, SetDNSCacheTTL
<1>4. ASSUME NEW p \in Part, p \notin astray' PROVE PartInOrder(p)'
  <2>1. CASE p = "dns"
    <3>1. PartIs(p, Want(c, p))'
      BY <1>3, <2>1, PartsAre DEF PartIs, Want
    <3>2. PartInOrder(p) \/ p \notin Disputed(c)
      BY <1>4, <2>1 DEF InOrder, SetDNS, Settles
    <3> QED
      BY <1>2, <3>1, <3>2, SetKeepsPart
  <2>2. CASE p # "dns"
    <3>1. PartInOrder(p)
      BY <1>4, <2>2 DEF InOrder, SetDNS, Settles
    <3>2. Passed(c, p)' => Passed(c, p)
      BY <1>1, <1>2, <2>2 DEF Passed
    <3>3. \A x : PartIs(p, x) => PartIs(p, x)'
      BY <2>2 DEF PartIs, SetDNS, SetDNSCacheTTL
    <3> QED
      BY <1>2, <3>1, <3>2, <3>3, OthersKeepPart
  <2> QED
    BY <2>1, <2>2
<1> QED
  BY <1>4 DEF InOrder

LEMMA RoutingKeepsOrder ==
    ASSUME TypeOK, FirstNext, InOrder, NEW c \in Caller, SetLatencyRouting(c)
    PROVE  InOrder'
<1>1. IsApplying(c) /\ proc[c].pc = "prefer" /\ snap' = snap
  BY DEF SetLatencyRouting, At, IsApplying, Applying
<1>2. Inside(c) /\ proc'[c].pc = "port" /\ proc'[c].nth = 1 /\ Wanted(c)' = Wanted(c)
  BY <1>1, MovesInside DEF SetLatencyRouting, Applying, FirstNext
<1>3. \A v : DNSIs(v) => DNSIs(v)'
  BY DNSKept DEF SetLatencyRouting, loopState, managerVars
<1>4. ASSUME NEW p \in Part, p \notin astray' PROVE PartInOrder(p)'
  <2>1. CASE p = "prefer"
    <3>1. PartIs(p, Want(c, p))'
      BY <1>2, <2>1, PartsAre DEF PartIs, Want, SetLatencyRouting
    <3>2. PartInOrder(p) \/ p \notin Disputed(c)
      BY <1>4, <2>1 DEF InOrder, SetLatencyRouting, Settles
    <3> QED
      BY <1>2, <3>1, <3>2, SetKeepsPart
  <2>2. CASE p # "prefer"
    <3>1. PartInOrder(p)
      BY <1>4, <2>2 DEF InOrder, SetLatencyRouting, Settles
    <3>2. Passed(c, p)' => Passed(c, p)
      BY <1>1, <1>2, <2>2, ServicesAre DEF Passed
    <3>3. \A x : PartIs(p, x) => PartIs(p, x)'
      BY <1>3, <2>2 DEF PartIs, SetLatencyRouting, loopState, managerVars
    <3> QED
      BY <1>2, <3>1, <3>2, <3>3, OthersKeepPart
  <2> QED
    BY <2>1, <2>2
<1> QED
  BY <1>4 DEF InOrder

\* A request that goes past part q and leaves the runtime alone has found q in force.
LEMMA FoundKeepsOrder ==
    ASSUME InOrder, NEW c \in Caller, Inside(c), NEW q \in Part, astray' = astray,
           q \notin astray => PartIs(q, Want(c, q)), Wanted(c)' = Wanted(c),
           \A p \in Part \ {q} : Passed(c, p)' => Passed(c, p),
           UNCHANGED <<loopState, prefer, port>>
    PROVE  InOrder'
<1>1. \A v : DNSIs(v) => DNSIs(v)'
  BY DNSKept DEF loopState, managerVars
<1>2. \A p, x : PartIs(p, x) => PartIs(p, x)'
  BY <1>1 DEF PartIs, loopState, managerVars
<1>3. ASSUME NEW p \in Part, p \notin astray' PROVE PartInOrder(p)'
  <2>1. PartInOrder(p)
    BY <1>3 DEF InOrder
  <2>2. CASE p = q
    <3>1. PartIs(p, Want(c, p))'
      BY <1>2, <1>3, <2>2 DEF Want, Of
    <3> QED
      BY <2>1, <3>1, SetKeepsPart
  <2>3. CASE p # q
    BY <1>2, <2>1, <2>3, OthersKeepPart
  <2> QED
    BY <2>2, <2>3
<1> QED
  BY <1>3 DEF InOrder

LEMMA SkipKeepsOrder ==
    ASSUME TypeOK, FirstNext, InOrder, NEW c \in Caller, Skip(c)
    PROVE  InOrder'
<1>1. /\ IsApplying(c) /\ snap' = snap /\ astray' = astray
      /\ UNCHANGED <<loopState, prefer, port>>
  BY DEF Skip, At, IsApplying, Applying, history
<1>2. ASSUME NEW q \in Part, Of(proc[c].cur, q) = Want(c, q), q \notin astray
      PROVE  PartIs(q, Want(c, q))
  BY <1>1, <1>2 DEF InOrder, PartInOrder, Sure
<1>3. ASSUME NEW p \in Applying, Moves(c, p)
      PROVE  Inside(c) /\ proc'[c].pc = p /\ proc'[c].nth = proc[c].nth /\ Wanted(c)' = Wanted(c)
  BY <1>1, <1>3, MovesInside
<1>4. CASE At(c, "health") /\ ~Differs(c, "health") /\ Moves(c, "dns")
  <2>1. proc[c].pc = "health" /\ Of(proc[c].cur, "health") = Want(c, "health")
    BY <1>4, PartsAre DEF At, Differs, Want
  <2>2. Inside(c) /\ proc'[c].pc = "dns" /\ Wanted(c)' = Wanted(c)
    BY <1>3, <1>4 DEF Applying
  <2>3. \A p \in Part \ {"health"} : Passed(c, p)' => Passed(c, p)
    BY <2>1, <2>2 DEF Passed
  <2> QED
    BY <1>1, <1>2, <2>1, <2>2, <2>3, PartsAre, FoundKeepsOrder
<1>5. CASE At(c, "dns") /\ ~Differs(c, "dns") /\ Moves(c, "prefer")
  <2>1. proc[c].pc = "dns" /\ Of(proc[c].cur, "dns") = Want(c, "dns")
    BY <1>5, PartsAre DEF At, Differs, Want
  <2>2. Inside(c) /\ proc'[c].pc = "prefer" /\ Wanted(c)' = Wanted(c)
    BY <1>3, <1>5 DEF Applying
  <2>3. \A p \in Part \ {"dns"} : Passed(c, p)' => Passed(c, p)
    BY <2>1, <2>2 DEF Passed
  <2> QED
    BY <1>1, <1>2, <2>1, <2>2, <2>3, PartsAre, FoundKeepsOrder
<1>6. CASE At(c, "prefer") /\ ~Differs(c, "prefer") /\ Moves(c, "port")
  <2>1. proc[c].pc = "prefer" /\ Of(proc[c].cur, "prefer") = Want(c, "prefer")
    BY <1>6, PartsAre DEF At, Differs, Want
  <2>2. Inside(c) /\ proc'[c].pc = "port" /\ proc'[c].nth = 1 /\ Wanted(c)' = Wanted(c)
    BY <1>3, <1>6, <2>1 DEF Applying, FirstNext
  <2>3. \A p \in Part \ {"prefer"} : Passed(c, p)' => Passed(c, p)
    BY <2>1, <2>2, ServicesAre DEF Passed
  <2> QED
    BY <1>1, <1>2, <2>1, <2>2, <2>3, PartsAre, FoundKeepsOrder
<1> QED
  BY <1>4, <1>5, <1>6 DEF Skip

\* A swap that fails has left the wanted address in place, or the port is astray.
LEMMA PortsKeepOrder ==
    ASSUME TypeOK, InOrder, NEW c \in Caller, NEW s \in Service,
           SkipPort(c, s) \/ Swap(c, s) \/ SwapFails(c, s)
    PROVE  InOrder'
<1>0. Swapping(c, s)
  BY DEF SkipPort, Swap, SwapFails
<1>1. /\ proc[c] \in InApplier /\ proc[c].pc = "port" /\ IsApplying(c)
      /\ UNCHANGED <<loopState, prefer, snap>>
  BY <1>0, ProcIs DEF Swapping, At, IsApplying, Applying
<1>2. /\ Inside(c) /\ Wanted(c)' = Wanted(c)
      /\ proc'[c].nth = proc[c].nth + 1 /\ proc'[c].pc = "port"
  BY <1>0, <1>1 DEF Swapping, Inside, IsApplying, InApplier, TypeOK, Wanted
<1>3. \A v : DNSIs(v) => DNSIs(v)'
  BY <1>1, DNSKept DEF loopState, managerVars
<1>4. \A p \in Part \ {s} : Passed(c, p)' => Passed(c, p)
  <2>1. s = Services[proc[c].nth] /\ proc[c].nth \in Nat
    BY <1>0, <1>1, ServicesAre DEF Swapping, InApplier
  <2> QED
    BY <1>1, <1>2, <2>1, ServicesAre DEF Passed
<1>5. CASE SkipPort(c, s)
  <2>1. Of(proc[c].cur, s) = Want(c, s) /\ astray' = astray /\ port' = port
    BY <1>5, PartsAre DEF SkipPort, PortDiffers, Want
  <2>2. s \notin astray => PartIs(s, Want(c, s))
    BY <1>1, <2>1, PartsAre DEF InOrder, PartInOrder, Sure
  <2> QED
    BY <1>1, <1>2, <1>4, <2>1, <2>2, PartsAre, FoundKeepsOrder
<1>6. CASE Swap(c, s) \/ SwapFails(c, s)
  <2>1. \A r \in Service \ {s} : port'[r] = port[r]
    BY <1>6 DEF Swap, SwapFails, TypeOK
  <2>2. ASSUME NEW p \in Part, p \notin astray', p # s PROVE PartInOrder(p)'
    <3>1. PartInOrder(p)
      BY <1>6, <2>2 DEF InOrder, Swap, SwapFails, Settles
    <3>2. \A x : PartIs(p, x) => PartIs(p, x)'
      BY <1>1, <1>3, <2>1, <2>2 DEF PartIs, loopState, managerVars
    <3> QED
      BY <1>2, <1>4, <2>2, <3>1, <3>2, OthersKeepPart
  <2>3. ASSUME s \notin astray' PROVE PartInOrder(s)'
    <3>1. port'[s] = Wanted(c).port[s]
      BY <1>6, <2>3 DEF Swap, SwapFails, TypeOK
    <3>2. PartIs(s, Want(c, s))'
      BY <1>2, <3>1, PartsAre DEF PartIs, Want
    <3>3. PartInOrder(s) \/ s \notin Disputed(c)
      BY <1>6, <2>3, PartsAre DEF InOrder, Swap, SwapFails, Settles
    <3> QED
      BY <1>2, <3>2, <3>3, PartsAre, SetKeepsPart
  <2> QED
    BY <2>2, <2>3 DEF InOrder
<1> QED
  BY <1>5, <1>6

\* A request that enters without dispute about a part finds it in force where it compares
\* equal: by those inside, or at rest.
LEMMA LoadKeepsOrder ==
    ASSUME TypeOK, InOrder, NEW c \in Caller, Load(c)
    PROVE  InOrder'
<1>1. /\ proc'[c].pc = "health" /\ proc'[c].cur = snap /\ Wanted(c)' = Wanted(c)
      /\ IsApplying(c)' /\ ~IsApplying(c) /\ snap' = snap
  BY DEF Load, At, Wanted, IsApplying, Applying, TypeOK
<1>2. \A d \in Caller \ {c} : proc'[d] = proc[d] /\ IsApplying(d)' = IsApplying(d)
  BY DEF Load, TypeOK, IsApplying
<1>3. \A v : DNSIs(v) => DNSIs(v)'
  BY DNSKept DEF Load, loopState, managerVars
<1>4. ASSUME NEW p \in Part, p \notin astray' PROVE PartInOrder(p)'
  <2>1. PartInOrder(p) /\ p \notin Disputed(c)
    BY <1>4 DEF InOrder, Load
  <2>2. \A x : PartIs(p, x) => PartIs(p, x)'
    BY <1>3 DEF PartIs, Load, loopState, managerVars
  <2>3. \A d \in Caller : IsApplying(d) => Want(d, p) = Want(c, p)
    BY <2>1 DEF Disputed, Want
  <2>4. Want(c, p)' = Want(c, p) /\ \A d \in Caller : Want(d, p)' = Want(d, p)
    BY <1>1, <1>2 DEF Want, Wanted, Of
  <2>5. Agreed(p)'
    BY <1>1, <1>2, <2>3, <2>4 DEF Agreed
  <2>6. ASSUME NEW d \in Caller, IsApplying(d)', Sure(d, p)' PROVE PartIs(p, Want(d, p))'
    <3>1. CASE d = c
      <4>1. ~Passed(c, p)' /\ Of(snap, p) = Want(c, p)
        BY <1>1, <2>4, <2>6, <3>1 DEF Sure, Passed, Of
      <4>2. PartIs(p, Want(c, p))
        BY <2>1, <2>3, <4>1 DEF PartInOrder, Sure
      <4> QED
        BY <2>2, <2>4, <3>1, <4>2
    <3>2. CASE d # c
      <4>1. IsApplying(d) /\ Sure(d, p)
        BY <1>1, <1>2, <2>4, <2>6, <3>2 DEF Sure, Passed, Of
      <4> QED
        BY <2>1, <2>2, <2>4, <4>1 DEF PartInOrder
    <3> QED
      BY <3>1, <3>2
  <2> QED
    BY <1>1, <2>5, <2>6 DEF PartInOrder
<1> QED
  BY <1>4 DEF InOrder

\* A request that stores its settings has passed every part: what is not astray is in force.
LEMMA StoreKeepsOrder ==
    ASSUME TypeOK, InOrder, NEW c \in Caller, Store(c)
    PROVE  InOrder'
<1>1. proc[c] \in InApplier /\ proc[c].pc = "port" /\ IsApplying(c) /\ snap' = Wanted(c)
  BY ProcIs DEF Store, At, IsApplying, Applying
<1>2. \A p \in Part : Passed(c, p)
  <2>1. proc[c].nth \in 1..Len(Services) + 1 /\ proc[c].nth \notin 1..Len(Services)
    BY <1>1, ServicesAre DEF InApplier, Store
  <2>2. proc[c].nth = Len(Services) + 1
    BY <2>1, ServicesAre
  <2> QED
    BY <1>1, <2>2, ServicesAre, PartsAre DEF Passed
<1>3. ~IsApplying(c)' /\ \A d \in Caller \ {c} : proc'[d] = proc[d] /\ IsApplying(d)' = IsApplying(d)
  BY DEF Store, TypeOK, IsApplying, Applying, NoRequest
<1>4. \A v : DNSIs(v) => DNSIs(v)'
  BY DNSKept DEF Store, loopState, managerVars
<1>5. ASSUME NEW p \in Part, p \notin astray' PROVE PartInOrder(p)'
  <2>1. PartInOrder(p)
    BY <1>5 DEF InOrder, Store
  <2>2. PartIs(p, Want(c, p))
    BY <1>1, <1>2, <2>1 DEF PartInOrder, Sure
  <2>3. Of(snap, p)' = Want(c, p)
    BY <1>1 DEF Want, Of
  <2>4. \A x : PartIs(p, x) => PartIs(p, x)'
    BY <1>4 DEF PartIs, Store, loopState, managerVars
  <2>5. \A d \in Caller : IsApplying(d)' => IsApplying(d) /\ Want(d, p)' = Want(c, p)
    BY <1>1, <1>3, <2>1 DEF PartInOrder, Agreed, Want, Wanted, Of
  <2> QED
    BY <2>2, <2>3, <2>4, <2>5 DEF PartInOrder, Agreed
<1> QED
  BY <1>5 DEF InOrder

\* A setter that goes on tells a tunnel what every request inside wants, if they agree.
LEMMA SetterKeepsOrder ==
    ASSUME TypeOK, SettersOwned, InOrder, NEW c \in Caller, SetterGoesOn(c)
    PROVE  InOrder'
<1>0. UNCHANGED applierVars /\ snap' = snap /\ proc' = proc /\ astray' = astray
  BY DEF SetterGoesOn, applierVars, history
<1>1. \A d \in Caller : IsApplying(d)' = IsApplying(d) /\ proc'[d] = proc[d]
  BY <1>0 DEF IsApplying
<1>2. CASE Signal(c)
  <2>1. \A d \in Caller : call[d].pc = "ttl" => call'[d] = call[d]
    BY <1>2 DEF Signal, TypeOK, LoopTypeOK
  <2>2. \A v : DNSIs(v) => DNSIs(v)'
    BY <1>2, <2>1, DNSKept DEF Signal
  <2>3. \A p, x : PartIs(p, x) => PartIs(p, x)'
    BY <1>0, <1>2, <2>2 DEF PartIs, Signal, applierVars
  <2> QED
    BY <1>0, <1>1, <2>3, AsideKeepsPart DEF InOrder
<1>3. ASSUME NEW t \in Tunnel, TellTunnel(c, t) PROVE InOrder'
  <2>1. call[c].pc = "ttl" /\ IsApplying(c) /\ call[c].ttl = Wanted(c).dns
    BY <1>3 DEF TellTunnel, SettersOwned, IsApplying, Applying
  <2>2. /\ ttl'[t] = Wanted(c).dns /\ \A u \in Tunnel \ {t} : ttl'[u] = ttl[u]
        /\ UNCHANGED <<params, dnsTTL, tun>>
        /\ call'[c] = Telling(Wanted(c).dns, call[c].todo \ {t})
        /\ \A d \in Caller \ {c} : call'[d] = call[d]
    BY <1>3, <2>1 DEF TellTunnel, TypeOK, LoopTypeOK
  <2>3. \A v : v = Wanted(c).dns /\ DNSIs(v) => DNSIs(v)'
    <3>1. \A u \in Managed : u \in call[c].todo \ {t} => call'[c].pc = "ttl" /\ u \in call'[c].todo
      BY <2>2 DEF Telling
    <3>2. Managed' = Managed
      BY <2>2 DEF Managed
    <3> QED
      BY <2>2, <3>1, <3>2 DEF DNSIs, Managed
  <2>4. \A p \in Part : \A x : x = Want(c, p) /\ PartIs(p, x) => PartIs(p, x)'
    BY <1>0, <2>2, <2>3, PartsAre DEF PartIs, Want, applierVars
  <2>5. Inside(c) /\ \A p \in Part : Passed(c, p)' = Passed(c, p)
    BY <1>0, <1>1, <2>1 DEF Inside, Passed
  <2> QED
    BY <1>0, <2>4, <2>5, OthersKeepPart DEF InOrder
<1> QED
  BY <1>2, <1>3 DEF SetterGoesOn

\* Tunnels that come and go, and the loop.
LEMMA ManagerKeepsOrder ==
    ASSUME TypeOK, InOrder, UNCHANGED applierVars,
           (\E t \in Tunnel : CreateTunnel(t) \/ RemoveTunnel(t)) \/ LoopStep
    PROVE  InOrder'
<1>1. \A v : DNSIs(v) => DNSIs(v)'
  <2>1. ASSUME NEW t \in Tunnel, CreateTunnel(t), NEW v, DNSIs(v) PROVE DNSIs(v)'
    BY <2>1 DEF CreateTunnel, DNSIs, Managed, TypeOK, LoopTypeOK
  <2>2. ASSUME NEW t \in Tunnel, RemoveTunnel(t), NEW v, DNSIs(v) PROVE DNSIs(v)'
    BY <2>2 DEF RemoveTunnel, DNSIs, Managed, TypeOK, LoopTypeOK
  <2>3. CASE LoopStep
    <3>1. UNCHANGED managerVars
      BY <2>3 DEF LoopStep, Run, RunBegins, StartLatency, ProbeEnds, Tick, Receive, Reset, Stops
    <3> QED
      BY <3>1, DNSKept DEF managerVars
  <2> QED
    BY <2>1, <2>2, <2>3
<1>2. params' = params
  BY DEF CreateTunnel, RemoveTunnel, LoopStep, Run, RunBegins, StartLatency, ProbeEnds, Tick,
     Receive, Reset, Stops, managerVars
<1>3. \A p, x : PartIs(p, x) => PartIs(p, x)'
  BY <1>1, <1>2 DEF PartIs, applierVars
<1>4. /\ astray' = astray /\ snap' = snap
      /\ \A d \in Caller : IsApplying(d)' = IsApplying(d) /\ proc'[d] = proc[d]
  BY DEF applierVars, history, IsApplying
<1> QED
  BY <1>3, <1>4, AsideKeepsPart DEF InOrder

\* Requests on their way to the applier, requests that find none, and main.
LEMMA OutsideKeepsOrder ==
    ASSUME TypeOK, InOrder,
           \/ \E c \in Caller : Unheard(c) \/ Get(c) \/ \E s \in Setting : Save(c, s)
           \/ SetApplier
    PROVE  InOrder'
<1>1. UNCHANGED <<loopState, prefer, port, snap, astray>>
  BY DEF Unheard, Get, Save, SetApplier, history
<1>2. \A v : DNSIs(v) => DNSIs(v)'
  BY <1>1, DNSKept DEF loopState, managerVars
<1>3. \A p, x : PartIs(p, x) => PartIs(p, x)'
  BY <1>1, <1>2 DEF PartIs, loopState, managerVars
<1>4. \A d \in Caller : IsApplying(d)' = IsApplying(d) /\ (IsApplying(d) => proc'[d] = proc[d])
  <2>1. ASSUME NEW c \in Caller, Unheard(c) \/ Get(c) \/ \E s \in Setting : Save(c, s)
        PROVE  /\ ~IsApplying(c) /\ ~IsApplying(c)'
               /\ \A d \in Caller \ {c} : proc'[d] = proc[d] /\ IsApplying(d)' = IsApplying(d)
    BY <2>1 DEF Unheard, Get, Save, At, IsApplying, Applying, NoRequest, TypeOK
  <2>2. CASE SetApplier
    BY <2>2 DEF SetApplier, IsApplying
  <2>3. ASSUME NEW c \in Caller, Unheard(c) \/ Get(c) \/ \E s \in Setting : Save(c, s),
               NEW d \in Caller
        PROVE  IsApplying(d)' = IsApplying(d) /\ (IsApplying(d) => proc'[d] = proc[d])
    <3>1. IsApplying(c)' = IsApplying(c)
      BY <2>1, <2>3 DEF IsApplying
    <3> QED
      BY <2>1, <2>3, <3>1
  <2> QED
    BY <2>2, <2>3
<1> QED
  BY <1>1, <1>3, <1>4, AsideKeepsPart DEF InOrder

LEMMA OrderStep ==
    ASSUME TypeOK, Books, InOrder, [Next]_vars
    PROVE  InOrder'
<1> USE DEF Books
<1>1. ASSUME NEW c \in Caller,
             SetHealth(c) \/ SetDNS(c) \/ SetLatencyRouting(c) \/ Skip(c) \/ Load(c) \/ Store(c)
      PROVE  InOrder'
  BY <1>1, HealthKeepsOrder, DNSKeepsOrder, RoutingKeepsOrder, SkipKeepsOrder, LoadKeepsOrder,
     StoreKeepsOrder
<1>2. ASSUME NEW c \in Caller, NEW s \in Service, SkipPort(c, s) \/ Swap(c, s) \/ SwapFails(c, s)
      PROVE  InOrder'
  BY <1>2, PortsKeepOrder
<1>3. ASSUME NEW c \in Caller, SetterGoesOn(c) PROVE InOrder'
  BY <1>3, SetterKeepsOrder
<1>4. ASSUME \/ \E c \in Caller : Unheard(c) \/ Get(c) \/ \E s \in Setting : Save(c, s)
             \/ SetApplier
      PROVE  InOrder'
  BY <1>4, OutsideKeepsOrder
<1>5. ASSUME UNCHANGED applierVars,
             (\E t \in Tunnel : CreateTunnel(t) \/ RemoveTunnel(t)) \/ LoopStep
      PROVE  InOrder'
  BY <1>5, ManagerKeepsOrder
<1>6. CASE UNCHANGED vars
  <2>1. \A v : DNSIs(v) => DNSIs(v)'
    BY <1>6, DNSKept DEF vars, loopState, managerVars
  <2>2. \A p, x : PartIs(p, x) => PartIs(p, x)'
    BY <1>6, <2>1 DEF PartIs, vars, loopState, managerVars, applierVars
  <2>3. /\ astray' = astray /\ snap' = snap
        /\ \A d \in Caller : IsApplying(d)' = IsApplying(d) /\ proc'[d] = proc[d]
    BY <1>6 DEF vars, applierVars, history, IsApplying
  <2> QED
    BY <2>2, <2>3, AsideKeepsPart DEF InOrder
<1> QED
  BY <1>1, <1>2, <1>3, <1>4, <1>5, <1>6 DEF Next, Handle

LEMMA OrderInit == ASSUME Init PROVE Books /\ InOrder
<1>1. \A c \in Caller : proc[c] = NoRequest /\ ~Known(c) /\ ~IsApplying(c)
  BY DEF Init, NoRequest, Known, IsApplying, Applying
<1>2. SettersOwned /\ FirstNext
  BY <1>1 DEF Init, LoopInit, SettersOwned, FirstNext, Idle, NoRequest
<1>3. Numbered
  BY <1>1 DEF Init, Numbered
<1>4. ASSUME NEW p \in Part PROVE PartIs(p, Of(snap, p))
  <2>1. DNSIs(snap.dns)
    BY DEF Init, LoopInit, Managed, DNSIs
  <2> QED
    BY <2>1, PartsAre DEF Init, PartIs
<1> QED
  BY <1>1, <1>2, <1>3, <1>4 DEF Books, InOrder, PartInOrder, Agreed

\* Once every request has returned, each part of the runtime is as the snapshot says, and
\* the snapshot is the newest save, whatever requests were inside the applier together and
\* however many: but for parts that two of them wanted differently and ports whose swap
\* failed, as long as no request has set those undisputed, and but for a newest save that
\* found no applier or was stored before an older one.
THEOREM SettingsInForce == Spec => []InForceUnlessAstray
<1> DEFINE Inv == TypeOK /\ Books /\ InOrder
<1>1. Init => Inv
  BY TypeInit, OrderInit
<1>2. Inv /\ [Next]_vars => Inv'
  BY TypeStep, OwnedStep, NumberedStep, FirstStep, OrderStep DEF Books
<1>3. Inv => InForceUnlessAstray
  <2> SUFFICES ASSUME TypeOK, Books, InOrder, Quiet PROVE InForceUnlessAstray
    BY DEF InForceUnlessAstray
  <2>1. \A c \in Caller : proc[c].pc = "idle" /\ call[c] = Idle /\ ~IsApplying(c) /\ ~Known(c)
    BY DEF Quiet, At, IsApplying, Applying, Known
  <2>2. newest # "due" /\ (newest = "stored" => snap = saved)
    BY <2>1 DEF Books, Numbered
  <2>3. ASSUME NEW p \in Part \ astray PROVE InForce(p)
    <3>1. PartIs(p, Of(snap, p))
      BY <2>1 DEF InOrder, PartInOrder
    <3>2. DNSIs(snap.dns) => \A t \in Managed : ttl[t] = dnsTTL
      BY <2>1 DEF DNSIs, Idle
    <3>3. CASE p = "health"
      BY <3>1, <3>3, PartsAre DEF InForce, PartIs
    <3>4. CASE p = "dns"
      BY <3>1, <3>2, <3>4, PartsAre DEF InForce, PartIs, DNSIs
    <3>5. CASE p = "prefer"
      BY <3>1, <3>5, PartsAre DEF InForce, PartIs
    <3>6. CASE p \in Service
      BY <3>1, <3>6, PartsAre DEF InForce, PartIs
    <3> QED
      BY <3>3, <3>4, <3>5, <3>6, PartsAre
  <2> QED
    BY <2>2, <2>3 DEF InForceUnlessAstray
<1> QED
  BY <1>1, <1>2, <1>3, PTL DEF Spec

=============================================================================
