------------------------------- MODULE Settings -------------------------------
(***************************************************************************)
(* From saved settings to the running proxy: the handler of the settings   *)
(* page (internal/web/web.go, handleSettings) and the applier main.go      *)
(* gives it, which compares the saved settings with the ones it applied    *)
(* last (snap) and changes what differs, one part after the other, with    *)
(* no lock over the whole.  The web interface serves before main has given *)
(* it the applier, and a request that comes so early is saved only.  The   *)
(* tunnel manager's side is HealthLoop; a port is swapped by               *)
(* listen.Server.Swap (ListenServer), here one step that succeeds or       *)
(* fails.                                                                  *)
(***************************************************************************)
EXTENDS HealthLoop, Sequences, Functions

CONSTANTS
    Services, \* the listening services, in the order the applier takes them
    Addr,     \* listen addresses
    Setting,  \* the settings an administrator may save
    MaxSave   \* bound: settings saved

Service == Range(Services)
\* The parts of the settings that are applied apart.
Field == {"health", "dns", "prefer"}
Part == Field \cup Service

ASSUME SettingsAssumption ==
    /\ Services \in Seq(Service)
    /\ Setting \subseteq [health : Health, dns : TTL, prefer : BOOLEAN, port : [Service -> Addr]]
    /\ Setting # {}
    /\ Service \cap Field = {}
    /\ MaxSave \in Nat

VARIABLES
    saved,   \* the settings in config.Manager's configuration
    applier, \* the web interface has been given the applier
    snap,    \* the settings the applier takes for applied; main's own until it exists
    prefer,  \* dispatcher.Service.prefer
    port,    \* port[s]: the registered address of service s
    proc,    \* proc[c]: where the handler of request c stands
    saves,   \* how many settings have been saved
    newest,  \* history: what became of the newest save
    astray   \* history: parts that two requests have disagreed on, or whose swap failed

history == <<saves, newest, astray>>
applierVars == <<saved, applier, snap, prefer, port, proc, history>>
vars == <<loopState, applierVars>>

NoRequest == [pc |-> "idle"]
Applying == {"health", "dns", "prefer", "port"}
\* The newest save has still to be applied, is the one the snapshot was stored from, was so
\* until an older one was stored after it, or found no applier.
Fate == {"due", "stored", "outrun", "unheard"}
\* next: the settings taken from the configuration, and ver the save they come from; cur:
\* the snapshot they are compared with; nth: the service whose port comes next.
Request == [pc : {"get"}] \cup [pc : {"load"}, next : Setting, ver : 0..MaxSave]
           \cup [pc : Applying, next : Setting, ver : 0..MaxSave, cur : Setting,
                 nth : 1..Len(Services) + 1]

\* Every variable keeps its type.
TypeOK ==
    /\ LoopTypeOK
    /\ saved \in Setting /\ applier \in BOOLEAN /\ snap \in Setting
    /\ prefer \in BOOLEAN /\ port \in [Service -> Addr]
    /\ proc \in [Caller -> {NoRequest} \cup Request]
    /\ saves \in 0..MaxSave /\ newest \in Fate /\ astray \subseteq Part

\* main starts everything by the settings it has loaded, the web interface last.
Init ==
    /\ LoopInit
    /\ saved \in {s \in Setting : s.health = params /\ s.dns = dnsTTL}
    /\ applier = FALSE /\ snap = saved
    /\ prefer = saved.prefer /\ port = saved.port
    /\ proc = [c \in Caller |-> NoRequest]
    /\ saves = 0 /\ newest = "stored" /\ astray = {}

\* Mutant of SetApplier: the snapshot is taken of the configuration of that moment.
SetApplierAnew ==
    /\ ~applier /\ applier' = TRUE
    /\ snap' = saved
    /\ UNCHANGED <<loopState, saved, prefer, port, proc, history>>

\* The snapshot of the settings main has loaded is stored, and the applier handed over: one
\* word, which a handler that reads it meanwhile finds unset or set.
SetApplier ==
    /\ ~applier /\ applier' = TRUE
    /\ UNCHANGED <<loopState, saved, snap, prefer, port, proc, history>>

At(c, p) == proc[c].pc = p /\ call[c] = Idle
Moves(c, p) == proc' = [proc EXCEPT ![c] = [@ EXCEPT !.pc = p]]
Wanted(c) == proc[c].next
Differs(c, part) == proc[c].cur[part] # Wanted(c)[part]
IsApplying(c) == proc[c].pc \in Applying

\* config.Manager.Update, one step here (ConfigSync has the inside).
Save(c, s) ==
    /\ At(c, "idle") /\ saves < MaxSave
    /\ saved' = s
    /\ saves' = saves + 1 /\ newest' = "due"
    /\ proc' = [proc EXCEPT ![c] = [pc |-> "get"]]
    /\ UNCHANGED <<loopState, applier, snap, prefer, port, astray>>

\* Without an applier the request is over: nothing is applied, the reply is the same.
Unheard(c) ==
    /\ At(c, "get") /\ ~applier
    /\ proc' = [proc EXCEPT ![c] = NoRequest]
    /\ newest' = "unheard"
    /\ UNCHANGED <<loopState, saved, applier, snap, prefer, port, saves, astray>>

\* The handler asks for the configuration again: it may get a later one.
Get(c) ==
    /\ At(c, "get") /\ applier
    /\ proc' = [proc EXCEPT ![c] = [pc |-> "load", next |-> saved, ver |-> saves]]
    /\ UNCHANGED <<loopState, saved, applier, snap, prefer, port, history>>

\* The parts of which a request inside the applier wants another value than c does.
Of(s, p) == IF p \in Service THEN s.port[p] ELSE s[p]
Disputed(c) ==
    {p \in Part : \E d \in Caller : IsApplying(d) /\ Of(Wanted(d), p) # Of(Wanted(c), p)}
\* A part that nobody disputes is in force once it is set.
Settles(c, p) == astray' = astray \ ({p} \ Disputed(c))

Load(c) ==
    /\ At(c, "load")
    /\ proc' = [proc EXCEPT ![c] = [pc |-> "health", next |-> Wanted(c), ver |-> @.ver,
                                   cur |-> snap, nth |-> 1]]
    /\ astray' = astray \cup Disputed(c)
    /\ UNCHANGED <<loopState, saved, applier, snap, prefer, port, saves, newest>>

SetHealth(c) ==
    /\ At(c, "health") /\ Differs(c, "health")
    /\ ApplyHealth(c, Wanted(c).health)
    /\ Moves(c, "dns") /\ Settles(c, "health")
    /\ UNCHANGED <<saved, applier, snap, prefer, port, saves, newest>>

SetDNS(c) ==
    /\ At(c, "dns") /\ Differs(c, "dns")
    /\ SetDNSCacheTTL(c, Wanted(c).dns)
    /\ Moves(c, "prefer") /\ Settles(c, "dns")
    /\ UNCHANGED <<saved, applier, snap, prefer, port, saves, newest>>

\* The rest of a setter, after the lock of the tunnel manager.
SetterGoesOn(c) ==
    /\ Signal(c) \/ \E t \in Tunnel : TellTunnel(c, t)
    /\ UNCHANGED applierVars

SetLatencyRouting(c) ==
    /\ At(c, "prefer") /\ Differs(c, "prefer")
    /\ prefer' = Wanted(c).prefer
    /\ Moves(c, "port") /\ Settles(c, "prefer")
    /\ UNCHANGED <<loopState, saved, applier, snap, port, saves, newest>>

Swapping(c, s) ==
    /\ At(c, "port") /\ proc[c].nth \in DOMAIN Services /\ s = Services[proc[c].nth]
    /\ proc' = [proc EXCEPT ![c].nth = @ + 1]
    /\ UNCHANGED <<loopState, saved, applier, snap, prefer, saves, newest>>
PortDiffers(c, s) == proc[c].cur.port[s] # Wanted(c).port[s]

\* What has not changed is left alone.
Skip(c) ==
    /\ \/ At(c, "health") /\ ~Differs(c, "health") /\ Moves(c, "dns")
       \/ At(c, "dns") /\ ~Differs(c, "dns") /\ Moves(c, "prefer")
       \/ At(c, "prefer") /\ ~Differs(c, "prefer") /\ Moves(c, "port")
    /\ UNCHANGED <<loopState, saved, applier, snap, prefer, port, history>>
SkipPort(c, s) ==
    /\ Swapping(c, s) /\ ~PortDiffers(c, s)
    /\ UNCHANGED <<port, astray>>

\* The swap commits, or finds the address in place.
Swap(c, s) ==
    /\ Swapping(c, s) /\ PortDiffers(c, s)
    /\ port' = [port EXCEPT ![s] = Wanted(c).port[s]]
    /\ Settles(c, s)

\* The address cannot be bound, or another swap came first: a note for the reply.
SwapFails(c, s) ==
    /\ Swapping(c, s) /\ PortDiffers(c, s)
    /\ astray' = astray \cup (IF port[s] = Wanted(c).port[s] THEN {} ELSE {s})
    /\ UNCHANGED port

\* The wanted settings count as applied, with swaps that failed among them.
Store(c) ==
    /\ At(c, "port") /\ proc[c].nth \notin DOMAIN Services
    /\ snap' = Wanted(c)
    /\ proc' = [proc EXCEPT ![c] = NoRequest]
    /\ newest' = IF proc[c].ver = saves THEN "stored"
                 ELSE IF newest = "stored" THEN "outrun" ELSE newest
    /\ UNCHANGED <<loopState, saved, applier, prefer, port, saves, astray>>

Handle(c) ==
    \/ Unheard(c) \/ Get(c) \/ Load(c) \/ SetHealth(c) \/ SetDNS(c) \/ SetLatencyRouting(c) \/ Skip(c)
    \/ \E s \in Service : SkipPort(c, s) \/ Swap(c, s) \/ SwapFails(c, s)
    \/ Store(c)
    \/ SetterGoesOn(c)

\* main starts Run after it has handed over the applier.
Next ==
    \/ \E c \in Caller : Handle(c) \/ \E s \in Setting : Save(c, s)
    \/ SetApplier
    \/ /\ (\E t \in Tunnel : CreateTunnel(t) \/ RemoveTunnel(t)) \/ (applier /\ LoopStep)
       /\ UNCHANGED applierVars

Spec == Init /\ [][Next]_vars

\* main goes on, and a request that has begun is carried through.
FairSpec == Spec /\ LoopFairness /\ WF_vars(SetApplier) /\ \A c \in Caller : WF_vars(Handle(c))

----------------------------------------------------------------------------
\* Properties

Quiet == \A c \in Caller : At(c, "idle")

InForce(p) ==
    CASE p = "health" -> params = snap.health
      [] p = "dns"    -> dnsTTL = snap.dns /\ \A t \in Managed : ttl[t] = dnsTTL
      [] p = "prefer" -> prefer = snap.prefer
      [] OTHER        -> port[p] = snap.port[p]

\* Whatever requests have been inside the applier together or in the wrong order: once all
\* have returned, every part of the runtime (intervals, the lifetime of DNS answers of
\* every tunnel, routing mode, ports) is as the snapshot says, so that the next request
\* sets right what is not as saved; and the snapshot is the newest save, unless that one
\* came before the applier, or an older one was stored after it.  Only a part that two
\* requests inside together wanted differently, or a port whose swap failed, may be other
\* than the snapshot says, and only until a request nobody contradicts sets it.
InForceUnlessAstray ==
    Quiet =>
        /\ \A p \in Part \ astray : InForce(p)
        /\ newest # "due"
        /\ newest = "stored" => snap = saved

=============================================================================
