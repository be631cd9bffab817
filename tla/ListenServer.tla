----------------------------- MODULE ListenServer -----------------------------
(***************************************************************************)
(* The listening services (internal/listen/listen.go): a registry of named *)
(* services, the swap of a service to another address and the goroutine    *)
(* that serves each listener.                                              *)
(*                                                                         *)
(* A swap binds the new address outside the lock, commits it only if the   *)
(* service still has the address seen at the start, and closes a listener  *)
(* (the old one, or its own if it lost) after the lock is gone.  Swappers  *)
(* are the web handlers that may be inside Swap at one time.               *)
(***************************************************************************)
EXTENDS Integers, FiniteSets

CONSTANTS
    Service,      \* names of the services
    Addr,         \* listen addresses
    Boot,         \* the address each service starts with, from the configuration file
    Swapper,      \* goroutines that may call Swap
    MaxListener,  \* bound: listeners ever opened
    ErrCap,       \* capacity of errCh (8 in the code)
    SelfClosing   \* services whose serve function closes the listener when it fails

ASSUME ListenAssumption ==
    /\ MaxListener \in Nat
    /\ ErrCap \in Nat \ {0}
    /\ SelfClosing \subseteq Service
    /\ Boot \in [Service -> Addr]
    /\ Service # {}

Listener == 1..MaxListener

VARIABLES
    opened,   \* how many listeners have been opened so far
    lis,      \* lis[l]: the service and address of listener l, and whether it is open
    entry,    \* entry[s]: the registered address and listener; listener 0 before Start
    loop,     \* loop[l]: where the serveLoop goroutine of l stands
    errCh,    \* the listeners whose errors are queued in errCh
    swap,     \* swap[w]: where swapper w stands in Swap
    exited    \* main has received an error and the process has ended

vars == <<opened, lis, entry, loop, errCh, swap, exited>>

----------------------------------------------------------------------------
LisState == [svc : Service, addr : Addr, open : BOOLEAN]
Entry == [addr : Addr, ln : 0..MaxListener]
LoopPC == {"none", "serving", "failed", "sending", "ended"}
\* old: the address seen at the start; ln: the listener the swapper still has to
\* commit ("commit") or to close ("close").
Swap == [pc : {"idle", "bind", "commit", "close"}, svc : Service, old : Addr, new : Addr,
         ln : 0..MaxListener]

AnyService == CHOOSE s \in Service : TRUE
AnyAddr == Boot[AnyService]
NoSwap == [pc |-> "idle", svc |-> AnyService, old |-> AnyAddr, new |-> AnyAddr, ln |-> 0]
Closing(l) == [NoSwap EXCEPT !.pc = "close", !.ln = l]

\* Every variable keeps its type, and errCh its capacity.
TypeOK ==
    /\ opened \in 0..MaxListener
    /\ lis \in [Listener -> LisState]
    /\ entry \in [Service -> Entry]
    /\ loop \in [Listener -> LoopPC]
    /\ errCh \subseteq Listener /\ Cardinality(errCh) <= ErrCap
    /\ swap \in [Swapper -> Swap]
    /\ exited \in BOOLEAN

NoListener == [svc |-> AnyService, addr |-> AnyAddr, open |-> FALSE]

Init ==
    /\ opened = 0
    /\ lis = [l \in Listener |-> NoListener]
    /\ entry = [s \in Service |-> [addr |-> Boot[s], ln |-> 0]]
    /\ loop = [l \in Listener |-> "none"]
    /\ errCh = {}
    /\ swap = [w \in Swapper |-> NoSwap]
    /\ exited = FALSE

Registered(s) == entry[s].ln # 0
InUse(a) == \E l \in Listener : lis[l].open /\ lis[l].addr = a

\* net.Listen: the kernel lets one open listener have an address.
Binds(s, a) ==
    /\ ~InUse(a) /\ opened < MaxListener
    /\ opened' = opened + 1
    /\ lis' = [lis EXCEPT ![opened + 1] = [svc |-> s, addr |-> a, open |-> TRUE]]

\* Start, called once per service by main, before anything can swap it.
Start(s) ==
    /\ ~exited /\ ~Registered(s)
    /\ Binds(s, Boot[s])
    /\ entry' = [entry EXCEPT ![s] = [addr |-> Boot[s], ln |-> opened + 1]]
    /\ loop' = [loop EXCEPT ![opened + 1] = "serving"]
    /\ UNCHANGED <<errCh, swap, exited>>

----------------------------------------------------------------------------
\* Swap

\* The address is looked at under the lock; the same one is a no-op.  main lets the web
\* handlers swap (SetApplier) only after it has started every service.
SwapBegin(w, s, a) ==
    /\ ~exited /\ swap[w].pc = "idle"
    /\ \A t \in Service : Registered(t)
    /\ entry[s].addr # a
    /\ swap' = [swap EXCEPT ![w] =
           [pc |-> "bind", svc |-> s, old |-> entry[s].addr, new |-> a, ln |-> 0]]
    /\ UNCHANGED <<opened, lis, entry, loop, errCh, exited>>

SwapBind(w) ==
    /\ ~exited /\ swap[w].pc = "bind"
    /\ Binds(swap[w].svc, swap[w].new)
    /\ swap' = [swap EXCEPT ![w] = [@ EXCEPT !.pc = "commit", !.ln = opened + 1]]
    /\ UNCHANGED <<entry, loop, errCh, exited>>

\* The address is taken, by a listener of this process or by another program.
SwapBindFails(w) ==
    /\ ~exited /\ swap[w].pc = "bind"
    /\ swap' = [swap EXCEPT ![w] = NoSwap]
    /\ UNCHANGED <<opened, lis, entry, loop, errCh, exited>>

\* commitSwap under the lock: the service still has the address seen at the start.
SeenAtStart(w) == entry[swap[w].svc].addr = swap[w].old

SwapCommit(w) ==
    LET s == swap[w].svc
    IN /\ ~exited /\ swap[w].pc = "commit" /\ SeenAtStart(w)
       /\ entry' = [entry EXCEPT ![s] = [addr |-> swap[w].new, ln |-> swap[w].ln]]
       /\ loop' = [loop EXCEPT ![swap[w].ln] = "serving"]
       /\ swap' = [swap EXCEPT ![w] = Closing(entry[s].ln)]
       /\ UNCHANGED <<opened, lis, errCh, exited>>

\* Mutant of SwapConflict: the overtaken swap forgets its own listener.
SwapConflictKeeps(w) ==
    /\ ~exited /\ swap[w].pc = "commit" /\ ~SeenAtStart(w)
    /\ swap' = [swap EXCEPT ![w] = NoSwap]
    /\ UNCHANGED <<opened, lis, entry, loop, errCh, exited>>

\* Another swap came first: the swapper keeps its own listener to close.
SwapConflict(w) ==
    /\ ~exited /\ swap[w].pc = "commit" /\ ~SeenAtStart(w)
    /\ swap' = [swap EXCEPT ![w] = Closing(@.ln)]
    /\ UNCHANGED <<opened, lis, entry, loop, errCh, exited>>

SwapClose(w) ==
    /\ ~exited /\ swap[w].pc = "close"
    /\ lis' = [lis EXCEPT ![swap[w].ln] = [@ EXCEPT !.open = FALSE]]
    /\ swap' = [swap EXCEPT ![w] = NoSwap]
    /\ UNCHANGED <<opened, entry, loop, errCh, exited>>

----------------------------------------------------------------------------
\* serveLoop and main

\* serve returns: net.ErrClosed once the listener is closed, or an accept error.
ServeClosed(l) ==
    /\ ~exited /\ loop[l] = "serving" /\ ~lis[l].open
    /\ loop' = [loop EXCEPT ![l] = "ended"]
    /\ UNCHANGED <<opened, lis, entry, errCh, swap, exited>>

\* http.Serve closes the listener it fails on; the proxies' own Serve loops do not.
ServeFails(l) ==
    /\ ~exited /\ loop[l] = "serving" /\ lis[l].open
    /\ loop' = [loop EXCEPT ![l] = "failed"]
    /\ lis' = [lis EXCEPT ![l] = [@ EXCEPT !.open = lis[l].svc \notin SelfClosing]]
    /\ UNCHANGED <<opened, entry, errCh, swap, exited>>

Current(l) == entry[lis[l].svc].ln = l

\* Mutants of CheckStale: every error is sent on; the error is dropped when the listener is
\* the registered one.
CheckStaleNever(l) ==
    /\ ~exited /\ loop[l] = "failed"
    /\ loop' = [loop EXCEPT ![l] = "sending"]
    /\ UNCHANGED <<opened, lis, entry, errCh, swap, exited>>
CheckStaleInverted(l) ==
    /\ ~exited /\ loop[l] = "failed"
    /\ loop' = [loop EXCEPT ![l] = IF Current(l) THEN "ended" ELSE "sending"]
    /\ UNCHANGED <<opened, lis, entry, errCh, swap, exited>>

\* Under the lock: an error of a listener that has been replaced is dropped.
CheckStale(l) ==
    /\ ~exited /\ loop[l] = "failed"
    /\ loop' = [loop EXCEPT ![l] = IF Current(l) THEN "sending" ELSE "ended"]
    /\ UNCHANGED <<opened, lis, entry, errCh, swap, exited>>

\* Mutant of Report: the error is queued whether or not there is room.
ReportAlways(l) ==
    /\ ~exited /\ loop[l] = "sending"
    /\ loop' = [loop EXCEPT ![l] = "ended"]
    /\ errCh' = errCh \cup {l}
    /\ UNCHANGED <<opened, lis, entry, swap, exited>>

\* After the lock: the error is queued, or dropped when the queue is full.
Report(l) ==
    /\ ~exited /\ loop[l] = "sending"
    /\ loop' = [loop EXCEPT ![l] = "ended"]
    /\ errCh' = IF Cardinality(errCh) < ErrCap THEN errCh \cup {l} ELSE errCh
    /\ UNCHANGED <<opened, lis, entry, swap, exited>>

\* main waits for one error and returns: the process ends with all it had open.
MainExits ==
    /\ ~exited /\ errCh # {}
    /\ exited' = TRUE
    /\ opened' = 0
    /\ lis' = [l \in Listener |-> NoListener]
    /\ entry' = [s \in Service |-> [addr |-> Boot[s], ln |-> 0]]
    /\ loop' = [l \in Listener |-> "none"]
    /\ errCh' = {}
    /\ swap' = [w \in Swapper |-> NoSwap]

----------------------------------------------------------------------------
Next ==
    \/ \E s \in Service : Start(s)
    \/ \E w \in Swapper, s \in Service, a \in Addr : SwapBegin(w, s, a)
    \/ \E w \in Swapper : \/ SwapBind(w) \/ SwapBindFails(w) \/ SwapCommit(w)
                          \/ SwapConflict(w) \/ SwapClose(w)
    \/ \E l \in Listener : ServeClosed(l) \/ ServeFails(l) \/ CheckStale(l) \/ Report(l)
    \/ MainExits

Spec == Init /\ [][Next]_vars

----------------------------------------------------------------------------
\* Properties

\* What ServicePorts calls the address and the state of a service, and what main does.
Address == [s \in Service |-> entry[s].addr]
State == [s \in Service |->
    IF ~Registered(s) THEN "down" ELSE IF loop[entry[s].ln] = "serving" THEN "up" ELSE "failed"]
Main ==
    IF exited THEN "gone"
    ELSE IF errCh # {} \/ \E l \in Listener : loop[l] = "sending" THEN "told" ELSE "waits"

Ports == INSTANCE ServicePorts WITH at <- Address, state <- State, main <- Main

\* Binding outside the lock, committing under it and closing after it, while other swaps
\* run and listeners fail, amounts to the moves of ServicePorts: a swap happens whole or
\* not at all, onto an address no reachable service has, an address is never left before
\* the next one is served, and the error of a listener that has been replaced when it is
\* looked at does not end the process.
SwapsAreMoves == Ports!Spec

\* A listener that is open is the registered one of its service or is in the hands of
\* exactly one swap, which will commit or close it: no failed or overtaken swap leaves
\* an orphan port behind.
NoOrphanListener ==
    \A l \in Listener : lis[l].open =>
        \/ Current(l) /\ \A w \in Swapper : swap[w].ln # l
        \/ ~Current(l) /\ \E w \in Swapper :
               swap[w].ln = l /\ \A v \in Swapper \ {w} : swap[v].ln # l

\* A registered service stays reachable under the address the registry names, through
\* swaps that succeed, fail to bind or lose to another swap: its listener has that
\* address, and it is open and served unless its own accept loop failed, an error that
\* main is about to receive.
ServiceUninterrupted ==
    \A s \in Service : Registered(s) =>
        LET l == entry[s].ln
        IN /\ lis[l].svc = s /\ lis[l].addr = entry[s].addr
           /\ \/ loop[l] = "serving" /\ lis[l].open
              \/ loop[l] \in {"failed", "sending"}
              \/ loop[l] = "ended" /\ errCh # {}

=============================================================================
