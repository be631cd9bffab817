------------------------------ MODULE ConfigSync ------------------------------
(***************************************************************************)
(* From a saved change of the configuration to the running proxy.          *)
(*                                                                         *)
(* A web handler that changes the upstreams runs config.Manager.Update     *)
(* (copy, mutate, validate, save, swap, all under m.mu) and then           *)
(* web.Server.SyncNow: it takes the current configuration, rebuilds the    *)
(* account index from it and aligns the tunnels with it, with no lock over *)
(* the three steps.  main does the same once at start-up, while the web    *)
(* handlers already run.  The process may die at any step and starts again *)
(* from the file.                                                          *)
(*                                                                         *)
(* A configuration says of every upstream whether it is listed and         *)
(* enabled; tuns is the one tunnel.Manager.Sync last worked on (what Sync  *)
(* makes of it is TunnelManager).                                          *)
(***************************************************************************)
EXTENDS Integers, FiniteSets

CONSTANTS
    Upstream,
    Handler,   \* web handlers that may be changing the configuration at one time
    Main,      \* the main goroutine
    Batch,     \* most upstreams one handleAutoRegister creates (10 in the code)
    None,      \* no file, or nobody
    Torn       \* the content of a file that was being written

ASSUME SyncAssumption ==
    /\ Main \notin Handler
    /\ None \notin Handler \cup {Main}
    /\ Batch \in Nat \ {0}

Actor == Handler \cup {Main}
Config == [Upstream -> {"absent", "off", "on"}]

ASSUME FileAssumption == None \notin Config /\ Torn \notin Config /\ None # Torn

Default == [u \in Upstream |-> "absent"]

VARIABLES
    disk,    \* config.json
    tmp,     \* config.json.tmp
    mem,     \* config.Manager.cfg
    lock,    \* who holds config.Manager.mu
    auth,    \* the configuration the account index was built from
    tuns,    \* the configuration the tunnels were last aligned with
    proc,    \* proc[a]: where actor a stands
    missed   \* history: since start-up a change was not handed on, or an old
             \* configuration was handed on after a newer one had been saved

vars == <<disk, tmp, mem, lock, auth, tuns, proc, missed>>

Saving == {"write", "rename", "commit"}
Syncing == {"get", "auth", "sync"}
\* work: the configuration being saved; snap: the one SyncNow took; left: upstreams the
\* request may still create; made: it has created some.
Proc == [pc : {"idle", "down", "more"} \cup Saving \cup Syncing,
         work : Config, snap : Config, left : 0..Batch, made : BOOLEAN]
At(pc) == [pc |-> pc, work |-> Default, snap |-> Default, left |-> 0, made |-> FALSE]

\* Every variable keeps its type, and m.mu is held by exactly the actor inside Update.
TypeOK ==
    /\ disk \in Config \cup {None}
    /\ tmp \in Config \cup {None, Torn}
    /\ mem \in Config /\ auth \in Config /\ tuns \in Config
    /\ lock \in Actor \cup {None}
    /\ proc \in [Actor -> Proc]
    /\ \A a \in Actor : lock = a <=> proc[a].pc \in Saving
    /\ missed \in BOOLEAN

Init ==
    /\ disk \in Config \cup {None}
    /\ tmp = None
    /\ mem = Default /\ auth = Default /\ tuns = Default
    /\ lock = None
    /\ proc = [a \in Actor |-> At(IF a = Main THEN "down" ELSE "idle")]
    /\ missed = FALSE

\* The web interface is up: main has loaded the configuration.
Serving == proc[Main].pc \in {"idle"} \cup Syncing

----------------------------------------------------------------------------
\* Update

Listed(c) == {u \in Upstream : c[u] # "absent"}

\* What one request makes of a configuration.  A new upstream comes enabled, a listed one
\* is enabled or disabled, or deleted, or gets other credentials (which are not told
\* apart here).
Additions(c) == {[c EXCEPT ![u] = "on"] : u \in Upstream \ Listed(c)}
Patches(c) == {[c EXCEPT ![u] = s] : u \in Listed(c), s \in {"off", "on"}}
Deletions(c) == {[c EXCEPT ![u] = "absent"] : u \in Listed(c)}
Regenerations(c) == IF Listed(c) = {} THEN {} ELSE {c}

Edits(c) == Additions(c) \cup Patches(c) \cup Deletions(c) \cup Regenerations(c)

\* The lock is taken, and the copy mutated and found valid.  n is 0, or the number of
\* upstreams an automatic registration is to create.
UpdateBegin(w, n) ==
    /\ Serving /\ lock = None /\ proc[w].pc = "idle"
    /\ \E c \in IF n = 0 THEN Edits(mem) ELSE Additions(mem) :
           proc' = [proc EXCEPT ![w] = [At("write") EXCEPT !.work = c, !.left = n]]
    /\ lock' = w
    /\ UNCHANGED <<disk, tmp, mem, auth, tuns, missed>>

\* Mutant of UpdateMore: it goes on from the copy of its first upstream.
UpdateMoreFromCopy(w) ==
    /\ lock = None /\ proc[w].pc = "more"
    /\ \E c \in Additions(proc[w].work) :
           proc' = [proc EXCEPT ![w] = [@ EXCEPT !.pc = "write", !.work = c]]
    /\ lock' = w
    /\ UNCHANGED <<disk, tmp, mem, auth, tuns, missed>>

\* The next upstream of a batch.
UpdateMore(w) ==
    /\ lock = None /\ proc[w].pc = "more"
    /\ \E c \in Additions(mem) :
           proc' = [proc EXCEPT ![w] = [@ EXCEPT !.pc = "write", !.work = c]]
    /\ lock' = w
    /\ UNCHANGED <<disk, tmp, mem, auth, tuns, missed>>

\* Mutant of Save: the file itself is written.
SaveInPlace(a) ==
    /\ proc[a].pc = "write"
    /\ disk' = Torn /\ tmp' = proc[a].work
    /\ proc' = [proc EXCEPT ![a] = [@ EXCEPT !.pc = "rename"]]
    /\ UNCHANGED <<mem, lock, auth, tuns, missed>>

\* Save writes the temporary file.
Save(a) ==
    /\ proc[a].pc = "write"
    /\ tmp' = proc[a].work
    /\ proc' = [proc EXCEPT ![a] = [@ EXCEPT !.pc = "rename"]]
    /\ UNCHANGED <<disk, mem, lock, auth, tuns, missed>>

\* Then it renames the file.
Rename(a) ==
    /\ proc[a].pc = "rename"
    /\ disk' = tmp /\ tmp' = None
    /\ proc' = [proc EXCEPT ![a] = [@ EXCEPT !.pc = "commit"]]
    /\ UNCHANGED <<mem, lock, auth, tuns, missed>>

\* The copy becomes the configuration.  A batch goes on, everyone else goes to SyncNow.
Commit(a) ==
    /\ proc[a].pc = "commit"
    /\ mem' = proc[a].work
    /\ lock' = None
    /\ proc' = [proc EXCEPT ![a] =
           IF proc[a].left > 1
           THEN [proc[a] EXCEPT !.pc = "more", !.left = @ - 1, !.made = TRUE]
           ELSE At("get")]
    /\ UNCHANGED <<disk, tmp, auth, tuns, missed>>

\* Mutant of Abandon: an error path that returns with the lock held.
AbandonLocked(w) ==
    /\ lock' = lock
    /\ proc' = [proc EXCEPT ![w] = At("idle")]
    /\ missed' = (missed \/ proc[w].made)

\* Update returns an error and the request ends; a batch forgets to hand on what it made.
Abandon(w) ==
    /\ lock' = None
    /\ proc' = [proc EXCEPT ![w] = At("idle")]
    /\ missed' = (missed \/ proc[w].made)

\* The temporary file cannot be written, or not to its end.
SaveFails(w) ==
    /\ proc[w].pc = "write"
    /\ tmp' \in {tmp, Torn}
    /\ Abandon(w)
    /\ UNCHANGED <<disk, mem, auth, tuns>>

\* Save then removes it.
RenameFails(w) ==
    /\ proc[w].pc = "rename"
    /\ tmp' = None
    /\ Abandon(w)
    /\ UNCHANGED <<disk, mem, auth, tuns>>

\* The next upstream of a batch is rejected before it is saved.
MoreRejected(w) ==
    /\ lock = None /\ proc[w].pc = "more"
    /\ Abandon(w)
    /\ UNCHANGED <<disk, tmp, mem, auth, tuns>>

\* Mutant of RegisterFails: the request returns, whatever has been created.
RegisterFailsSilently(w) ==
    /\ proc[w].pc = "more"
    /\ proc' = [proc EXCEPT ![w] = At("idle")]
    /\ UNCHANGED <<disk, tmp, mem, lock, auth, tuns, missed>>

\* WARP refuses the next registration of a batch: what there is goes to SyncNow.
RegisterFails(w) ==
    /\ proc[w].pc = "more"
    /\ proc' = [proc EXCEPT ![w] = At("get")]
    /\ UNCHANGED <<disk, tmp, mem, lock, auth, tuns, missed>>

----------------------------------------------------------------------------
\* SyncNow

SyncGet(a) ==
    /\ lock = None /\ proc[a].pc = "get"
    /\ proc' = [proc EXCEPT ![a] = [@ EXCEPT !.pc = "auth", !.snap = mem]]
    /\ UNCHANGED <<disk, tmp, mem, lock, auth, tuns, missed>>

SyncAuth(a) ==
    /\ proc[a].pc = "auth"
    /\ auth' = proc[a].snap
    /\ missed' = (missed \/ proc[a].snap # mem)
    /\ proc' = [proc EXCEPT ![a] = [@ EXCEPT !.pc = "sync"]]
    /\ UNCHANGED <<disk, tmp, mem, lock, tuns>>

SyncTunnels(a) ==
    /\ proc[a].pc = "sync"
    /\ tuns' = proc[a].snap
    /\ missed' = (missed \/ proc[a].snap # mem)
    /\ proc' = [proc EXCEPT ![a] = At("idle")]
    /\ UNCHANGED <<disk, tmp, mem, lock, auth>>

----------------------------------------------------------------------------
\* Start-up and crash

\* NewManager loads the file or the default; EnsureAdminPassword saves a configuration
\* that has no password yet, always the case where there was no file.
Load ==
    /\ proc[Main].pc = "down"
    /\ LET c == IF disk = None THEN Default ELSE disk
       IN /\ mem' = c
          /\ \/ lock' = Main
                /\ proc' = [proc EXCEPT ![Main] = [At("write") EXCEPT !.work = c]]
             \/ disk # None /\ lock' = None
                /\ proc' = [proc EXCEPT ![Main] = At("get")]
    /\ UNCHANGED <<disk, tmp, auth, tuns, missed>>

\* The process dies, or EnsureAdminPassword panics, with or without a torn temporary file.
Crash ==
    /\ proc[Main].pc # "down"
    /\ tmp' \in IF \E a \in Actor : proc[a].pc = "write" THEN {tmp, Torn} ELSE {tmp}
    /\ mem' = Default /\ auth' = Default /\ tuns' = Default
    /\ lock' = None
    /\ proc' = [a \in Actor |-> At(IF a = Main THEN "down" ELSE "idle")]
    /\ missed' = FALSE
    /\ UNCHANGED disk

Next ==
    \/ \E w \in Handler : \/ \E n \in 0..Batch : UpdateBegin(w, n)
                          \/ UpdateMore(w) \/ MoreRejected(w) \/ RegisterFails(w)
                          \/ SaveFails(w) \/ RenameFails(w)
    \/ \E a \in Actor : \/ Save(a) \/ Rename(a) \/ Commit(a)
                        \/ SyncGet(a) \/ SyncAuth(a) \/ SyncTunnels(a)
    \/ Load
    \/ Crash

Spec == Init /\ [][Next]_vars

----------------------------------------------------------------------------
\* Properties

\* The configuration is what a start from the file would find.
OnDisk == IF disk = None THEN Default ELSE disk
InHand == [a \in Actor |-> IF proc[a].pc \in {"auth", "sync"} THEN proc[a].snap ELSE None]

Durable == INSTANCE DurableConfig WITH value <- OnDisk, taken <- InHand

\* Copying, saving, renaming and swapping under a lock, with every failure and every crash
\* in between, amounts to the register of DurableConfig: an edit takes effect in one
\* instant and for good, no edit is lost to another one made meanwhile, and SyncNow is
\* never handed a configuration that is older than what is on the disk, or not on it.
IsDurable == Durable!Spec

\* The memory state is the disk state: whenever nobody is inside Update, config.json is
\* what config.Manager holds, and during an Update it is the old or the new configuration,
\* whole, so that a crash at any step loses no saved change and leaves no broken file.
DiskIsMemory ==
    proc[Main].pc # "down" =>
        IF lock = None THEN disk = mem
        ELSE \/ disk \in {mem, proc[lock].work}
             \/ lock = Main /\ disk = None

Quiet == \A a \in Actor : proc[a].pc = "idle"

\* Once every request has returned, the accounts that can log in and the tunnels are those
\* of the saved configuration, through failed saves, failed registrations and restarts,
\* unless a change was not handed on or was overtaken (missed).
AlignedUnlessMissed == Quiet /\ ~missed => auth = mem /\ tuns = mem

\* SyncNow brings the runtime in step with a change of the configuration: once every
\* request has returned, the account index and the tunnels are those of the configuration.
RuntimeAligned == Quiet => auth = mem /\ tuns = mem

=============================================================================
