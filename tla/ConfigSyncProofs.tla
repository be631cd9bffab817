--------------------------- MODULE ConfigSyncProofs ---------------------------
(***************************************************************************)
(* Proofs about ConfigSync, for every set of upstreams and handlers.       *)
(*                                                                         *)
(* DiskIsMemory speaks of the lock and the file only; that it survives a   *)
(* failing save needs to know how far the holder of the lock has come      *)
(* (SaveInStep).  AlignedUnlessMissed speaks of quiet states only; on the  *)
(* way there somebody must still owe the runtime what it lacks (Owed).     *)
(* That the steps implement DurableConfig needs to know where the saved    *)
(* configuration comes from (WorkIsEdit).                                  *)
(***************************************************************************)
EXTENDS ConfigSync, TLAPS

\* How far the holder of the lock has come; and nobody runs while the process is down.
SaveInStep ==
    /\ proc[Main].pc = "down" => \A w \in Handler : proc[w].pc = "idle"
    /\ proc[Main].pc # "down" /\ lock = None => disk = mem
    /\ \A a \in Actor :
        /\ proc[a].pc \in {"write", "rename"} => disk = mem \/ (a = Main /\ disk = None)
        /\ proc[a].pc = "rename" => tmp = proc[a].work
        /\ proc[a].pc = "commit" => disk = proc[a].work

\* The actors that will still hand the configuration to the account index (or tunnels).
Handing(a) ==
    \/ proc[a].pc \in {"get", "auth"}
    \/ proc[a].made /\ proc[a].pc \in {"more"} \cup Saving
    \/ a = Main /\ proc[a].pc \in Saving

Owed ==
    ~missed =>
        /\ auth = mem \/ \E a \in Actor : Handing(a)
        /\ tuns = mem \/ \E a \in Actor : Handing(a) \/ proc[a].pc = "sync"

\* The processes that At makes are in type.
LEMMA AtTypes ==
    /\ \A p \in {"idle", "down", "more"} \cup Saving \cup Syncing :
           At(p) \in Proc /\ At(p).pc = p
    /\ \A c \in Config, n \in 0..Batch :
           LET p == [At("write") EXCEPT !.work = c, !.left = n]
           IN p \in Proc /\ p.pc = "write"
    /\ \A c \in Config :
           LET p == [At("write") EXCEPT !.work = c] IN p \in Proc /\ p.pc = "write"
<1>1. 0 \in 0..Batch
  BY SyncAssumption
<1>2. Default \in Config
  BY DEF Default, Config
<1>3. \A p \in {"idle", "down", "more"} \cup Saving \cup Syncing :
           At(p) \in Proc /\ At(p).pc = p
  BY <1>1, <1>2 DEF At, Proc
<1>4. At("write") \in Proc /\ At("write").pc = "write"
  BY <1>3 DEF Saving
<1> QED
  BY <1>3, <1>4 DEF Proc

\* What a request makes of a configuration is a configuration.
LEMMA EditTypes ==
    ASSUME NEW c \in Config
    PROVE  Edits(c) \subseteq Config /\ Additions(c) \subseteq Config
BY DEF Edits, Additions, Patches, Deletions, Regenerations, Listed, Config

\* Type correctness, with the agreement of m.mu and the steps of Update.
THEOREM TypeCorrect == Spec => [](TypeOK /\ SaveInStep)
<1> DEFINE Inv == TypeOK /\ SaveInStep
<1> USE SyncAssumption, FileAssumption
<1>0. Default \in Config
  BY DEF Default, Config
<1>1. Init => Inv
  <2> SUFFICES ASSUME Init PROVE Inv
    OBVIOUS
  <2>1. /\ At("down") \in Proc /\ At("idle") \in Proc
        /\ At("down").pc = "down" /\ At("idle").pc = "idle"
    BY AtTypes
  <2>2. /\ proc \in [Actor -> Proc] /\ Main \in Actor
        /\ \A a \in Actor : proc[a].pc = IF a = Main THEN "down" ELSE "idle"
    BY <2>1 DEF Init, Actor
  <2> QED
    BY <1>0, <2>2 DEF Init, TypeOK, SaveInStep, Saving, Actor
<1>2. Inv /\ [Next]_vars => Inv'
  <2> SUFFICES ASSUME Inv, [Next]_vars PROVE Inv'
    OBVIOUS
  <2> USE DEF TypeOK, SaveInStep
  <2>1. ASSUME NEW w \in Handler, NEW n \in 0..Batch, UpdateBegin(w, n) PROVE Inv'
    <3>1. PICK p \in Proc : proc' = [proc EXCEPT ![w] = p] /\ p.pc = "write"
      <4>1. PICK c \in IF n = 0 THEN Edits(mem) ELSE Additions(mem) :
                proc' = [proc EXCEPT ![w] = [At("write") EXCEPT !.work = c, !.left = n]]
        BY <2>1 DEF UpdateBegin
      <4>2. c \in Config
        BY EditTypes
      <4> DEFINE r == [At("write") EXCEPT !.work = c, !.left = n]
      <4>3. r \in Proc /\ r.pc = "write"
        BY <4>2, AtTypes
      <4>4. proc' = [proc EXCEPT ![w] = r]
        BY <4>1
      <4> HIDE DEF r
      <4> QED
        BY <4>3, <4>4
    <3>2. \A a \in Actor : proc[a].pc \notin Saving
      BY <2>1 DEF UpdateBegin, Actor
    <3>3. proc[Main].pc # "down"
      BY <2>1 DEF UpdateBegin, Serving, Syncing
    <3>4. w \in Actor /\ w # Main /\ w # None
      BY DEF Actor
    <3>5. lock = None /\ lock' = w /\ UNCHANGED <<disk, tmp, mem, auth, tuns, missed>>
      BY <2>1 DEF UpdateBegin
    <3> QED
      BY <3>1, <3>2, <3>3, <3>4, <3>5 DEF Saving
  <2>2. ASSUME NEW w \in Handler, UpdateMore(w) PROVE Inv'
    <3>1. PICK p \in Proc : proc' = [proc EXCEPT ![w] = p] /\ p.pc = "write"
      <4>1. PICK c \in Additions(mem) :
                proc' = [proc EXCEPT ![w] = [@ EXCEPT !.pc = "write", !.work = c]]
        BY <2>2 DEF UpdateMore
      <4>2. c \in Config /\ proc[w] \in Proc
        BY EditTypes DEF Actor
      <4>3. [proc[w] EXCEPT !.pc = "write", !.work = c] \in Proc
        BY <4>2 DEF Proc, Saving
      <4>4. [proc[w] EXCEPT !.pc = "write", !.work = c].pc = "write"
        BY <4>2 DEF Proc
      <4> QED
        BY <4>1, <4>3, <4>4 DEF Actor
    <3>2. \A a \in Actor : proc[a].pc \notin Saving
      BY <2>2 DEF UpdateMore, Actor
    <3>3. proc[Main].pc # "down"
      BY <2>2 DEF UpdateMore
    <3>4. w \in Actor /\ w # Main /\ w # None
      BY DEF Actor
    <3> QED
      BY <2>2, <3>1, <3>2, <3>3, <3>4 DEF UpdateMore, Saving
  <2>3. ASSUME NEW a \in Actor, Save(a) PROVE Inv'
    <3>1. PICK p \in Proc : /\ proc' = [proc EXCEPT ![a] = p]
                            /\ p.pc = "rename" /\ p.work = proc[a].work
      <4>1. [proc[a] EXCEPT !.pc = "rename"] \in Proc
        BY DEF Proc, Saving
      <4> QED
        BY <2>3, <4>1 DEF Save, Proc
    <3>2. lock = a /\ \A b \in Actor \ {a} : proc[b].pc \notin Saving
      BY <2>3 DEF Save, Saving
    <3>3. proc[a].work \in Config
      BY DEF Proc
    <3> QED
      BY <2>3, <3>1, <3>2, <3>3 DEF Save, Saving, Actor
  <2>4. ASSUME NEW a \in Actor, Rename(a) PROVE Inv'
    <3>1. PICK p \in Proc : /\ proc' = [proc EXCEPT ![a] = p]
                            /\ p.pc = "commit" /\ p.work = proc[a].work
      <4>1. [proc[a] EXCEPT !.pc = "commit"] \in Proc
        BY DEF Proc, Saving
      <4> QED
        BY <2>4, <4>1 DEF Rename, Proc
    <3>2. lock = a /\ \A b \in Actor \ {a} : proc[b].pc \notin Saving
      BY <2>4 DEF Rename, Saving
    <3>3. proc[a].work \in Config
      BY DEF Proc
    <3> QED
      BY <2>4, <3>1, <3>2, <3>3 DEF Rename, Saving, Actor
  <2>5. ASSUME NEW a \in Actor, Commit(a) PROVE Inv'
    <3>1. PICK p \in Proc : proc' = [proc EXCEPT ![a] = p] /\ p.pc \in {"more", "get"}
      <4> DEFINE more == [proc[a] EXCEPT !.pc = "more", !.left = @ - 1, !.made = TRUE]
      <4>1. proc[a].left > 1 => more \in Proc /\ more.pc = "more"
        <5>1. proc[a] \in Proc
          OBVIOUS
        <5>2. proc[a].left > 1 => proc[a].left - 1 \in 0..Batch
          BY <5>1 DEF Proc
        <5> QED
          BY <5>1, <5>2 DEF Proc
      <4>2. At("get") \in Proc /\ At("get").pc = "get"
        BY AtTypes DEF Syncing
      <4>3. proc' = [proc EXCEPT ![a] = IF proc[a].left > 1 THEN more ELSE At("get")]
        BY <2>5 DEF Commit
      <4> QED
        BY <4>1, <4>2, <4>3
    <3>2. lock = a /\ \A b \in Actor \ {a} : proc[b].pc \notin Saving
      BY <2>5 DEF Commit, Saving
    <3>3. proc[a].work \in Config
      BY DEF Proc
    <3> QED
      BY <2>5, <3>1, <3>2, <3>3 DEF Commit, Saving, Actor
  <2>6. ASSUME NEW w \in Handler, SaveFails(w) \/ RenameFails(w) \/ MoreRejected(w) PROVE Inv'
    <3>1. At("idle") \in Proc /\ At("idle").pc = "idle"
      BY AtTypes
    <3>2. \A b \in Actor \ {w} : proc[b].pc \notin Saving
      BY <2>6 DEF SaveFails, RenameFails, MoreRejected, Saving, Actor
    <3>3. /\ w \in Actor /\ w # Main
          /\ proc' = [proc EXCEPT ![w] = At("idle")] /\ lock' = None
      BY <2>6 DEF SaveFails, RenameFails, MoreRejected, Abandon, Actor
    <3>4. missed' \in BOOLEAN /\ tmp' \in Config \cup {None, Torn}
      BY <2>6, <3>3 DEF SaveFails, RenameFails, MoreRejected, Abandon, Proc
    <3>5. disk' = disk /\ mem' = mem /\ auth' = auth /\ tuns' = tuns
      BY <2>6 DEF SaveFails, RenameFails, MoreRejected
    <3>6. proc[Main].pc # "down" /\ disk = mem
      BY <2>6, <3>3 DEF SaveFails, RenameFails, MoreRejected, Saving
    <3> QED
      BY <3>1, <3>2, <3>3, <3>4, <3>5, <3>6 DEF Saving, Actor
  <2>7. ASSUME NEW w \in Handler, RegisterFails(w) PROVE Inv'
    <3>1. At("get") \in Proc /\ At("get").pc = "get"
      BY AtTypes DEF Syncing
    <3>2. w \in Actor /\ w # Main
      BY DEF Actor
    <3> QED
      BY <2>7, <3>1, <3>2 DEF RegisterFails, Saving, Actor
  <2>8. ASSUME NEW a \in Actor, SyncGet(a) \/ SyncAuth(a) \/ SyncTunnels(a) PROVE Inv'
    <3>1. proc[a].pc \in Syncing
      BY <2>8 DEF SyncGet, SyncAuth, SyncTunnels, Syncing
    <3>2. PICK p \in Proc : proc' = [proc EXCEPT ![a] = p] /\ p.pc \in {"auth", "sync", "idle"}
      <4>1. CASE SyncGet(a)
        <5> DEFINE r == [proc[a] EXCEPT !.pc = "auth", !.snap = mem]
        <5>0. proc[a] \in Proc /\ mem \in Config
          OBVIOUS
        <5>1. r \in Proc /\ r.pc = "auth"
          BY <5>0 DEF Proc, Syncing
        <5>2. proc' = [proc EXCEPT ![a] = r]
          BY <4>1 DEF SyncGet
        <5> HIDE DEF r
        <5> QED
          BY <5>1, <5>2
      <4>2. CASE SyncAuth(a)
        <5>1. [proc[a] EXCEPT !.pc = "sync"] \in Proc
          BY DEF Proc, Syncing
        <5> QED
          BY <4>2, <5>1 DEF SyncAuth, Proc
      <4>3. CASE SyncTunnels(a)
        BY <4>3, AtTypes DEF SyncTunnels
      <4> QED
        BY <2>8, <4>1, <4>2, <4>3
    <3>3. /\ disk' = disk /\ tmp' = tmp /\ mem' = mem /\ lock' = lock
          /\ auth' \in Config /\ tuns' \in Config /\ missed' \in BOOLEAN
      <4>1. proc[a].snap \in Config
        BY DEF Proc
      <4> QED
        BY <2>8, <4>1 DEF SyncGet, SyncAuth, SyncTunnels
    <3>4. a # Main => proc[Main].pc # "down"
      BY <3>1 DEF Syncing, Actor
    <3> QED
      BY <3>1, <3>2, <3>3, <3>4 DEF Saving, Syncing, Actor
  <2>9. CASE Load
    <3> DEFINE c == IF disk = None THEN Default ELSE disk
    <3>1. c \in Config
      BY <1>0
    <3>2. Main \in Actor /\ lock = None /\ \A w \in Handler : proc[w].pc = "idle"
      BY <2>9 DEF Load, Actor, Saving
    <3>3. PICK p \in Proc :
              /\ proc' = [proc EXCEPT ![Main] = p]
              /\ \/ p.pc = "write" /\ lock' = Main
                 \/ p.pc = "get" /\ lock' = None /\ disk # None
      <4>1. [At("write") EXCEPT !.work = c] \in Proc
            /\ [At("write") EXCEPT !.work = c].pc = "write"
        BY <3>1, AtTypes
      <4>2. At("get") \in Proc /\ At("get").pc = "get"
        BY AtTypes DEF Syncing
      <4> QED
        BY <2>9, <4>1, <4>2 DEF Load
    <3>4. mem' = c /\ UNCHANGED <<disk, tmp, auth, tuns, missed>>
      BY <2>9 DEF Load
    <3> QED
      BY <3>1, <3>2, <3>3, <3>4 DEF Saving, Actor
  <2>10. CASE Crash
    <3>1. At("down") \in Proc /\ At("idle") \in Proc /\ At("down").pc = "down"
          /\ At("idle").pc = "idle"
      BY AtTypes
    <3>2. tmp' \in Config \cup {None, Torn}
      BY <2>10 DEF Crash
    <3> QED
      BY <2>10, <3>1, <3>2, <1>0 DEF Crash, Saving, Actor
  <2>11. CASE UNCHANGED vars
    BY <2>11 DEF vars
  <2> QED
    BY <2>1, <2>2, <2>3, <2>4, <2>5, <2>6, <2>7, <2>8, <2>9, <2>10, <2>11 DEF Next
<1> QED
  BY <1>1, <1>2, PTL DEF Spec

\* Whatever fails and whenever the process dies, config.json is the configuration in
\* memory, or the old or the new one while an Update runs.
THEOREM MemoryIsDisk == Spec => []DiskIsMemory
<1>1. TypeOK /\ SaveInStep => DiskIsMemory
  BY SyncAssumption DEF TypeOK, SaveInStep, DiskIsMemory, Saving, Actor
<1> QED
  BY <1>1, TypeCorrect, PTL

\* Once every request has returned, the account index and the tunnels are those of the
\* saved configuration, unless a change was not handed on or was overtaken.
THEOREM RuntimeFollows == Spec => []AlignedUnlessMissed
<1> USE SyncAssumption, FileAssumption
<1>1. Init => Owed
  BY DEF Init, Owed
<1>2. TypeOK /\ SaveInStep /\ Owed /\ [Next]_vars => Owed'
  <2> SUFFICES ASSUME TypeOK, SaveInStep, Owed, [Next]_vars, ~missed' PROVE Owed'
    BY DEF Owed
  <2>t. proc \in [Actor -> Proc] /\ Main \in Actor /\ Handler \subseteq Actor
    BY DEF TypeOK, Actor
  <2>p. At("get").pc = "get" /\ At("idle").pc = "idle"
    BY AtTypes DEF Syncing
  <2> USE DEF Owed, Handing
  <2>1. ASSUME NEW w \in Handler, NEW n \in 0..Batch, UpdateBegin(w, n) PROVE Owed'
    <3>1. ~Handing(w) /\ proc[w].pc # "sync"
      BY <2>1 DEF UpdateBegin, Saving, Actor
    <3>2. \A a \in Actor \ {w} : proc'[a] = proc[a]
      BY <2>1, <2>t DEF UpdateBegin
    <3> QED
      BY <2>1, <3>1, <3>2 DEF UpdateBegin
  <2>2. ASSUME NEW w \in Handler, UpdateMore(w) PROVE Owed'
    <3>1. PICK c \in Additions(mem) :
              proc' = [proc EXCEPT ![w] = [@ EXCEPT !.pc = "write", !.work = c]]
      BY <2>2 DEF UpdateMore
    <3>2. proc'[w].pc = "write" /\ proc'[w].made = proc[w].made
      BY <3>1, <2>t DEF Proc
    <3>3. \A a \in Actor \ {w} : proc'[a] = proc[a]
      BY <3>1, <2>t
    <3> QED
      BY <2>2, <2>t, <3>2, <3>3 DEF UpdateMore, Saving
  <2>3. ASSUME NEW a \in Actor, Save(a) \/ Rename(a) PROVE Owed'
    <3>1. /\ proc[a].pc \in Saving /\ proc'[a].pc \in Saving
          /\ proc'[a].made = proc[a].made
      BY <2>3, <2>t DEF Save, Rename, Proc, Saving
    <3>2. \A b \in Actor \ {a} : proc'[b] = proc[b]
      BY <2>3, <2>t DEF Save, Rename
    <3>3. UNCHANGED <<mem, auth, tuns, missed>>
      BY <2>3 DEF Save, Rename
    <3> QED
      BY <3>1, <3>2, <3>3 DEF Saving
  <2>4. ASSUME NEW a \in Actor, Commit(a) PROVE Owed'
    <3>1. Handing(a)'
      <4>1. CASE proc[a].left > 1
        <5>1. proc'[a] = [proc[a] EXCEPT !.pc = "more", !.left = @ - 1, !.made = TRUE]
          BY <2>4, <4>1, <2>t DEF Commit
        <5>2. proc'[a].pc = "more" /\ proc'[a].made
          BY <5>1, <2>t DEF Proc
        <5> QED
          BY <5>2
      <4>2. CASE ~(proc[a].left > 1)
        BY <2>4, <4>2, <2>t, <2>p DEF Commit
      <4> QED
        BY <4>1, <4>2
    <3> QED
      BY <3>1
  <2>5. ASSUME NEW w \in Handler, SaveFails(w) \/ RenameFails(w) \/ MoreRejected(w)
        PROVE Owed'
    <3>1. ~proc[w].made /\ ~missed /\ proc' = [proc EXCEPT ![w] = At("idle")]
      BY <2>5 DEF SaveFails, RenameFails, MoreRejected, Abandon
    <3>2. ~Handing(w) /\ proc[w].pc # "sync"
      BY <2>5, <3>1 DEF SaveFails, RenameFails, MoreRejected
    <3>3. \A a \in Actor \ {w} : proc'[a] = proc[a]
      BY <3>1, <2>t
    <3>4. UNCHANGED <<mem, auth, tuns>>
      BY <2>5 DEF SaveFails, RenameFails, MoreRejected
    <3> QED
      BY <3>1, <3>2, <3>3, <3>4
  <2>6. ASSUME NEW w \in Handler, RegisterFails(w) PROVE Owed'
    <3>1. proc'[w].pc = "get" /\ w \in Actor
      BY <2>6, <2>t, <2>p DEF RegisterFails
    <3> QED
      BY <3>1
  <2>7. ASSUME NEW a \in Actor, SyncGet(a) PROVE Owed'
    <3>1. proc'[a].pc = "auth"
      BY <2>7, <2>t DEF SyncGet, Proc
    <3> QED
      BY <3>1
  <2>8. ASSUME NEW a \in Actor, SyncAuth(a) PROVE Owed'
    <3>1. auth' = mem' /\ proc'[a].pc = "sync"
      BY <2>8, <2>t DEF SyncAuth, Proc
    <3> QED
      BY <3>1
  <2>9. ASSUME NEW a \in Actor, SyncTunnels(a) PROVE Owed'
    <3>1. tuns' = mem' /\ ~Handing(a) /\ ~missed /\ UNCHANGED <<mem, auth>>
      BY <2>9 DEF SyncTunnels, Saving
    <3>2. \A b \in Actor \ {a} : proc'[b] = proc[b]
      BY <2>9, <2>t DEF SyncTunnels
    <3> QED
      BY <3>1, <3>2
  <2>10. CASE Load
    <3>1. proc'[Main].pc \in {"write", "get"}
      <4>1. (IF disk = None THEN Default ELSE disk) \in Config
        BY DEF TypeOK, Default, Config
      <4>2. \A c \in Config : [At("write") EXCEPT !.work = c].pc = "write"
        BY AtTypes
      <4> QED
        BY <2>10, <4>1, <4>2, <2>t, <2>p DEF Load
    <3> QED
      BY <3>1, <2>t DEF Saving
  <2>11. CASE Crash
    BY <2>11 DEF Crash
  <2>12. CASE UNCHANGED vars
    BY <2>12 DEF vars
  <2> QED
    BY <2>1, <2>2, <2>3, <2>4, <2>5, <2>6, <2>7, <2>8, <2>9, <2>10, <2>11, <2>12 DEF Next
<1>3. Owed => AlignedUnlessMissed
  BY DEF Owed, AlignedUnlessMissed, Quiet, Handing, Saving
<1> QED
  BY <1>1, <1>2, <1>3, TypeCorrect, PTL DEF Spec

\* What is being saved is an edit of the configuration in memory, main saves what it has
\* loaded, and where there is no file that is the default.
IsEdit(c, d) ==
    \E u \in Upstream, s \in {"absent", "off", "on"} :
        (c[u] = "absent" => s # "off") /\ d = [c EXCEPT ![u] = s]

WorkIsEdit ==
    \A a \in Actor : proc[a].pc \in {"write", "rename"} =>
        IF a = Main THEN proc[a].work = mem /\ (disk = None => mem = Default)
        ELSE IsEdit(mem, proc[a].work)

\* Each kind of request is an edit in the sense of DurableConfig.
LEMMA EditsAreEdits ==
    ASSUME NEW c \in Config
    PROVE  /\ \A d \in Edits(c) : IsEdit(c, d)
           /\ \A d \in Additions(c) : IsEdit(c, d)
<1>1. ASSUME NEW d \in Additions(c) PROVE IsEdit(c, d)
  BY <1>1 DEF Additions, IsEdit
<1>2. ASSUME NEW d \in Patches(c) PROVE IsEdit(c, d)
  <2>1. PICK u \in Listed(c), s \in {"off", "on"} : d = [c EXCEPT ![u] = s]
    BY <1>2 DEF Patches
  <2>2. u \in Upstream /\ c[u] # "absent"
    BY DEF Listed
  <2> QED
    BY <2>1, <2>2 DEF IsEdit
<1>3. ASSUME NEW d \in Deletions(c) PROVE IsEdit(c, d)
  BY <1>3 DEF Deletions, Listed, IsEdit
<1>4. ASSUME NEW d \in Regenerations(c) PROVE IsEdit(c, d)
  <2>1. d = c
    BY <1>4 DEF Regenerations
  <2>2. PICK u \in Upstream : c[u] # "absent"
    BY <1>4 DEF Regenerations, Listed
  <2>3. c[u] \in {"absent", "off", "on"} /\ c = [c EXCEPT ![u] = c[u]]
    BY DEF Config
  <2> QED
    BY <2>1, <2>2, <2>3 DEF IsEdit
<1> QED
  BY <1>1, <1>2, <1>3, <1>4 DEF Edits

LEMMA WorkFollows == Spec => []WorkIsEdit
<1> USE SyncAssumption, FileAssumption
<1>1. Init => WorkIsEdit
  <2>1. At("down").pc = "down" /\ At("idle").pc = "idle"
    BY AtTypes
  <2> QED
    BY <2>1 DEF Init, WorkIsEdit
<1>2. TypeOK /\ SaveInStep /\ WorkIsEdit /\ [Next]_vars => WorkIsEdit'
  <2> SUFFICES ASSUME TypeOK, SaveInStep, WorkIsEdit, [Next]_vars PROVE WorkIsEdit'
    OBVIOUS
  <2>t. /\ proc \in [Actor -> Proc] /\ Main \in Actor /\ mem \in Config
        /\ \A a \in Actor : lock = a <=> proc[a].pc \in Saving
    BY DEF TypeOK, Actor
  <2>p. At("get").pc = "get" /\ At("idle").pc = "idle" /\ At("down").pc = "down"
    BY AtTypes DEF Syncing
  <2>1. ASSUME NEW w \in Handler, NEW c \in Edits(mem) \cup Additions(mem),
               NEW p \in Proc, p.work = c, lock = None,
               proc' = [proc EXCEPT ![w] = p], UNCHANGED <<disk, mem>>
        PROVE  WorkIsEdit'
    <3>1. IsEdit(mem, c)
      BY <2>t, EditsAreEdits
    <3>2. w \in Actor /\ w # Main /\ proc'[w].work = c
      BY <2>1, <2>t DEF Actor
    <3>3. \A a \in Actor \ {w} : proc'[a].pc \notin {"write", "rename"}
      BY <2>1, <2>t DEF Saving, Actor
    <3> QED
      BY <2>1, <3>1, <3>2, <3>3 DEF WorkIsEdit
  <2>2. ASSUME NEW w \in Handler, NEW n \in 0..Batch, UpdateBegin(w, n) PROVE WorkIsEdit'
    <3>1. PICK c \in Edits(mem) \cup Additions(mem) :
              proc' = [proc EXCEPT ![w] = [At("write") EXCEPT !.work = c, !.left = n]]
      BY <2>2 DEF UpdateBegin
    <3>2. c \in Config
      BY <2>t, EditTypes
    <3> DEFINE p == [At("write") EXCEPT !.work = c, !.left = n]
    <3>3. p \in Proc /\ p.work = c
      BY <3>2, AtTypes DEF At
    <3>4. proc' = [proc EXCEPT ![w] = p] /\ lock = None /\ UNCHANGED <<disk, mem>>
      BY <2>2, <3>1 DEF UpdateBegin
    <3> HIDE DEF p
    <3> QED
      BY <2>1, <3>3, <3>4
  <2>3. ASSUME NEW w \in Handler, UpdateMore(w) PROVE WorkIsEdit'
    <3>1. PICK c \in Additions(mem) :
              proc' = [proc EXCEPT ![w] = [@ EXCEPT !.pc = "write", !.work = c]]
      BY <2>3 DEF UpdateMore
    <3>2. c \in Config /\ proc[w] \in Proc
      BY <2>t, EditTypes DEF Actor
    <3> DEFINE p == [proc[w] EXCEPT !.pc = "write", !.work = c]
    <3>3. p \in Proc /\ p.work = c
      BY <3>2 DEF Proc, Saving
    <3>4. proc' = [proc EXCEPT ![w] = p] /\ lock = None /\ UNCHANGED <<disk, mem>>
      BY <2>3, <3>1 DEF UpdateMore
    <3> HIDE DEF p
    <3> QED
      BY <2>1, <3>3, <3>4
  <2>4. ASSUME NEW a \in Actor, Save(a) PROVE WorkIsEdit'
    <3>1. proc[a].pc = "write" /\ proc'[a].work = proc[a].work
      BY <2>4, <2>t DEF Save, Proc
    <3>2. \A b \in Actor \ {a} : proc'[b] = proc[b]
      BY <2>4, <2>t DEF Save
    <3>3. UNCHANGED <<disk, mem>>
      BY <2>4 DEF Save
    <3> QED
      BY <3>1, <3>2, <3>3 DEF WorkIsEdit
  <2>5. ASSUME NEW a \in Actor, Rename(a) \/ Commit(a) PROVE WorkIsEdit'
    <3>1. proc'[a].pc \notin {"write", "rename"}
      <4>1. CASE Rename(a)
        BY <4>1, <2>t DEF Rename, Proc
      <4>2. CASE Commit(a)
        BY <4>2, <2>t, <2>p DEF Commit, Proc
      <4> QED
        BY <2>5, <4>1, <4>2
    <3>2. \A b \in Actor \ {a} : proc'[b] = proc[b] /\ proc[b].pc \notin Saving
      BY <2>5, <2>t DEF Rename, Commit, Saving
    <3> QED
      BY <3>1, <3>2 DEF WorkIsEdit, Saving
  <2>6. ASSUME NEW a \in Actor, NEW p, proc' = [proc EXCEPT ![a] = p],
               p.pc \notin Saving, UNCHANGED <<disk, mem>>
        PROVE  WorkIsEdit'
    <3>1. proc'[a] = p /\ \A b \in Actor \ {a} : proc'[b] = proc[b]
      BY <2>6, <2>t
    <3> QED
      BY <2>6, <3>1 DEF WorkIsEdit, Saving
  <2>7. ASSUME NEW w \in Handler,
               SaveFails(w) \/ RenameFails(w) \/ MoreRejected(w) \/ RegisterFails(w)
        PROVE  WorkIsEdit'
    <3>1. At("idle").pc \notin Saving /\ At("get").pc \notin Saving /\ w \in Actor
      BY <2>p DEF Saving, Actor
    <3>2. UNCHANGED <<disk, mem>>
      BY <2>7 DEF SaveFails, RenameFails, MoreRejected, RegisterFails
    <3>3. \/ proc' = [proc EXCEPT ![w] = At("idle")]
          \/ proc' = [proc EXCEPT ![w] = At("get")]
      BY <2>7 DEF SaveFails, RenameFails, MoreRejected, RegisterFails, Abandon
    <3> QED
      BY <2>6, <3>1, <3>2, <3>3
  <2>8. ASSUME NEW a \in Actor, SyncGet(a) \/ SyncAuth(a) \/ SyncTunnels(a)
        PROVE  WorkIsEdit'
    <3>1. PICK p : proc' = [proc EXCEPT ![a] = p] /\ p.pc \notin Saving
      <4>1. CASE SyncGet(a)
        <5>1. [proc[a] EXCEPT !.pc = "auth", !.snap = mem].pc = "auth"
          BY <2>t DEF Proc
        <5> QED
          BY <4>1, <5>1 DEF SyncGet, Saving
      <4>2. CASE SyncAuth(a)
        <5>1. [proc[a] EXCEPT !.pc = "sync"].pc = "sync"
          BY <2>t DEF Proc
        <5> QED
          BY <4>2, <5>1 DEF SyncAuth, Saving
      <4>3. CASE SyncTunnels(a)
        BY <4>3, <2>p DEF SyncTunnels, Saving
      <4> QED
        BY <2>8, <4>1, <4>2, <4>3
    <3>2. UNCHANGED <<disk, mem>>
      BY <2>8 DEF SyncGet, SyncAuth, SyncTunnels
    <3> QED
      BY <2>6, <3>1, <3>2
  <2>9. CASE Load
    <3> DEFINE c == IF disk = None THEN Default ELSE disk
    <3>1. \A a \in Actor \ {Main} : proc'[a] = proc[a] /\ proc[a].pc = "idle"
      BY <2>9, <2>t DEF Load, SaveInStep, Actor
    <3>2. mem' = c /\ disk' = disk
      BY <2>9 DEF Load
    <3>3. \/ proc' = [proc EXCEPT ![Main] = [At("write") EXCEPT !.work = c]]
          \/ proc' = [proc EXCEPT ![Main] = At("get")]
      BY <2>9 DEF Load
    <3>4. [At("write") EXCEPT !.work = c].work = c
      BY DEF At
    <3>5. proc'[Main].work = c \/ proc'[Main].pc = "get"
      BY <3>3, <3>4, <2>t, <2>p
    <3> QED
      BY <3>1, <3>2, <3>5 DEF WorkIsEdit
  <2>10. CASE Crash
    BY <2>10, <2>p DEF Crash, WorkIsEdit
  <2>11. CASE UNCHANGED vars
    BY <2>11 DEF vars, WorkIsEdit
  <2> QED
    BY <2>2, <2>3, <2>4, <2>5, <2>7, <2>8, <2>9, <2>10, <2>11 DEF Next
<1> QED
  BY <1>1, <1>2, TypeCorrect, PTL DEF Spec

\* The configuration manager and SyncNow implement the register of DurableConfig: an edit
\* happens at the rename, a reading at SyncNow's Get, and every other step, every failure
\* and every crash is a stutter or the end of a reader.
THEOREM Implements == Spec => IsDurable
<1> USE SyncAssumption, FileAssumption
<1>1. Init => Durable!Init
  <2> SUFFICES ASSUME Init PROVE Durable!Init
    OBVIOUS
  <2>1. OnDisk \in Durable!Config
    BY DEF Init, OnDisk, Default, Config, Durable!Config
  <2>2. At("down").pc = "down" /\ At("idle").pc = "idle"
    BY AtTypes
  <2>3. InHand = [a \in Actor |-> None]
    BY <2>2 DEF Init, InHand
  <2> QED
    BY <2>1, <2>3 DEF Durable!Init
<1>2. TypeOK /\ SaveInStep /\ WorkIsEdit /\ [Next]_vars => [Durable!Next]_Durable!vars
  <2> SUFFICES ASSUME TypeOK, SaveInStep, WorkIsEdit, [Next]_vars
               PROVE  Durable!Next \/ UNCHANGED <<OnDisk, InHand>>
    BY DEF Durable!vars
  <2>t. /\ proc \in [Actor -> Proc] /\ Main \in Actor /\ mem \in Config
        /\ \A a \in Actor : lock = a <=> proc[a].pc \in Saving
    BY DEF TypeOK, Actor
  <2>p. At("get").pc = "get" /\ At("idle").pc = "idle" /\ At("down").pc = "down"
    BY AtTypes DEF Syncing
  <2>1. ASSUME NEW a \in Actor, NEW p, proc' = [proc EXCEPT ![a] = p],
               proc[a].pc \notin {"auth", "sync"}, p.pc \notin {"auth", "sync"}
        PROVE  UNCHANGED InHand
    <3>1. proc'[a] = p /\ \A b \in Actor \ {a} : proc'[b] = proc[b]
      BY <2>1, <2>t
    <3> QED
      BY <2>1, <3>1 DEF InHand
  <2>2. ASSUME NEW w \in Handler,
               \/ \E n \in 0..Batch : UpdateBegin(w, n)
               \/ UpdateMore(w) \/ MoreRejected(w) \/ RegisterFails(w)
               \/ SaveFails(w) \/ RenameFails(w)
        PROVE  UNCHANGED <<OnDisk, InHand>>
    <3>1. PICK p : proc' = [proc EXCEPT ![w] = p] /\ p.pc \in {"write", "idle", "get"}
      <4>1. ASSUME NEW n \in 0..Batch, UpdateBegin(w, n)
            PROVE  \E p : proc' = [proc EXCEPT ![w] = p] /\ p.pc = "write"
        <5>1. PICK c \in Edits(mem) \cup Additions(mem) :
                  proc' = [proc EXCEPT ![w] = [At("write") EXCEPT !.work = c, !.left = n]]
          BY <4>1 DEF UpdateBegin
        <5>2. [At("write") EXCEPT !.work = c, !.left = n].pc = "write"
          BY DEF At
        <5> QED
          BY <5>1, <5>2
      <4>2. ASSUME UpdateMore(w)
            PROVE  \E p : proc' = [proc EXCEPT ![w] = p] /\ p.pc = "write"
        <5>1. PICK c \in Additions(mem) :
                  proc' = [proc EXCEPT ![w] = [@ EXCEPT !.pc = "write", !.work = c]]
          BY <4>2 DEF UpdateMore
        <5>2. [proc[w] EXCEPT !.pc = "write", !.work = c].pc = "write"
          BY <2>t DEF Actor, Proc
        <5> QED
          BY <5>1, <5>2
      <4>3. CASE MoreRejected(w) \/ RegisterFails(w) \/ SaveFails(w) \/ RenameFails(w)
        BY <4>3, <2>p DEF MoreRejected, RegisterFails, SaveFails, RenameFails, Abandon
      <4> QED
        BY <2>2, <4>1, <4>2, <4>3
    <3>2. proc[w].pc \notin {"auth", "sync"} /\ disk' = disk
      BY <2>2 DEF UpdateBegin, UpdateMore, MoreRejected, RegisterFails, SaveFails, RenameFails
    <3>3. w \in Actor
      BY DEF Actor
    <3> QED
      BY <2>1, <3>1, <3>2, <3>3 DEF OnDisk
  <2>3. ASSUME NEW a \in Actor, Save(a) \/ Commit(a) PROVE UNCHANGED <<OnDisk, InHand>>
    <3>1. proc'[a].pc \notin {"auth", "sync"}
      <4>1. CASE Save(a)
        BY <4>1, <2>t DEF Save, Proc
      <4>2. CASE Commit(a)
        BY <4>2, <2>t, <2>p DEF Commit, Proc
      <4> QED
        BY <2>3, <4>1, <4>2
    <3>2. proc[a].pc \notin {"auth", "sync"} /\ disk' = disk
      BY <2>3 DEF Save, Commit
    <3>3. \A b \in Actor \ {a} : proc'[b] = proc[b]
      BY <2>3, <2>t DEF Save, Commit
    <3> QED
      BY <3>1, <3>2, <3>3 DEF InHand, OnDisk
  <2>4. ASSUME NEW a \in Actor, Rename(a)
        PROVE  Durable!Next \/ UNCHANGED <<OnDisk, InHand>>
    <3>1. UNCHANGED InHand
      <4>1. [proc[a] EXCEPT !.pc = "commit"].pc = "commit"
        BY <2>t DEF Proc
      <4> QED
        BY <2>1, <2>4, <4>1 DEF Rename
    <3>2. proc[a].work \in Config /\ disk' = proc[a].work
      BY <2>4, <2>t DEF Rename, SaveInStep, Proc
    <3>3. OnDisk' = proc[a].work
      BY <3>2 DEF OnDisk
    <3>4. CASE a = Main
      <4>1. OnDisk = mem /\ proc[a].work = mem
        BY <2>4, <3>4, <2>t DEF Rename, SaveInStep, WorkIsEdit, OnDisk
      <4> QED
        BY <3>1, <3>3, <4>1
    <3>5. CASE a # Main
      <4>1. OnDisk = mem /\ IsEdit(mem, proc[a].work)
        BY <2>4, <3>5, <2>t DEF Rename, SaveInStep, WorkIsEdit, OnDisk
      <4>2. \E u \in Upstream, s \in {"absent", "off", "on"} : Durable!Edit(u, s)
        BY <3>1, <3>3, <4>1 DEF IsEdit, Durable!Edit
      <4> QED
        BY <4>2 DEF Durable!Next
    <3> QED
      BY <3>4, <3>5
  <2>5. ASSUME NEW a \in Actor, SyncGet(a) PROVE Durable!Next
    <3> DEFINE p == [proc[a] EXCEPT !.pc = "auth", !.snap = mem]
    <3>1. p.pc = "auth" /\ p.snap = mem
      BY <2>t DEF Proc
    <3>2. proc' = [proc EXCEPT ![a] = p]
      BY <2>5 DEF SyncGet
    <3> HIDE DEF p
    <3>3. proc'[a] = p /\ \A b \in Actor \ {a} : proc'[b] = proc[b]
      BY <3>2, <2>t
    <3>4. OnDisk = mem /\ UNCHANGED OnDisk
      <4>1. proc[Main].pc # "down"
        BY <2>5, <2>t DEF SyncGet, SaveInStep, Actor
      <4> QED
        BY <2>5, <4>1, <2>t DEF SyncGet, SaveInStep, OnDisk
    <3>5. InHand' = [InHand EXCEPT ![a] = OnDisk]
      BY <3>1, <3>3, <3>4 DEF InHand
    <3>6. Durable!Take(a)
      BY <3>4, <3>5 DEF Durable!Take
    <3> QED
      BY <3>6 DEF Durable!Next
  <2>6. ASSUME NEW a \in Actor, SyncAuth(a) PROVE UNCHANGED <<OnDisk, InHand>>
    <3>1. proc[a].pc = "auth" /\ proc'[a].pc = "sync" /\ proc'[a].snap = proc[a].snap
      BY <2>6, <2>t DEF SyncAuth, Proc
    <3>2. \A b \in Actor \ {a} : proc'[b] = proc[b]
      BY <2>6, <2>t DEF SyncAuth
    <3>3. disk' = disk
      BY <2>6 DEF SyncAuth
    <3> QED
      BY <3>1, <3>2, <3>3 DEF InHand, OnDisk
  <2>7. ASSUME NEW a \in Actor, SyncTunnels(a) PROVE Durable!Next
    <3>1. proc'[a].pc = "idle" /\ \A b \in Actor \ {a} : proc'[b] = proc[b]
      BY <2>7, <2>t, <2>p DEF SyncTunnels
    <3>2. UNCHANGED OnDisk
      BY <2>7 DEF SyncTunnels, OnDisk
    <3>3. InHand' = [b \in Actor |-> IF b \in {a} THEN None ELSE InHand[b]]
      BY <3>1 DEF InHand
    <3>4. Durable!Forget({a})
      BY <3>2, <3>3 DEF Durable!Forget
    <3> QED
      BY <3>4 DEF Durable!Next
  <2>8. CASE Load
    <3>1. PICK p : proc' = [proc EXCEPT ![Main] = p] /\ p.pc \in {"write", "get"}
      <4>1. \A c : [At("write") EXCEPT !.work = c].pc = "write"
        BY DEF At
      <4> QED
        BY <2>8, <2>p, <4>1 DEF Load
    <3>2. proc[Main].pc = "down" /\ disk' = disk
      BY <2>8 DEF Load
    <3> QED
      BY <2>1, <2>t, <3>1, <3>2 DEF OnDisk
  <2>9. CASE Crash
    <3>1. \A a \in Actor : proc'[a].pc \in {"down", "idle"}
      BY <2>9, <2>p DEF Crash
    <3>2. UNCHANGED OnDisk
      BY <2>9 DEF Crash, OnDisk
    <3>3. InHand' = [b \in Actor |-> IF b \in Actor THEN None ELSE InHand[b]]
      BY <3>1 DEF InHand
    <3>4. Durable!Forget(Actor)
      BY <3>2, <3>3 DEF Durable!Forget
    <3> QED
      BY <3>4 DEF Durable!Next
  <2>10. CASE UNCHANGED vars
    BY <2>10 DEF vars, OnDisk, InHand
  <2> QED
    BY <2>2, <2>3, <2>4, <2>5, <2>6, <2>7, <2>8, <2>9, <2>10 DEF Next
<1> QED
  BY <1>1, <1>2, TypeCorrect, WorkFollows, PTL DEF Spec, IsDurable, Durable!Spec

=============================================================================
