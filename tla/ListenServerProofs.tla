-------------------------- MODULE ListenServerProofs --------------------------
(***************************************************************************)
(* Proofs about ListenServer, for every set of services, addresses and     *)
(* swappers and any number of listeners.                                   *)
(*                                                                         *)
(* The two invariants need each other, and both need to know in whose      *)
(* hands a listener is (Hands): the ones that swaps hold are open or about *)
(* to be closed, all different, and none of them registered; a listener    *)
(* about to be committed is bound where the swap says and not yet served.  *)
(*                                                                         *)
(* The refinement of ServicePorts also needs that an address has at most   *)
(* one open listener (OnePort): that is why a service never moves onto the *)
(* address of one that is up.                                              *)
(***************************************************************************)
EXTENDS ListenServer, FiniteSetTheorems, TLAPS

LEMMA AnyOf ==
    /\ AnyService \in Service /\ AnyAddr \in Addr
    /\ NoSwap \in Swap /\ NoListener \in LisState
    /\ NoSwap.pc = "idle" /\ NoSwap.ln = 0 /\ ~NoListener.open
    /\ MaxListener \in Nat /\ ErrCap \in Nat /\ ErrCap >= 1
<1>1. AnyService \in Service /\ AnyAddr \in Addr /\ MaxListener \in Nat /\ ErrCap \in Nat /\ ErrCap >= 1
  BY ListenAssumption DEF AnyService, AnyAddr
<1> QED
  BY <1>1 DEF NoSwap, Swap, NoListener, LisState

LEMMA ClosingIs ==
    ASSUME NEW l \in 0..MaxListener
    PROVE  Closing(l) \in Swap /\ Closing(l).pc = "close" /\ Closing(l).ln = l
  BY AnyOf DEF Closing, Swap, NoSwap

----------------------------------------------------------------------------
\* Whose hands a listener is in

\* What a swap holds is its own: a listener no service has registered.
Held(w) ==
    /\ swap[w].pc \in {"commit", "close"} <=> swap[w].ln # 0
    /\ swap[w].ln # 0 =>
          /\ swap[w].ln <= opened
          /\ \A s \in Service : entry[s].ln # swap[w].ln
          /\ \A v \in Swapper \ {w} : swap[v].ln # swap[w].ln
    /\ swap[w].pc # "idle" => \A t \in Service : Registered(t)
    /\ swap[w].pc = "commit" =>
          /\ lis[swap[w].ln] = [svc |-> swap[w].svc, addr |-> swap[w].new, open |-> TRUE]
          /\ loop[swap[w].ln] = "none"
HeldBySwaps == \A w \in Swapper : Held(w)

\* Nothing refers to a listener that has not been opened.
OnlyOpened ==
    /\ \A l \in Listener : lis[l].open \/ loop[l] # "none" => l <= opened
    /\ \A s \in Service : entry[s].ln <= opened

\* An open listener is registered or held.
OpenIsHeld == \A l \in Listener : lis[l].open => Current(l) \/ \E w \in Swapper : swap[w].ln = l

Hands == HeldBySwaps /\ OnlyOpened /\ OpenIsHeld
IInv == TypeOK /\ Hands /\ ServiceUninterrupted

LEMMA HeldIs ==
    ASSUME IInv, NEW w \in Swapper
    PROVE  /\ Held(w)
           /\ swap[w] \in Swap /\ swap[w].svc \in Service /\ swap[w].new \in Addr
           /\ swap[w].ln \in Nat /\ swap[w].ln <= opened /\ opened \in Nat
           /\ swap[w].pc \in {"commit", "close"} => swap[w].ln \in Listener
           /\ swap[w].pc \notin {"commit", "close"} => swap[w].ln = 0
<1>1. Held(w) /\ swap[w] \in Swap
  BY DEF IInv, Hands, HeldBySwaps, TypeOK
<1>2. /\ swap[w].svc \in Service /\ swap[w].new \in Addr /\ opened \in Nat
      /\ swap[w].ln \in Nat /\ swap[w].ln <= MaxListener
  BY <1>1, AnyOf DEF Swap, IInv, TypeOK
<1>3. swap[w].ln # 0 => swap[w].ln <= opened /\ swap[w].ln \in Listener
  BY <1>1, <1>2, AnyOf DEF Held, Listener
<1>4. swap[w].pc \in {"commit", "close"} <=> swap[w].ln # 0
  BY <1>1 DEF Held
<1>5. swap[w].ln <= opened
  <2>1. CASE swap[w].ln = 0
    BY <1>2, <2>1
  <2>2. CASE swap[w].ln # 0
    BY <1>3, <2>2
  <2> QED
    BY <2>1, <2>2
<1> QED
  BY <1>1, <1>2, <1>3, <1>4, <1>5

LEMMA ListenerIs == \A l \in Listener : l \in Nat /\ l # 0
  BY AnyOf DEF Listener

LEMMA HandsSuffice == ASSUME IInv PROVE NoOrphanListener
<1> SUFFICES ASSUME NEW l \in Listener, lis[l].open
             PROVE  \/ Current(l) /\ \A w \in Swapper : swap[w].ln # l
                    \/ ~Current(l) /\ \E w \in Swapper :
                           swap[w].ln = l /\ \A v \in Swapper \ {w} : swap[v].ln # l
  BY DEF NoOrphanListener
<1>1. l # 0 /\ lis[l].svc \in Service
  BY DEF IInv, TypeOK, LisState, Listener
<1>2. CASE \E w \in Swapper : swap[w].ln = l
  <2>1. PICK w \in Swapper : swap[w].ln = l
    BY <1>2
  <2>2. /\ \A s \in Service : entry[s].ln # l
        /\ \A v \in Swapper \ {w} : swap[v].ln # l
    BY <1>1, <2>1, HeldIs DEF Held
  <2> QED
    BY <1>1, <2>1, <2>2 DEF Current
<1>3. CASE \A w \in Swapper : swap[w].ln # l
  BY <1>3 DEF IInv, Hands, OpenIsHeld
<1> QED
  BY <1>2, <1>3

----------------------------------------------------------------------------
LEMMA HandsInit == ASSUME Init PROVE IInv
<1>1. TypeOK
  <2>1. errCh \subseteq Listener /\ Cardinality(errCh) <= ErrCap
    <3>1. Cardinality({}) = 0
      BY FS_EmptySet
    <3> QED
      BY <3>1, AnyOf DEF Init
  <2>2. lis \in [Listener -> LisState] /\ swap \in [Swapper -> Swap]
    BY AnyOf DEF Init
  <2>3. entry \in [Service -> Entry] /\ loop \in [Listener -> LoopPC]
    BY ListenAssumption DEF Init, Entry, LoopPC
  <2>4. opened \in 0..MaxListener
    BY AnyOf DEF Init
  <2>5. exited \in BOOLEAN
    BY DEF Init
  <2> QED
    BY <2>1, <2>2, <2>3, <2>4, <2>5 DEF TypeOK
<1>2. HeldBySwaps
  BY AnyOf DEF Init, HeldBySwaps, Held
<1>3. OnlyOpened
  BY AnyOf DEF Init, OnlyOpened
<1>4. OpenIsHeld /\ ServiceUninterrupted
  BY AnyOf DEF Init, OpenIsHeld, ServiceUninterrupted, Registered
<1> QED
  BY <1>1, <1>2, <1>3, <1>4 DEF IInv, Hands

\* A listener just bound has a number nobody refers to.
LEMMA BindIs ==
    ASSUME IInv, NEW s \in Service, NEW a \in Addr, Binds(s, a)
    PROVE  LET l == opened + 1
           IN /\ l \in Listener /\ opened' = l /\ opened' \in 0..MaxListener
              /\ lis' \in [Listener -> LisState]
              /\ lis'[l] = [svc |-> s, addr |-> a, open |-> TRUE]
              /\ \A k \in Listener \ {l} : lis'[k] = lis[k]
              /\ ~lis[l].open /\ loop[l] = "none"
              /\ \A t \in Service : entry[t].ln <= opened /\ entry[t].ln # l
              /\ \A w \in Swapper : swap[w].ln <= opened /\ swap[w].ln # l
<1>1. opened \in Nat /\ opened < MaxListener
  BY AnyOf DEF IInv, TypeOK, Binds
<1>2. opened + 1 \in Listener /\ opened' = opened + 1 /\ opened' \in 0..MaxListener
  BY <1>1, AnyOf DEF Binds, Listener
<1>3. [svc |-> s, addr |-> a, open |-> TRUE] \in LisState
  BY DEF LisState
<1>4. lis' \in [Listener -> LisState]
  BY <1>2, <1>3 DEF IInv, TypeOK, Binds
<1>5. /\ lis'[opened + 1] = [svc |-> s, addr |-> a, open |-> TRUE]
      /\ \A k \in Listener \ {opened + 1} : lis'[k] = lis[k]
  BY <1>2 DEF IInv, TypeOK, Binds
<1>6. ~lis[opened + 1].open /\ loop[opened + 1] = "none"
  BY <1>1, <1>2 DEF IInv, Hands, OnlyOpened
<1>7. \A t \in Service : entry[t].ln <= opened /\ entry[t].ln # opened + 1
  BY <1>1 DEF IInv, Hands, OnlyOpened, TypeOK, Entry
<1>8. \A w \in Swapper : swap[w].ln <= opened /\ swap[w].ln # opened + 1
  BY <1>1, HeldIs
<1> QED
  BY <1>2, <1>4, <1>5, <1>6, <1>7, <1>8

LEMMA StartKeeps == ASSUME IInv, NEW s \in Service, Start(s) PROVE IInv'
<1> DEFINE l == opened + 1
<1>0. Boot[s] \in Addr
  BY ListenAssumption
<1>1. Binds(s, Boot[s])
  BY DEF Start
<1>2. /\ l \in Listener /\ opened' = l /\ opened' \in 0..MaxListener
      /\ lis' \in [Listener -> LisState]
      /\ lis'[l] = [svc |-> s, addr |-> Boot[s], open |-> TRUE]
      /\ \A k \in Listener \ {l} : lis'[k] = lis[k]
      /\ ~lis[l].open /\ loop[l] = "none"
      /\ \A t \in Service : entry[t].ln <= opened /\ entry[t].ln # l
      /\ \A w \in Swapper : swap[w].ln <= opened /\ swap[w].ln # l
  BY <1>0, <1>1, BindIs
<1>3. /\ entry'[s] = [addr |-> Boot[s], ln |-> l] /\ \A t \in Service \ {s} : entry'[t] = entry[t]
      /\ loop'[l] = "serving" /\ \A k \in Listener \ {l} : loop'[k] = loop[k]
      /\ UNCHANGED <<errCh, swap, exited>>
  BY <1>2 DEF Start, IInv, TypeOK
<1>4. ~Registered(s) /\ \A w \in Swapper : swap[w].pc = "idle" /\ swap[w].ln = 0
  BY HeldIs DEF Start, Held
<1>5. TypeOK'
  <2>1. entry' \in [Service -> Entry]
    BY <1>0, <1>2 DEF Start, IInv, TypeOK, Entry, Listener
  <2>2. loop' \in [Listener -> LoopPC]
    BY <1>2 DEF Start, IInv, TypeOK, LoopPC
  <2> QED
    BY <1>2, <1>3, <2>1, <2>2 DEF IInv, TypeOK
<1>6. opened \in Nat
  BY AnyOf DEF IInv, TypeOK
<1>7. HeldBySwaps'
  BY <1>3, <1>4 DEF HeldBySwaps, Held
<1>8. OnlyOpened'
  <2>1. \A k \in Listener : lis'[k].open \/ loop'[k] # "none" => k <= l
    <3> SUFFICES ASSUME NEW k \in Listener \ {l}, lis[k].open \/ loop[k] # "none" PROVE k <= l
      BY <1>2, <1>3, <1>6
    <3>1. k \in Nat /\ k <= opened
      BY AnyOf DEF IInv, Hands, OnlyOpened, Listener
    <3> QED
      BY <1>6, <3>1
  <2>2. \A t \in Service : entry'[t].ln <= l
    <3>1. \A t \in Service : entry[t].ln \in Nat
      BY AnyOf DEF IInv, TypeOK, Entry
    <3> QED
      BY <1>2, <1>3, <1>6, <3>1
  <2> QED
    BY <1>2, <2>1, <2>2 DEF OnlyOpened
<1>9. OpenIsHeld'
  <2>1. \A k \in Listener : lis[k].open => lis[k].svc # s
    <3>1. \A k \in Listener : k # 0
      BY DEF Listener
    <3> QED
      BY <1>4, <3>1 DEF IInv, Hands, OpenIsHeld, Current, Registered
  <2>2. \A k \in Listener : lis[k].svc \in Service
    BY DEF IInv, TypeOK, LisState
  <2> QED
    BY <1>2, <1>3, <2>1, <2>2 DEF IInv, Hands, OpenIsHeld, Current
<1>10. ServiceUninterrupted'
  <2>1. \A t \in Service \ {s} : Registered(t)' => entry[t].ln \in Listener \ {l}
    BY <1>2, <1>3 DEF IInv, TypeOK, Entry, Registered, Listener
  <2> QED
    BY <1>2, <1>3, <2>1 DEF IInv, ServiceUninterrupted, Registered
<1> QED
  BY <1>5, <1>7, <1>8, <1>9, <1>10 DEF IInv, Hands

LEMMA SwapBeginKeeps ==
    ASSUME IInv, NEW w \in Swapper, NEW s \in Service, NEW a \in Addr, SwapBegin(w, s, a)
    PROVE  IInv'
<1> DEFINE r == [pc |-> "bind", svc |-> s, old |-> entry[s].addr, new |-> a, ln |-> 0]
<1>1. r \in Swap
  BY AnyOf DEF IInv, TypeOK, Entry, Swap
<1>2. /\ swap'[w] = r /\ \A v \in Swapper \ {w} : swap'[v] = swap[v]
      /\ swap' \in [Swapper -> Swap] /\ swap[w].pc = "idle"
      /\ UNCHANGED <<opened, lis, entry, loop, errCh, exited>>
      /\ \A t \in Service : Registered(t)
  BY <1>1 DEF SwapBegin, IInv, TypeOK
<1>3. swap[w].ln = 0
  BY <1>2, HeldIs
<1>4. TypeOK'
  BY <1>2 DEF IInv, TypeOK
<1>5. HeldBySwaps'
  <2> SUFFICES ASSUME NEW v \in Swapper PROVE Held(v)'
    BY DEF HeldBySwaps
  <2>1. \A t \in Service : Registered(t)'
    BY <1>2 DEF Registered
  <2>2. CASE v = w
    BY <1>2, <2>1, <2>2 DEF Held
  <2>3. CASE v # w
    BY <1>2, <1>3, <2>1, <2>3, HeldIs DEF Held
  <2> QED
    BY <2>2, <2>3
<1>6. OpenIsHeld'
  BY <1>2, <1>3, ListenerIs DEF IInv, Hands, OpenIsHeld, Current
<1> QED
  BY <1>2, <1>4, <1>5, <1>6 DEF IInv, Hands, OnlyOpened, ServiceUninterrupted, Registered

LEMMA SwapBindKeeps == ASSUME IInv, NEW w \in Swapper, SwapBind(w) PROVE IInv'
<1> DEFINE l == opened + 1
           s == swap[w].svc
           a == swap[w].new
<1>0. s \in Service /\ a \in Addr /\ swap[w] \in Swap
  BY DEF IInv, TypeOK, Swap
<1>1. Binds(s, a) /\ swap[w].pc = "bind"
  BY DEF SwapBind
<1>2. /\ l \in Listener /\ opened' = l /\ opened' \in 0..MaxListener
      /\ lis' \in [Listener -> LisState]
      /\ lis'[l] = [svc |-> s, addr |-> a, open |-> TRUE]
      /\ \A k \in Listener \ {l} : lis'[k] = lis[k]
      /\ ~lis[l].open /\ loop[l] = "none"
      /\ \A t \in Service : entry[t].ln <= opened /\ entry[t].ln # l
      /\ \A v \in Swapper : swap[v].ln <= opened /\ swap[v].ln # l
  BY <1>0, <1>1, BindIs
<1>3. /\ swap' = [swap EXCEPT ![w] = [@ EXCEPT !.pc = "commit", !.ln = l]]
      /\ UNCHANGED <<entry, loop, errCh, exited>>
  BY DEF SwapBind
<1>4. /\ swap'[w].pc = "commit" /\ swap'[w].ln = l
      /\ swap'[w].svc = s /\ swap'[w].new = a /\ swap'[w] \in Swap
  BY <1>0, <1>2, <1>3, AnyOf DEF IInv, TypeOK, Swap, Listener
<1>5. \A v \in Swapper \ {w} : swap'[v] = swap[v]
  BY <1>3 DEF IInv, TypeOK
<1>6. opened \in Nat /\ \A k \in Listener : k \in Nat /\ k # 0
  BY HeldIs, ListenerIs
<1>7. swap[w].ln = 0
  BY <1>1, HeldIs
<1>8. TypeOK'
  <2>1. swap' \in [Swapper -> Swap]
    BY <1>3, <1>4, <1>5 DEF IInv, TypeOK
  <2> QED
    BY <1>2, <1>3, <2>1 DEF IInv, TypeOK
<1>9. HeldBySwaps'
  <2> SUFFICES ASSUME NEW v \in Swapper PROVE Held(v)'
    BY DEF HeldBySwaps
  <2>1. \A t \in Service : Registered(t)'
    BY <1>1, <1>3, HeldIs DEF Held, Registered
  <2>2. CASE v = w
    <3>1. l # 0 /\ l <= opened' /\ UNCHANGED <<entry, loop>>
      BY <1>2, <1>3, <1>6
    <3>2. /\ \A t \in Service : entry'[t].ln # l
          /\ \A u \in Swapper \ {w} : swap'[u].ln # l
      BY <1>2, <1>5, <3>1
    <3> QED
      BY <1>2, <1>4, <2>1, <2>2, <3>1, <3>2 DEF Held
  <2>3. CASE v # w
    <3>1. swap[v].ln <= opened' /\ (swap[v].pc = "commit" => swap[v].ln \in Listener \ {l})
      BY <1>2, <1>6, HeldIs
    <3> QED
      BY <1>2, <1>3, <1>4, <1>5, <2>1, <2>3, <3>1, HeldIs DEF Held
  <2> QED
    BY <2>2, <2>3
<1>10. OnlyOpened'
  BY <1>2, <1>3, <1>6, AnyOf DEF IInv, TypeOK, Entry, Hands, OnlyOpened
<1>11. OpenIsHeld'
  BY <1>2, <1>3, <1>4, <1>5, <1>6, <1>7 DEF IInv, Hands, OpenIsHeld, Current
<1>12. ServiceUninterrupted'
  <2>1. \A t \in Service : Registered(t) => entry[t].ln \in Listener \ {l}
    BY <1>2, AnyOf DEF IInv, TypeOK, Entry, Registered, Listener
  <2> QED
    BY <1>2, <1>3, <2>1 DEF IInv, ServiceUninterrupted, Registered
<1> QED
  BY <1>8, <1>9, <1>10, <1>11, <1>12 DEF IInv, Hands

LEMMA BindFailsKeeps == ASSUME IInv, NEW w \in Swapper, SwapBindFails(w) PROVE IInv'
<1>1. /\ swap'[w] = NoSwap /\ \A v \in Swapper \ {w} : swap'[v] = swap[v]
      /\ swap' \in [Swapper -> Swap] /\ swap[w].pc = "bind"
      /\ UNCHANGED <<opened, lis, entry, loop, errCh, exited>>
  BY AnyOf DEF SwapBindFails, IInv, TypeOK
<1>2. swap[w].ln = 0 /\ \A l \in Listener : l # 0
  BY <1>1, HeldIs, ListenerIs
<1>3. TypeOK'
  BY <1>1 DEF IInv, TypeOK
<1>4. HeldBySwaps'
  <2> SUFFICES ASSUME NEW v \in Swapper PROVE Held(v)'
    BY DEF HeldBySwaps
  <2>1. CASE v = w
    BY <1>1, <2>1, AnyOf DEF Held
  <2>2. CASE v # w
    BY <1>1, <1>2, <2>2, AnyOf, HeldIs DEF Held, Registered
  <2> QED
    BY <2>1, <2>2
<1>5. OpenIsHeld'
  BY <1>1, <1>2 DEF IInv, Hands, OpenIsHeld, Current
<1> QED
  BY <1>1, <1>3, <1>4, <1>5 DEF IInv, Hands, OnlyOpened, ServiceUninterrupted, Registered

LEMMA SwapCommitKeeps == ASSUME IInv, NEW w \in Swapper, SwapCommit(w) PROVE IInv'
<1> DEFINE s == swap[w].svc
           l == swap[w].ln
           old == entry[s].ln
<1>0. /\ s \in Service /\ swap[w].new \in Addr /\ swap[w].pc = "commit" /\ l \in 0..MaxListener
      /\ old \in 0..MaxListener
  BY DEF SwapCommit, IInv, TypeOK, Swap, Entry
<1>1. /\ l # 0 /\ l \in Listener /\ l <= opened
      /\ \A t \in Service : entry[t].ln # l /\ Registered(t)
      /\ \A v \in Swapper \ {w} : swap[v].ln # l
      /\ lis[l] = [svc |-> s, addr |-> swap[w].new, open |-> TRUE]
  BY <1>0, HeldIs, ListenerIs DEF Held
<1>2. /\ entry'[s] = [addr |-> swap[w].new, ln |-> l]
      /\ \A t \in Service \ {s} : entry'[t] = entry[t]
      /\ loop'[l] = "serving" /\ \A k \in Listener \ {l} : loop'[k] = loop[k]
      /\ swap'[w] = Closing(old) /\ \A v \in Swapper \ {w} : swap'[v] = swap[v]
      /\ UNCHANGED <<opened, lis, errCh, exited>>
  BY <1>0, <1>1 DEF SwapCommit, IInv, TypeOK
<1>3. /\ Closing(old) \in Swap /\ Closing(old).pc = "close" /\ Closing(old).ln = old
      /\ old # 0 /\ old # l /\ old <= opened
  BY <1>0, <1>1, ClosingIs DEF Registered, IInv, Hands, OnlyOpened
<1>4. \A t \in Service \ {s} : entry[t].ln # old
  BY <1>0, <1>1 DEF IInv, ServiceUninterrupted
<1>5. TypeOK'
  <2>1. entry' \in [Service -> Entry]
    BY <1>0, <1>1 DEF SwapCommit, IInv, TypeOK, Entry
  <2>2. loop' \in [Listener -> LoopPC]
    BY <1>1 DEF SwapCommit, IInv, TypeOK, LoopPC
  <2>3. swap' \in [Swapper -> Swap]
    BY <1>0, <1>3 DEF SwapCommit, IInv, TypeOK
  <2> QED
    BY <1>2, <2>1, <2>2, <2>3 DEF IInv, TypeOK
<1>6. HeldBySwaps'
  <2> SUFFICES ASSUME NEW v \in Swapper PROVE Held(v)'
    BY DEF HeldBySwaps
  <2>1. \A t \in Service : Registered(t)' /\ entry'[t].ln # old
    BY <1>1, <1>2, <1>3, <1>4 DEF Registered
  <2>2. \A u \in Swapper \ {w} : swap[u].ln # old
    BY <1>0, <1>3, HeldIs DEF Held
  <2>3. CASE v = w
    BY <1>2, <1>3, <2>1, <2>2, <2>3 DEF Held
  <2>4. CASE v # w
    <3>1. swap[v].pc = "commit" => swap[v].ln \in Listener \ {l}
      BY <1>1, <2>4, HeldIs
    <3>2. \A t \in Service : entry[t].ln # swap[v].ln \/ swap[v].ln = 0
      BY HeldIs DEF Held
    <3>3. \A t \in Service : entry'[t].ln # swap[v].ln \/ swap[v].ln = 0
      BY <1>1, <1>2, <2>4, <3>2
    <3> QED
      BY <1>2, <1>3, <2>1, <2>2, <2>4, <3>1, <3>3, HeldIs DEF Held
  <2> QED
    BY <2>3, <2>4
<1>7. OnlyOpened'
  BY <1>1, <1>2 DEF IInv, Hands, OnlyOpened
<1>8. OpenIsHeld'
  <2> SUFFICES ASSUME NEW k \in Listener, lis[k].open
               PROVE  Current(k)' \/ \E v \in Swapper : swap'[v].ln = k
    BY <1>2 DEF OpenIsHeld
  <2>1. CASE k = l
    BY <1>1, <1>2, <2>1 DEF Current
  <2>2. CASE k = old
    BY <1>2, <1>3, <2>2
  <2>3. CASE k # l /\ k # old
    <3>1. Current(k) \/ \E v \in Swapper \ {w} : swap[v].ln = k
      BY <2>3 DEF IInv, Hands, OpenIsHeld
    <3>2. lis[k].svc \in Service
      BY DEF IInv, TypeOK, LisState
    <3> QED
      BY <1>2, <2>3, <3>1, <3>2 DEF Current
  <2> QED
    BY <2>1, <2>2, <2>3
<1>9. ServiceUninterrupted'
  <2> SUFFICES ASSUME NEW t \in Service, Registered(t)'
               PROVE  LET k == entry'[t].ln
                      IN /\ lis[k].svc = t /\ lis[k].addr = entry'[t].addr
                         /\ \/ loop'[k] = "serving" /\ lis[k].open
                            \/ loop'[k] \in {"failed", "sending"}
                            \/ loop'[k] = "ended" /\ errCh # {}
    BY <1>2 DEF ServiceUninterrupted
  <2>1. CASE t = s
    BY <1>1, <1>2, <2>1
  <2>2. CASE t # s
    <3>1. Registered(t) /\ entry[t].ln \in Listener \ {l}
      BY <1>1, AnyOf DEF IInv, TypeOK, Entry, Registered, Listener
    <3> QED
      BY <1>2, <2>2, <3>1 DEF IInv, ServiceUninterrupted
  <2> QED
    BY <2>1, <2>2
<1> QED
  BY <1>5, <1>6, <1>7, <1>8, <1>9 DEF IInv, Hands

LEMMA OvertakenKeeps ==
    ASSUME IInv, NEW w \in Swapper, SwapConflict(w)
    PROVE  IInv'
<1> DEFINE l == swap[w].ln
<1>1. /\ l \in Listener /\ l # 0 /\ l \in 0..MaxListener /\ l <= opened /\ swap[w].pc = "commit"
      /\ \A t \in Service : Registered(t) /\ entry[t].ln # l
      /\ \A v \in Swapper \ {w} : swap[v].ln # l
  <2>1. swap[w].pc = "commit"
    BY DEF SwapConflict
  <2>2. l \in Listener /\ l # 0 /\ l <= opened
    BY <2>1, HeldIs, ListenerIs
  <2>3. l \in 0..MaxListener
    BY <2>2, AnyOf DEF Listener
  <2> QED
    BY <2>1, <2>2, <2>3, HeldIs DEF Held
<1>2. /\ swap'[w] = Closing(l) /\ \A v \in Swapper \ {w} : swap'[v] = swap[v]
      /\ UNCHANGED <<opened, lis, entry, loop, errCh, exited>>
  BY DEF SwapConflict, IInv, TypeOK
<1>3. Closing(l) \in Swap /\ Closing(l).pc = "close" /\ Closing(l).ln = l
  BY <1>1, ClosingIs
<1>4. \A v \in Swapper : swap'[v].ln = swap[v].ln
  BY <1>2, <1>3
<1>5. TypeOK'
  BY <1>2, <1>3 DEF SwapConflict, IInv, TypeOK
<1>6. HeldBySwaps'
  <2> SUFFICES ASSUME NEW v \in Swapper PROVE Held(v)'
    BY DEF HeldBySwaps
  <2>1. \A t \in Service : Registered(t)'
    BY <1>1, <1>2 DEF Registered
  <2>2. CASE v = w
    BY <1>1, <1>2, <1>3, <2>1, <2>2 DEF Held
  <2>3. CASE v # w
    BY <1>2, <1>4, <2>1, <2>3, HeldIs DEF Held
  <2> QED
    BY <2>2, <2>3
<1>7. OpenIsHeld'
  BY <1>2, <1>4 DEF IInv, Hands, OpenIsHeld, Current
<1> QED
  BY <1>2, <1>5, <1>6, <1>7 DEF IInv, Hands, OnlyOpened, ServiceUninterrupted, Registered

LEMMA SwapCloseKeeps == ASSUME IInv, NEW w \in Swapper, SwapClose(w) PROVE IInv'
<1> DEFINE l == swap[w].ln
<1>1. /\ l \in Listener /\ l # 0 /\ swap[w].pc = "close"
      /\ \A t \in Service : Registered(t) /\ entry[t].ln # l
      /\ \A v \in Swapper \ {w} : swap[v].ln # l
  BY HeldIs, ListenerIs DEF SwapClose, Held
<1>2. /\ swap'[w] = NoSwap /\ \A v \in Swapper \ {w} : swap'[v] = swap[v]
      /\ UNCHANGED <<opened, entry, loop, errCh, exited>>
      /\ \A k \in Listener \ {l} : lis'[k] = lis[k]
      /\ ~lis'[l].open /\ lis'[l].svc = lis[l].svc /\ lis'[l] \in LisState
  BY <1>1 DEF SwapClose, IInv, TypeOK, LisState
<1>3. TypeOK'
  <2>1. swap' \in [Swapper -> Swap]
    BY AnyOf DEF SwapClose, IInv, TypeOK
  <2>2. lis' \in [Listener -> LisState]
    BY <1>2 DEF SwapClose, IInv, TypeOK
  <2> QED
    BY <1>2, <2>1, <2>2 DEF IInv, TypeOK
<1>4. HeldBySwaps'
  <2> SUFFICES ASSUME NEW v \in Swapper PROVE Held(v)'
    BY DEF HeldBySwaps
  <2>1. CASE v = w
    BY <1>2, <2>1, AnyOf DEF Held
  <2>2. CASE v # w
    <3>1. swap[v].pc = "commit" => swap[v].ln \in Listener \ {l}
      BY <1>1, <2>2, HeldIs
    <3>2. \A t \in Service : Registered(t)'
      BY <1>1, <1>2 DEF Registered
    <3> QED
      BY <1>2, <2>2, <3>1, <3>2, AnyOf, HeldIs DEF Held
  <2> QED
    BY <2>1, <2>2
<1>5. OnlyOpened'
  BY <1>2 DEF IInv, Hands, OnlyOpened
<1>6. OpenIsHeld'
  BY <1>1, <1>2 DEF IInv, Hands, OpenIsHeld, Current
<1>7. ServiceUninterrupted'
  <2>1. \A t \in Service : Registered(t) => entry[t].ln \in Listener \ {l}
    BY <1>1, AnyOf DEF IInv, TypeOK, Entry, Registered, Listener
  <2> QED
    BY <1>2, <2>1 DEF IInv, ServiceUninterrupted, Registered
<1> QED
  BY <1>3, <1>4, <1>5, <1>6, <1>7 DEF IInv, Hands

----------------------------------------------------------------------------
\* serveLoop and main

\* A step of one serving goroutine: only a listener that is being served is touched, and
\* it is neither opened nor taken from its service.
LEMMA LoopKeeps ==
    ASSUME IInv, TypeOK', NEW l \in Listener, loop[l] # "none", loop'[l] # "none",
           UNCHANGED <<opened, entry, swap, exited>>,
           \A k \in Listener \ {l} : lis'[k] = lis[k] /\ loop'[k] = loop[k],
           lis'[l].svc = lis[l].svc, lis'[l].addr = lis[l].addr, lis'[l].open => lis[l].open,
           errCh \subseteq errCh',
           Current(l) => \/ loop'[l] \in {"failed", "sending"}
                         \/ loop'[l] = "ended" /\ errCh' # {}
    PROVE  IInv'
<1>1. HeldBySwaps'
  <2> SUFFICES ASSUME NEW v \in Swapper PROVE Held(v)'
    BY DEF HeldBySwaps
  <2>1. swap[v].pc = "commit" => swap[v].ln \in Listener \ {l}
    BY HeldIs DEF Held
  <2> QED
    BY <2>1, HeldIs DEF Held, Registered
<1>2. OnlyOpened'
  BY DEF IInv, Hands, OnlyOpened
<1>3. OpenIsHeld'
  BY DEF IInv, Hands, OpenIsHeld, Current
<1>4. ServiceUninterrupted'
  <2> SUFFICES ASSUME NEW t \in Service, Registered(t)
               PROVE  LET k == entry[t].ln
                      IN /\ lis'[k].svc = t /\ lis'[k].addr = entry[t].addr
                         /\ \/ loop'[k] = "serving" /\ lis'[k].open
                            \/ loop'[k] \in {"failed", "sending"}
                            \/ loop'[k] = "ended" /\ errCh' # {}
    BY DEF ServiceUninterrupted, Registered
  <2>1. entry[t].ln \in Listener
    BY AnyOf DEF IInv, TypeOK, Entry, Registered, Listener
  <2>2. CASE entry[t].ln = l
    <3>1. Current(l)
      BY <2>2 DEF IInv, ServiceUninterrupted, Current
    <3> QED
      BY <2>2, <3>1 DEF IInv, ServiceUninterrupted
  <2>3. CASE entry[t].ln # l
    BY <2>1, <2>3 DEF IInv, ServiceUninterrupted
  <2> QED
    BY <2>2, <2>3
<1> QED
  BY <1>1, <1>2, <1>3, <1>4 DEF IInv, Hands

\* What the registered listener's goroutine can be at.
LEMMA CurrentIs ==
    ASSUME IInv, NEW l \in Listener, Current(l)
    PROVE  \/ loop[l] = "serving" /\ lis[l].open
           \/ loop[l] \in {"failed", "sending"}
           \/ loop[l] = "ended" /\ errCh # {}
<1>1. lis[l].svc \in Service /\ Registered(lis[l].svc)
  BY ListenerIs DEF IInv, TypeOK, LisState, Current, Registered
<1> QED
  BY <1>1 DEF IInv, ServiceUninterrupted, Current

LEMMA ServingKeeps ==
    ASSUME IInv, NEW l \in Listener, ServeClosed(l) \/ ServeFails(l) \/ CheckStale(l)
    PROVE  IInv'
<1>1. \A k \in Listener \ {l} : lis'[k] = lis[k] /\ loop'[k] = loop[k]
  BY DEF ServeClosed, ServeFails, CheckStale, IInv, TypeOK
<1>2. loop[l] # "none" /\ UNCHANGED <<opened, entry, swap, exited, errCh>>
  BY DEF ServeClosed, ServeFails, CheckStale
<1>3. lis'[l] \in LisState /\ lis'[l].svc = lis[l].svc /\ lis'[l].addr = lis[l].addr
      /\ (lis'[l].open => lis[l].open)
  BY DEF ServeClosed, ServeFails, CheckStale, IInv, TypeOK, LisState
<1>4. loop'[l] \in {"failed", "sending", "ended"}
  BY DEF ServeClosed, ServeFails, CheckStale, IInv, TypeOK
<1>5. Current(l) => loop'[l] \in {"failed", "sending"}
  BY CurrentIs DEF ServeClosed, ServeFails, CheckStale, IInv, TypeOK
<1>6. TypeOK'
  <2>1. loop' \in [Listener -> LoopPC]
    BY DEF ServeClosed, ServeFails, CheckStale, IInv, TypeOK, LoopPC
  <2>2. lis' \in [Listener -> LisState]
    BY <1>3 DEF ServeClosed, ServeFails, CheckStale, IInv, TypeOK
  <2> QED
    BY <1>2, <2>1, <2>2 DEF IInv, TypeOK
<1> QED
  BY <1>1, <1>2, <1>3, <1>4, <1>5, <1>6, LoopKeeps

LEMMA ReportKeeps == ASSUME IInv, NEW l \in Listener, Report(l) PROVE IInv'
<1>1. errCh \subseteq Listener /\ IsFiniteSet(errCh) /\ Cardinality(errCh) \in Nat
  <2>1. IsFiniteSet(Listener)
    BY AnyOf, FS_Interval DEF Listener
  <2> QED
    BY <2>1, FS_Subset, FS_CardinalityType DEF IInv, TypeOK
<1>2. errCh' \subseteq Listener /\ Cardinality(errCh') <= ErrCap /\ errCh' # {}
  <2>1. CASE Cardinality(errCh) < ErrCap
    <3>1. errCh' = errCh \cup {l}
      BY <2>1 DEF Report
    <3>2. Cardinality(errCh') <= Cardinality(errCh) + 1
      BY <1>1, <3>1, FS_AddElement
    <3> QED
      BY <1>1, <2>1, <3>1, <3>2, AnyOf, FS_CardinalityType, FS_AddElement
  <2>2. CASE ~(Cardinality(errCh) < ErrCap)
    <3>1. errCh' = errCh
      BY <2>2 DEF Report
    <3>2. errCh # {}
      BY <2>2, AnyOf, FS_EmptySet
    <3> QED
      BY <3>1, <3>2 DEF IInv, TypeOK
  <2> QED
    BY <2>1, <2>2
<1>3. /\ \A k \in Listener \ {l} : lis'[k] = lis[k] /\ loop'[k] = loop[k]
      /\ loop[l] # "none" /\ loop'[l] = "ended" /\ errCh \subseteq errCh'
      /\ UNCHANGED <<opened, lis, entry, swap, exited>>
  BY DEF Report, IInv, TypeOK
<1>4. TypeOK'
  BY <1>2, <1>3 DEF Report, IInv, TypeOK, LoopPC
<1> QED
  BY <1>2, <1>3, <1>4, LoopKeeps

\* The process that has ended is in the state in which it began.
LEMMA ExitKeeps == ASSUME IInv, MainExits PROVE IInv'
<1>1. TypeOK'
  <2>1. errCh' \subseteq Listener /\ Cardinality(errCh') <= ErrCap
    <3>1. Cardinality({}) = 0
      BY FS_EmptySet
    <3> QED
      BY <3>1, AnyOf DEF MainExits
  <2>2. lis' \in [Listener -> LisState] /\ swap' \in [Swapper -> Swap]
    BY AnyOf DEF MainExits
  <2>3. entry' \in [Service -> Entry] /\ loop' \in [Listener -> LoopPC]
    BY ListenAssumption, AnyOf DEF MainExits, Entry, LoopPC
  <2>4. opened' \in 0..MaxListener
    BY AnyOf DEF MainExits
  <2>5. exited' \in BOOLEAN
    BY DEF MainExits
  <2> QED
    BY <2>1, <2>2, <2>3, <2>4, <2>5 DEF TypeOK
<1>2. HeldBySwaps'
  BY AnyOf DEF MainExits, HeldBySwaps, Held
<1>3. OnlyOpened'
  BY AnyOf DEF MainExits, OnlyOpened
<1>4. OpenIsHeld' /\ ServiceUninterrupted'
  BY AnyOf DEF MainExits, OpenIsHeld, ServiceUninterrupted, Registered
<1> QED
  BY <1>1, <1>2, <1>3, <1>4 DEF IInv, Hands

LEMMA IInvStep == ASSUME IInv, [Next]_vars PROVE IInv'
<1>1. CASE UNCHANGED vars
  BY <1>1 DEF vars, IInv, TypeOK, Hands, HeldBySwaps, Held, OnlyOpened, OpenIsHeld, Current,
     ServiceUninterrupted, Registered
<1> QED
  BY <1>1, StartKeeps, SwapBeginKeeps, SwapBindKeeps, BindFailsKeeps, SwapCommitKeeps,
     OvertakenKeeps, SwapCloseKeeps, ServingKeeps, ReportKeeps, ExitKeeps DEF Next

----------------------------------------------------------------------------
\* Every variable keeps its type, and errCh its capacity.
THEOREM TypeCorrect == Spec => []TypeOK
<1>1. IInv => TypeOK
  BY DEF IInv
<1> QED
  BY <1>1, HandsInit, IInvStep, PTL DEF Spec

\* No swap, failed, overtaken or committed, leaves a port behind that nobody will close.
THEOREM NoOrphans == Spec => []NoOrphanListener
BY HandsInit, IInvStep, HandsSuffice, PTL DEF Spec

\* A registered service is reachable under its registered address, or main is about to
\* receive the error of its own accept loop, however many swaps race.
THEOREM Uninterrupted == Spec => []ServiceUninterrupted
<1>1. IInv => ServiceUninterrupted
  BY DEF IInv
<1> QED
  BY <1>1, HandsInit, IInvStep, PTL DEF Spec

----------------------------------------------------------------------------
\* The refinement

\* The kernel's rule, kept by every step: an address has at most one open listener.  And a
\* swap is on its way to another address than the one it saw; a service starts where the
\* configuration file puts it.
OnePort ==
    \A k, l \in Listener : lis[k].open /\ lis[l].open /\ lis[k].addr = lis[l].addr => k = l
Elsewhere == \A w \in Swapper : swap[w].pc \in {"bind", "commit"} => swap[w].new # swap[w].old
AtBoot == \A s \in Service : ~Registered(s) => entry[s].addr = Boot[s]

LEMMA BindsKeepsOnePort ==
    ASSUME IInv, OnePort, NEW s \in Service, NEW a \in Addr, Binds(s, a)
    PROVE  OnePort'
<1> DEFINE n == opened + 1
<1>1. /\ lis'[n] = [svc |-> s, addr |-> a, open |-> TRUE]
      /\ \A k \in Listener \ {n} : lis'[k] = lis[k]
  BY BindIs
<1>2. lis'[n].addr = a
  BY <1>1
<1>3. \A k \in Listener \ {n} : lis'[k].open => lis'[k].addr # a
  BY <1>1 DEF Binds, InUse
<1> HIDE DEF n
<1> QED
  BY <1>1, <1>2, <1>3 DEF OnePort

LEMMA OnePortStep == ASSUME IInv, OnePort, [Next]_vars PROVE OnePort'
<1>1. ASSUME NEW s \in Service, Start(s) PROVE OnePort'
  BY <1>1, ListenAssumption, BindsKeepsOnePort DEF Start
<1>2. ASSUME NEW w \in Swapper, SwapBind(w) PROVE OnePort'
  BY <1>2, HeldIs, BindsKeepsOnePort DEF SwapBind
<1>3. ASSUME NEW l \in Listener, \A k \in Listener : lis'[k].addr = lis[k].addr
                                                     /\ (lis'[k].open => lis[k].open)
      PROVE  OnePort'
  BY <1>3 DEF OnePort
<1>4. ASSUME NEW w \in Swapper, SwapClose(w) PROVE OnePort'
  <2>1. lis' = [lis EXCEPT ![swap[w].ln] = [@ EXCEPT !.open = FALSE]]
    BY <1>4 DEF SwapClose
  <2>2. \A k \in Listener : lis'[k].addr = lis[k].addr /\ (lis'[k].open => lis[k].open)
    BY <2>1 DEF IInv, TypeOK, LisState
  <2> QED
    BY <2>2 DEF OnePort
<1>5. ASSUME NEW l \in Listener, ServeFails(l) PROVE OnePort'
  <2>1. lis' = [lis EXCEPT ![l] = [@ EXCEPT !.open = lis[l].svc \notin SelfClosing]]
        /\ lis[l].open
    BY <1>5 DEF ServeFails
  <2>2. \A k \in Listener : lis'[k].addr = lis[k].addr /\ (lis'[k].open => lis[k].open)
    BY <2>1 DEF IInv, TypeOK, LisState
  <2> QED
    BY <2>2 DEF OnePort
<1>6. CASE lis' = lis
  BY <1>6 DEF OnePort
<1>7. ASSUME NEW w \in Swapper, NEW s \in Service, NEW a \in Addr, SwapBegin(w, s, a)
      PROVE  lis' = lis
  BY <1>7 DEF SwapBegin
<1>8. ASSUME NEW w \in Swapper, SwapBindFails(w) \/ SwapCommit(w) \/ SwapConflict(w)
      PROVE  lis' = lis
  BY <1>8 DEF SwapBindFails, SwapCommit, SwapConflict
<1>9. ASSUME NEW l \in Listener, ServeClosed(l) \/ CheckStale(l) \/ Report(l)
      PROVE  lis' = lis
  BY <1>9 DEF ServeClosed, CheckStale, Report
<1>10. CASE MainExits
  BY <1>10, AnyOf DEF MainExits, OnePort
<1> QED
  BY <1>1, <1>2, <1>4, <1>5, <1>6, <1>7, <1>8, <1>9, <1>10 DEF Next, vars

LEMMA ElsewhereStep == ASSUME IInv, Elsewhere, [Next]_vars PROVE Elsewhere'
<1>1. CASE swap' = swap
  BY <1>1 DEF Elsewhere
<1>2. ASSUME NEW w \in Swapper, NEW p, swap' = [swap EXCEPT ![w] = p],
             p.pc \in {"bind", "commit"} => p.new # p.old
      PROVE  Elsewhere'
  BY <1>2 DEF Elsewhere, IInv, TypeOK
<1>3. ASSUME NEW w \in Swapper, NEW s \in Service, NEW a \in Addr, SwapBegin(w, s, a)
      PROVE  Elsewhere'
  <2> DEFINE p == [pc |-> "bind", svc |-> s, old |-> entry[s].addr, new |-> a, ln |-> 0]
  <2>1. swap' = [swap EXCEPT ![w] = p] /\ p.new # p.old
    BY <1>3 DEF SwapBegin
  <2> HIDE DEF p
  <2> QED
    BY <1>2, <2>1
<1>4. ASSUME NEW w \in Swapper, SwapBind(w) PROVE Elsewhere'
  <2> DEFINE p == [swap[w] EXCEPT !.pc = "commit", !.ln = opened + 1]
  <2>1. swap' = [swap EXCEPT ![w] = p]
    BY <1>4 DEF SwapBind
  <2>2. p.new = swap[w].new /\ p.old = swap[w].old
    BY HeldIs DEF Swap
  <2>3. p.new # p.old
    BY <1>4, <2>2 DEF SwapBind, Elsewhere
  <2> HIDE DEF p
  <2> QED
    BY <1>2, <2>1, <2>3
<1>5. ASSUME NEW w \in Swapper,
             SwapBindFails(w) \/ SwapCommit(w) \/ SwapConflict(w) \/ SwapClose(w)
      PROVE  Elsewhere'
  <2>1. \A l \in 0..MaxListener : Closing(l).pc = "close"
    BY ClosingIs
  <2>2. SwapCommit(w) => entry[swap[w].svc].ln \in 0..MaxListener
    BY HeldIs DEF IInv, TypeOK, Entry
  <2>3. swap[w].ln \in 0..MaxListener
    BY HeldIs DEF Swap
  <2>4. PICK p : swap' = [swap EXCEPT ![w] = p] /\ p.pc \notin {"bind", "commit"}
    BY <1>5, <2>1, <2>2, <2>3, AnyOf DEF SwapBindFails, SwapCommit, SwapConflict, SwapClose
  <2> QED
    BY <1>2, <2>4
<1>6. ASSUME NEW s \in Service, Start(s) PROVE swap' = swap
  BY <1>6 DEF Start
<1>7. ASSUME NEW l \in Listener, ServeClosed(l) \/ ServeFails(l) \/ CheckStale(l) \/ Report(l)
      PROVE  swap' = swap
  BY <1>7 DEF ServeClosed, ServeFails, CheckStale, Report
<1>8. CASE MainExits
  BY <1>8, AnyOf DEF MainExits, Elsewhere
<1> QED
  BY <1>1, <1>3, <1>4, <1>5, <1>6, <1>7, <1>8 DEF Next, vars

LEMMA AtBootStep == ASSUME IInv, AtBoot, [Next]_vars PROVE AtBoot'
<1>1. ASSUME NEW s \in Service, NEW a, NEW l \in Listener,
             entry' = [entry EXCEPT ![s] = [addr |-> a, ln |-> l]]
      PROVE  AtBoot'
  BY <1>1, ListenerIs DEF AtBoot, Registered, IInv, TypeOK
<1>2. ASSUME NEW s \in Service, Start(s) PROVE AtBoot'
  <2>1. opened + 1 \in Listener
    BY <1>2, ListenAssumption, BindIs DEF Start
  <2> QED
    BY <1>1, <1>2, <2>1 DEF Start
<1>3. ASSUME NEW w \in Swapper, SwapCommit(w) PROVE AtBoot'
  BY <1>1, <1>3, HeldIs DEF SwapCommit
<1>4. CASE entry' = entry
  BY <1>4 DEF AtBoot, Registered
<1>5. ASSUME NEW w \in Swapper, NEW s \in Service, NEW a \in Addr, SwapBegin(w, s, a)
      PROVE  entry' = entry
  BY <1>5 DEF SwapBegin
<1>6. ASSUME NEW w \in Swapper,
             SwapBind(w) \/ SwapBindFails(w) \/ SwapConflict(w) \/ SwapClose(w)
      PROVE  entry' = entry
  BY <1>6 DEF SwapBind, SwapBindFails, SwapConflict, SwapClose
<1>7. ASSUME NEW l \in Listener, ServeClosed(l) \/ ServeFails(l) \/ CheckStale(l) \/ Report(l)
      PROVE  entry' = entry
  BY <1>7 DEF ServeClosed, ServeFails, CheckStale, Report
<1>8. CASE MainExits
  BY <1>8 DEF MainExits, AtBoot, Registered
<1> QED
  BY <1>2, <1>3, <1>4, <1>5, <1>6, <1>7, <1>8 DEF Next, vars

\* What the state of a service says of its listener.
LEMMA StateIs ==
    ASSUME IInv, NEW s \in Service
    PROVE  /\ State[s] = "down" <=> entry[s].ln = 0
           /\ State[s] = "up" <=> entry[s].ln # 0 /\ loop[entry[s].ln] = "serving"
           /\ State[s] \in {"down", "up", "failed"}
           /\ Address[s] = entry[s].addr
           /\ entry[s].ln # 0 =>
                 /\ entry[s].ln \in Listener
                 /\ lis[entry[s].ln].svc = s /\ lis[entry[s].ln].addr = entry[s].addr
           /\ State[s] = "up" => lis[entry[s].ln].open
<1>1. /\ State[s] = IF ~Registered(s) THEN "down"
                    ELSE IF loop[entry[s].ln] = "serving" THEN "up" ELSE "failed"
      /\ Address[s] = entry[s].addr
  BY DEF State, Address
<1>2. entry[s].ln # 0 => entry[s].ln \in Listener
  BY AnyOf DEF IInv, TypeOK, Entry, Listener
<1>3. entry[s].ln # 0 =>
          /\ lis[entry[s].ln].svc = s /\ lis[entry[s].ln].addr = entry[s].addr
          /\ loop[entry[s].ln] = "serving" => lis[entry[s].ln].open
  BY DEF IInv, ServiceUninterrupted, Registered
<1> QED
  BY <1>1, <1>2, <1>3 DEF Registered

\* An address with an open listener that no service has registered is free.
LEMMA FreeIs ==
    ASSUME IInv, NEW a \in Addr,
           \A t \in Service : entry[t].ln # 0 /\ lis[entry[t].ln].open => lis[entry[t].ln].addr # a
    PROVE  Ports!Free(a)
  BY StateIs DEF Ports!Free

\* A step that leaves the entries alone, and the registered listeners as they are, is no
\* step of the services.
LEMMA SameServices ==
    ASSUME IInv, entry' = entry,
           \A s \in Service : entry[s].ln # 0 =>
               (loop'[entry[s].ln] = "serving" <=> loop[entry[s].ln] = "serving")
    PROVE  UNCHANGED <<Address, State>>
  BY DEF Address, State, Registered

LEMMA StartIsStart ==
    ASSUME IInv, OnePort, AtBoot, NEW s \in Service, Start(s)
    PROVE  Ports!Start(s)
<1> DEFINE n == opened + 1
<1>1. /\ ~exited /\ ~Registered(s) /\ Binds(s, Boot[s]) /\ Boot[s] \in Addr
      /\ entry' = [entry EXCEPT ![s] = [addr |-> Boot[s], ln |-> n]]
      /\ loop' = [loop EXCEPT ![n] = "serving"] /\ errCh' = errCh /\ exited' = exited
  BY ListenAssumption DEF Start
<1>2. /\ n \in Listener /\ n # 0 /\ loop[n] = "none" /\ loop'[n] = "serving"
      /\ \A t \in Service : entry[t].ln # n
      /\ \A l \in Listener \ {n} : loop'[l] = loop[l]
  BY <1>1, BindIs, ListenerIs DEF IInv, TypeOK
<1> HIDE DEF n
<1>3. entry'[s] = [addr |-> Boot[s], ln |-> n] /\ \A t \in Service \ {s} : entry'[t] = entry[t]
  BY <1>1 DEF IInv, TypeOK
<1>4. entry[s].addr = Boot[s]
  BY <1>1 DEF AtBoot
<1>5. Address' = Address
  BY <1>3, <1>4 DEF Address
<1>6. State' = [State EXCEPT ![s] = "up"]
  <2>1. State'[s] = "up"
    BY <1>2, <1>3 DEF State, Registered
  <2>2. ASSUME NEW t \in Service \ {s} PROVE State'[t] = State[t]
    <3>1. entry[t].ln # 0 => loop'[entry[t].ln] = loop[entry[t].ln]
      BY <1>2, StateIs
    <3> QED
      BY <1>3, <3>1 DEF State, Registered
  <2> QED
    BY <2>1, <2>2 DEF State
<1>7. Main' = Main
  BY <1>1, <1>2 DEF Main
<1>8. Ports!Free(Address[s])
  BY <1>1, <1>4, FreeIs, StateIs DEF Binds, InUse
<1>9. Main # "gone" /\ State[s] = "down"
  BY <1>1 DEF Main, State
<1> QED
  BY <1>5, <1>6, <1>7, <1>8, <1>9 DEF Ports!Start

LEMMA CommitIsMove ==
    ASSUME IInv, OnePort, Elsewhere, NEW w \in Swapper, SwapCommit(w)
    PROVE  Ports!Move(swap[w].svc, swap[w].new)
<1> DEFINE s == swap[w].svc
           a == swap[w].new
           n == swap[w].ln
<1>1. /\ ~exited /\ swap[w].pc = "commit" /\ entry[s].addr = swap[w].old
      /\ entry' = [entry EXCEPT ![s] = [addr |-> a, ln |-> n]]
      /\ loop' = [loop EXCEPT ![n] = "serving"] /\ errCh' = errCh /\ exited' = exited
  BY DEF SwapCommit, SeenAtStart
<1>2. /\ s \in Service /\ a \in Addr /\ n \in Listener /\ n # 0
      /\ lis[n].addr = a /\ lis[n].open /\ loop[n] = "none"
      /\ \A t \in Service : entry[t].ln # n /\ entry[t].ln # 0
  <2>1. Held(w) /\ s \in Service /\ a \in Addr /\ n \in Listener /\ n # 0
    BY <1>1, HeldIs, ListenerIs
  <2>2. lis[n] = [svc |-> s, addr |-> a, open |-> TRUE] /\ loop[n] = "none"
    BY <1>1, <2>1 DEF Held
  <2>3. \A t \in Service : entry[t].ln # n /\ entry[t].ln # 0
    BY <1>1, <2>1 DEF Held, Registered
  <2> QED
    BY <2>1, <2>2, <2>3
<1>3. a # entry[s].addr
  BY <1>1 DEF Elsewhere
<1> HIDE DEF s, a, n
<1>4. /\ loop'[n] = "serving" /\ \A l \in Listener \ {n} : loop'[l] = loop[l]
      /\ entry'[s] = [addr |-> a, ln |-> n] /\ \A t \in Service \ {s} : entry'[t] = entry[t]
  BY <1>1, <1>2 DEF IInv, TypeOK
<1>5. Address' = [Address EXCEPT ![s] = a]
  <2>1. \A t \in Service : entry'[t].addr = IF t = s THEN a ELSE entry[t].addr
    BY <1>2, <1>4
  <2>2. Address = [t \in Service |-> entry[t].addr]
        /\ Address' = [t \in Service |-> entry'[t].addr]
    BY DEF Address
  <2> QED
    BY <1>2, <2>1, <2>2
<1>6. State' = [State EXCEPT ![s] = "up"]
  <2>1. State'[s] = "up"
    BY <1>2, <1>4 DEF State, Registered
  <2>2. ASSUME NEW t \in Service \ {s} PROVE State'[t] = State[t]
    <3>1. loop'[entry[t].ln] = loop[entry[t].ln]
      BY <1>2, <1>4, StateIs
    <3> QED
      BY <1>4, <3>1 DEF State, Registered
  <2> QED
    BY <2>1, <2>2 DEF State
<1>7. Main' = Main
  BY <1>1, <1>2, <1>4 DEF Main
<1>8. Ports!Free(a)
  <2>1. \A t \in Service : lis[entry[t].ln].open => lis[entry[t].ln].addr # a
    BY <1>2, StateIs DEF OnePort
  <2> QED
    BY <1>2, <2>1, FreeIs
<1>9. Main # "gone" /\ a # Address[s] /\ \A t \in Service : State[t] # "down"
  BY <1>1, <1>2, <1>3, StateIs DEF Main
<1> QED
  BY <1>5, <1>6, <1>7, <1>8, <1>9 DEF Ports!Move, s, a

\* A serveLoop goroutine that moves on between two steps that are not "sending".
LEMMA LoopMain ==
    ASSUME TypeOK, NEW l \in Listener, NEW p, loop' = [loop EXCEPT ![l] = p],
           loop[l] # "sending", p # "sending", errCh' = errCh, exited' = exited
    PROVE  Main' = Main
  BY DEF Main, TypeOK

LEMMA ServeClosedStutters ==
    ASSUME IInv, NEW l \in Listener, ServeClosed(l)
    PROVE  UNCHANGED <<Address, State, Main>>
<1>1. \A s \in Service : entry[s].ln # l
  <2>1. l # 0 /\ loop[l] = "serving" /\ ~lis[l].open
    BY ListenerIs DEF ServeClosed
  <2> QED
    BY <2>1, StateIs
<1>2. UNCHANGED <<Address, State>>
  BY <1>1, StateIs, SameServices DEF ServeClosed, IInv, TypeOK
<1>3. Main' = Main
  BY LoopMain DEF ServeClosed, IInv
<1> QED
  BY <1>2, <1>3

LEMMA FailureIsFail ==
    ASSUME IInv, NEW l \in Listener, ServeFails(l)
    PROVE  \/ \E s \in Service : Ports!Fail(s)
           \/ UNCHANGED <<Address, State, Main>>
<1>1. /\ ~exited /\ loop[l] = "serving" /\ loop' = [loop EXCEPT ![l] = "failed"]
      /\ entry' = entry
  BY DEF ServeFails
<1>2. Main' = Main
  BY LoopMain DEF ServeFails, IInv
<1>3. CASE \A s \in Service : entry[s].ln # l
  <2>1. UNCHANGED <<Address, State>>
    BY <1>1, <1>3, StateIs, SameServices DEF IInv, TypeOK
  <2> QED
    BY <1>2, <2>1
<1>4. CASE \E s \in Service : entry[s].ln = l
  <2>1. PICK s \in Service : entry[s].ln = l
    BY <1>4
  <2>2. \A t \in Service \ {s} : entry[t].ln # l
    BY <2>1, ListenerIs, StateIs
  <2>3. Address' = Address
    BY <1>1 DEF Address
  <2>4. State' = [State EXCEPT ![s] = "failed"]
    <3>1. State'[s] = "failed"
      BY <1>1, <2>1, ListenerIs DEF State, Registered, IInv, TypeOK
    <3>2. ASSUME NEW t \in Service \ {s} PROVE State'[t] = State[t]
      <4>1. entry[t].ln # 0 => loop'[entry[t].ln] = loop[entry[t].ln]
        BY <1>1, <2>2, StateIs DEF IInv, TypeOK
      <4> QED
        BY <1>1, <4>1 DEF State, Registered
    <3> QED
      BY <3>1, <3>2 DEF State
  <2>5. Main # "gone" /\ State[s] = "up"
    BY <1>1, <2>1, ListenerIs, StateIs DEF Main
  <2> QED
    BY <1>2, <2>3, <2>4, <2>5 DEF Ports!Fail
<1> QED
  BY <1>3, <1>4

\* Under the lock main is told of a failure only when the listener is the registered one.
LEMMA CheckIsTell ==
    ASSUME IInv, NEW l \in Listener, CheckStale(l)
    PROVE  \/ \E s \in Service : Ports!Tell(s)
           \/ UNCHANGED <<Address, State, Main>>
<1>1. /\ ~exited /\ loop[l] = "failed" /\ entry' = entry /\ errCh' = errCh /\ exited' = exited
      /\ loop' = [loop EXCEPT ![l] = IF Current(l) THEN "sending" ELSE "ended"]
  BY DEF CheckStale
<1>2. UNCHANGED <<Address, State>>
  BY <1>1, StateIs, SameServices DEF IInv, TypeOK
<1>3. CASE ~Current(l)
  BY <1>1, <1>2, <1>3, LoopMain DEF IInv
<1>4. CASE Current(l)
  <2> DEFINE s == lis[l].svc
  <2>1. s \in Service /\ entry[s].ln = l /\ l # 0
    BY <1>4, ListenerIs DEF Current, IInv, TypeOK, LisState
  <2> HIDE DEF s
  <2>2. State[s] = "failed"
    BY <1>1, <2>1, StateIs
  <2>3. Main' = "told"
    <3>1. loop'[l] = "sending"
      BY <1>1, <1>4 DEF IInv, TypeOK
    <3> QED
      BY <1>1, <3>1 DEF Main
  <2>4. Main \in {"waits", "told"}
    BY <1>1 DEF Main
  <2>5. CASE Main = "waits"
    BY <1>2, <2>1, <2>2, <2>3, <2>5 DEF Ports!Tell
  <2>6. CASE Main = "told"
    BY <1>2, <2>3, <2>6
  <2> QED
    BY <2>4, <2>5, <2>6
<1> QED
  BY <1>3, <1>4

\* A full queue holds an error already: dropping one more changes nothing for main.
LEMMA ReportStutters ==
    ASSUME IInv, NEW l \in Listener, Report(l)
    PROVE  UNCHANGED <<Address, State, Main>>
<1>1. /\ ~exited /\ loop[l] = "sending" /\ loop' = [loop EXCEPT ![l] = "ended"]
      /\ entry' = entry /\ exited' = exited
      /\ errCh' = IF Cardinality(errCh) < ErrCap THEN errCh \cup {l} ELSE errCh
  BY DEF Report
<1>2. UNCHANGED <<Address, State>>
  BY <1>1, StateIs, SameServices DEF IInv, TypeOK
<1>3. errCh' # {}
  <2>1. Cardinality({}) = 0
    BY FS_EmptySet
  <2> QED
    BY <1>1, <2>1, AnyOf
<1>4. Main = "told" /\ Main' = "told"
  BY <1>1, <1>3 DEF Main
<1> QED
  BY <1>2, <1>4

LEMMA ExitIsExit == ASSUME IInv, MainExits PROVE Ports!Exit
<1>1. Main = "told" /\ Main' = "gone"
  BY DEF MainExits, Main
<1>2. Address' = Boot
  BY ListenAssumption DEF MainExits, Address
<1>3. State' = [s \in Service |-> "down"]
  BY DEF MainExits, State, Registered
<1> QED
  BY <1>1, <1>2, <1>3 DEF Ports!Exit

LEMMA StepIsMove ==
    ASSUME IInv, OnePort, Elsewhere, AtBoot, [Next]_vars
    PROVE  Ports!Next \/ UNCHANGED <<Address, State, Main>>
<1>1. ASSUME NEW s \in Service, Start(s) PROVE Ports!Next
  BY <1>1, StartIsStart DEF Ports!Next
<1>2. ASSUME NEW w \in Swapper, SwapCommit(w) PROVE Ports!Next
  BY <1>2, CommitIsMove, HeldIs DEF Ports!Next
<1>3. CASE UNCHANGED <<entry, loop, errCh, exited>>
  BY <1>3 DEF Address, State, Main, Registered
<1>4. ASSUME NEW w \in Swapper, NEW s \in Service, NEW a \in Addr, SwapBegin(w, s, a)
      PROVE  UNCHANGED <<entry, loop, errCh, exited>>
  BY <1>4 DEF SwapBegin
<1>5. ASSUME NEW w \in Swapper,
             SwapBind(w) \/ SwapBindFails(w) \/ SwapConflict(w) \/ SwapClose(w)
      PROVE  UNCHANGED <<entry, loop, errCh, exited>>
  BY <1>5 DEF SwapBind, SwapBindFails, SwapConflict, SwapClose
<1>6. ASSUME NEW l \in Listener, ServeClosed(l) \/ Report(l)
      PROVE  UNCHANGED <<Address, State, Main>>
  BY <1>6, ServeClosedStutters, ReportStutters
<1>7. ASSUME NEW l \in Listener, ServeFails(l) \/ CheckStale(l)
      PROVE  Ports!Next \/ UNCHANGED <<Address, State, Main>>
  BY <1>7, FailureIsFail, CheckIsTell DEF Ports!Next
<1>8. MainExits => Ports!Next
  BY ExitIsExit DEF Ports!Next
<1>9. UNCHANGED vars => UNCHANGED <<entry, loop, errCh, exited>>
  BY DEF vars
<1> QED
  BY <1>1, <1>2, <1>3, <1>4, <1>5, <1>6, <1>7, <1>8, <1>9 DEF Next

\* Whatever swaps race and listeners fail, the services move as ServicePorts says: whole, to
\* an address no reachable service has, and main is told of the failure of a registered
\* listener only.
THEOREM Implements == Spec => SwapsAreMoves
<1>1. Init => Ports!Init
  <2> SUFFICES ASSUME Init PROVE Ports!Init
    OBVIOUS
  <2>1. Address = Boot
    BY ListenAssumption DEF Init, Address
  <2>2. State = [s \in Service |-> "down"] /\ Main = "waits"
    BY DEF Init, State, Registered, Main
  <2> QED
    BY <2>1, <2>2 DEF Ports!Init
<1>2. Init => OnePort /\ Elsewhere /\ AtBoot
  BY AnyOf DEF Init, OnePort, Elsewhere, AtBoot
<1>3. IInv /\ OnePort /\ Elsewhere /\ AtBoot /\ [Next]_vars => [Ports!Next]_Ports!vars
  BY StepIsMove DEF Ports!vars
<1> QED
  BY <1>1, <1>2, <1>3, HandsInit, IInvStep, OnePortStep, ElsewhereStep, AtBootStep, PTL
  DEF Spec, SwapsAreMoves, Ports!Spec

=============================================================================
