---------------------------- MODULE DNSCacheProofs ----------------------------
(***************************************************************************)
(* Proofs about DNSCache, for every set of hosts and callers and for every *)
(* TTL and capacity.                                                       *)
(*                                                                         *)
(* OrderIsIndex is inductive once the types are known.  ServedFresh needs  *)
(* LifetimeBounded, and that needs to know of every caller in between that *)
(* the resolver answered no earlier than its call began (AnswerLater).     *)
(***************************************************************************)
EXTENDS DNSCache, TLAPS

\* The resolver's answer is not older than the call it answers.
AnswerLater ==
    \A c \in Caller :
        /\ call[c].pc # "idle" => call[c].now <= clock
        /\ call[c].pc = "store" => call[c].now <= call[c].ips

\* What an eviction leaves of a full order is its tail, and what it takes is its head.
LEMMA EvictionIsTail ==
    ASSUME order \in Seq(Host), Len(order) <= Capacity
    PROVE  /\ Survivors \in Seq(Host)
           /\ Len(order) = Capacity => /\ Len(Survivors) = Len(order) - 1
                                       /\ \A i \in 1..Len(Survivors) : Survivors[i] = order[i + 1]
                                       /\ Evictees = {order[1]}
           /\ Len(order) # Capacity => Survivors = order /\ Evictees = {}
<1>0. Len(order) \in Nat /\ Capacity \in Nat /\ Capacity # 0
  BY DNSAssumption
<1>1. CASE Len(order) = Capacity
  <2>1. Evicted = 1
    BY <1>0, <1>1 DEF Evicted
  <2>2. Survivors = SubSeq(order, 2, Len(order))
    BY <2>1 DEF Survivors
  <2>3. Evictees = {order[1]}
    BY <2>1 DEF Evictees
  <2>4. /\ Survivors \in Seq(Host)
        /\ Len(Survivors) = Len(order) - 1
        /\ \A i \in 1..Len(Survivors) : Survivors[i] = order[i + 1]
    BY <2>2, <1>0, <1>1
  <2> QED
    BY <2>3, <2>4, <1>1
<1>2. CASE Len(order) # Capacity
  <2>1. Evicted = 0
    BY <1>0, <1>2 DEF Evicted
  <2>2. Survivors = SubSeq(order, 1, Len(order))
    BY <2>1 DEF Survivors
  <2>3. Survivors = order
    BY <2>2
  <2>4. Evictees = {}
    BY <2>1 DEF Evictees
  <2> QED
    BY <2>3, <2>4, <1>2
<1> QED
  BY <1>1, <1>2

\* After a store the order is in type and within the capacity, and lists what is cached
\* once each.
LEMMA StoreKeepsIndex ==
    ASSUME NEW h \in Host, order \in Seq(Host), Len(order) <= Capacity, OrderIsIndex
    PROVE  LET o == Listed(Survivors, h)
           IN /\ o \in Seq(Host) /\ Len(o) <= Capacity
              /\ Range(o) = (Cached \ Evictees) \cup {h}
              /\ \A i, j \in DOMAIN o : o[i] = o[j] => i = j
<1> DEFINE s == Survivors
           o == Listed(s, h)
<1>0. Len(order) \in Nat /\ Capacity \in Nat /\ Capacity # 0
  BY DNSAssumption
<1>1. s \in Seq(Host) /\ Len(s) < Capacity
  BY <1>0, EvictionIsTail
<1>2. \A i, j \in 1..Len(s) : s[i] = s[j] => i = j
  <2>1. CASE Len(order) = Capacity
    <3>1. \A i \in 1..Len(s) : s[i] = order[i + 1] /\ i + 1 \in 1..Len(order)
      BY <2>1, <1>0, EvictionIsTail
    <3> QED
      BY <3>1, <1>0 DEF OrderIsIndex
  <2>2. CASE Len(order) # Capacity
    BY <2>2, <1>0, EvictionIsTail DEF OrderIsIndex
  <2> QED
    BY <2>1, <2>2
<1>3. {s[i] : i \in 1..Len(s)} = Cached \ Evictees
  <2>0. Cached = {order[i] : i \in 1..Len(order)}
    BY <1>0 DEF OrderIsIndex, Range
  <2>1. CASE Len(order) = Capacity
    <3>1. /\ Len(s) = Len(order) - 1 /\ Evictees = {order[1]}
          /\ \A i \in 1..Len(s) : s[i] = order[i + 1]
      BY <2>1, <1>0, EvictionIsTail
    <3>2. \A i \in 2..Len(order) : order[i] # order[1]
      BY <1>0, <2>1 DEF OrderIsIndex
    <3>3. \A x \in Cached \ Evictees : \E i \in 1..Len(s) : x = s[i]
      <4>1. TAKE x \in Cached \ Evictees
      <4>2. PICK i \in 1..Len(order) : x = order[i]
        BY <2>0
      <4>3. i - 1 \in 1..Len(s) /\ s[i - 1] = order[(i - 1) + 1]
        BY <4>2, <3>1, <1>0
      <4>4. (i - 1) + 1 = i
        OBVIOUS
      <4> QED
        BY <4>2, <4>3, <4>4
    <3>4. \A i \in 1..Len(s) : s[i] \in Cached \ Evictees
      <4>1. TAKE i \in 1..Len(s)
      <4>2. i + 1 \in 2..Len(order) /\ i + 1 \in 1..Len(order) /\ s[i] = order[i + 1]
        BY <3>1, <1>0
      <4> QED
        BY <4>2, <3>1, <3>2, <2>0
    <3> QED
      BY <3>3, <3>4
  <2>2. CASE Len(order) # Capacity
    BY <2>0, <2>2, <1>0, EvictionIsTail
  <2> QED
    BY <2>1, <2>2
<1>4. Range(s) = {s[i] : i \in 1..Len(s)}
  BY <1>1 DEF Range
<1>5. CASE h \in Range(s)
  <2>1. o = s
    BY <1>5 DEF Listed
  <2> QED
    BY <2>1, <1>0, <1>1, <1>2, <1>3, <1>4, <1>5
<1>6. CASE h \notin Range(s)
  <2>1. o = Append(s, h)
    BY <1>6 DEF Listed
  <2>2. o \in Seq(Host) /\ Len(o) = Len(s) + 1 /\ DOMAIN o = 1..(Len(s) + 1)
    BY <2>1, <1>1
  <2>3. o[Len(s) + 1] = h /\ \A i \in 1..Len(s) : o[i] = s[i]
    BY <2>1, <1>1
  <2>4. \A i \in 1..Len(s) : s[i] # h
    BY <1>4, <1>6
  <2>5. \A i, j \in DOMAIN o : o[i] = o[j] => i = j
    BY <2>2, <2>3, <2>4, <1>1, <1>2
  <2>6. Range(o) = {s[i] : i \in 1..Len(s)} \cup {h}
    BY <2>2, <2>3, <1>1 DEF Range
  <2> QED
    BY <2>2, <2>5, <2>6, <1>0, <1>1, <1>3
<1> QED
  BY <1>5, <1>6

\* What Miss, Answer, NoAnswer and the others do to a call keeps its type.
LEMMA CallTypes ==
    ASSUME TypeOK, NEW c \in Caller, call[c].pc # "idle"
    PROVE  /\ call[c].host \in Host /\ call[c].now \in Time /\ call[c].ips \in Time
           /\ \A p \in {"lookup", "resolve", "direct", "store", "served"}, t \in Time :
                [[call[c] EXCEPT !.pc = p] EXCEPT !.ips = t] \in Call
           /\ \A p \in {"lookup", "resolve", "direct", "store", "served"} :
                [call[c] EXCEPT !.pc = p] \in Call
<1>1. call[c] \in [pc : {"lookup", "resolve", "direct", "store", "served"},
                   host : Host, now : Time, ips : Time]
  BY DEF TypeOK, Call, NoCall
<1> QED
  BY <1>1 DEF Call

\* Type correctness, the capacity of the cache included.
THEOREM TypeCorrect == Spec => [](TypeOK /\ OrderIsIndex)
<1> DEFINE Inv == TypeOK /\ OrderIsIndex
<1>1. Init => Inv
  <2> SUFFICES ASSUME Init PROVE Inv
    OBVIOUS
  <2>1. Cached = {} /\ order = <<>> /\ Len(order) = 0
    BY DEF Init, Cached
  <2>2. Range(order) = {}
    BY <2>1 DEF Range
  <2>3. entries \in [Cached -> Entry]
    BY DEF Init, Cached
  <2>4. call \in [Caller -> Call] /\ clock \in Time /\ ttl \in TTL
    BY DNSAssumption DEF Init, Call, Time
  <2> QED
    BY <2>1, <2>2, <2>3, <2>4, DNSAssumption DEF TypeOK, OrderIsIndex
<1>2. Inv /\ [Next]_vars => Inv'
  <2> SUFFICES ASSUME Inv, [Next]_vars PROVE Inv'
    OBVIOUS
  <2> USE DEF TypeOK, OrderIsIndex, Cached
  <2>1. CASE Tick
    BY <2>1, DNSAssumption DEF Tick, Time
  <2>2. ASSUME NEW d \in TTL, SetTTL(d) PROVE Inv'
    BY <2>2 DEF SetTTL
  <2>3. ASSUME NEW c \in Caller, NEW h \in Host, Begin(c, h) PROVE Inv'
    <3>1. [pc |-> IF ttl > 0 THEN "lookup" ELSE "direct", host |-> h,
           now |-> clock, ips |-> 0] \in Call
      BY DNSAssumption DEF Call, Time
    <3> QED
      BY <2>3, <3>1 DEF Begin
  <2>4. ASSUME NEW c \in Caller, Hit(c) PROVE Inv'
    <3>1. entries[call[c].host].ips \in Time
      BY <2>4 DEF Hit, Valid, Entry
    <3>2. [[call[c] EXCEPT !.pc = "served"] EXCEPT !.ips = entries[call[c].host].ips] \in Call
      BY <2>4, <3>1, CallTypes DEF Hit
    <3> QED
      BY <2>4, <3>2 DEF Hit
  <2>5. ASSUME NEW c \in Caller, Miss(c) PROVE Inv'
    <3>1. [call[c] EXCEPT !.pc = "resolve"] \in Call
      BY <2>5, CallTypes DEF Miss
    <3> QED
      BY <2>5, <3>1 DEF Miss
  <2>6. ASSUME NEW c \in Caller, Answer(c) PROVE Inv'
    <3>1. \A p \in {"store", "served"} :
              [[call[c] EXCEPT !.pc = p] EXCEPT !.ips = clock] \in Call
      BY <2>6, CallTypes DEF Answer
    <3> QED
      BY <2>6, <3>1 DEF Answer
  <2>7. ASSUME NEW c \in Caller, NoAnswer(c) PROVE Inv'
    BY <2>7 DEF NoAnswer, Call
  <2>8. ASSUME NEW c \in Caller, Store(c) PROVE Inv'
    <3> DEFINE h == call[c].host
               kept == (Cached \ Evictees) \cup {h}
    <3>1. h \in Host /\ call[c].ips \in Time /\ call[c].now \in Time
      BY <2>8, CallTypes DEF Store
    <3>2. [ips |-> call[c].ips, expireAt |-> Expiry(c)] \in Entry
      BY <3>1, DNSAssumption DEF Entry, Expiry, Time
    <3>3. Cached' = kept /\ entries' \in [kept -> Entry]
      BY <2>8, <3>2 DEF Store
    <3>4. call' \in [Caller -> Call]
      <4>1. [call[c] EXCEPT !.pc = "served"] \in Call
        BY <2>8, CallTypes DEF Store
      <4> QED
        BY <2>8, <4>1 DEF Store
    <3>5. /\ order' \in Seq(Host) /\ Len(order') <= Capacity
          /\ Range(order') = kept
          /\ \A i, j \in DOMAIN order' : order'[i] = order'[j] => i = j
      BY <2>8, <3>1, StoreKeepsIndex DEF Store
    <3> QED
      BY <2>8, <3>1, <3>3, <3>4, <3>5 DEF Store
  <2>9. CASE UNCHANGED vars
    BY <2>9 DEF vars
  <2> QED
    BY <2>1, <2>2, <2>3, <2>4, <2>5, <2>6, <2>7, <2>8, <2>9 DEF Next
<1> QED
  BY <1>1, <1>2, PTL DEF Spec

\* The order lists exactly the cached hosts, each once, for any number of callers and hosts.
THEOREM CacheIndexed == Spec => []OrderIsIndex
BY TypeCorrect, PTL

\* Every answer served was true less than the longest TTL before its call, or is newer.
THEOREM AnswersFresh == Spec => [](LifetimeBounded /\ ServedFresh)
<1> DEFINE Inv == AnswerLater /\ LifetimeBounded /\ ServedFresh
<1>1. Init => Inv
  BY DEF Init, AnswerLater, LifetimeBounded, ServedFresh, NoCall, Cached
<1>2. TypeOK /\ TypeOK' /\ Inv /\ [Next]_vars => Inv'
  <2> SUFFICES ASSUME TypeOK, TypeOK', Inv, [Next]_vars PROVE Inv'
    OBVIOUS
  <2>0. clock \in Nat /\ ttl \in 0..Longest /\ Longest \in Nat
    BY DNSAssumption DEF TypeOK, Time
  <2>c. \A c \in Caller : call[c].pc # "idle" =>
            call[c].now \in Nat /\ call[c].ips \in Nat /\ call[c].host \in Host
    BY DNSAssumption DEF TypeOK, Call, NoCall, Time
  <2>e. \A h \in Cached : entries[h].ips \in Nat /\ entries[h].expireAt \in Nat
    BY DNSAssumption DEF TypeOK, Entry, Time
  <2>f. call \in [Caller -> Call]
    BY DEF TypeOK
  <2> USE DEF AnswerLater, LifetimeBounded, ServedFresh, Cached
  <2>1. CASE Tick
    <3>1. clock' = clock + 1 /\ entries' = entries /\ call' = call
      BY <2>1 DEF Tick
    <3> QED
      BY <3>1, <2>0, <2>c
  <2>2. ASSUME NEW d \in TTL, SetTTL(d) PROVE Inv'
    BY <2>2 DEF SetTTL
  <2>3. ASSUME NEW c \in Caller, NEW h \in Host, Begin(c, h) PROVE Inv'
    BY <2>3, <2>0, <2>f DEF Begin
  <2>4. ASSUME NEW c \in Caller, Hit(c) PROVE Inv'
    <3> DEFINE e == entries[call[c].host]
    <3>1. call[c].now < e.ips + Longest
      BY <2>4, <2>0, <2>c, <2>e DEF Hit, Valid
    <3>2. call'[c].pc = "served" /\ call'[c].now = call[c].now /\ call'[c].ips = e.ips
      BY <2>4, <2>f, <2>c DEF Hit, Call, NoCall
    <3>3. call[c].now <= clock
      BY <2>4 DEF Hit
    <3>4. \A d \in Caller \ {c} : call'[d] = call[d]
      BY <2>4, <2>f DEF Hit
    <3> QED
      BY <2>4, <3>1, <3>2, <3>3, <3>4 DEF Hit
  <2>5. ASSUME NEW c \in Caller, Miss(c) PROVE Inv'
    <3>1. call'[c].pc = "resolve" /\ call'[c].now = call[c].now
      BY <2>5, <2>f DEF Miss, Call, NoCall
    <3>2. \A d \in Caller \ {c} : call'[d] = call[d]
      BY <2>5, <2>f DEF Miss
    <3> QED
      BY <2>5, <3>1, <3>2 DEF Miss
  <2>6. ASSUME NEW c \in Caller, Answer(c) PROVE Inv'
    <3>1. /\ call'[c].pc \in {"store", "served"}
          /\ call'[c].now = call[c].now /\ call'[c].ips = clock
      BY <2>6, <2>f DEF Answer, Call, NoCall
    <3>2. \A d \in Caller \ {c} : call'[d] = call[d]
      BY <2>6, <2>f DEF Answer
    <3>3. call[c].now <= clock
      BY <2>6 DEF Answer
    <3> QED
      BY <2>6, <3>1, <3>2, <3>3 DEF Answer
  <2>7. ASSUME NEW c \in Caller, NoAnswer(c) PROVE Inv'
    BY <2>7, <2>f DEF NoAnswer, NoCall
  <2>8. ASSUME NEW c \in Caller, Store(c) PROVE Inv'
    <3> DEFINE h == call[c].host
    <3>1. /\ call'[c].pc = "served"
          /\ call'[c].now = call[c].now /\ call'[c].ips = call[c].ips
      BY <2>8, <2>f DEF Store, Call, NoCall
    <3>2. \A d \in Caller \ {c} : call'[d] = call[d]
      BY <2>8, <2>f DEF Store
    <3>3. call[c].now <= call[c].ips /\ call[c].now <= clock
      BY <2>8 DEF Store
    <3>4. Expiry(c) <= call[c].ips + Longest
      BY <3>3, <2>0, <2>c, <2>8 DEF Expiry, Store
    <3>5. \A k \in Cached' : entries'[k].expireAt <= entries'[k].ips + Longest
      BY <2>8, <3>4 DEF Store
    <3> QED
      BY <2>8, <3>1, <3>2, <3>3, <3>5 DEF Store
  <2>9. CASE UNCHANGED vars
    BY <2>9 DEF vars
  <2> QED
    BY <2>1, <2>2, <2>3, <2>4, <2>5, <2>6, <2>7, <2>8, <2>9 DEF Next
<1> QED
  BY <1>1, <1>2, TypeCorrect, PTL DEF Spec

\* Nothing is kept for longer than the longest TTL after the resolver answered.
COROLLARY LifetimesBounded == Spec => []LifetimeBounded
BY AnswersFresh, PTL

=============================================================================
