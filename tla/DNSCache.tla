------------------------------- MODULE DNSCache -------------------------------
(***************************************************************************)
(* The DNS cache of a tunnel (internal/tunnel/dnscache.go): callers look a *)
(* host up under the lock, resolve a miss outside it, and store the answer *)
(* under the lock again, while the settings change the TTL.                *)
(*                                                                         *)
(* An answer is the time at which the resolver gave it.  Time counts TTL   *)
(* units; a tick is as likely as any step of a caller.                     *)
(***************************************************************************)
EXTENDS Integers, Sequences, FiniteSets, Functions

CONSTANTS
    Host,     \* names that are looked up
    Caller,   \* dials that may be inside resolveHost at one time
    TTL,      \* values of the setting dns_cache_seconds; 0 turns the cache off
    Longest,  \* the largest of them
    Capacity, \* capacity (256 in the code)
    MaxTime   \* bound on the clock

ASSUME DNSAssumption ==
    /\ TTL \subseteq 0..Longest
    /\ TTL # {}
    /\ Longest \in Nat
    /\ Capacity \in Nat \ {0}
    /\ MaxTime \in Nat

VARIABLES
    clock,
    ttl,
    entries,  \* the answer and expiry of each cached host
    order,    \* the cached hosts, in the order of their insertion
    call      \* call[c]: where caller c stands in resolveHost

vars == <<clock, ttl, entries, order, call>>

Time == 0..MaxTime
Entry == [ips : Time, expireAt : 0..(MaxTime + Longest)]
\* host and now: the argument and the time read at the start of the call; ips: the
\* answer it holds.
NoCall == [pc |-> "idle"]
Call == {NoCall} \cup [pc : {"lookup", "resolve", "direct", "store", "served"},
                       host : Host, now : Time, ips : Time]

Cached == DOMAIN entries

\* Every variable keeps its type, and the cache its capacity.
TypeOK ==
    /\ clock \in Time
    /\ ttl \in TTL
    /\ Cached \subseteq Host
    /\ entries \in [Cached -> Entry]
    /\ order \in Seq(Host) /\ Len(order) <= Capacity
    /\ call \in [Caller -> Call]

Init ==
    /\ clock = 0
    /\ ttl \in TTL
    /\ entries = [h \in {} |-> [ips |-> 0, expireAt |-> 0]]
    /\ order = <<>>
    /\ call = [c \in Caller |-> NoCall]

----------------------------------------------------------------------------
Tick ==
    /\ clock < MaxTime
    /\ clock' = clock + 1
    /\ UNCHANGED <<ttl, entries, order, call>>

SetTTL(d) ==
    /\ ttl' = d
    /\ UNCHANGED <<clock, entries, order, call>>

\* The TTL is read without the lock, then the time.
Begin(c, h) ==
    /\ call[c].pc \in {"idle", "served"}
    /\ call' = [call EXCEPT ![c] = [pc |-> IF ttl > 0 THEN "lookup" ELSE "direct",
                                    host |-> h, now |-> clock, ips |-> 0]]
    /\ UNCHANGED <<clock, ttl, entries, order>>

\* Mutant of Valid: an entry lives through the instant at which it expires.
ValidToTheEnd(c) ==
    /\ call[c].host \in Cached
    /\ call[c].now <= entries[call[c].host].expireAt

Valid(c) ==
    /\ call[c].host \in Cached
    /\ call[c].now < entries[call[c].host].expireAt

\* The first section under the lock; the time is that of the start of the call.
Hit(c) ==
    /\ call[c].pc = "lookup" /\ Valid(c)
    /\ call' = [call EXCEPT ![c] =
           [@ EXCEPT !.pc = "served", !.ips = entries[call[c].host].ips]]
    /\ UNCHANGED <<clock, ttl, entries, order>>

Miss(c) ==
    /\ call[c].pc = "lookup" /\ ~Valid(c)
    /\ call' = [call EXCEPT ![c] = [@ EXCEPT !.pc = "resolve"]]
    /\ UNCHANGED <<clock, ttl, entries, order>>

\* The resolver answers now; a direct call passes the answer on and stores nothing.
Answer(c) ==
    /\ call[c].pc \in {"resolve", "direct"}
    /\ call' = [call EXCEPT ![c] =
           [@ EXCEPT !.pc = IF @ = "direct" THEN "served" ELSE "store", !.ips = clock]]
    /\ UNCHANGED <<clock, ttl, entries, order>>

\* An error or an empty answer goes to the caller and not to the cache.
NoAnswer(c) ==
    /\ call[c].pc \in {"resolve", "direct"}
    /\ call' = [call EXCEPT ![c] = NoCall]
    /\ UNCHANGED <<clock, ttl, entries, order>>

\* Mutant of Evicted: the loop stops when the cache is full.
EvictedToFull == IF Len(order) > Capacity THEN Len(order) - Capacity ELSE 0

\* evictLocked: the oldest go until there is room for one more.
Evicted == IF Len(order) >= Capacity THEN Len(order) - Capacity + 1 ELSE 0

Survivors == SubSeq(order, Evicted + 1, Len(order))
Evictees == {order[i] : i \in 1..Evicted}

\* Mutant of Listed: the host is listed again on every store.
ListedAgain(o, h) == Append(o, h)

Listed(o, h) == IF h \in Range(o) THEN o ELSE Append(o, h)

\* Mutant of Expiry: counted from the moment of the store.
ExpiryAtStore(c) == clock + ttl

\* The lifetime counts from the start of the call, with the TTL of the moment.
Expiry(c) == call[c].now + ttl

\* The second section under the lock.
Store(c) ==
    LET h == call[c].host
    IN /\ call[c].pc = "store"
       /\ order' = Listed(Survivors, h)
       /\ entries' = [k \in (Cached \ Evictees) \cup {h} |->
              IF k = h THEN [ips |-> call[c].ips, expireAt |-> Expiry(c)] ELSE entries[k]]
       /\ call' = [call EXCEPT ![c] = [@ EXCEPT !.pc = "served"]]
       /\ UNCHANGED <<clock, ttl>>

Next ==
    \/ Tick
    \/ \E d \in TTL : SetTTL(d)
    \/ \E c \in Caller : \/ \E h \in Host : Begin(c, h)
                         \/ Hit(c) \/ Miss(c) \/ Answer(c) \/ NoAnswer(c) \/ Store(c)

Spec == Init /\ [][Next]_vars

----------------------------------------------------------------------------
\* Properties

\* The order lists exactly the cached hosts, each once, however the stores of two callers
\* of one host and the evictions between them interleave: nothing is cached that the
\* eviction cannot reach, and nothing listed is gone.
OrderIsIndex ==
    /\ Range(order) = Cached
    /\ \A i, j \in DOMAIN order : order[i] = order[j] => i = j

\* No entry outlives its answer by more than the longest TTL: a resolver that takes long,
\* or a TTL that is raised meanwhile, does not stretch the lifetime of the answer.
LifetimeBounded ==
    \A h \in Cached : entries[h].expireAt <= entries[h].ips + Longest

\* The answer a dial gets, from the cache or from the resolver, was true less than the
\* longest TTL before the dial began, or is newer than the dial.
ServedFresh ==
    \A c \in Caller : call[c].pc = "served" =>
        call[c].now < call[c].ips + Longest \/ call[c].now <= call[c].ips

=============================================================================
