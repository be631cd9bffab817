------------------------------ MODULE Dispatcher ------------------------------
(***************************************************************************)
(* The dispatcher (internal/dispatcher): how a logged-in client gets its   *)
(* upstream connection.  Service.Route authenticates, computes the order   *)
(* in which to try the upstreams from four reads under three locks, dials  *)
(* one after the other, notes the exit and hands out a counted connection. *)
(*                                                                         *)
(* Actors: the goroutines that serve one inbound connection each (Client), *)
(* SOCKS5 or HTTP; the settings handler that switches the routing mode;    *)
(* the account index; and the tunnel manager, which appears here as what   *)
(* its readers see of an upstream (module TunnelManager is its inside).    *)
(***************************************************************************)
EXTENDS Integers, Sequences, FiniteSets, Functions

CONSTANTS
    Upstream,  \* upstream IDs
    Account,   \* user names
    Client,    \* inbound connections served at one time
    Bound,     \* Bound[a]: the upstream that account a belongs to
    Rank,      \* Rank[u]: u's place in the configuration
    Latency    \* measured latencies; 0 is "unknown"

ASSUME DispatcherAssumption ==
    /\ IsFiniteSet(Upstream) /\ IsFiniteSet(Client)
    /\ Bound \in [Account -> Upstream]
    /\ Rank \in [Upstream -> Nat] /\ IsInjective(Rank)
    /\ Latency \subseteq Nat \ {0}

VARIABLES
    there,    \* the upstreams m.entries holds
    usable,   \* the ones that are running and healthy
    lat,      \* lat[u]: State.LastLatency of a usable upstream
    logins,   \* the accounts whose credentials the index accepts
    prefer,   \* s.prefer: global lowest-latency mode
    sticky,   \* s.sticky: the exit noted for an account
    conns,    \* conns[a]: the active connections the collector counts
    job,      \* job[c]: where the goroutine of client c stands
    steady    \* history: the upstreams usable at every moment since c's Route sorted them

managerVars == <<there, usable, lat>>
serviceVars == <<prefer, sticky>>
vars == <<managerVars, logins, serviceVars, conns, job, steady>>

\* mode: the routing mode the request read; list: its candidates; at: the one it dials.
NoJob == [pc |-> "idle"]
Busy == {"request", "route", "sort", "mode", "bound", "check", "dial", "remember", "wrap",
         "relay", "failed"}
Task == [pc : Busy, acct : Account, mode : BOOLEAN, list : Seq(Upstream), at : Nat \ {0}]
Job == {NoJob} \cup Task

\* Every variable keeps its type, and no request has an upstream twice among its candidates.
TypeOK ==
    /\ there \subseteq Upstream
    /\ usable \subseteq there
    /\ lat \in [Upstream -> Latency \cup {0}]
    /\ logins \subseteq Account
    /\ prefer \in BOOLEAN
    /\ DOMAIN sticky \subseteq Account /\ sticky \in [DOMAIN sticky -> Upstream]
    /\ conns \in [Account -> Nat]
    /\ job \in [Client -> Job]
    /\ \A c \in Client : job[c] # NoJob => IsInjective(job[c].list)
    /\ steady \in [Client -> SUBSET Upstream]

Nobody == [a \in {} |-> CHOOSE u \in Upstream : TRUE]

Init ==
    /\ there = {} /\ usable = {}
    /\ lat = [u \in Upstream |-> 0]
    /\ logins = {}
    /\ prefer \in BOOLEAN
    /\ sticky = Nobody
    /\ conns = [a \in Account |-> 0]
    /\ job = [c \in Client |-> NoJob]
    /\ steady = [c \in Client |-> {}]

----------------------------------------------------------------------------
\* What the other components do meanwhile

\* Sync, StopAll, RecordProbe or a rebuild adds, starts, stops, judges, measures or removes
\* upstream u: any of it, at any time.
EntryMoves(u, in, up, l) ==
    /\ up => in
    /\ there' = IF in THEN there \cup {u} ELSE there \ {u}
    /\ usable' = IF up THEN usable \cup {u} ELSE usable \ {u}
    /\ lat' = [lat EXCEPT ![u] = IF up THEN l ELSE 0]
    /\ steady' = [c \in Client |-> steady[c] \cap usable']
    /\ UNCHANGED <<logins, serviceVars, conns, job>>

\* The index is rebuilt from a changed configuration.
IndexRebuilt(accts) ==
    /\ logins' = accts
    /\ UNCHANGED <<managerVars, serviceVars, conns, job, steady>>

SetLatencyRouting(p) ==
    /\ prefer' = p
    /\ sticky' = Nobody
    /\ UNCHANGED <<managerVars, logins, conns, job, steady>>

----------------------------------------------------------------------------
\* The goroutine of a client

At(c, pc) == job[c].pc = pc
Goto(c, pc) == job' = [job EXCEPT ![c] = [@ EXCEPT !.pc = pc]]
Acct(c) == job[c].acct
BoundOf(c) == Bound[Acct(c)]

\* The handshake checks the credentials.
Login(c, a) ==
    /\ At(c, "idle") /\ a \in logins
    /\ job' = [job EXCEPT ![c] = [pc |-> "request", acct |-> a, mode |-> FALSE,
                                  list |-> <<>>, at |-> 1]]
    /\ UNCHANGED <<managerVars, logins, serviceVars, conns, steady>>

\* The client asks for a connection, or for something else and is dismissed.
Asks(c) ==
    /\ At(c, "request")
    /\ Goto(c, "route")
    /\ UNCHANGED <<managerVars, logins, serviceVars, conns, steady>>

Leaves(c) ==
    /\ At(c, "request")
    /\ job' = [job EXCEPT ![c] = NoJob]
    /\ UNCHANGED <<managerVars, logins, serviceVars, conns, steady>>

\* Route checks them again: the account may be disabled or gone since the handshake.
Authenticate(c) ==
    /\ At(c, "route")
    /\ Goto(c, IF Acct(c) \in logins THEN "sort" ELSE "failed")
    /\ UNCHANGED <<managerVars, logins, serviceVars, conns, steady>>

\* m.HealthySortedByLatency: known latencies ascending, then the unknown ones;
\* the configuration's order among equals.
Faster(u, v) == lat[u] # 0 /\ (lat[v] = 0 \/ lat[u] < lat[v])
Before(u, v) == Faster(u, v) \/ (lat[u] = lat[v] /\ Rank[u] < Rank[v])
Sorted(s) == Range(s) = usable /\ \A i, j \in DOMAIN s : i < j => Before(s[i], s[j])

SortHealthy(c) ==
    /\ At(c, "sort")
    /\ \E s \in [1..Cardinality(usable) -> usable] :
           /\ Sorted(s)
           /\ job' = [job EXCEPT ![c] = [@ EXCEPT !.pc = "mode", !.list = s]]
    /\ steady' = [steady EXCEPT ![c] = usable]
    /\ UNCHANGED <<managerVars, logins, serviceVars, conns>>

ReadMode(c) ==
    /\ At(c, "mode")
    /\ job' = [job EXCEPT ![c] =
           [@ EXCEPT !.pc = IF prefer THEN "dial" ELSE "bound", !.mode = prefer]]
    /\ UNCHANGED <<managerVars, logins, serviceVars, conns, steady>>

\* registry.Bound: the account's upstream, healthy or not.
GetBound(c) ==
    /\ At(c, "bound")
    /\ Goto(c, IF BoundOf(c) \in there THEN "check" ELSE "dial")
    /\ UNCHANGED <<managerVars, logins, serviceVars, conns, steady>>

Place(b, s) == CHOOSE i \in DOMAIN s : s[i] = b
Without(b, s) ==
    IF b \in Range(s)
    THEN [i \in 1..(Len(s) - 1) |-> IF i < Place(b, s) THEN s[i] ELSE s[i + 1]]
    ELSE s

\* Mutants of Promoted: the sorted list is not filtered; the bound upstream goes last;
\* the others are left out.
PromotedTwice(b, s) == <<b>> \o s
PromotedLast(b, s) == Without(b, s) \o <<b>>
PromotedAlone(b, s) == <<b>>

\* The bound upstream first, then the others as they were.
Promoted(b, s) == <<b>> \o Without(b, s)

\* registry.IsHealthy, a lock later.
CheckBound(c) ==
    /\ At(c, "check")
    /\ job' = [job EXCEPT ![c] =
           [@ EXCEPT !.pc = "dial",
                     !.list = IF BoundOf(c) \in usable
                              THEN Promoted(BoundOf(c), job[c].list) ELSE job[c].list]]
    /\ UNCHANGED <<managerVars, logins, serviceVars, conns, steady>>

\* No candidate is left: none was found, or every dial failed.
GivesUp(c) ==
    /\ At(c, "dial") /\ job[c].at > Len(job[c].list)
    /\ Goto(c, "failed")
    /\ UNCHANGED <<managerVars, logins, serviceVars, conns, steady>>

\* A dial, of at most dialTimeout, goes to the tunnel that was captured: it may fail or
\* succeed whatever the manager says of the upstream by now.
DialFails(c) ==
    /\ At(c, "dial") /\ job[c].at <= Len(job[c].list)
    /\ job' = [job EXCEPT ![c] = [@ EXCEPT !.at = job[c].at + 1]]
    /\ UNCHANGED <<managerVars, logins, serviceVars, conns, steady>>

DialSucceeds(c) ==
    /\ At(c, "dial") /\ job[c].at <= Len(job[c].list)
    /\ Goto(c, "remember")
    /\ UNCHANGED <<managerVars, logins, serviceVars, conns, steady>>

Exit(c) == job[c].list[job[c].at]
Noted(c) == [a \in DOMAIN sticky \cup {Acct(c)} |-> IF a = Acct(c) THEN Exit(c) ELSE sticky[a]]

\* Mutant of RememberSticky: it goes by the mode the candidates were chosen in.
RememberStickyByRequest(c) ==
    /\ At(c, "remember")
    /\ sticky' = IF job[c].mode THEN Noted(c) ELSE sticky
    /\ Goto(c, "wrap")
    /\ UNCHANGED <<managerVars, logins, prefer, conns, steady>>

RememberSticky(c) ==
    /\ At(c, "remember")
    /\ sticky' = IF prefer THEN Noted(c) ELSE sticky
    /\ Goto(c, "wrap")
    /\ UNCHANGED <<managerVars, logins, prefer, conns, steady>>

WrapConn(c) ==
    /\ At(c, "wrap")
    /\ conns' = [conns EXCEPT ![Acct(c)] = @ + 1]
    /\ Goto(c, "relay")
    /\ UNCHANGED <<managerVars, logins, serviceVars, steady>>

\* Mutant of Close: the connection is closed past the counting wrapper.
CloseUncounted(c) ==
    /\ At(c, "relay")
    /\ job' = [job EXCEPT ![c] = NoJob]
    /\ steady' = [steady EXCEPT ![c] = {}]
    /\ UNCHANGED <<managerVars, logins, serviceVars, conns>>

\* The handler's deferred Close; countingConn counts it down once.
Close(c) ==
    /\ At(c, "relay")
    /\ conns' = [conns EXCEPT ![Acct(c)] = @ - 1]
    /\ job' = [job EXCEPT ![c] = NoJob]
    /\ steady' = [steady EXCEPT ![c] = {}]
    /\ UNCHANGED <<managerVars, logins, serviceVars>>

\* The error reply.
Reply(c) ==
    /\ At(c, "failed")
    /\ job' = [job EXCEPT ![c] = NoJob]
    /\ steady' = [steady EXCEPT ![c] = {}]
    /\ UNCHANGED <<managerVars, logins, serviceVars, conns>>

Next ==
    \/ \E u \in Upstream, in, up \in BOOLEAN, l \in Latency \cup {0} : EntryMoves(u, in, up, l)
    \/ \E accts \in SUBSET Account : IndexRebuilt(accts)
    \/ \E p \in BOOLEAN : SetLatencyRouting(p)
    \/ \E c \in Client, a \in Account : Login(c, a)
    \/ \E c \in Client : \/ Asks(c) \/ Leaves(c) \/ Authenticate(c)
                         \/ SortHealthy(c) \/ ReadMode(c) \/ GetBound(c) \/ CheckBound(c)
                         \/ GivesUp(c) \/ DialFails(c) \/ DialSucceeds(c)
                         \/ RememberSticky(c) \/ WrapConn(c) \/ Close(c) \/ Reply(c)

Spec == Init /\ [][Next]_vars

----------------------------------------------------------------------------
\* Properties

\* "The bound upstream first when it is healthy" (dispatcher.go:126): the candidates are
\* read in four pieces, yet a request in the default mode whose upstream was healthy from
\* the first piece to the last tries no other upstream before it.
BoundServesFirst ==
    \A c \in Client :
        /\ job[c].pc \in {"dial", "remember", "wrap", "relay", "failed"}
        /\ ~job[c].mode /\ BoundOf(c) \in steady[c]
        => Head(job[c].list) = BoundOf(c)

\* A request fails only when no upstream was healthy all the time since its candidates
\* were collected without being dialled, in either mode, whatever the manager and the
\* settings changed between the reads.
NoUpstreamMissed ==
    \A c \in Client : At(c, "failed") =>
        \A u \in steady[c] : \E i \in DOMAIN job[c].list : job[c].list[i] = u /\ i < job[c].at

\* What the collector calls the active connections of an account are the ones relayed for
\* it, however its connections begin, fail and end side by side.
ConnsBalanced ==
    \A a \in Account : conns[a] = Cardinality({c \in Client : At(c, "relay") /\ Acct(c) = a})

\* Outside the global mode the table of exits is empty ("returns an empty map",
\* dispatcher.go:114), although requests note their exits long after they have read the
\* mode and the mode is switched in between.
StickyOnlyPreferred == ~prefer => DOMAIN sticky = {}

=============================================================================
