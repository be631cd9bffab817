--------------------------- MODULE DispatcherProofs ---------------------------
(***************************************************************************)
(* Proofs about Dispatcher, for any numbers of upstreams, accounts and     *)
(* clients.                                                                *)
(***************************************************************************)
EXTENDS Dispatcher, FiniteSetTheorems, TLAPS

----------------------------------------------------------------------------
\* The candidate list

\* Sorting lists every usable upstream once.
LEMMA SortedIsList ==
    ASSUME TypeOK, NEW s \in [1..Cardinality(usable) -> usable], Sorted(s)
    PROVE  s \in Seq(Upstream) /\ IsInjective(s) /\ Range(s) = usable
<1>1. Cardinality(usable) \in Nat
  BY DispatcherAssumption, FS_Subset, FS_CardinalityType DEF TypeOK
<1>2. s \in Seq(Upstream)
  BY <1>1 DEF TypeOK
<1>3. \A u \in Upstream : ~Before(u, u)
  <2> SUFFICES ASSUME NEW u \in Upstream PROVE ~Before(u, u)
    OBVIOUS
  <2>1. lat[u] \in Nat
    <3>1. lat[u] \in Latency \cup {0}
      BY DEF TypeOK
    <3>2. \A l \in Latency : l \in Nat
      BY DispatcherAssumption
    <3> QED
      BY <3>1, <3>2
  <2>2. Rank[u] \in Nat
    BY DispatcherAssumption
  <2> QED
    BY <2>1, <2>2 DEF Before, Faster
<1>4. IsInjective(s)
  <2> SUFFICES ASSUME NEW i \in DOMAIN s, NEW j \in DOMAIN s, s[i] = s[j] PROVE i = j
    BY DEF IsInjective
  <2>1. i \in Int /\ j \in Int /\ s[i] \in Upstream
    BY <1>1 DEF TypeOK
  <2>2. ~(i < j) /\ ~(j < i)
    BY <1>3, <2>1 DEF Sorted
  <2> QED
    BY <2>1, <2>2
<1> QED
  BY <1>2, <1>4 DEF Sorted

\* Taking b out of a list without repetitions leaves the others, each once.
LEMMA WithoutDrops ==
    ASSUME NEW s \in Seq(Upstream), IsInjective(s), NEW b \in Upstream
    PROVE  /\ Without(b, s) \in Seq(Upstream)
           /\ IsInjective(Without(b, s))
           /\ Range(Without(b, s)) = Range(s) \ {b}
<1>1. CASE b \notin Range(s)
  BY <1>1 DEF Without
<1>2. CASE b \in Range(s)
  <2> DEFINE p == Place(b, s)
             w == [i \in 1..(Len(s) - 1) |-> IF i < p THEN s[i] ELSE s[i + 1]]
  <2>1. p \in DOMAIN s /\ s[p] = b
    BY <1>2 DEF Place, Range
  <2>2. DOMAIN s = 1..Len(s) /\ Len(s) \in Nat /\ p \in 1..Len(s)
    BY <2>1
  <2>3. \A i \in 1..(Len(s) - 1) : w[i] = s[IF i < p THEN i ELSE i + 1]
    BY <2>2
  <2>4. w \in Seq(Upstream) /\ DOMAIN w = 1..(Len(s) - 1)
    <3>1. \A i \in 1..(Len(s) - 1) : w[i] \in Upstream
      BY <2>2, <2>3
    <3> QED
      BY <2>2, <3>1
  <2>5. IsInjective(w)
    <3> SUFFICES ASSUME NEW i \in DOMAIN w, NEW j \in DOMAIN w, w[i] = w[j] PROVE i = j
      BY DEF IsInjective
    <3> DEFINE f(k) == IF k < p THEN k ELSE k + 1
    <3>1. f(i) \in DOMAIN s /\ f(j) \in DOMAIN s /\ s[f(i)] = s[f(j)]
      BY <2>2, <2>3, <2>4
    <3>2. f(i) = f(j)
      BY <3>1 DEF IsInjective
    <3> QED
      BY <2>2, <2>4, <3>2
  <2>6. Range(w) = Range(s) \ {b}
    <3>1. ASSUME NEW i \in DOMAIN w PROVE w[i] \in Range(s) \ {b}
      <4> DEFINE k == IF i < p THEN i ELSE i + 1
      <4>1. k \in DOMAIN s /\ k # p /\ w[i] = s[k]
        BY <2>2, <2>3, <2>4
      <4> QED
        BY <2>1, <4>1 DEF Range, IsInjective
    <3>2. ASSUME NEW k \in DOMAIN s, s[k] # b PROVE \E i \in DOMAIN w : w[i] = s[k]
      <4>1. CASE k < p
        <5>1. k \in DOMAIN w /\ w[k] = s[k]
          BY <2>2, <2>3, <2>4, <4>1
        <5> QED
          BY <5>1
      <4>2. CASE k > p
        <5>1. k - 1 \in DOMAIN w /\ w[k - 1] = s[k]
          BY <2>2, <2>3, <2>4, <4>2
        <5> QED
          BY <5>1
      <4> QED
        BY <2>1, <2>2, <3>2, <4>1, <4>2
    <3> QED
      BY <3>1, <3>2 DEF Range
  <2>7. Without(b, s) = w
    BY <1>2 DEF Without
  <2> QED
    BY <2>4, <2>5, <2>6, <2>7
<1> QED
  BY <1>1, <1>2

\* Promoting b keeps the list free of repetitions and leaves nobody out.
LEMMA PromotedIsList ==
    ASSUME NEW s \in Seq(Upstream), IsInjective(s), NEW b \in Upstream
    PROVE  /\ Promoted(b, s) \in Seq(Upstream)
           /\ IsInjective(Promoted(b, s))
           /\ Range(Promoted(b, s)) = Range(s) \cup {b}
           /\ Head(Promoted(b, s)) = b
<1> DEFINE w == Without(b, s)
           l == Promoted(b, s)
<1>1. w \in Seq(Upstream) /\ IsInjective(w) /\ Range(w) = Range(s) \ {b}
  BY WithoutDrops
<1> HIDE DEF w
<1>2. /\ l \in Seq(Upstream) /\ Len(l) = Len(w) + 1 /\ l[1] = b
      /\ \A i \in 1..Len(w) : l[i + 1] = w[i]
  BY <1>1 DEF Promoted, w
<1> HIDE DEF l
<1>3. \A i \in DOMAIN l : i = 1 \/ (i - 1 \in DOMAIN w /\ l[i] = w[i - 1])
  BY <1>1, <1>2
<1>4. \A i \in DOMAIN w : w[i] # b
  BY <1>1 DEF Range
<1>5. IsInjective(l)
  <2> SUFFICES ASSUME NEW i \in DOMAIN l, NEW j \in DOMAIN l, l[i] = l[j] PROVE i = j
    BY DEF IsInjective
  <2>1. i \in Int /\ j \in Int
    BY <1>2
  <2>2. CASE i = 1 \/ j = 1
    BY <1>2, <1>3, <1>4, <2>2
  <2>3. CASE i # 1 /\ j # 1
    <3>1. i - 1 \in DOMAIN w /\ j - 1 \in DOMAIN w /\ w[i - 1] = w[j - 1]
      BY <1>3, <2>3
    <3>2. i - 1 = j - 1
      BY <1>1, <3>1 DEF IsInjective
    <3> QED
      BY <2>1, <3>2
  <2> QED
    BY <2>2, <2>3
<1>6. Range(l) = Range(w) \cup {b}
  <2>1. \A i \in DOMAIN l : l[i] \in Range(w) \cup {b}
    BY <1>2, <1>3 DEF Range
  <2>2. b \in Range(l)
    BY <1>2 DEF Range
  <2>3. \A i \in DOMAIN w : w[i] \in Range(l)
    <3> SUFFICES ASSUME NEW i \in DOMAIN w PROVE w[i] \in Range(l)
      OBVIOUS
    <3>1. i + 1 \in DOMAIN l /\ l[i + 1] = w[i]
      BY <1>1, <1>2
    <3> QED
      BY <3>1 DEF Range
  <2> QED
    BY <2>1, <2>2, <2>3 DEF Range
<1>7. Head(l) = b
  BY <1>2
<1> QED
  BY <1>1, <1>2, <1>5, <1>6, <1>7 DEF l

----------------------------------------------------------------------------
\* Types

\* A goroutine past the handshake has a task, and no upstream twice on its list.
LEMMA BusyTask ==
    ASSUME TypeOK, NEW c \in Client, job[c].pc # "idle"
    PROVE  job[c] \in Task /\ IsInjective(job[c].list)
<1>1. job[c] \in Job /\ job[c] # NoJob
  BY DEF TypeOK, NoJob
<1> QED
  BY <1>1 DEF TypeOK, Job

\* A step that gives one goroutine a well-formed job leaves all jobs well formed.
LEMMA JobStep ==
    ASSUME TypeOK, NEW c \in Client, NEW r \in Job, r # NoJob => IsInjective(r.list),
           job' = [job EXCEPT ![c] = r]
    PROVE  /\ job' \in [Client -> Job]
           /\ \A d \in Client : job'[d] # NoJob => IsInjective(job'[d].list)
           /\ job'[c] = r
           /\ \A d \in Client \ {c} : job'[d] = job[d]
BY DEF TypeOK

\* Going on keeps the task but for its place.
LEMMA GotoStep ==
    ASSUME TypeOK, NEW c \in Client, job[c].pc # "idle", NEW p \in Busy, Goto(c, p)
    PROVE  /\ job' \in [Client -> Job]
           /\ \A d \in Client : job'[d] # NoJob => IsInjective(job'[d].list)
           /\ job'[c] = [job[c] EXCEPT !.pc = p]
           /\ \A d \in Client \ {c} : job'[d] = job[d]
<1> DEFINE r == [job[c] EXCEPT !.pc = p]
<1>1. job[c] \in Task /\ IsInjective(job[c].list)
  BY BusyTask
<1>2. r \in Job /\ r.list = job[c].list
  BY <1>1 DEF Task, Job
<1>3. job' = [job EXCEPT ![c] = r]
  BY DEF Goto
<1> HIDE DEF r
<1>4. r \in Job /\ (r # NoJob => IsInjective(r.list))
  BY <1>1, <1>2
<1>5. /\ job' \in [Client -> Job]
      /\ \A d \in Client : job'[d] # NoJob => IsInjective(job'[d].list)
      /\ job'[c] = r
      /\ \A d \in Client \ {c} : job'[d] = job[d]
  BY <1>3, <1>4, JobStep
<1> QED
  BY <1>5 DEF r

LEMMA IdleStep ==
    ASSUME TypeOK, NEW c \in Client, job' = [job EXCEPT ![c] = NoJob]
    PROVE  /\ job' \in [Client -> Job]
           /\ \A d \in Client : job'[d] # NoJob => IsInjective(job'[d].list)
           /\ job'[c] = NoJob
           /\ \A d \in Client \ {c} : job'[d] = job[d]
BY JobStep DEF Job

\* The connections relayed for an account, and how a step changes them.
Relayed(a) == {c \in Client : At(c, "relay") /\ Acct(c) = a}

LEMMA RelayedFinite == \A a : IsFiniteSet(Relayed(a))
BY DispatcherAssumption, FS_Subset DEF Relayed

\* A goroutine that has dialled stands at an upstream of its list.
Dialled == \A c \in Client : At(c, "remember") => job[c].at \in DOMAIN job[c].list

LEMMA TypeNext ==
    ASSUME TypeOK, ConnsBalanced, Dialled, [Next]_vars
    PROVE  TypeOK'
<1> USE DEF managerVars, serviceVars
<1> DEFINE JobsOK == /\ job' \in [Client -> Job]
                     /\ \A d \in Client : job'[d] # NoJob => IsInjective(job'[d].list)
<1>1. ASSUME NEW u \in Upstream, NEW in \in BOOLEAN, NEW up \in BOOLEAN,
             NEW l \in Latency \cup {0}, EntryMoves(u, in, up, l)
      PROVE  TypeOK'
  <2>1. there' \subseteq Upstream /\ usable' \subseteq there'
    BY <1>1 DEF EntryMoves, TypeOK
  <2>2. lat' \in [Upstream -> Latency \cup {0}]
    BY <1>1 DEF EntryMoves, TypeOK
  <2>3. steady' \in [Client -> SUBSET Upstream]
    BY <1>1 DEF EntryMoves, TypeOK
  <2> QED
    BY <1>1, <2>1, <2>2, <2>3 DEF EntryMoves, TypeOK
<1>2. ASSUME NEW accts \in SUBSET Account, IndexRebuilt(accts) PROVE TypeOK'
  BY <1>2 DEF IndexRebuilt, TypeOK
<1>3. ASSUME NEW p \in BOOLEAN, SetLatencyRouting(p) PROVE TypeOK'
  <2>1. DOMAIN sticky' \subseteq Account /\ sticky' \in [DOMAIN sticky' -> Upstream]
    BY <1>3 DEF SetLatencyRouting, Nobody
  <2> QED
    BY <1>3, <2>1 DEF SetLatencyRouting, TypeOK
<1>4. ASSUME JobsOK, steady' \in [Client -> SUBSET Upstream],
             UNCHANGED <<managerVars, logins, serviceVars, conns>>
      PROVE  TypeOK'
  BY <1>4 DEF TypeOK
<1>5. ASSUME NEW c \in Client PROVE [steady EXCEPT ![c] = {}] \in [Client -> SUBSET Upstream]
  BY DEF TypeOK
<1>6. ASSUME NEW c \in Client, NEW a \in Account, Login(c, a) PROVE TypeOK'
  <2> DEFINE r == [pc |-> "request", acct |-> a, mode |-> FALSE, list |-> <<>>, at |-> 1]
  <2>1. r \in Job /\ IsInjective(r.list)
    BY DEF Job, Task, Busy, IsInjective
  <2>2. job' = [job EXCEPT ![c] = r]
    BY <1>6 DEF Login
  <2> HIDE DEF r
  <2>3. JobsOK
    BY <2>1, <2>2, JobStep
  <2> QED
    BY <1>4, <1>6, <2>3 DEF Login, TypeOK
<1>7. ASSUME NEW c \in Client, Asks(c) PROVE TypeOK'
  <2>1. JobsOK
    BY <1>7, GotoStep DEF Asks, At, Busy
  <2> QED
    BY <1>4, <1>7, <2>1 DEF Asks, TypeOK
<1>8. ASSUME NEW c \in Client, Leaves(c) PROVE TypeOK'
  <2>1. JobsOK
    BY <1>8, IdleStep DEF Leaves
  <2> QED
    BY <1>4, <1>8, <2>1 DEF Leaves, TypeOK
<1>9. ASSUME NEW c \in Client, Authenticate(c) PROVE TypeOK'
  <2>1. JobsOK
    BY <1>9, GotoStep DEF Authenticate, At, Busy
  <2> QED
    BY <1>4, <1>9, <2>1 DEF Authenticate, TypeOK
<1>10. ASSUME NEW c \in Client, SortHealthy(c) PROVE TypeOK'
  <2>1. PICK s \in [1..Cardinality(usable) -> usable] :
            /\ Sorted(s)
            /\ job' = [job EXCEPT ![c] = [@ EXCEPT !.pc = "mode", !.list = s]]
    BY <1>10 DEF SortHealthy
  <2>2. s \in Seq(Upstream) /\ IsInjective(s)
    BY <2>1, SortedIsList
  <2> DEFINE r == [job[c] EXCEPT !.pc = "mode", !.list = s]
  <2>3. r \in Job /\ r.list = s
    BY <1>10, <2>2, BusyTask DEF SortHealthy, At, Job, Task, Busy
  <2>4. job' = [job EXCEPT ![c] = r]
    BY <2>1
  <2> HIDE DEF r
  <2>5. JobsOK
    BY <2>2, <2>3, <2>4, JobStep
  <2>6. steady' \in [Client -> SUBSET Upstream]
    BY <1>10 DEF SortHealthy, TypeOK
  <2> QED
    BY <1>4, <1>10, <2>5, <2>6 DEF SortHealthy
<1>11. ASSUME NEW c \in Client, ReadMode(c) PROVE TypeOK'
  <2> DEFINE r == [job[c] EXCEPT !.pc = IF prefer THEN "dial" ELSE "bound", !.mode = prefer]
  <2>1. job[c] \in Task /\ IsInjective(job[c].list)
    BY <1>11, BusyTask DEF ReadMode, At
  <2>2. prefer \in BOOLEAN
    BY DEF TypeOK
  <2>3. r \in Job /\ r.list = job[c].list
    BY <2>1, <2>2 DEF Job, Task, Busy
  <2>4. job' = [job EXCEPT ![c] = r]
    BY <1>11 DEF ReadMode
  <2> HIDE DEF r
  <2>5. JobsOK
    BY <2>1, <2>3, <2>4, JobStep
  <2> QED
    BY <1>4, <1>11, <2>5 DEF ReadMode, TypeOK
<1>12. ASSUME NEW c \in Client, GetBound(c) PROVE TypeOK'
  <2>1. JobsOK
    BY <1>12, GotoStep DEF GetBound, At, Busy
  <2> QED
    BY <1>4, <1>12, <2>1 DEF GetBound, TypeOK
<1>13. ASSUME NEW c \in Client, CheckBound(c) PROVE TypeOK'
  <2> DEFINE q == IF BoundOf(c) \in usable THEN Promoted(BoundOf(c), job[c].list)
                  ELSE job[c].list
             r == [job[c] EXCEPT !.pc = "dial", !.list = q]
  <2>1. job[c] \in Task /\ IsInjective(job[c].list)
    BY <1>13, BusyTask DEF CheckBound, At
  <2>2. job[c].list \in Seq(Upstream) /\ BoundOf(c) \in Upstream
    BY <2>1, DispatcherAssumption DEF Task, BoundOf, Acct
  <2>3. q \in Seq(Upstream) /\ IsInjective(q)
    BY <2>1, <2>2, PromotedIsList
  <2>4. job' = [job EXCEPT ![c] = r]
    BY <1>13 DEF CheckBound
  <2> HIDE DEF q
  <2>5. r \in Job /\ r.list = q
    BY <2>1, <2>3 DEF Job, Task, Busy
  <2> HIDE DEF r
  <2>6. JobsOK
    BY <2>3, <2>4, <2>5, JobStep
  <2> QED
    BY <1>4, <1>13, <2>6 DEF CheckBound, TypeOK
<1>14. ASSUME NEW c \in Client, GivesUp(c) PROVE TypeOK'
  <2>1. JobsOK
    BY <1>14, GotoStep DEF GivesUp, At, Busy
  <2> QED
    BY <1>4, <1>14, <2>1 DEF GivesUp, TypeOK
<1>15. ASSUME NEW c \in Client, DialFails(c) PROVE TypeOK'
  <2> DEFINE r == [job[c] EXCEPT !.at = job[c].at + 1]
  <2>1. job[c] \in Task /\ IsInjective(job[c].list)
    BY <1>15, BusyTask DEF DialFails, At
  <2>2. r \in Job /\ r.list = job[c].list
    BY <2>1 DEF Job, Task
  <2>3. job' = [job EXCEPT ![c] = r]
    BY <1>15 DEF DialFails
  <2> HIDE DEF r
  <2>4. JobsOK
    BY <2>1, <2>2, <2>3, JobStep
  <2> QED
    BY <1>4, <1>15, <2>4 DEF DialFails, TypeOK
<1>16. ASSUME NEW c \in Client, DialSucceeds(c) PROVE TypeOK'
  <2>1. JobsOK
    BY <1>16, GotoStep DEF DialSucceeds, At, Busy
  <2> QED
    BY <1>4, <1>16, <2>1 DEF DialSucceeds, TypeOK
<1>17. ASSUME NEW c \in Client, RememberSticky(c) PROVE TypeOK'
  <2>1. Acct(c) \in Account /\ Exit(c) \in Upstream
    <3>1. job[c] \in Task /\ job[c].at \in DOMAIN job[c].list
      BY <1>17, BusyTask DEF RememberSticky, At, Dialled
    <3> QED
      BY <3>1 DEF Acct, Exit, Task
  <2>2. JobsOK
    BY <1>17, GotoStep DEF RememberSticky, At, Busy
  <2>3. DOMAIN sticky' \subseteq Account /\ sticky' \in [DOMAIN sticky' -> Upstream]
    <3>1. CASE prefer
      <4>1. sticky' = Noted(c)
        BY <1>17, <3>1 DEF RememberSticky
      <4>2. \A a \in DOMAIN sticky : sticky[a] \in Upstream
        BY DEF TypeOK
      <4>3. DOMAIN sticky \subseteq Account
        BY DEF TypeOK
      <4> QED
        BY <2>1, <4>1, <4>2, <4>3 DEF Noted
    <3>2. CASE ~prefer
      BY <1>17, <3>2 DEF RememberSticky, TypeOK
    <3> QED
      BY <3>1, <3>2
  <2> QED
    BY <1>17, <2>2, <2>3 DEF RememberSticky, TypeOK
<1>18. ASSUME NEW c \in Client, WrapConn(c) PROVE TypeOK'
  <2>1. JobsOK
    BY <1>18, GotoStep DEF WrapConn, At, Busy
  <2>2. Acct(c) \in Account
    BY <1>18, BusyTask DEF WrapConn, At, Acct, Task
  <2>3. conns[Acct(c)] \in Nat /\ conns \in [Account -> Nat]
    BY <2>2 DEF TypeOK
  <2>4. conns' \in [Account -> Nat]
    BY <1>18, <2>2, <2>3 DEF WrapConn
  <2> QED
    BY <1>18, <2>1, <2>4 DEF WrapConn, TypeOK
<1>19. ASSUME NEW c \in Client, Close(c) PROVE TypeOK'
  <2>1. JobsOK
    BY <1>19, IdleStep DEF Close
  <2>2. job[c] \in Task
    BY <1>19, BusyTask DEF Close, At
  <2> DEFINE a == Acct(c)
  <2>3. a \in Account /\ c \in Relayed(a)
    BY <1>19, <2>2 DEF Close, Relayed, Acct, Task
  <2>4. conns[a] = Cardinality(Relayed(a)) /\ conns[a] \in Nat
    BY <2>3 DEF ConnsBalanced, Relayed, TypeOK
  <2>5. conns[a] # 0
    BY <2>3, <2>4, RelayedFinite, FS_EmptySet
  <2>6. conns' = [conns EXCEPT ![a] = @ - 1]
    BY <1>19 DEF Close
  <2> HIDE DEF a
  <2>7. conns' \in [Account -> Nat]
    BY <2>3, <2>4, <2>5, <2>6 DEF TypeOK
  <2> QED
    BY <1>5, <1>19, <2>1, <2>7 DEF Close, TypeOK
<1>20. ASSUME NEW c \in Client, Reply(c) PROVE TypeOK'
  <2>1. JobsOK
    BY <1>20, IdleStep DEF Reply
  <2> QED
    BY <1>4, <1>5, <1>20, <2>1 DEF Reply
<1>21. CASE UNCHANGED vars
  BY <1>21 DEF vars, TypeOK
<1> QED
  BY <1>1, <1>2, <1>3, <1>6, <1>7, <1>8, <1>9, <1>10, <1>11, <1>12, <1>13, <1>14, <1>15,
     <1>16, <1>17, <1>18, <1>19, <1>20, <1>21 DEF Next

----------------------------------------------------------------------------
\* What a goroutine knows of its list

\* The upstreams that stayed healthy are on the list, the bound one first in the default
\* mode; before sorting nothing is owed; a dial that failed for good went through them all.
Chosen(c) ==
    /\ steady[c] \subseteq usable
    /\ job[c].pc \in {"idle", "request", "route", "sort"} => steady[c] = {}
    /\ job[c].pc # "idle" => steady[c] \subseteq Range(job[c].list)
    /\ At(c, "remember") => job[c].at \in DOMAIN job[c].list
    /\ At(c, "failed") => steady[c] = {} \/ job[c].at > Len(job[c].list)
    /\ job[c].pc \in {"dial", "remember", "wrap", "relay", "failed"} =>
           job[c].mode \/ BoundOf(c) \notin steady[c] \/ Head(job[c].list) = BoundOf(c)

ChosenWell == \A c \in Client : Chosen(c)

\* The others' steps, and the manager's, only shrink what is owed to a goroutine.
LEMMA ChosenBystander ==
    ASSUME NEW d \in Client, Chosen(d), job'[d] = job[d],
           steady'[d] \subseteq steady[d], steady'[d] \subseteq usable'
    PROVE  Chosen(d)'
BY DEF Chosen, At, BoundOf, Acct

\* So a step of one goroutine need only be judged by what it does for that one.
LEMMA ChosenByOne ==
    ASSUME TypeOK, ChosenWell, NEW c \in Client, usable' = usable, Chosen(c)',
           \A d \in Client \ {c} : job'[d] = job[d] /\ steady'[d] = steady[d]
    PROVE  ChosenWell'
<1> SUFFICES ASSUME NEW d \in Client PROVE Chosen(d)'
  BY DEF ChosenWell
<1>1. CASE d = c
  BY <1>1
<1>2. CASE d # c
  <2>1. Chosen(d) /\ steady[d] \subseteq usable
    BY DEF ChosenWell, Chosen
  <2>2. job'[d] = job[d] /\ steady'[d] = steady[d]
    BY <1>2
  <2> QED
    BY <2>1, <2>2, ChosenBystander
<1> QED
  BY <1>1, <1>2

LEMMA ChosenNext ==
    ASSUME TypeOK, ChosenWell, [Next]_vars
    PROVE  ChosenWell'
<1> USE DEF managerVars, serviceVars
<1>1. ASSUME NEW u \in Upstream, NEW in \in BOOLEAN, NEW up \in BOOLEAN,
             NEW l \in Latency \cup {0}, EntryMoves(u, in, up, l)
      PROVE  ChosenWell'
  <2> SUFFICES ASSUME NEW d \in Client PROVE Chosen(d)'
    BY DEF ChosenWell
  <2>1. steady'[d] = steady[d] \cap usable' /\ job'[d] = job[d]
    BY <1>1 DEF EntryMoves
  <2> QED
    BY <2>1, ChosenBystander DEF ChosenWell
<1>2. ASSUME UNCHANGED <<usable, job, steady>> PROVE ChosenWell'
  BY <1>2, ChosenBystander DEF ChosenWell, Chosen
<1>3. ASSUME NEW accts \in SUBSET Account, IndexRebuilt(accts) PROVE ChosenWell'
  BY <1>2, <1>3 DEF IndexRebuilt
<1>4. ASSUME NEW p \in BOOLEAN, SetLatencyRouting(p) PROVE ChosenWell'
  BY <1>2, <1>4 DEF SetLatencyRouting
<1>5. ASSUME NEW c \in Client, NEW a \in Account, Login(c, a) PROVE ChosenWell'
  <2>1. /\ job'[c] = [pc |-> "request", acct |-> a, mode |-> FALSE, list |-> <<>>, at |-> 1]
        /\ \A d \in Client \ {c} : job'[d] = job[d]
    BY <1>5 DEF Login, TypeOK
  <2>2. steady[c] = {}
    BY <1>5 DEF Login, At, ChosenWell, Chosen
  <2>3. Chosen(c)'
    BY <1>5, <2>1, <2>2 DEF Login, Chosen, At
  <2> QED
    BY <1>5, <2>1, <2>3, ChosenByOne DEF Login
<1>6. ASSUME NEW c \in Client, NEW p \in Busy, Goto(c, p), job[c].pc # "idle",
             UNCHANGED <<usable, steady>>,
             p \in {"request", "route", "sort"} => steady[c] = {},
             p = "remember" => job[c].at \in DOMAIN job[c].list,
             p = "failed" => steady[c] = {} \/ job[c].at > Len(job[c].list),
             p \in {"dial", "remember", "wrap", "relay", "failed"} =>
                 \/ BoundOf(c) \notin steady[c]
                 \/ job[c].pc \in {"dial", "remember", "wrap", "relay"}
      PROVE  ChosenWell'
  <2>1. job'[c] = [job[c] EXCEPT !.pc = p] /\ \A d \in Client \ {c} : job'[d] = job[d]
    BY <1>6, GotoStep
  <2>2. job[c] \in Task
    BY <1>6, BusyTask
  <2>3. /\ job'[c].pc = p /\ job'[c].list = job[c].list /\ job'[c].at = job[c].at
        /\ job'[c].mode = job[c].mode /\ job'[c].acct = job[c].acct
    BY <2>1, <2>2 DEF Task
  <2>4. p # "idle"
    BY DEF Busy
  <2>5. Chosen(c)
    BY DEF ChosenWell
  <2>6. Chosen(c)'
    BY <1>6, <2>3, <2>4, <2>5 DEF Chosen, At, BoundOf, Acct
  <2> QED
    BY <1>6, <2>1, <2>6, ChosenByOne
<1>7. ASSUME NEW c \in Client, job' = [job EXCEPT ![c] = NoJob], usable' = usable,
             \/ steady' = [steady EXCEPT ![c] = {}]
             \/ steady' = steady /\ steady[c] = {}
      PROVE  ChosenWell'
  <2>1. job'[c] = NoJob /\ \A d \in Client \ {c} : job'[d] = job[d]
    BY <1>7, IdleStep
  <2>2. steady'[c] = {} /\ \A d \in Client \ {c} : steady'[d] = steady[d]
    BY <1>7 DEF TypeOK
  <2>3. Chosen(c)'
    BY <2>1, <2>2 DEF Chosen, At, NoJob
  <2> QED
    BY <1>7, <2>1, <2>2, <2>3, ChosenByOne
<1>8. ASSUME NEW c \in Client, Asks(c) PROVE ChosenWell'
  <2>1. steady[c] = {} /\ job[c].pc # "idle"
    BY <1>8 DEF Asks, At, ChosenWell, Chosen
  <2> QED
    BY <1>6, <1>8, <2>1 DEF Asks, Busy
<1>9. ASSUME NEW c \in Client, Leaves(c) PROVE ChosenWell'
  BY <1>7, <1>9 DEF Leaves, At, ChosenWell, Chosen
<1>10. ASSUME NEW c \in Client, Authenticate(c) PROVE ChosenWell'
  <2>1. steady[c] = {} /\ job[c].pc # "idle"
    BY <1>10 DEF Authenticate, At, ChosenWell, Chosen
  <2> QED
    BY <1>6, <1>10, <2>1 DEF Authenticate, Busy
<1>11. ASSUME NEW c \in Client, SortHealthy(c) PROVE ChosenWell'
  <2>1. PICK s \in [1..Cardinality(usable) -> usable] :
            /\ Sorted(s)
            /\ job' = [job EXCEPT ![c] = [@ EXCEPT !.pc = "mode", !.list = s]]
    BY <1>11 DEF SortHealthy
  <2>2. job[c] \in Task
    BY <1>11, BusyTask DEF SortHealthy, At
  <2>3. /\ job'[c].pc = "mode" /\ job'[c].list = s
        /\ \A d \in Client \ {c} : job'[d] = job[d]
    BY <2>1, <2>2 DEF TypeOK, Task
  <2>4. steady'[c] = usable /\ \A d \in Client \ {c} : steady'[d] = steady[d]
    BY <1>11 DEF SortHealthy, TypeOK
  <2>5. usable' = usable /\ Range(s) = usable
    BY <1>11, <2>1 DEF SortHealthy, Sorted
  <2>6. Chosen(c)'
    BY <2>3, <2>4, <2>5 DEF Chosen, At
  <2> QED
    BY <2>3, <2>4, <2>5, <2>6, ChosenByOne
<1>12. ASSUME NEW c \in Client, ReadMode(c) PROVE ChosenWell'
  <2>1. job[c] \in Task
    BY <1>12, BusyTask DEF ReadMode, At
  <2>2. /\ job'[c].pc = IF prefer THEN "dial" ELSE "bound"
        /\ job'[c].mode = prefer /\ job'[c].list = job[c].list
        /\ \A d \in Client \ {c} : job'[d] = job[d]
    BY <1>12, <2>1 DEF ReadMode, TypeOK, Task
  <2>3. Chosen(c) /\ job[c].pc = "mode"
    BY <1>12 DEF ChosenWell, ReadMode, At
  <2>4. Chosen(c)'
    BY <1>12, <2>2, <2>3 DEF ReadMode, Chosen, At
  <2> QED
    BY <1>12, <2>2, <2>4, ChosenByOne DEF ReadMode
<1>13. ASSUME NEW c \in Client, GetBound(c) PROVE ChosenWell'
  <2>1. job[c].pc = "bound"
    BY <1>13 DEF GetBound, At
  <2>2. CASE BoundOf(c) \in there
    <3>1. Goto(c, "check")
      BY <1>13, <2>2 DEF GetBound
    <3> QED
      BY <1>6, <1>13, <2>1, <3>1 DEF GetBound, Busy
  <2>3. CASE BoundOf(c) \notin there
    <3>1. Goto(c, "dial")
      BY <1>13, <2>3 DEF GetBound
    <3>2. BoundOf(c) \notin steady[c]
      BY <2>3 DEF ChosenWell, Chosen, TypeOK
    <3> QED
      BY <1>6, <1>13, <2>1, <3>1, <3>2 DEF GetBound, Busy
  <2> QED
    BY <2>2, <2>3
<1>14. ASSUME NEW c \in Client, CheckBound(c) PROVE ChosenWell'
  <2> DEFINE b == BoundOf(c)
             q == IF b \in usable THEN Promoted(b, job[c].list) ELSE job[c].list
  <2>1. job[c] \in Task /\ IsInjective(job[c].list)
    BY <1>14, BusyTask DEF CheckBound, At
  <2>2. job[c].list \in Seq(Upstream) /\ b \in Upstream
    BY <2>1, DispatcherAssumption DEF Task, BoundOf, Acct
  <2>3. /\ Range(job[c].list) \subseteq Range(q)
        /\ b \in usable => Head(q) = b
    BY <2>1, <2>2, PromotedIsList
  <2>4. /\ job'[c].pc = "dial" /\ job'[c].list = q /\ job'[c].acct = job[c].acct
        /\ \A d \in Client \ {c} : job'[d] = job[d]
    BY <1>14, <2>1 DEF CheckBound, TypeOK, Task
  <2>5. Chosen(c) /\ job[c].pc = "check"
    BY <1>14 DEF ChosenWell, CheckBound, At
  <2>6. BoundOf(c)' = b
    BY <2>4 DEF BoundOf, Acct
  <2>7. usable' = usable /\ steady' = steady
    BY <1>14 DEF CheckBound
  <2> HIDE DEF q, b
  <2>8. Chosen(c)'
    BY <2>3, <2>4, <2>5, <2>6, <2>7 DEF Chosen, At
  <2> QED
    BY <2>4, <2>7, <2>8, ChosenByOne
<1>15. ASSUME NEW c \in Client, GivesUp(c) PROVE ChosenWell'
  BY <1>6, <1>15 DEF GivesUp, At, Busy
<1>16. ASSUME NEW c \in Client, DialFails(c) PROVE ChosenWell'
  <2>1. job[c] \in Task
    BY <1>16, BusyTask DEF DialFails, At
  <2>2. /\ job'[c].pc = job[c].pc /\ job'[c].list = job[c].list
        /\ job'[c].mode = job[c].mode /\ job'[c].acct = job[c].acct
        /\ \A d \in Client \ {c} : job'[d] = job[d]
    BY <1>16, <2>1 DEF DialFails, TypeOK, Task
  <2>3. Chosen(c) /\ job[c].pc = "dial"
    BY <1>16 DEF ChosenWell, DialFails, At
  <2>4. Chosen(c)'
    BY <1>16, <2>2, <2>3 DEF DialFails, Chosen, At, BoundOf, Acct
  <2> QED
    BY <1>16, <2>2, <2>4, ChosenByOne DEF DialFails
<1>17. ASSUME NEW c \in Client, DialSucceeds(c) PROVE ChosenWell'
  <2>1. job[c] \in Task /\ job[c].pc = "dial" /\ job[c].at <= Len(job[c].list)
    BY <1>17, BusyTask DEF DialSucceeds, At
  <2>2. job[c].at \in DOMAIN job[c].list
    BY <2>1 DEF Task
  <2> QED
    BY <1>6, <1>17, <2>1, <2>2 DEF DialSucceeds, Busy
<1>18. ASSUME NEW c \in Client, RememberSticky(c) PROVE ChosenWell'
  BY <1>6, <1>18 DEF RememberSticky, At, Busy
<1>19. ASSUME NEW c \in Client, WrapConn(c) PROVE ChosenWell'
  BY <1>6, <1>19 DEF WrapConn, At, Busy
<1>20. ASSUME NEW c \in Client, Close(c) PROVE ChosenWell'
  BY <1>7, <1>20 DEF Close
<1>21. ASSUME NEW c \in Client, Reply(c) PROVE ChosenWell'
  BY <1>7, <1>21 DEF Reply
<1>22. CASE UNCHANGED vars
  BY <1>2, <1>22 DEF vars
<1> QED
  BY <1>1, <1>3, <1>4, <1>5, <1>8, <1>9, <1>10, <1>11, <1>12, <1>13, <1>14, <1>15, <1>16,
     <1>17, <1>18, <1>19, <1>20, <1>21, <1>22 DEF Next

----------------------------------------------------------------------------
\* The counters

\* A step of a goroutine that neither was relaying nor is now leaves the counters right.
LEMMA RelayedElsewhere ==
    ASSUME ConnsBalanced, NEW c \in Client, conns' = conns,
           job[c].pc # "relay", job'[c].pc # "relay",
           \A d \in Client \ {c} : job'[d] = job[d]
    PROVE  ConnsBalanced'
<1>1. \A a \in Account : Relayed(a)' = Relayed(a)
  BY DEF Relayed, At, Acct
<1> QED
  BY <1>1 DEF ConnsBalanced, Relayed

LEMMA ConnsNext ==
    ASSUME TypeOK, ConnsBalanced, [Next]_vars
    PROVE  ConnsBalanced'
<1> USE DEF managerVars, serviceVars
<1>1. ASSUME UNCHANGED <<job, conns>> PROVE ConnsBalanced'
  BY <1>1 DEF ConnsBalanced, At, Acct
<1>2. ASSUME NEW c \in Client, NEW r, job' = [job EXCEPT ![c] = r], conns' = conns,
             job[c].pc # "relay", r.pc # "relay"
      PROVE  ConnsBalanced'
  <2>1. job'[c] = r /\ \A d \in Client \ {c} : job'[d] = job[d]
    BY <1>2 DEF TypeOK
  <2> QED
    BY <1>2, <2>1, RelayedElsewhere
<1>3. ASSUME NEW c \in Client, NEW p \in Busy \ {"relay"}, Goto(c, p), conns' = conns,
             job[c].pc \notin {"idle", "relay"}
      PROVE  ConnsBalanced'
  <2>1. job[c] \in Task
    BY <1>3, BusyTask
  <2>2. job'[c] = [job[c] EXCEPT !.pc = p] /\ \A d \in Client \ {c} : job'[d] = job[d]
    BY <1>3, GotoStep
  <2>3. job'[c].pc = p
    BY <2>1, <2>2 DEF Task
  <2> QED
    BY <1>3, <2>2, <2>3, RelayedElsewhere
<1>4. ASSUME NEW c \in Client, WrapConn(c) PROVE ConnsBalanced'
  <2> DEFINE k == Acct(c)
  <2>1. job[c] \in Task /\ job[c].pc = "wrap"
    BY <1>4, BusyTask DEF WrapConn, At
  <2>2. /\ job'[c] = [job[c] EXCEPT !.pc = "relay"]
         /\ \A d \in Client \ {c} : job'[d] = job[d]
    BY <1>4, <2>1, GotoStep DEF WrapConn, Busy
  <2>3. /\ job'[c].pc = "relay" /\ job'[c].acct = k
        /\ \A d \in Client \ {c} : job'[d] = job[d]
    BY <2>1, <2>2 DEF Task, Acct
  <2>4. k \in Account
    BY <2>1 DEF Acct, Task
  <2>5. conns' = [conns EXCEPT ![k] = @ + 1]
    BY <1>4 DEF WrapConn
  <2> HIDE DEF k
  <2> SUFFICES ASSUME NEW a \in Account PROVE conns'[a] = Cardinality(Relayed(a)')
    BY DEF ConnsBalanced, Relayed
  <2>6. conns[a] = Cardinality(Relayed(a)) /\ conns[a] \in Nat
    BY DEF ConnsBalanced, Relayed, TypeOK
  <2>7. CASE a = k
    <3>1. Relayed(a)' = Relayed(a) \cup {c} /\ c \notin Relayed(a)
      BY <2>1, <2>3, <2>7 DEF Relayed, At, Acct
    <3>2. Cardinality(Relayed(a)') = Cardinality(Relayed(a)) + 1
      BY <3>1, RelayedFinite, FS_AddElement
    <3>3. conns'[a] = conns[a] + 1
      BY <2>5, <2>7 DEF TypeOK
    <3> QED
      BY <2>6, <3>2, <3>3
  <2>8. CASE a # k
    <3>1. Relayed(a)' = Relayed(a)
      BY <2>1, <2>3, <2>8 DEF Relayed, At, Acct
    <3>2. conns'[a] = conns[a]
      BY <2>5, <2>8 DEF TypeOK
    <3> QED
      BY <2>6, <3>1, <3>2
  <2> QED
    BY <2>7, <2>8
<1>5. ASSUME NEW c \in Client, Close(c) PROVE ConnsBalanced'
  <2> DEFINE k == Acct(c)
  <2>1. job[c] \in Task /\ job[c].pc = "relay"
    BY <1>5, BusyTask DEF Close, At
  <2>2. job'[c] = NoJob /\ \A d \in Client \ {c} : job'[d] = job[d]
    BY <1>5, IdleStep DEF Close
  <2>3. k \in Account /\ job[c].acct = k
    BY <2>1 DEF Acct, Task
  <2>4. conns' = [conns EXCEPT ![k] = @ - 1]
    BY <1>5 DEF Close
  <2> HIDE DEF k
  <2> SUFFICES ASSUME NEW a \in Account PROVE conns'[a] = Cardinality(Relayed(a)')
    BY DEF ConnsBalanced, Relayed
  <2>5. conns[a] = Cardinality(Relayed(a)) /\ conns[a] \in Nat
    BY DEF ConnsBalanced, Relayed, TypeOK
  <2>6. CASE a = k
    <3>1. Relayed(a)' = Relayed(a) \ {c} /\ c \in Relayed(a)
      BY <2>1, <2>2, <2>3, <2>6 DEF Relayed, At, Acct, NoJob
    <3>2. Cardinality(Relayed(a)') = Cardinality(Relayed(a)) - 1
      BY <3>1, RelayedFinite, FS_RemoveElement
    <3>3. conns'[a] = conns[a] - 1
      BY <2>4, <2>6 DEF TypeOK
    <3> QED
      BY <2>5, <3>2, <3>3
  <2>7. CASE a # k
    <3>1. Relayed(a)' = Relayed(a)
      BY <2>1, <2>2, <2>3, <2>7 DEF Relayed, At, Acct, NoJob
    <3>2. conns'[a] = conns[a]
      BY <2>4, <2>7 DEF TypeOK
    <3> QED
      BY <2>5, <3>1, <3>2
  <2> QED
    BY <2>6, <2>7
<1>6. ASSUME NEW c \in Client,
             \/ Asks(c) \/ Authenticate(c) \/ GetBound(c) \/ GivesUp(c)
             \/ DialSucceeds(c) \/ RememberSticky(c)
      PROVE  ConnsBalanced'
  BY <1>3, <1>6 DEF Asks, Authenticate, GetBound, GivesUp, DialSucceeds, RememberSticky, At, Busy
<1>7. ASSUME NEW c \in Client, Leaves(c) \/ Reply(c) PROVE ConnsBalanced'
  BY <1>2, <1>7 DEF Leaves, Reply, At, NoJob
<1>8. ASSUME NEW c \in Client, NEW a \in Account, Login(c, a) PROVE ConnsBalanced'
  <2> DEFINE r == [pc |-> "request", acct |-> a, mode |-> FALSE, list |-> <<>>, at |-> 1]
  <2>1. job' = [job EXCEPT ![c] = r] /\ job[c].pc # "relay" /\ conns' = conns
    BY <1>8 DEF Login, At
  <2>2. r.pc # "relay"
    OBVIOUS
  <2> HIDE DEF r
  <2> QED
    BY <1>2, <2>1, <2>2
<1>9. ASSUME NEW c \in Client,
             SortHealthy(c) \/ ReadMode(c) \/ CheckBound(c) \/ DialFails(c)
      PROVE  ConnsBalanced'
  <2>1. job[c] \in Task /\ job[c].pc # "relay"
    BY <1>9, BusyTask DEF SortHealthy, ReadMode, CheckBound, DialFails, At
  <2>2. job'[c].pc # "relay" /\ \A d \in Client \ {c} : job'[d] = job[d]
    <3>1. CASE SortHealthy(c)
      BY <2>1, <3>1 DEF SortHealthy, TypeOK, Task
    <3>2. CASE ReadMode(c)
      BY <2>1, <3>2 DEF ReadMode, TypeOK, Task
    <3>3. CASE CheckBound(c)
      BY <2>1, <3>3 DEF CheckBound, TypeOK, Task
    <3>4. CASE DialFails(c)
      BY <2>1, <3>4 DEF DialFails, TypeOK, Task
    <3> QED
      BY <1>9, <3>1, <3>2, <3>3, <3>4
  <2>3. conns' = conns
    BY <1>9 DEF SortHealthy, ReadMode, CheckBound, DialFails
  <2> QED
    BY <2>1, <2>2, <2>3, RelayedElsewhere
<1>11. ASSUME NEW u \in Upstream, NEW in \in BOOLEAN, NEW up \in BOOLEAN,
              NEW l \in Latency \cup {0}, EntryMoves(u, in, up, l)
       PROVE  ConnsBalanced'
  BY <1>1, <1>11 DEF EntryMoves
<1>12. ASSUME NEW accts \in SUBSET Account, IndexRebuilt(accts) PROVE ConnsBalanced'
  BY <1>1, <1>12 DEF IndexRebuilt
<1>13. ASSUME NEW p \in BOOLEAN, SetLatencyRouting(p) PROVE ConnsBalanced'
  BY <1>1, <1>13 DEF SetLatencyRouting
<1>14. CASE UNCHANGED vars
  BY <1>1, <1>14 DEF vars
<1> QED
  BY <1>4, <1>5, <1>6, <1>7, <1>8, <1>9, <1>11, <1>12, <1>13, <1>14 DEF Next

----------------------------------------------------------------------------
\* The exits

LEMMA StickyNext ==
    ASSUME TypeOK, StickyOnlyPreferred, [Next]_vars
    PROVE  StickyOnlyPreferred'
<1> USE DEF managerVars, serviceVars
<1>1. ASSUME UNCHANGED serviceVars PROVE StickyOnlyPreferred'
  BY <1>1 DEF StickyOnlyPreferred
<1>2. ASSUME NEW p \in BOOLEAN, SetLatencyRouting(p) PROVE StickyOnlyPreferred'
  BY <1>2 DEF SetLatencyRouting, Nobody, StickyOnlyPreferred
<1>3. ASSUME NEW c \in Client, RememberSticky(c) PROVE StickyOnlyPreferred'
  BY <1>3 DEF RememberSticky, StickyOnlyPreferred
<1>4. ASSUME NEW u \in Upstream, NEW in \in BOOLEAN, NEW up \in BOOLEAN,
             NEW l \in Latency \cup {0}, EntryMoves(u, in, up, l)
      PROVE  StickyOnlyPreferred'
  BY <1>1, <1>4 DEF EntryMoves
<1>5. ASSUME NEW accts \in SUBSET Account, IndexRebuilt(accts) PROVE StickyOnlyPreferred'
  BY <1>1, <1>5 DEF IndexRebuilt
<1>6. ASSUME NEW c \in Client, NEW a \in Account, Login(c, a) PROVE StickyOnlyPreferred'
  BY <1>1, <1>6 DEF Login
<1>7. ASSUME NEW c \in Client,
             \/ Asks(c) \/ Leaves(c) \/ Authenticate(c) \/ SortHealthy(c) \/ ReadMode(c)
             \/ GetBound(c) \/ CheckBound(c) \/ GivesUp(c) \/ DialFails(c)
             \/ DialSucceeds(c) \/ WrapConn(c) \/ Close(c) \/ Reply(c)
      PROVE  StickyOnlyPreferred'
  <2>1. UNCHANGED serviceVars
    BY <1>7 DEF Asks, Leaves, Authenticate, SortHealthy, ReadMode, GetBound, CheckBound,
                GivesUp, DialFails, DialSucceeds, WrapConn, Close, Reply
  <2> QED
    BY <1>1, <2>1
<1>8. CASE UNCHANGED vars
  BY <1>1, <1>8 DEF vars
<1> QED
  BY <1>2, <1>3, <1>4, <1>5, <1>6, <1>7, <1>8 DEF Next

----------------------------------------------------------------------------
\* The theorems

IInv == TypeOK /\ ConnsBalanced /\ ChosenWell

LEMMA InitOK == Init => IInv /\ StickyOnlyPreferred
<1> SUFFICES ASSUME Init PROVE IInv /\ StickyOnlyPreferred
  OBVIOUS
<1>1. DOMAIN sticky = {} /\ sticky \in [DOMAIN sticky -> Upstream]
  BY DEF Init, Nobody
<1>2. TypeOK
  BY <1>1 DEF Init, TypeOK, Job
<1>3. ConnsBalanced
  <2> SUFFICES ASSUME NEW a \in Account PROVE conns[a] = Cardinality(Relayed(a))
    BY DEF ConnsBalanced, Relayed
  <2>1. Relayed(a) = {}
    BY DEF Init, Relayed, At, NoJob
  <2> QED
    BY <2>1, FS_EmptySet DEF Init
<1>4. ChosenWell
  BY DEF Init, ChosenWell, Chosen, At, NoJob
<1> QED
  BY <1>1, <1>2, <1>3, <1>4 DEF IInv, StickyOnlyPreferred

LEMMA IInvNext == IInv /\ [Next]_vars => IInv'
BY TypeNext, ConnsNext, ChosenNext DEF IInv, ChosenWell, Chosen, Dialled

LEMMA Invariance == Spec => []IInv
<1>1. Init => IInv
  BY InitOK
<1> QED
  BY <1>1, IInvNext, PTL DEF Spec

\* Every variable keeps its type and no request lists an upstream twice, for any numbers of
\* upstreams and clients.
THEOREM TypeCorrect == Spec => []TypeOK
BY Invariance, PTL DEF IInv

\* The active connections the collector reports are exactly the relayed ones.
THEOREM ConnectionsCounted == Spec => []ConnsBalanced
BY Invariance, PTL DEF IInv

\* In the default mode an upstream that stays healthy serves its own account first.
THEOREM BoundFirst == Spec => []BoundServesFirst
<1>1. IInv => BoundServesFirst
  BY DEF IInv, ChosenWell, Chosen, BoundServesFirst
<1> QED
  BY <1>1, Invariance, PTL

\* A request that fails has dialled every upstream that stayed healthy.
THEOREM FailsAfterAll == Spec => []NoUpstreamMissed
<1>1. IInv => NoUpstreamMissed
  <2> SUFFICES ASSUME IInv, NEW c \in Client, At(c, "failed"), NEW u \in steady[c]
               PROVE  \E i \in DOMAIN job[c].list : job[c].list[i] = u /\ i < job[c].at
    BY DEF NoUpstreamMissed
  <2>1. Chosen(c) /\ job[c] \in Task
    BY BusyTask DEF IInv, ChosenWell, At
  <2>2. u \in Range(job[c].list) /\ job[c].at > Len(job[c].list)
    BY <2>1 DEF Chosen, At
  <2>3. PICK i \in DOMAIN job[c].list : job[c].list[i] = u
    BY <2>2 DEF Range
  <2>4. job[c].list \in Seq(Upstream) /\ job[c].at \in Nat
    BY <2>1 DEF Task
  <2>5. i \in 1..Len(job[c].list) /\ Len(job[c].list) \in Nat
    BY <2>3, <2>4
  <2>6. i < job[c].at
    BY <2>2, <2>4, <2>5
  <2> QED
    BY <2>3, <2>6
<1> QED
  BY <1>1, Invariance, PTL

\* Outside the global mode the table of exits is empty.
THEOREM ExitsOnlyPreferred == Spec => []StickyOnlyPreferred
<1>1. Init => StickyOnlyPreferred
  BY InitOK
<1>2. IInv /\ StickyOnlyPreferred /\ [Next]_vars => StickyOnlyPreferred'
  BY StickyNext DEF IInv
<1> QED
  BY <1>1, <1>2, Invariance, PTL DEF Spec

=============================================================================
