-------------------------------- MODULE Relay --------------------------------
(***************************************************************************)
(* The two-way relay of a routed connection: transfer                      *)
(* (internal/inbound/socks5.go), the data that an HTTP client sent early   *)
(* after CONNECT (internal/inbound/http.go), and the counted connection to *)
(* the upstream (internal/stats/stats.go).                                 *)
(*                                                                         *)
(* Actors: the two goroutines of transfer, one per direction, each running *)
(* io.Copy; and the peers at the two ends, which send, end their half of   *)
(* the connection, stop reading or disappear as they like.  A byte has no  *)
(* content: each end is a stream, so how many bytes were sent, taken and   *)
(* delivered says which.  Connections are relayed one after the other.     *)
(***************************************************************************)
EXTENDS Stats

CONSTANTS
    Window,    \* bytes an end takes before its peer reads
    MaxBytes,  \* bound: bytes the peers send in all
    MaxConn    \* bound: connections

ASSUME RelayAssumption == Window \in Nat \ {0} /\ MaxBytes \in Nat /\ MaxConn \in Nat

End == {"client", "remote"}
Dir == Kind

VARIABLES
    phase,   \* idle, opened, early (early data is being written), relay
    end,     \* end[s]: the connection to the client or the remote
    dir,     \* dir[d]: where the goroutine of direction d stands
    dials,   \* history: the dial times of all connections
    sent,    \* history: bytes sent by the peers in all
    moved    \* history: bytes written to (up) and read from (down) the remotes

connVars == <<phase, end, dir>>
history == <<dials, sent, moved>>
vars == <<statsVars, connVars, history>>

\* sent, taken: bytes the peer sent and the proxy read; got, unread: bytes the proxy
\* wrote and the peer has not read yet; fin: the peer has ended its half; dead: the
\* connection is broken; late: the proxy has set a deadline in the past.
FreshEnd == [sent |-> 0, taken |-> 0, got |-> 0, unread |-> 0,
             fin |-> FALSE, dead |-> FALSE, late |-> FALSE]
Waiting == [pc |-> "wait", chunk |-> 0, out |-> 0]
Reading == [Waiting EXCEPT !.pc = "read"]

\* Every variable keeps its type.
TypeOK ==
    /\ StatsTypeOK
    /\ phase \in {"idle", "opened", "early", "relay"}
    /\ end \in [End -> [sent : 0..MaxBytes, taken : 0..MaxBytes, got : 0..MaxBytes,
                        unread : 0..Window, fin : BOOLEAN, dead : BOOLEAN, late : BOOLEAN]]
    /\ dir \in [Dir -> [pc : {"wait", "read", "count", "account", "write", "wake", "done"},
                        chunk : 0..MaxBytes, out : 0..MaxBytes]]
    /\ \A s \in End : end[s].taken <= end[s].sent
    /\ \A d \in Dir : dir[d].out <= dir[d].chunk
    /\ dials \in Seq(DialTime) /\ Len(dials) <= MaxConn
    /\ sent \in 0..MaxBytes /\ moved \in [Kind -> Nat]

Init ==
    /\ StatsInit
    /\ phase = "idle"
    /\ end = [s \in End |-> FreshEnd]
    /\ dir = [d \in Dir |-> Waiting]
    /\ dials = << >> /\ sent = 0 /\ moved = [k \in Kind |-> 0]

Src(d) == IF d = "up" THEN "client" ELSE "remote"
Dst(d) == IF d = "up" THEN "remote" ELSE "client"
Other(d) == IF d = "up" THEN "down" ELSE "up"

----------------------------------------------------------------------------
\* The peers

PeerSends(s) ==
    /\ phase # "idle" /\ sent < MaxBytes
    /\ ~end[s].fin /\ ~end[s].dead
    /\ end' = [end EXCEPT ![s].sent = @ + 1]
    /\ sent' = sent + 1
    /\ UNCHANGED <<statsVars, phase, dir, dials, moved>>

PeerEnds(s) ==
    /\ phase # "idle" /\ ~end[s].fin /\ ~end[s].dead
    /\ end' = [end EXCEPT ![s].fin = TRUE]
    /\ UNCHANGED <<statsVars, phase, dir, history>>

PeerReads(s) ==
    /\ end[s].unread > 0 /\ ~end[s].dead
    /\ end' = [end EXCEPT ![s].unread = @ - 1]
    /\ UNCHANGED <<statsVars, phase, dir, history>>

\* A reset, or the stack gives the connection up.
PeerDies(s) ==
    /\ phase # "idle" /\ ~end[s].dead
    /\ end' = [end EXCEPT ![s].dead = TRUE]
    /\ UNCHANGED <<statsVars, phase, dir, history>>

----------------------------------------------------------------------------
\* The proxy

\* Route has dialled: the dial is recorded and the connection counted.
Open(ms) ==
    /\ phase = "idle" /\ Len(dials) < MaxConn
    /\ RecordDial(ms)
    /\ dials' = Append(dials, ms)
    /\ phase' = "opened"
    /\ UNCHANGED <<upstream, account, end, dir, sent, moved>>

Relays == phase' = "relay" /\ dir' = [d \in Dir |-> Reading]

\* Mutant of Start: what the client sent early stays in the buffer.
StartWithoutEarly(k) ==
    /\ phase = "opened" /\ k <= end["client"].sent /\ k <= Window
    /\ end' = [end EXCEPT !["client"].taken = k]
    /\ Relays
    /\ UNCHANGED <<statsVars, history>>

\* The reply goes out.  An HTTP handler has k bytes in its buffer and writes them to the
\* remote before it calls transfer.  (4096 bytes at most: they fit in an empty window.)
Start(k) ==
    /\ phase = "opened" /\ k <= end["client"].sent /\ k <= Window
    /\ end' = [end EXCEPT !["client"].taken = k]
    /\ IF k = 0 THEN Relays
       ELSE phase' = "early" /\ dir' = [dir EXCEPT !["up"] = [pc |-> "write", chunk |-> k, out |-> 0]]
    /\ UNCHANGED <<statsVars, history>>

At(d, p) == dir[d].pc = p
Goto(d, p) == dir' = [dir EXCEPT ![d].pc = p]
Broken(s) == end[s].dead \/ end[s].late

\* io.Copy reads what is there, or a part of it.  From the remote it is counted first.
Read(d, k) ==
    LET s == Src(d) IN
    /\ At(d, "read") /\ ~Broken(s)
    /\ k <= end[s].sent - end[s].taken
    /\ end' = [end EXCEPT ![s].taken = @ + k]
    /\ dir' = [dir EXCEPT ![d] = [pc |-> IF s = "remote" THEN "count" ELSE "write",
                                  chunk |-> k, out |-> 0]]
    /\ moved' = IF s = "remote" THEN [moved EXCEPT !["down"] = @ + k] ELSE moved
    /\ UNCHANGED <<statsVars, phase, dials, sent>>

\* End of the stream, an error, or the deadline.
ReadFails(d) ==
    /\ At(d, "read")
    /\ \/ Broken(Src(d))
       \/ end[Src(d)].fin /\ end[Src(d)].taken = end[Src(d)].sent
    /\ Goto(d, "wake")
    /\ UNCHANGED <<statsVars, phase, end, history>>

\* A Write blocks while the window is full, and may deliver a part before it fails.
WriteByte(d) ==
    LET s == Dst(d) IN
    /\ At(d, "write") /\ dir[d].out < dir[d].chunk
    /\ ~Broken(s) /\ end[s].unread < Window
    /\ end' = [end EXCEPT ![s].unread = @ + 1, ![s].got = @ + 1]
    /\ dir' = [dir EXCEPT ![d].out = @ + 1]
    /\ moved' = IF s = "remote" THEN [moved EXCEPT !["up"] = @ + 1] ELSE moved
    /\ UNCHANGED <<statsVars, phase, dials, sent>>

\* After a Write: io.Copy goes on, or ends when it was short.  The result of the early
\* Write is ignored.
GoesOn(d) ==
    \/ phase = "early" /\ Relays
    \/ /\ phase = "relay"
       /\ Goto(d, IF dir[d].out < dir[d].chunk THEN "wake" ELSE "read")
       /\ UNCHANGED phase

WriteReturns(d) ==
    /\ At(d, "write")
    /\ dir[d].out = dir[d].chunk \/ Broken(Dst(d))
    /\ IF d = "up" /\ dir[d].out > 0 THEN Goto(d, "count") /\ UNCHANGED phase ELSE GoesOn(d)
    /\ UNCHANGED <<statsVars, end, history>>

\* What the Read or the Write on the remote returned.
Amount(d) == IF d = "down" THEN dir[d].chunk ELSE dir[d].out

Count(d) ==
    /\ At(d, "count")
    /\ AddUpstream(d, Amount(d))
    /\ Goto(d, "account")
    /\ UNCHANGED <<account, samples, dialPos, phase, end, history>>

\* Mutant of Account: the whole buffer is counted, whatever Write returned.
AccountBuffer(d) ==
    /\ At(d, "account")
    /\ AddAccount(d, dir[d].chunk)
    /\ IF d = "down" THEN Goto(d, "write") /\ UNCHANGED phase ELSE GoesOn(d)
    /\ UNCHANGED <<upstream, samples, dialPos, end, history>>

Account(d) ==
    /\ At(d, "account")
    /\ AddAccount(d, Amount(d))
    /\ IF d = "down" THEN Goto(d, "write") /\ UNCHANGED phase ELSE GoesOn(d)
    /\ UNCHANGED <<upstream, samples, dialPos, end, history>>

\* Mutants of Wake: the deadline is set on the connection it read from; on none.
WakeSource(d) ==
    /\ At(d, "wake")
    /\ end' = [end EXCEPT ![Src(d)].late = TRUE]
    /\ Goto(d, "done")
    /\ UNCHANGED <<statsVars, phase, history>>
WakeNobody(d) ==
    /\ At(d, "wake")
    /\ Goto(d, "done")
    /\ UNCHANGED <<statsVars, phase, end, history>>

\* The end of io.Copy: the connection the other direction reads from gets a deadline in
\* the past.
Wake(d) ==
    /\ At(d, "wake")
    /\ end' = [end EXCEPT ![Dst(d)].late = TRUE]
    /\ Goto(d, "done")
    /\ UNCHANGED <<statsVars, phase, history>>

\* Both directions are done: the deferred calls close both connections.
Close ==
    /\ phase = "relay" /\ \A d \in Dir : At(d, "done")
    /\ phase' = "idle"
    /\ end' = [s \in End |-> FreshEnd] /\ dir' = [d \in Dir |-> Waiting]
    /\ UNCHANGED <<statsVars, history>>

Copy(d) ==
    \/ \E k \in 1..MaxBytes : Read(d, k)
    \/ ReadFails(d) \/ WriteByte(d) \/ WriteReturns(d) \/ Count(d) \/ Account(d) \/ Wake(d)

Next ==
    \/ \E s \in End : PeerSends(s) \/ PeerEnds(s) \/ PeerReads(s) \/ PeerDies(s)
    \/ \E ms \in DialTime : Open(ms)
    \/ \E k \in 0..MaxBytes : Start(k)
    \/ \E d \in Dir : Copy(d)
    \/ Close

Spec == Init /\ [][Next]_vars

\* The goroutines run whenever they can.  Nothing is assumed of the peers.
FairSpec == Spec /\ WF_vars(Close) /\ \A d \in Dir : WF_vars(Copy(d))

----------------------------------------------------------------------------
\* Properties

\* What the proxy has read from one end it delivers to the other: when a direction is
\* done, all it took has been written, early data included, unless that end broke.  (The
\* first direction to end stops the other one, which may hold a buffer at that moment:
\* the deadline must keep it from reading but not from writing.)
NothingTakenIsLost ==
    \A d \in Dir : At(d, "done") /\ ~end[Dst(d)].dead => end[Dst(d)].got = end[Src(d)].taken

\* The books follow the bytes: an account is never ahead of its upstream nor the upstream
\* ahead of the bytes that crossed, by partial writes or broken connections, and between
\* connections the three agree.
BooksFollowBytes ==
    \A k \in Kind :
        /\ account[k] <= upstream[k] /\ upstream[k] <= moved[k]
        /\ phase = "idle" => account[k] = moved[k]

\* The percentiles of a snapshot are those of the latest dials, before the ring is full
\* and after it has wrapped.
DialStatsAreLatest ==
    LET s == Latest(dials)
        shown == dialPercentiles(samples)
    IN  /\ shown.count = Len(s)
        /\ s # << >> => /\ shown.p50 = Percentile(50, s) /\ shown.p95 = Percentile(95, s)
                        /\ shown.max = Percentile(100, s)

\* A direction that waits for a peer that does not read.
Stuck(d) ==
    /\ At(d, "write") /\ dir[d].out < dir[d].chunk
    /\ ~Broken(Dst(d)) /\ end[Dst(d)].unread = Window

\* When one direction is done the connection is closed, whatever the peers do, with one
\* exception: the other direction may be blocked, for as long as it likes, in writing to
\* a peer that stays connected and no longer reads (a deadline on the connection it reads
\* from does not reach it there).
RelayEnds ==
    \A d \in Dir :
        (phase = "relay" /\ At(d, "done")) ~> (phase = "idle" \/ []Stuck(Other(d)))

=============================================================================
