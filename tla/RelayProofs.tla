----------------------------- MODULE RelayProofs -----------------------------
(***************************************************************************)
(* Proofs about Relay, for every window, any number of bytes, connections  *)
(* and dials, and peers that do what they like.                            *)
(*                                                                         *)
(* Those about bytes follow from what a direction has in hand: Flow says   *)
(* that the bytes taken from one end are those delivered to the other and  *)
(* those left in the buffer, Settled that the buffer is empty, or the      *)
(* other end broken, whenever the goroutine is not writing, and Booked how *)
(* far the counters are behind the bytes at each of its steps.  A deadline *)
(* never hits a Write (Marked): it is set on the connection a direction    *)
(* wrote to when that direction is done.                                   *)
(*                                                                         *)
(* The percentiles follow from Ring, which dial each cell of the ring has, *)
(* and from lemmas on sequences of samples: a percentile does not depend   *)
(* on their order, an ordered rearrangement exists, and the sample at the  *)
(* nearest rank of one is the percentile.                                  *)
(***************************************************************************)
EXTENDS Relay, SequenceTheorems, FunctionTheorems, FiniteSetTheorems, TLAPS

EndState == [sent : 0..MaxBytes, taken : 0..MaxBytes, got : 0..MaxBytes,
             unread : 0..Window, fin : BOOLEAN, dead : BOOLEAN, late : BOOLEAN]
DirState == [pc : {"wait", "read", "count", "account", "write", "wake", "done"},
             chunk : 0..MaxBytes, out : 0..MaxBytes]

InHand(d) == dir[d].chunk - dir[d].out

Flow(d) ==
    /\ end[Dst(d)].got + InHand(d) <= end[Src(d)].taken
    /\ end[Dst(d)].dead \/ end[Dst(d)].got + InHand(d) = end[Src(d)].taken

Settled(d) ==
    \/ dir[d].pc \in {"wait", "read", "wake", "done"}
    \/ d = "up" /\ dir[d].pc \in {"count", "account"}
    => dir[d].out = dir[d].chunk \/ end[Dst(d)].dead

Marked(d) == end[Dst(d)].late => dir[d].pc = "done"

\* The bytes that crossed to or from the remote and are not yet counted for the upstream,
\* or not yet for the account.
Uncounted(d) ==
    IF d = "up" THEN IF dir[d].pc \in {"write", "count"} THEN dir[d].out ELSE 0
    ELSE IF dir[d].pc = "count" THEN dir[d].chunk ELSE 0
Unbooked(d) ==
    IF d = "up" THEN IF dir[d].pc \in {"write", "count", "account"} THEN dir[d].out ELSE 0
    ELSE IF dir[d].pc \in {"count", "account"} THEN dir[d].chunk ELSE 0

Booked(d) ==
    /\ upstream[d] + Uncounted(d) = moved[d]
    /\ account[d] + Unbooked(d) = moved[d]

\* What each phase says of the goroutines and of the ends.
Phases ==
    /\ phase \in {"idle", "opened"} =>
          /\ \A d \in Dir : dir[d] = Waiting
          /\ \A s \in End : end[s].taken = 0 /\ end[s].got = 0
    /\ phase = "idle" => end = [s \in End |-> FreshEnd]
    /\ phase = "early" => /\ dir["up"].pc \in {"write", "count", "account"}
                          /\ dir["down"] = Waiting
    /\ phase = "relay" => \A d \in Dir : dir[d].pc # "wait"

InStep(d) == Flow(d) /\ Settled(d) /\ Marked(d) /\ Booked(d)

IInv ==
    /\ TypeOK
    /\ \A s \in End : end[s].sent <= sent
    /\ \A d \in Dir : InStep(d)
    /\ Phases

LEMMA Directions ==
    /\ Dir = {"up", "down"} /\ Kind = Dir
    /\ \A d \in Dir : /\ Src(d) \in End /\ Dst(d) \in End /\ Src(d) # Dst(d)
                      /\ Other(d) \in Dir /\ Other(d) # d
                      /\ Src(Other(d)) = Dst(d) /\ Dst(Other(d)) = Src(d)
                      /\ \A e \in Dir : e = d \/ e = Other(d)
    /\ End = {"client", "remote"}
  BY DEF Dir, Kind, Src, Dst, End, Other

LEMMA TypesAre ==
    ASSUME TypeOK
    PROVE  /\ end \in [End -> EndState] /\ dir \in [Dir -> DirState]
           /\ \A s \in End : /\ end[s].sent \in Nat /\ end[s].taken \in Nat /\ end[s].got \in Nat
                             /\ end[s].unread \in Nat /\ end[s].dead \in BOOLEAN
                             /\ end[s].late \in BOOLEAN /\ end[s].taken <= end[s].sent
                             /\ end[s].sent <= MaxBytes
           /\ \A d \in Dir : /\ dir[d].chunk \in Nat /\ dir[d].out \in Nat
                             /\ dir[d].out <= dir[d].chunk /\ dir[d].chunk <= MaxBytes
                             /\ dir[d].pc \in {"wait", "read", "count", "account", "write",
                                               "wake", "done"}
                             /\ upstream[d] \in Nat /\ account[d] \in Nat /\ moved[d] \in Nat
           /\ sent \in Nat /\ sent <= MaxBytes /\ MaxBytes \in Nat /\ Window \in Nat /\ Window >= 1
<1>1. MaxBytes \in Nat /\ Window \in Nat /\ Window >= 1
  BY RelayAssumption
<1>2. end \in [End -> EndState] /\ dir \in [Dir -> DirState]
  BY DEF TypeOK, EndState, DirState
<1>3. \A s \in End : /\ end[s].sent \in Nat /\ end[s].taken \in Nat /\ end[s].got \in Nat
                     /\ end[s].unread \in Nat /\ end[s].dead \in BOOLEAN
                     /\ end[s].late \in BOOLEAN /\ end[s].taken <= end[s].sent
                     /\ end[s].sent <= MaxBytes
  BY <1>1, <1>2 DEF TypeOK, EndState
<1>4. \A d \in Dir : /\ dir[d].chunk \in Nat /\ dir[d].out \in Nat
                     /\ dir[d].out <= dir[d].chunk /\ dir[d].chunk <= MaxBytes
                     /\ dir[d].pc \in {"wait", "read", "count", "account", "write", "wake", "done"}
  BY <1>1, <1>2 DEF TypeOK, DirState
<1>5. \A d \in Dir : upstream[d] \in Nat /\ account[d] \in Nat /\ moved[d] \in Nat
  BY DEF TypeOK, StatsTypeOK, Dir
<1>6. sent \in Nat /\ sent <= MaxBytes
  BY <1>1 DEF TypeOK
<1> QED
  BY <1>1, <1>2, <1>3, <1>4, <1>5, <1>6

LEMMA FreshIs ==
    /\ FreshEnd \in EndState /\ Waiting \in DirState /\ Reading \in DirState
    /\ FreshEnd.sent = 0 /\ FreshEnd.taken = 0 /\ FreshEnd.got = 0 /\ ~FreshEnd.late
    /\ Waiting.pc = "wait" /\ Waiting.chunk = 0 /\ Waiting.out = 0
    /\ Reading.pc = "read" /\ Reading.chunk = 0 /\ Reading.out = 0
  BY RelayAssumption DEF FreshEnd, Waiting, Reading, EndState, DirState

LEMMA IInvInit == ASSUME Init PROVE IInv
<1>1. /\ \A s \in End : end[s] = FreshEnd
      /\ \A d \in Dir : dir[d] = Waiting
      /\ phase = "idle" /\ sent = 0
      /\ \A d \in Dir : upstream[d] = 0 /\ account[d] = 0 /\ moved[d] = 0
  BY DEF Init, StatsInit, Dir
<1>2. TypeOK
  <2>1. StatsTypeOK
    <3>1. upstream \in [Kind -> Nat] /\ account \in [Kind -> Nat]
      BY DEF Init, StatsInit
    <3>2. samples \in Seq(DialTime) /\ Len(samples) <= DialCap /\ dialPos \in 0 .. DialCap - 1
      BY StatsAssumption DEF Init, StatsInit
    <3> QED
      BY <3>1, <3>2 DEF StatsTypeOK
  <2>2. end \in [End -> EndState] /\ dir \in [Dir -> DirState]
    BY FreshIs DEF Init
  <2>3. \A s \in End : end[s].taken <= end[s].sent
    BY <1>1, FreshIs
  <2>4. \A d \in Dir : dir[d].out <= dir[d].chunk
    BY <1>1, FreshIs
  <2>5. dials \in Seq(DialTime) /\ Len(dials) <= MaxConn /\ sent \in 0..MaxBytes
        /\ moved \in [Kind -> Nat]
    BY RelayAssumption DEF Init
  <2> QED
    BY <1>1, <2>1, <2>2, <2>3, <2>4, <2>5 DEF TypeOK, EndState, DirState
<1>3. \A d \in Dir : InStep(d)
  <2> SUFFICES ASSUME NEW d \in Dir PROVE InStep(d)
    OBVIOUS
  <2>1. end[Src(d)] = FreshEnd /\ end[Dst(d)] = FreshEnd /\ dir[d] = Waiting
    BY <1>1, Directions
  <2> QED
    BY <1>1, <2>1, FreshIs
    DEF InStep, Flow, InHand, Settled, Marked, Booked, Uncounted, Unbooked
<1>4. Phases
  BY <1>1, FreshIs DEF Phases, Init
<1> QED
  BY <1>1, <1>2, <1>3, <1>4, FreshIs DEF IInv

----------------------------------------------------------------------------
\* Steps of the peers

LEMMA PeerKeeps ==
    ASSUME IInv, NEW s \in End, PeerSends(s) \/ PeerEnds(s) \/ PeerReads(s) \/ PeerDies(s)
    PROVE  IInv'
<1>1. UNCHANGED <<statsVars, phase, dir, dials, moved>>
  BY DEF PeerSends, PeerEnds, PeerReads, PeerDies, history
<1>2. /\ \A r \in End \ {s} : end'[r] = end[r]
      /\ end'[s].taken = end[s].taken /\ end'[s].got = end[s].got /\ end'[s].late = end[s].late
      /\ end[s].dead => end'[s].dead
  BY TypesAre DEF IInv, PeerSends, PeerEnds, PeerReads, PeerDies, EndState
<1>3. /\ end' \in [End -> EndState] /\ sent' \in 0..MaxBytes
      /\ end[s].sent <= end'[s].sent /\ \A r \in End : end'[r].sent <= sent'
  <2>1. CASE PeerSends(s)
    <3>1. /\ end' = [end EXCEPT ![s].sent = @ + 1] /\ sent' = sent + 1
          /\ end[s].sent <= sent /\ sent + 1 <= MaxBytes
      BY <2>1, TypesAre DEF PeerSends, IInv
    <3>2. end[s].sent + 1 \in 0..MaxBytes /\ sent' \in 0..MaxBytes
      BY <3>1, TypesAre DEF IInv
    <3>3. end' \in [End -> EndState] /\ end'[s].sent = end[s].sent + 1
      BY <3>1, <3>2, TypesAre DEF IInv, EndState
    <3>4. \A r \in End : end'[r].sent <= sent'
      <4>1. \A r \in End : end[r].sent \in Nat /\ end[r].sent <= sent /\ sent \in Nat
        BY TypesAre DEF IInv
      <4>2. end'[s].sent <= sent'
        BY <3>1, <3>3, <4>1
      <4>3. \A r \in End \ {s} : end'[r].sent <= sent'
        BY <1>2, <3>1, <4>1
      <4> QED
        BY <4>2, <4>3
    <3>5. end[s].sent <= end'[s].sent
      BY <3>3, TypesAre DEF IInv
    <3> QED
      BY <3>2, <3>3, <3>4, <3>5
  <2>2. ASSUME end' \in [End -> EndState], end'[s].sent = end[s].sent, sent' = sent
        PROVE  /\ end' \in [End -> EndState] /\ sent' \in 0..MaxBytes
               /\ end[s].sent <= end'[s].sent /\ \A r \in End : end'[r].sent <= sent'
    <3>1. \A r \in End : end[r].sent \in Nat /\ end[r].sent <= sent
      BY TypesAre DEF IInv
    <3>2. sent' \in 0..MaxBytes
      BY <2>2 DEF IInv, TypeOK
    <3>3. \A r \in End : end'[r].sent = end[r].sent
      BY <1>2, <2>2
    <3> QED
      BY <2>2, <3>1, <3>2, <3>3
  <2>3. CASE PeerEnds(s) \/ PeerDies(s)
    <3>0. end \in [End -> EndState]
      BY TypesAre DEF IInv
    <3>1. end' \in [End -> EndState] /\ end'[s].sent = end[s].sent /\ sent' = sent
      <4>1. CASE PeerEnds(s)
        BY <3>0, <4>1 DEF PeerEnds, EndState, history
      <4>2. CASE PeerDies(s)
        BY <3>0, <4>2 DEF PeerDies, EndState, history
      <4> QED
        BY <2>3, <4>1, <4>2
    <3> QED
      BY <2>2, <3>1
  <2>4. CASE PeerReads(s)
    <3>1. end \in [End -> EndState] /\ end[s].unread \in 0..Window /\ Window \in Nat
      <4>1. end \in [End -> EndState] /\ Window \in Nat
        BY TypesAre DEF IInv
      <4> QED
        BY <4>1 DEF EndState
    <3>2. end[s].unread - 1 \in 0..Window /\ end' = [end EXCEPT ![s].unread = @ - 1]
          /\ sent' = sent
      BY <2>4, <3>1 DEF PeerReads, history
    <3>3. end' \in [End -> EndState] /\ end'[s].sent = end[s].sent
      BY <3>1, <3>2 DEF EndState
    <3> QED
      BY <2>2, <3>2, <3>3
  <2> QED
    BY <2>1, <2>3, <2>4
<1>4. TypeOK'
  <2>1. \A r \in End : end'[r].taken <= end'[r].sent
    BY <1>2, <1>3, TypesAre DEF IInv, EndState
  <2> QED
    BY <1>1, <1>3, <2>1 DEF IInv, TypeOK, StatsTypeOK, statsVars, EndState
<1>5. ASSUME NEW d \in Dir PROVE InStep(d)'
  <2>0. \A r \in End : /\ end'[r].taken = end[r].taken /\ end'[r].got = end[r].got
                       /\ end'[r].late = end[r].late /\ (end[r].dead => end'[r].dead)
    BY <1>2
  <2>1. /\ end'[Src(d)].taken = end[Src(d)].taken /\ end'[Dst(d)].got = end[Dst(d)].got
        /\ end'[Dst(d)].late = end[Dst(d)].late /\ (end[Dst(d)].dead => end'[Dst(d)].dead)
        /\ dir'[d] = dir[d] /\ UNCHANGED <<upstream, account, moved>>
    BY <1>1, <2>0, Directions DEF statsVars
  <2>2. InStep(d)
    BY DEF IInv
  <2> QED
    BY <2>1, <2>2 DEF InStep, Flow, InHand, Settled, Marked, Booked, Uncounted, Unbooked
<1>6. Phases'
  BY <1>1, <1>2 DEF IInv, Phases, PeerSends, PeerEnds, PeerReads, PeerDies, FreshEnd
<1> QED
  BY <1>3, <1>4, <1>5, <1>6 DEF IInv

----------------------------------------------------------------------------
\* Steps of the proxy

\* A step of direction d leaves the other one in step, also when it starts it.
LEMMA OtherKeeps ==
    ASSUME IInv, NEW d \in Dir,
           dir'[Other(d)] = dir[Other(d)]
               \/ (dir[Other(d)] = Waiting /\ dir'[Other(d)] = Reading),
           \A s \in End : end'[s].dead = end[s].dead,
           end'[Src(Other(d))].taken = end[Src(Other(d))].taken,
           end'[Dst(Other(d))].got = end[Dst(Other(d))].got,
           end'[Dst(Other(d))].late = end[Dst(Other(d))].late,
           upstream'[Other(d)] = upstream[Other(d)], account'[Other(d)] = account[Other(d)],
           moved'[Other(d)] = moved[Other(d)]
    PROVE  InStep(Other(d))'
<1>1. Other(d) \in Dir /\ Src(Other(d)) \in End /\ Dst(Other(d)) \in End
  BY Directions
<1>2. InStep(Other(d))
  BY <1>1 DEF IInv
<1> DEFINE e == Other(d)
<1>3. Src(e)' = Src(e) /\ Dst(e)' = Dst(e)
  BY DEF Src, Dst
<1>4. /\ dir'[e].chunk = dir[e].chunk /\ dir'[e].out = dir[e].out
      /\ dir'[e].pc = dir[e].pc \/ (dir[e].pc = "wait" /\ dir'[e].pc = "read")
  BY FreshIs
<1>5. Flow(e)'
  BY <1>1, <1>2, <1>3, <1>4 DEF InStep, Flow, InHand
<1>6. Settled(e)'
  BY <1>1, <1>2, <1>3, <1>4 DEF InStep, Settled
<1>7. Marked(e)'
  BY <1>1, <1>2, <1>3, <1>4 DEF InStep, Marked
<1>8. Booked(e)'
  BY <1>1, <1>2, <1>4 DEF InStep, Booked, Uncounted, Unbooked
<1> QED
  BY <1>5, <1>6, <1>7, <1>8 DEF InStep

\* The ring takes one sample more, or one for the oldest.
LEMMA RecordDialKeeps ==
    ASSUME StatsTypeOK, NEW ms \in DialTime, RecordDial(ms), UNCHANGED <<upstream, account>>
    PROVE  StatsTypeOK'
<1>1. /\ samples \in Seq(DialTime) /\ Len(samples) \in Nat /\ DialCap \in Nat /\ DialCap >= 1
      /\ Len(samples) <= DialCap /\ dialPos \in 0 .. DialCap - 1
  BY StatsAssumption DEF StatsTypeOK
<1>2. CASE Len(samples) < DialCap
  BY <1>1, <1>2 DEF RecordDial, StatsTypeOK
<1>3. CASE ~(Len(samples) < DialCap)
  <2>1. samples' = [samples EXCEPT ![dialPos + 1] = ms] /\ dialPos' = (dialPos + 1) % DialCap
    BY <1>3 DEF RecordDial
  <2>2. samples' \in Seq(DialTime) /\ Len(samples') = Len(samples)
    <3>1. dialPos + 1 \in 1..Len(samples)
      BY <1>1, <1>3
    <3> QED
      BY <1>1, <2>1, <3>1, ExceptSeq
  <2>3. dialPos' \in 0 .. DialCap - 1
    <3>1. dialPos + 1 \in Nat /\ dialPos + 1 <= DialCap
      BY <1>1
    <3>2. (dialPos + 1) % DialCap = IF dialPos + 1 = DialCap THEN 0 ELSE dialPos + 1
      BY <1>1, <3>1
    <3> QED
      BY <1>1, <2>1, <3>1, <3>2
  <2> QED
    BY <1>1, <2>2, <2>3 DEF StatsTypeOK
<1> QED
  BY <1>2, <1>3

LEMMA OpenKeeps == ASSUME IInv, NEW ms \in DialTime, Open(ms) PROVE IInv'
<1>1. /\ UNCHANGED <<upstream, account, end, dir, sent, moved>>
      /\ phase = "idle" /\ phase' = "opened"
      /\ dials' = Append(dials, ms) /\ Len(dials) < MaxConn
  BY DEF Open
<1>2. StatsTypeOK'
  BY RecordDialKeeps DEF Open, IInv, TypeOK
<1>3. dials' \in Seq(DialTime) /\ Len(dials') <= MaxConn
  BY <1>1, RelayAssumption DEF IInv, TypeOK
<1>4. TypeOK'
  BY <1>1, <1>2, <1>3 DEF IInv, TypeOK
<1>5. ASSUME NEW d \in Dir PROVE InStep(d)'
  BY <1>1 DEF IInv, InStep, Flow, InHand, Settled, Marked, Booked, Uncounted, Unbooked
<1>6. Phases'
  BY <1>1 DEF IInv, Phases
<1> QED
  BY <1>1, <1>4, <1>5, <1>6 DEF IInv

LEMMA StartKeeps == ASSUME IInv, NEW k \in 0..MaxBytes, Start(k) PROVE IInv'
<1>0. "client" \in End /\ "remote" \in End /\ "up" \in Dir /\ "down" \in Dir
  BY Directions
<1>1. /\ k \in Nat /\ k <= end["client"].sent /\ phase = "opened"
      /\ end' = [end EXCEPT !["client"].taken = k]
      /\ UNCHANGED <<statsVars, dials, sent, moved>>
  BY DEF Start, history
<1>2. /\ \A d \in Dir : dir[d] = Waiting
      /\ \A s \in End : end[s].taken = 0 /\ end[s].got = 0
  BY <1>1 DEF IInv, Phases
<1>3. end \in [End -> EndState] /\ dir \in [Dir -> DirState]
  BY TypesAre DEF IInv
<1>4. /\ end' \in [End -> EndState]
      /\ end'["client"].taken = k /\ end'["client"].sent = end["client"].sent
      /\ end'["client"].got = 0 /\ end'["client"].late = end["client"].late
      /\ end'["remote"] = end["remote"]
  BY <1>0, <1>1, <1>2, <1>3 DEF EndState
<1>5. \A s \in End : ~end[s].late
  <2>1. \A d \in Dir : ~end[Dst(d)].late
    BY <1>2, FreshIs DEF IInv, InStep, Marked
  <2> QED
    BY <2>1 DEF Dst, Dir, Kind, End
<1>6. \A s \in End : end'[s].taken <= end'[s].sent /\ end'[s].sent = end[s].sent
  BY <1>1, <1>4, TypesAre DEF IInv, End
<1>7. /\ dir' \in [Dir -> DirState] /\ \A d \in Dir : dir'[d].out <= dir'[d].chunk
      /\ phase' \in {"early", "relay"}
      /\ dir'["up"].chunk = k /\ dir'["up"].out = 0 /\ dir'["down"].out = 0 /\ dir'["down"].chunk = 0
      /\ phase' = "early" => dir'["up"].pc = "write" /\ dir'["down"] = Waiting
      /\ phase' = "relay" => k = 0 /\ dir'["up"].pc = "read" /\ dir'["down"].pc = "read"
  <2>1. CASE k = 0
    <3>1. phase' = "relay" /\ dir' = [d \in Dir |-> Reading]
      BY <2>1 DEF Start, Relays
    <3>2. \A d \in Dir : dir'[d] = Reading
      BY <3>1
    <3> QED
      BY <1>0, <2>1, <3>1, <3>2, FreshIs
  <2>2. CASE k # 0
    <3>1. phase' = "early" /\ dir' = [dir EXCEPT !["up"] = [pc |-> "write", chunk |-> k, out |-> 0]]
      BY <2>2 DEF Start
    <3>2. [pc |-> "write", chunk |-> k, out |-> 0] \in DirState
      BY RelayAssumption DEF DirState
    <3>3. /\ dir'["up"] = [pc |-> "write", chunk |-> k, out |-> 0] /\ dir'["down"] = Waiting
          /\ dir' \in [Dir -> DirState]
      BY <1>0, <1>2, <1>3, <3>1, <3>2
    <3>4. \A d \in Dir : d = "up" \/ d = "down"
      BY Directions
    <3> QED
      BY <1>1, <3>1, <3>3, <3>4, FreshIs
  <2> QED
    BY <2>1, <2>2
<1>8. TypeOK'
  BY <1>1, <1>4, <1>6, <1>7 DEF IInv, TypeOK, StatsTypeOK, statsVars, EndState, DirState
<1>9. ASSUME NEW d \in Dir PROVE InStep(d)'
  <2>1. upstream[d] = moved[d] /\ account[d] = moved[d]
    BY <1>2, FreshIs, TypesAre DEF IInv, InStep, Booked, Uncounted, Unbooked
  <2>2. /\ upstream'[d] = upstream[d] /\ account'[d] = account[d] /\ moved'[d] = moved[d]
        /\ moved[d] \in Nat
    BY <1>1, TypesAre DEF IInv, statsVars
  <2>3. ~end'[Dst(d)].late
    BY <1>4, <1>5, Directions
  <2>4. CASE d = "up"
    <3>1. Src(d) = "client" /\ Dst(d) = "remote"
      BY <2>4 DEF Src, Dst
    <3>2. dir'[d].chunk - dir'[d].out = k /\ dir'[d].out = 0
          /\ (dir'[d].pc = "write" \/ (dir'[d].pc = "read" /\ k = 0 /\ dir'[d].chunk = 0))
      <4>1. dir'["up"].chunk = k /\ dir'["up"].out = 0 /\ k - 0 = k
        BY <1>1, <1>7
      <4>2. dir'["up"].pc = "write" \/ (dir'["up"].pc = "read" /\ k = 0)
        BY <1>7
      <4> QED
        BY <2>4, <4>1, <4>2
    <3>3. end'[Dst(d)].got = 0 /\ end'[Src(d)].taken = k
      BY <1>0, <1>2, <1>4, <3>1
    <3>4. Flow(d)'
      BY <1>1, <3>2, <3>3 DEF Flow, InHand, Src, Dst
    <3>5. Settled(d)'
      BY <2>4, <3>2 DEF Settled
    <3>6. Booked(d)'
      BY <2>1, <2>2, <2>4, <3>2 DEF Booked, Uncounted, Unbooked
    <3> QED
      BY <2>3, <3>4, <3>5, <3>6 DEF InStep, Marked, Dst
  <2>5. CASE d = "down"
    <3>1. Src(d) = "remote" /\ Dst(d) = "client"
      BY <2>5 DEF Src, Dst
    <3>2. dir'[d].chunk = 0 /\ dir'[d].out = 0 /\ dir'[d].pc \in {"wait", "read"}
      BY <1>7, <2>5, FreshIs
    <3>3. end'[Dst(d)].got = 0 /\ end'[Src(d)].taken = 0
      BY <1>0, <1>2, <1>4, <3>1
    <3>4. Flow(d)'
      BY <3>2, <3>3 DEF Flow, InHand, Src, Dst
    <3>5. Settled(d)'
      BY <3>2 DEF Settled
    <3>6. Booked(d)'
      BY <2>1, <2>2, <2>5, <3>2 DEF Booked, Uncounted, Unbooked
    <3> QED
      BY <2>3, <3>4, <3>5, <3>6 DEF InStep, Marked, Dst
  <2> QED
    BY <2>4, <2>5, Directions
<1>10. Phases'
  BY <1>7, Directions DEF Phases
<1> QED
  BY <1>1, <1>6, <1>8, <1>9, <1>10 DEF IInv

\* A step of direction d that keeps the ends' liveness and what belongs to the other
\* direction: the rest of what IInv asks.
LEMMA StepOf ==
    ASSUME IInv, NEW d \in Dir, TypeOK', InStep(d)', Phases',
           \A s \in End : end'[s].sent = end[s].sent /\ end'[s].dead = end[s].dead,
           sent' = sent,
           dir'[Other(d)] = dir[Other(d)]
               \/ (dir[Other(d)] = Waiting /\ dir'[Other(d)] = Reading),
           end'[Dst(d)].taken = end[Dst(d)].taken,
           end'[Src(d)].got = end[Src(d)].got,
           end'[Src(d)].late = end[Src(d)].late,
           upstream'[Other(d)] = upstream[Other(d)], account'[Other(d)] = account[Other(d)],
           moved'[Other(d)] = moved[Other(d)]
    PROVE  IInv'
<1>1. InStep(Other(d))'
  BY OtherKeeps, Directions
<1>2. \A e \in Dir : InStep(e)'
  BY <1>1, Directions
<1>3. \A s \in End : end'[s].sent <= sent'
  BY DEF IInv
<1> QED
  BY <1>2, <1>3 DEF IInv

LEMMA WakeKeeps == ASSUME IInv, NEW d \in Dir, Wake(d) PROVE IInv'
<1>1. /\ end' = [end EXCEPT ![Dst(d)].late = TRUE]
      /\ dir' = [dir EXCEPT ![d].pc = "done"] /\ dir[d].pc = "wake"
      /\ UNCHANGED <<statsVars, phase, history>>
  BY DEF Wake, At, Goto
<1>2. end \in [End -> EndState] /\ dir \in [Dir -> DirState] /\ Dst(d) \in End
  BY TypesAre, Directions DEF IInv
<1>3. /\ end' \in [End -> EndState] /\ dir' \in [Dir -> DirState]
      /\ \A s \in End : /\ end'[s].sent = end[s].sent /\ end'[s].dead = end[s].dead
                        /\ end'[s].taken = end[s].taken /\ end'[s].got = end[s].got
      /\ end'[Src(d)].late = end[Src(d)].late
      /\ dir'[d].pc = "done" /\ dir'[d].chunk = dir[d].chunk /\ dir'[d].out = dir[d].out
      /\ \A e \in Dir \ {d} : dir'[e] = dir[e]
  <2>1. /\ dir' \in [Dir -> DirState]
        /\ dir'[d].pc = "done" /\ dir'[d].chunk = dir[d].chunk /\ dir'[d].out = dir[d].out
        /\ \A e \in Dir \ {d} : dir'[e] = dir[e]
    BY <1>1, <1>2 DEF DirState
  <2>2. /\ end' \in [End -> EndState]
        /\ \A s \in End : /\ end'[s].sent = end[s].sent /\ end'[s].dead = end[s].dead
                          /\ end'[s].taken = end[s].taken /\ end'[s].got = end[s].got
        /\ \A s \in End : s # Dst(d) => end'[s].late = end[s].late
    BY <1>1, <1>2 DEF EndState
  <2> QED
    BY <2>1, <2>2, Directions
<1>4. TypeOK'
  BY <1>1, <1>3 DEF IInv, TypeOK, StatsTypeOK, statsVars, history, EndState, DirState
<1>5. InStep(d)'
  <2>1. InStep(d) /\ Src(d)' = Src(d) /\ Dst(d)' = Dst(d) /\ Src(d) \in End
    BY Directions DEF IInv, Src, Dst
  <2>2. Flow(d)'
    BY <1>2, <1>3, <2>1 DEF InStep, Flow, InHand
  <2>3. Settled(d)'
    BY <1>1, <1>2, <1>3, <2>1 DEF InStep, Settled
  <2>4. Marked(d)'
    BY <1>3 DEF Marked
  <2>5. Booked(d)'
    BY <1>1, <1>3, <2>1 DEF InStep, Booked, Uncounted, Unbooked, statsVars, history
  <2> QED
    BY <2>2, <2>3, <2>4, <2>5 DEF InStep
<1>6. Phases'
  <2>1. phase = "relay"
    BY <1>1, FreshIs DEF IInv, Phases, TypeOK, Dir, Kind
  <2> QED
    BY <1>1, <1>3, <2>1 DEF IInv, Phases
<1>7. /\ dir'[Other(d)] = dir[Other(d)]
      /\ end'[Dst(d)].taken = end[Dst(d)].taken /\ end'[Src(d)].got = end[Src(d)].got
      /\ UNCHANGED <<upstream, account, moved, sent>>
  BY <1>1, <1>3, Directions DEF statsVars, history
<1> QED
  BY <1>3, <1>4, <1>5, <1>6, <1>7, StepOf

LEMMA ReadFailsKeeps == ASSUME IInv, NEW d \in Dir, ReadFails(d) PROVE IInv'
<1>1. /\ dir' = [dir EXCEPT ![d].pc = "wake"] /\ dir[d].pc = "read"
      /\ UNCHANGED <<statsVars, phase, end, history>>
  BY DEF ReadFails, At, Goto
<1>2. dir \in [Dir -> DirState]
  BY TypesAre DEF IInv
<1>3. /\ dir' \in [Dir -> DirState]
      /\ dir'[d].pc = "wake" /\ dir'[d].chunk = dir[d].chunk /\ dir'[d].out = dir[d].out
      /\ \A e \in Dir \ {d} : dir'[e] = dir[e]
  BY <1>1, <1>2 DEF DirState
<1>4. TypeOK'
  BY <1>1, <1>3 DEF IInv, TypeOK, StatsTypeOK, statsVars, history, EndState, DirState
<1>5. InStep(d)'
  <2>1. InStep(d) /\ Src(d)' = Src(d) /\ Dst(d)' = Dst(d)
    BY DEF IInv, Src, Dst
  <2>2. Flow(d)'
    BY <1>1, <1>3, <2>1 DEF InStep, Flow, InHand
  <2>3. Settled(d)'
    BY <1>1, <1>3, <2>1 DEF InStep, Settled
  <2>4. Marked(d)'
    BY <1>1, <2>1 DEF InStep, Marked
  <2>5. Booked(d)'
    BY <1>1, <1>3, <2>1 DEF InStep, Booked, Uncounted, Unbooked, statsVars, history
  <2> QED
    BY <2>2, <2>3, <2>4, <2>5 DEF InStep
<1>6. Phases'
  <2>1. phase = "relay"
    BY <1>1, FreshIs DEF IInv, Phases, TypeOK, Dir, Kind
  <2> QED
    BY <1>1, <1>3, <2>1 DEF IInv, Phases
<1> QED
  BY <1>1, <1>3, <1>4, <1>5, <1>6, StepOf, Directions DEF statsVars, history

LEMMA CloseKeeps == ASSUME IInv, Close PROVE IInv'
<1>1. /\ phase = "relay" /\ \A d \in Dir : dir[d].pc = "done"
      /\ phase' = "idle"
      /\ end' = [s \in End |-> FreshEnd] /\ dir' = [d \in Dir |-> Waiting]
      /\ UNCHANGED <<statsVars, history>>
  BY DEF Close, At
<1>2. /\ end' \in [End -> EndState] /\ dir' \in [Dir -> DirState]
      /\ \A s \in End : end'[s] = FreshEnd
      /\ \A d \in Dir : dir'[d] = Waiting
  BY <1>1, FreshIs
<1>3. TypeOK'
  <2>1. \A s \in End : end'[s].taken <= end'[s].sent
    BY <1>2, FreshIs
  <2>2. \A d \in Dir : dir'[d].out <= dir'[d].chunk
    BY <1>2, FreshIs
  <2> QED
    BY <1>1, <1>2, <2>1, <2>2
    DEF IInv, TypeOK, StatsTypeOK, statsVars, history, EndState, DirState
<1>4. ASSUME NEW d \in Dir PROVE InStep(d)'
  <2>1. upstream[d] = moved[d] /\ account[d] = moved[d]
    BY <1>1, TypesAre DEF IInv, InStep, Booked, Uncounted, Unbooked
  <2>2. /\ end'[Src(d)] = FreshEnd /\ end'[Dst(d)] = FreshEnd /\ dir'[d] = Waiting
        /\ upstream'[d] = upstream[d] /\ account'[d] = account[d] /\ moved'[d] = moved[d]
        /\ moved[d] \in Nat
    BY <1>1, <1>2, TypesAre, Directions DEF IInv, statsVars, history
  <2>3. Booked(d)'
    BY <2>1, <2>2, FreshIs DEF Booked, Uncounted, Unbooked
  <2>4. Flow(d)' /\ Settled(d)' /\ Marked(d)'
    BY <2>2, FreshIs DEF Flow, InHand, Settled, Marked, Src, Dst
  <2> QED
    BY <2>3, <2>4 DEF InStep
<1>5. Phases'
  BY <1>1, <1>2, FreshIs DEF Phases
<1>6. \A s \in End : end'[s].sent <= sent'
  BY <1>1, <1>2, FreshIs, TypesAre DEF IInv, history
<1> QED
  BY <1>3, <1>4, <1>5, <1>6 DEF IInv

\* The goroutine of direction d moves its place only.
LEMMA GotoKeeps ==
    ASSUME IInv, NEW d \in Dir, NEW p \in {"read", "wake", "count", "account", "write"},
           Goto(d, p)
    PROVE  /\ dir' \in [Dir -> DirState]
           /\ dir'[d].pc = p /\ dir'[d].chunk = dir[d].chunk /\ dir'[d].out = dir[d].out
           /\ \A e \in Dir \ {d} : dir'[e] = dir[e]
           /\ \A e \in Dir : dir'[e].out <= dir'[e].chunk
<1>1. dir' = [dir EXCEPT ![d].pc = p] /\ dir \in [Dir -> DirState]
  BY TypesAre DEF Goto, IInv
<1>2. \A e \in Dir : dir[e].out <= dir[e].chunk
  BY DEF IInv, TypeOK
<1>3. /\ dir' \in [Dir -> DirState]
      /\ dir'[d].pc = p /\ dir'[d].chunk = dir[d].chunk /\ dir'[d].out = dir[d].out
      /\ \A e \in Dir \ {d} : dir'[e] = dir[e]
  BY <1>1 DEF DirState
<1> QED
  BY <1>2, <1>3

\* The phase in which a goroutine is at work, and what it says of the direction.
LEMMA AtWork ==
    ASSUME IInv, NEW d \in Dir, dir[d].pc \in {"count", "account", "write"}
    PROVE  /\ phase \in {"early", "relay"}
           /\ phase = "early" => d = "up" /\ dir["down"] = Waiting /\ Other(d) = "down"
           /\ ~end[Dst(d)].late
<1>1. phase \notin {"idle", "opened"}
  BY FreshIs DEF IInv, Phases
<1>2. phase = "early" => d = "up"
  BY FreshIs, Directions DEF IInv, Phases
<1> QED
  BY <1>1, <1>2 DEF IInv, TypeOK, Phases, InStep, Marked, Other

\* A direction whose buffer is empty, or whose other end is broken, goes on.
LEMMA GoesOnKeeps ==
    ASSUME IInv, NEW d \in Dir, GoesOn(d), end' = end,
           dir[d].pc \in {"account", "write"},
           dir[d].out = dir[d].chunk \/ end[Dst(d)].dead
    PROVE  /\ dir' \in [Dir -> DirState] /\ \A e \in Dir : dir'[e].out <= dir'[e].chunk
           /\ phase' = "relay" /\ Phases'
           /\ dir'[d].pc \in {"read", "wake"}
           /\ Flow(d)' /\ Settled(d)' /\ Marked(d)'
           /\ dir'[Other(d)] = dir[Other(d)]
                  \/ (dir[Other(d)] = Waiting /\ dir'[Other(d)] = Reading)
<1>1. Flow(d) /\ Src(d) \in End /\ Dst(d) \in End /\ Other(d) \in Dir \ {d}
  BY Directions DEF IInv, InStep
<1>2. /\ dir[d].chunk \in Nat /\ dir[d].out \in Nat /\ dir[d].out <= dir[d].chunk
      /\ end[Src(d)].taken \in Nat /\ end[Dst(d)].got \in Nat
  BY <1>1, TypesAre DEF IInv
<1>3. CASE phase = "early" /\ Relays
  <2>1. phase' = "relay" /\ \A e \in Dir : dir'[e] = Reading
    BY <1>3 DEF Relays
  <2>2. Phases'
    BY <2>1, FreshIs DEF Phases
  <2>3. dir[Other(d)] = Waiting
    BY <1>3, AtWork
  <2>4. dir' \in [Dir -> DirState] /\ \A e \in Dir : dir'[e].out <= dir'[e].chunk
    BY <1>3, <2>1, FreshIs DEF Relays
  <2>5. dir'[d].chunk = 0 /\ dir'[d].out = 0 /\ dir'[d].pc = "read"
    BY <2>1, FreshIs
  <2>6. Flow(d)'
    <3>1. InHand(d) \in Nat /\ InHand(d)' = 0
      BY <1>2, <2>5 DEF InHand
    <3>2. end[Dst(d)].got <= end[Src(d)].taken
      BY <1>1, <1>2, <3>1 DEF Flow
    <3>3. end[Dst(d)].dead \/ end[Dst(d)].got = end[Src(d)].taken
      BY <1>1, <1>2 DEF Flow, InHand
    <3> QED
      BY <1>2, <3>1, <3>2, <3>3 DEF Flow, Src, Dst
  <2>7. Settled(d)' /\ Marked(d)'
    BY <2>5, AtWork DEF Settled, Marked, Dst
  <2> QED
    BY <1>1, <2>1, <2>2, <2>3, <2>4, <2>5, <2>6, <2>7
<1>4. CASE phase = "relay" /\ UNCHANGED phase
           /\ Goto(d, IF dir[d].out < dir[d].chunk THEN "wake" ELSE "read")
  <2>1. /\ dir' \in [Dir -> DirState] /\ dir'[d].pc \in {"read", "wake"}
        /\ dir'[d].chunk = dir[d].chunk /\ dir'[d].out = dir[d].out
        /\ \A e \in Dir \ {d} : dir'[e] = dir[e]
        /\ \A e \in Dir : dir'[e].out <= dir'[e].chunk
    BY <1>4, GotoKeeps
  <2>2. Phases'
    BY <1>4, <2>1 DEF IInv, Phases
  <2>3. Flow(d)'
    BY <1>1, <2>1 DEF Flow, InHand, Src, Dst
  <2>4. Settled(d)' /\ Marked(d)'
    BY <2>1, AtWork DEF Settled, Marked, Dst
  <2> QED
    BY <1>1, <1>4, <2>1, <2>2, <2>3, <2>4
<1> QED
  BY <1>3, <1>4 DEF GoesOn

LEMMA WriteReturnsKeeps == ASSUME IInv, NEW d \in Dir, WriteReturns(d) PROVE IInv'
<1>1. /\ dir[d].pc = "write" /\ UNCHANGED <<statsVars, end, history>>
      /\ dir[d].out = dir[d].chunk \/ end[Dst(d)].dead \/ end[Dst(d)].late
  BY DEF WriteReturns, At, Broken
<1>2. dir[d].out = dir[d].chunk \/ end[Dst(d)].dead
  BY <1>1, AtWork
<1>3. InStep(d) /\ dir[d].out \in Nat
  BY TypesAre DEF IInv
<1>4. UNCHANGED <<upstream, account, moved, sent>>
  BY <1>1 DEF statsVars, history
<1>5. CASE d = "up" /\ dir[d].out > 0
  <2>1. Goto(d, "count") /\ phase' = phase
    BY <1>5 DEF WriteReturns
  <2>2. /\ dir' \in [Dir -> DirState] /\ dir'[d].pc = "count"
        /\ dir'[d].chunk = dir[d].chunk /\ dir'[d].out = dir[d].out
        /\ \A e \in Dir \ {d} : dir'[e] = dir[e]
        /\ \A e \in Dir : dir'[e].out <= dir'[e].chunk
    BY <2>1, GotoKeeps
  <2>3. TypeOK'
    BY <1>1, <2>1, <2>2
    DEF IInv, TypeOK, StatsTypeOK, statsVars, history, EndState, DirState
  <2>4. InStep(d)'
    <3>1. Flow(d)' /\ Settled(d)' /\ Marked(d)'
      BY <1>1, <1>2, <1>3, <2>2, AtWork DEF InStep, Flow, InHand, Settled, Marked, Src, Dst
    <3>2. Booked(d)'
      BY <1>1, <1>3, <1>4, <1>5, <2>2 DEF InStep, Booked, Uncounted, Unbooked
    <3> QED
      BY <3>1, <3>2 DEF InStep
  <2>5. Phases'
    <3>1. phase \in {"early", "relay"} /\ (phase = "early" => dir'["down"] = Waiting)
      BY <1>1, <1>5, <2>2, AtWork DEF Dir, Kind
    <3> QED
      BY <1>5, <2>1, <2>2, <3>1 DEF IInv, Phases
  <2> QED
    BY <1>1, <1>4, <2>2, <2>3, <2>4, <2>5, StepOf, Directions
<1>6. CASE ~(d = "up" /\ dir[d].out > 0)
  <2>1. GoesOn(d)
    BY <1>6 DEF WriteReturns
  <2>2. /\ dir' \in [Dir -> DirState] /\ \A e \in Dir : dir'[e].out <= dir'[e].chunk
        /\ phase' = "relay" /\ Phases' /\ dir'[d].pc \in {"read", "wake"}
        /\ Flow(d)' /\ Settled(d)' /\ Marked(d)'
        /\ dir'[Other(d)] = dir[Other(d)]
               \/ (dir[Other(d)] = Waiting /\ dir'[Other(d)] = Reading)
    BY <1>1, <1>2, <2>1, GoesOnKeeps
  <2>3. TypeOK'
    BY <1>1, <2>2
    DEF IInv, TypeOK, StatsTypeOK, statsVars, history, EndState, DirState
  <2>4. Booked(d)'
    <3>1. d = "up" => dir[d].out = 0
      BY <1>3, <1>6
    <3> QED
      BY <1>1, <1>3, <1>4, <2>2, <3>1 DEF InStep, Booked, Uncounted, Unbooked
  <2> QED
    BY <1>1, <1>4, <2>2, <2>3, <2>4, StepOf DEF InStep
<1> QED
  BY <1>5, <1>6

LEMMA AmountIs ==
    ASSUME TypeOK, NEW d \in Dir
    PROVE  Amount(d) \in Nat /\ Amount(d) = (IF d = "down" THEN dir[d].chunk ELSE dir[d].out)
  BY TypesAre DEF Amount

LEMMA CountKeeps == ASSUME IInv, NEW d \in Dir, Count(d) PROVE IInv'
<1>1. /\ dir[d].pc = "count" /\ Goto(d, "account") /\ phase' = phase
      /\ upstream' = [upstream EXCEPT ![d] = @ + Amount(d)]
      /\ UNCHANGED <<account, samples, dialPos, end, history>>
  BY DEF Count, At, AddUpstream
<1>2. /\ dir' \in [Dir -> DirState] /\ dir'[d].pc = "account"
      /\ dir'[d].chunk = dir[d].chunk /\ dir'[d].out = dir[d].out
      /\ \A e \in Dir \ {d} : dir'[e] = dir[e]
      /\ \A e \in Dir : dir'[e].out <= dir'[e].chunk
  BY <1>1, GotoKeeps
<1>3. TypeOK /\ InStep(d)
  BY DEF IInv
<1>4. /\ upstream' \in [Kind -> Nat] /\ upstream'[d] = upstream[d] + Amount(d)
      /\ \A e \in Dir \ {d} : upstream'[e] = upstream[e]
  <2>1. upstream \in [Dir -> Nat] /\ Amount(d) \in Nat
    BY <1>3, AmountIs DEF TypeOK, StatsTypeOK, Dir
  <2>2. upstream[d] + Amount(d) \in Nat
    BY <2>1
  <2> QED
    BY <1>1, <2>1, <2>2 DEF Dir
<1>5. TypeOK'
  BY <1>1, <1>2, <1>3, <1>4 DEF TypeOK, StatsTypeOK, history, EndState, DirState
<1>6. InStep(d)'
  <2>1. Flow(d)' /\ Settled(d)' /\ Marked(d)'
    BY <1>1, <1>2, <1>3, AtWork DEF InStep, Flow, InHand, Settled, Marked, Src, Dst
  <2>2. Booked(d)'
    <3>1. account'[d] = account[d] /\ moved'[d] = moved[d]
      BY <1>1 DEF history
    <3>2. Uncounted(d)' = 0 /\ Unbooked(d)' = Unbooked(d) /\ Uncounted(d) = Amount(d)
      BY <1>1, <1>2, Directions DEF Uncounted, Unbooked, Amount
    <3>3. upstream'[d] = moved[d] /\ upstream'[d] + 0 = upstream'[d]
      BY <1>3, <1>4, <3>2, AmountIs, TypesAre DEF InStep, Booked
    <3> QED
      BY <1>3, <3>1, <3>2, <3>3 DEF InStep, Booked
  <2> QED
    BY <2>1, <2>2 DEF InStep
<1>7. Phases'
  <2>1. phase \in {"early", "relay"}
        /\ (phase = "early" => d = "up" /\ dir'["down"] = Waiting)
    BY <1>1, <1>2, AtWork DEF Dir, Kind
  <2> QED
    BY <1>1, <1>2, <2>1 DEF IInv, Phases
<1> QED
  BY <1>1, <1>2, <1>4, <1>5, <1>6, <1>7, StepOf, Directions DEF history

LEMMA AccountKeeps == ASSUME IInv, NEW d \in Dir, Account(d) PROVE IInv'
<1>1. /\ dir[d].pc = "account"
      /\ account' = [account EXCEPT ![d] = @ + Amount(d)]
      /\ UNCHANGED <<upstream, samples, dialPos, end, history>>
  BY DEF Account, At, AddAccount
<1>2. TypeOK /\ InStep(d)
  BY DEF IInv
<1>3. /\ account' \in [Kind -> Nat] /\ account'[d] = account[d] + Amount(d)
      /\ \A e \in Dir \ {d} : account'[e] = account[e]
  <2>1. account \in [Dir -> Nat] /\ Amount(d) \in Nat
    BY <1>2, AmountIs DEF TypeOK, StatsTypeOK, Dir
  <2>2. account[d] + Amount(d) \in Nat
    BY <2>1
  <2> QED
    BY <1>1, <2>1, <2>2 DEF Dir
<1>4. ASSUME dir'[d].pc \in {"read", "wake", "write"},
             d = "down" => dir'[d].chunk = dir[d].chunk /\ dir'[d].out = dir[d].out,
             d = "up" => dir'[d].pc # "write"
      PROVE  Booked(d)'
  <2>1. upstream'[d] = upstream[d] /\ moved'[d] = moved[d]
    BY <1>1 DEF history
  <2>2. Uncounted(d) = 0 /\ Uncounted(d)' = 0 /\ Unbooked(d) = Amount(d) /\ Unbooked(d)' = 0
    BY <1>1, <1>4, Directions DEF Uncounted, Unbooked, Amount
  <2>3. account'[d] = moved[d] /\ account'[d] + 0 = account'[d]
    BY <1>2, <1>3, <2>2, AmountIs, TypesAre DEF InStep, Booked
  <2> QED
    BY <1>2, <2>1, <2>2, <2>3 DEF InStep, Booked
<1>5. CASE d = "down"
  <2>1. Goto(d, "write") /\ phase' = phase
    BY <1>5 DEF Account
  <2>2. /\ dir' \in [Dir -> DirState] /\ dir'[d].pc = "write"
        /\ dir'[d].chunk = dir[d].chunk /\ dir'[d].out = dir[d].out
        /\ \A e \in Dir \ {d} : dir'[e] = dir[e]
        /\ \A e \in Dir : dir'[e].out <= dir'[e].chunk
    BY <2>1, GotoKeeps
  <2>3. TypeOK'
    BY <1>1, <1>2, <1>3, <2>1, <2>2 DEF TypeOK, StatsTypeOK, history, EndState, DirState
  <2>4. InStep(d)'
    <3>1. Flow(d)' /\ Settled(d)' /\ Marked(d)'
      BY <1>1, <1>2, <2>2, AtWork DEF InStep, Flow, InHand, Settled, Marked, Src, Dst
    <3> QED
      BY <1>4, <1>5, <2>2, <3>1 DEF InStep
  <2>5. Phases'
    <3>1. phase = "relay"
      BY <1>1, <1>5, AtWork
    <3> QED
      BY <2>1, <2>2, <3>1 DEF IInv, Phases
  <2> QED
    BY <1>1, <1>3, <2>2, <2>3, <2>4, <2>5, StepOf, Directions DEF history
<1>6. CASE d # "down"
  <2>1. d = "up" /\ GoesOn(d)
    BY <1>6, Directions DEF Account
  <2>2. dir[d].out = dir[d].chunk \/ end[Dst(d)].dead
    BY <1>1, <1>2, <2>1 DEF InStep, Settled
  <2>3. /\ dir' \in [Dir -> DirState] /\ \A e \in Dir : dir'[e].out <= dir'[e].chunk
        /\ phase' = "relay" /\ Phases' /\ dir'[d].pc \in {"read", "wake"}
        /\ Flow(d)' /\ Settled(d)' /\ Marked(d)'
        /\ dir'[Other(d)] = dir[Other(d)]
               \/ (dir[Other(d)] = Waiting /\ dir'[Other(d)] = Reading)
    BY <1>1, <2>1, <2>2, GoesOnKeeps
  <2>4. TypeOK'
    BY <1>1, <1>2, <1>3, <2>3 DEF TypeOK, StatsTypeOK, history, EndState, DirState
  <2>5. InStep(d)'
    BY <1>4, <2>1, <2>3 DEF InStep
  <2> QED
    BY <1>1, <1>3, <2>3, <2>4, <2>5, StepOf, Directions DEF history
<1> QED
  BY <1>5, <1>6

LEMMA WriteByteKeeps == ASSUME IInv, NEW d \in Dir, WriteByte(d) PROVE IInv'
<1> DEFINE r == Dst(d)
<1>1. /\ dir[d].pc = "write" /\ dir[d].out < dir[d].chunk
      /\ end[r].unread < Window
      /\ end' = [end EXCEPT ![r].unread = @ + 1, ![r].got = @ + 1]
      /\ dir' = [dir EXCEPT ![d].out = @ + 1]
      /\ moved' = IF r = "remote" THEN [moved EXCEPT !["up"] = @ + 1] ELSE moved
      /\ UNCHANGED <<statsVars, phase, dials, sent>>
  BY DEF WriteByte, At
<1>2. /\ r \in End /\ Src(d) \in End /\ Src(d) # r
      /\ end \in [End -> EndState] /\ dir \in [Dir -> DirState]
      /\ dir[d].out \in Nat /\ dir[d].chunk \in Nat /\ dir[d].chunk <= MaxBytes
      /\ end[r].got \in Nat /\ end[Src(d)].taken \in Nat /\ end[r].unread \in Nat
      /\ end[Src(d)].taken <= MaxBytes /\ MaxBytes \in Nat /\ Window \in Nat
  <2>1. \A s \in End : /\ end[s].got \in Nat /\ end[s].taken \in Nat /\ end[s].unread \in Nat
                       /\ end[s].taken <= MaxBytes
    BY TypesAre DEF IInv
  <2> QED
    BY <2>1, TypesAre, Directions DEF IInv
<1>3. InStep(d)
  BY DEF IInv
<1>4. /\ dir[d].out + 1 \in 0..MaxBytes /\ dir[d].out + 1 <= dir[d].chunk
      /\ end[r].unread + 1 \in 0..Window
  BY <1>1, <1>2
<1>5. end[r].got + 1 \in 0..MaxBytes
  <2>1. end[r].got + (dir[d].chunk - dir[d].out) <= end[Src(d)].taken
    BY <1>3 DEF InStep, Flow, InHand
  <2> QED
    BY <1>1, <1>2, <2>1
<1>6. /\ dir' \in [Dir -> DirState]
      /\ dir'[d].pc = "write" /\ dir'[d].chunk = dir[d].chunk /\ dir'[d].out = dir[d].out + 1
      /\ \A e \in Dir \ {d} : dir'[e] = dir[e]
  BY <1>1, <1>2, <1>4 DEF DirState
<1>7. /\ end' \in [End -> EndState]
      /\ end'[r].got = end[r].got + 1
      /\ end'[r].sent = end[r].sent /\ end'[r].taken = end[r].taken
      /\ end'[r].dead = end[r].dead /\ end'[r].late = end[r].late
      /\ \A s \in End \ {r} : end'[s] = end[s]
  BY <1>1, <1>2, <1>4, <1>5 DEF EndState
<1>8. /\ moved' \in [Kind -> Nat] /\ moved'[Other(d)] = moved[Other(d)]
      /\ moved'[d] = IF d = "up" THEN moved[d] + 1 ELSE moved[d]
  <2>1. moved \in [Dir -> Nat] /\ Dir = {"up", "down"} /\ Kind = Dir
    BY Directions DEF IInv, TypeOK
  <2>2. CASE d = "up"
    <3>1. r = "remote" /\ Other(d) = "down" /\ moved[d] + 1 \in Nat
      BY <2>1, <2>2 DEF Dst, Other
    <3> QED
      BY <1>1, <2>1, <2>2, <3>1
  <2>3. CASE d = "down"
    BY <1>1, <2>1, <2>3 DEF Dst
  <2> QED
    BY <2>1, <2>2, <2>3
<1>9. TypeOK'
  <2>1. \A s \in End : end'[s].taken <= end'[s].sent
    BY <1>7 DEF IInv, TypeOK
  <2>2. \A e \in Dir : dir'[e].out <= dir'[e].chunk
    BY <1>4, <1>6 DEF IInv, TypeOK
  <2> QED
    BY <1>1, <1>6, <1>7, <1>8, <2>1, <2>2
    DEF IInv, TypeOK, StatsTypeOK, statsVars, EndState, DirState
<1>10. InStep(d)'
  <2>1. Flow(d)'
    <3>1. /\ InHand(d)' = InHand(d) - 1 /\ InHand(d) \in Int
          /\ end'[Src(d)].taken = end[Src(d)].taken
      BY <1>2, <1>6, <1>7 DEF InHand
    <3>2. end'[r].got + InHand(d)' = end[r].got + InHand(d)
      BY <1>2, <1>7, <3>1
    <3> QED
      BY <1>3, <1>7, <3>1, <3>2 DEF InStep, Flow, Src, Dst
  <2>2. Settled(d)' /\ Marked(d)'
    BY <1>1, <1>3, <1>6, <1>7 DEF InStep, Settled, Marked, Dst
  <2>3. Booked(d)'
    <3>1. upstream'[d] = upstream[d] /\ account'[d] = account[d]
      BY <1>1 DEF statsVars
    <3>2. upstream[d] \in Nat /\ account[d] \in Nat
      BY TypesAre DEF IInv
    <3>3. CASE d = "up"
      <4>1. /\ Uncounted(d) = dir[d].out /\ Unbooked(d) = dir[d].out
            /\ Uncounted(d)' = dir[d].out + 1 /\ Unbooked(d)' = dir[d].out + 1
            /\ moved'[d] = moved[d] + 1
        BY <1>1, <1>6, <1>8, <3>3 DEF Uncounted, Unbooked
      <4>2. upstream[d] + dir[d].out = moved[d] /\ account[d] + dir[d].out = moved[d]
        BY <1>3, <4>1 DEF InStep, Booked
      <4> QED
        BY <1>2, <3>1, <3>2, <4>1, <4>2 DEF Booked
    <3>4. CASE d # "up"
      BY <1>1, <1>3, <1>6, <1>8, <3>1, <3>4 DEF InStep, Booked, Uncounted, Unbooked
    <3> QED
      BY <3>3, <3>4
  <2> QED
    BY <2>1, <2>2, <2>3 DEF InStep
<1>11. Phases'
  <2>1. phase \in {"early", "relay"} /\ (phase = "early" => d = "up" /\ dir'["down"] = Waiting)
    BY <1>1, <1>6, AtWork DEF Dir, Kind
  <2> QED
    BY <1>1, <1>6, <2>1 DEF IInv, Phases
<1>12. /\ \A s \in End : end'[s].sent = end[s].sent /\ end'[s].dead = end[s].dead
       /\ end'[Src(d)] = end[Src(d)] /\ dir'[Other(d)] = dir[Other(d)]
       /\ UNCHANGED <<upstream, account, sent>>
  BY <1>1, <1>2, <1>6, <1>7, Directions DEF statsVars
<1> QED
  BY <1>7, <1>8, <1>9, <1>10, <1>11, <1>12, StepOf

LEMMA ReadKeeps == ASSUME IInv, NEW d \in Dir, NEW k \in 1..MaxBytes, Read(d, k) PROVE IInv'
<1> DEFINE s == Src(d)
           p == IF s = "remote" THEN "count" ELSE "write"
<1>1. /\ dir[d].pc = "read" /\ k \in Nat /\ k <= end[s].sent - end[s].taken
      /\ end' = [end EXCEPT ![s].taken = @ + k]
      /\ dir' = [dir EXCEPT ![d] = [pc |-> p, chunk |-> k, out |-> 0]]
      /\ moved' = IF s = "remote" THEN [moved EXCEPT !["down"] = @ + k] ELSE moved
      /\ UNCHANGED <<statsVars, phase, dials, sent>>
  BY DEF Read, At
<1>2. /\ s \in End /\ Dst(d) \in End /\ Dst(d) # s
      /\ end \in [End -> EndState] /\ dir \in [Dir -> DirState]
      /\ end[s].sent \in Nat /\ end[s].taken \in Nat /\ end[Dst(d)].got \in Nat
      /\ end[s].sent <= MaxBytes /\ MaxBytes \in Nat /\ k <= MaxBytes
      /\ dir[d].chunk \in Nat /\ dir[d].out \in Nat /\ dir[d].out <= dir[d].chunk
  <2>1. \A r \in End : /\ end[r].got \in Nat /\ end[r].taken \in Nat /\ end[r].sent \in Nat
                       /\ end[r].sent <= MaxBytes
    BY TypesAre DEF IInv
  <2>2. MaxBytes \in Nat
    BY RelayAssumption
  <2> QED
    BY <2>1, <2>2, TypesAre, Directions DEF IInv
<1>3. InStep(d)
  BY DEF IInv
<1>4. /\ end[s].taken + k \in 0..MaxBytes /\ end[s].taken + k <= end[s].sent
      /\ [pc |-> p, chunk |-> k, out |-> 0] \in DirState
  BY <1>1, <1>2 DEF DirState
<1>5. /\ dir' \in [Dir -> DirState]
      /\ dir'[d].pc = p /\ dir'[d].chunk = k /\ dir'[d].out = 0
      /\ \A e \in Dir \ {d} : dir'[e] = dir[e]
  BY <1>1, <1>2, <1>4
<1>6. /\ end' \in [End -> EndState]
      /\ end'[s].taken = end[s].taken + k
      /\ end'[s].sent = end[s].sent /\ end'[s].got = end[s].got
      /\ end'[s].dead = end[s].dead /\ end'[s].late = end[s].late
      /\ \A r \in End \ {s} : end'[r] = end[r]
  BY <1>1, <1>2, <1>4 DEF EndState
<1>7. /\ moved' \in [Kind -> Nat] /\ moved'[Other(d)] = moved[Other(d)]
      /\ moved'[d] = IF d = "down" THEN moved[d] + k ELSE moved[d]
  <2>1. moved \in [Dir -> Nat] /\ Dir = {"up", "down"} /\ Kind = Dir
    BY Directions DEF IInv, TypeOK
  <2>2. CASE d = "down"
    <3>1. s = "remote" /\ Other(d) = "up" /\ moved[d] + k \in Nat
      BY <1>1, <2>1, <2>2 DEF Src, Other
    <3> QED
      BY <1>1, <2>1, <2>2, <3>1
  <2>3. CASE d = "up"
    BY <1>1, <2>1, <2>3 DEF Src
  <2> QED
    BY <2>1, <2>2, <2>3
<1>8. TypeOK'
  <2>1. \A r \in End : end'[r].taken <= end'[r].sent
    BY <1>4, <1>6 DEF IInv, TypeOK
  <2>2. \A e \in Dir : dir'[e].out <= dir'[e].chunk
    BY <1>1, <1>5 DEF IInv, TypeOK
  <2> QED
    BY <1>1, <1>5, <1>6, <1>7, <2>1, <2>2
    DEF IInv, TypeOK, StatsTypeOK, statsVars, EndState, DirState
<1>9. InStep(d)'
  <2>1. Flow(d)'
    <3>1. InHand(d) \in Nat /\ InHand(d)' = k
      BY <1>1, <1>2, <1>5 DEF InHand
    <3>2. end[Dst(d)].got <= end[s].taken
      BY <1>2, <1>3, <3>1 DEF InStep, Flow
    <3>3. end[Dst(d)].dead \/ end[Dst(d)].got = end[s].taken
      BY <1>1, <1>2, <1>3 DEF InStep, Settled, Flow, InHand
    <3>4. end'[Dst(d)] = end[Dst(d)]
      BY <1>2, <1>6
    <3>5. /\ end'[Dst(d)].got + k <= end'[s].taken
          /\ end'[Dst(d)].dead \/ end'[Dst(d)].got + k = end'[s].taken
      BY <1>1, <1>2, <1>6, <3>2, <3>3, <3>4
    <3> QED
      BY <3>1, <3>5 DEF Flow, Src, Dst
  <2>2. Settled(d)'
    BY <1>5, Directions DEF Settled, Src
  <2>3. Marked(d)'
    BY <1>1, <1>2, <1>3, <1>6 DEF InStep, Marked, Dst
  <2>4. Booked(d)'
    <3>1. upstream'[d] = upstream[d] /\ account'[d] = account[d]
      BY <1>1 DEF statsVars
    <3>2. upstream[d] = moved[d] /\ account[d] = moved[d] /\ moved[d] \in Nat
      BY <1>1, <1>3, TypesAre DEF IInv, InStep, Booked, Uncounted, Unbooked
    <3>3. CASE d = "down"
      <4>1. Uncounted(d)' = k /\ Unbooked(d)' = k /\ moved'[d] = moved[d] + k
        BY <1>5, <1>7, <3>3 DEF Uncounted, Unbooked, Src
      <4> QED
        BY <1>1, <3>1, <3>2, <4>1 DEF Booked
    <3>4. CASE d = "up"
      <4>1. Uncounted(d)' = 0 /\ Unbooked(d)' = 0 /\ moved'[d] = moved[d]
        BY <1>5, <1>7, <3>4 DEF Uncounted, Unbooked, Src
      <4> QED
        BY <3>1, <3>2, <4>1 DEF Booked
    <3> QED
      BY <3>3, <3>4, Directions
  <2> QED
    BY <2>1, <2>2, <2>3, <2>4 DEF InStep
<1>10. Phases'
  <2>1. phase = "relay"
    BY <1>1, FreshIs DEF IInv, Phases, TypeOK, Dir, Kind
  <2> QED
    BY <1>1, <1>5, <2>1 DEF IInv, Phases
<1>11. /\ \A r \in End : end'[r].sent = end[r].sent /\ end'[r].dead = end[r].dead
       /\ end'[Dst(d)] = end[Dst(d)] /\ dir'[Other(d)] = dir[Other(d)]
       /\ UNCHANGED <<upstream, account, sent>>
  BY <1>1, <1>2, <1>5, <1>6, Directions DEF statsVars
<1> QED
  BY <1>6, <1>7, <1>8, <1>9, <1>10, <1>11, StepOf

LEMMA IInvStep == ASSUME IInv, [Next]_vars PROVE IInv'
<1>1. CASE UNCHANGED vars
  BY <1>1
  DEF IInv, TypeOK, StatsTypeOK, InStep, Flow, InHand, Settled, Marked, Booked, Uncounted,
      Unbooked, Phases, vars, statsVars, connVars, history
<1>2. ASSUME NEW s \in End, PeerSends(s) \/ PeerEnds(s) \/ PeerReads(s) \/ PeerDies(s)
      PROVE  IInv'
  BY <1>2, PeerKeeps
<1>3. ASSUME NEW ms \in DialTime, Open(ms) PROVE IInv'
  BY <1>3, OpenKeeps
<1>4. ASSUME NEW k \in 0..MaxBytes, Start(k) PROVE IInv'
  BY <1>4, StartKeeps
<1>5. ASSUME NEW d \in Dir, Copy(d) PROVE IInv'
  <2>1. CASE \E k \in 1..MaxBytes : Read(d, k)
    BY <2>1, ReadKeeps
  <2>2. CASE ReadFails(d) \/ WriteByte(d) \/ WriteReturns(d)
    BY <2>2, ReadFailsKeeps, WriteByteKeeps, WriteReturnsKeeps
  <2>3. CASE Count(d) \/ Account(d) \/ Wake(d)
    BY <2>3, CountKeeps, AccountKeeps, WakeKeeps
  <2> QED
    BY <1>5, <2>1, <2>2, <2>3 DEF Copy
<1>6. CASE Close
  BY <1>6, CloseKeeps
<1> QED
  BY <1>1, <1>2, <1>3, <1>4, <1>5, <1>6 DEF Next

LEMMA Inductive == Spec => []IInv
<1>1. IInv /\ [Next]_vars => IInv'
  BY IInvStep
<1> QED
  BY <1>1, IInvInit, PTL DEF Spec

----------------------------------------------------------------------------

\* Every variable keeps its type: windows and rings are never overrun.
THEOREM TypeCorrect == Spec => []TypeOK
<1>1. IInv => TypeOK
  BY DEF IInv
<1> QED
  BY <1>1, Inductive, PTL

\* Whatever the peers do, a direction of transfer that is done has delivered every byte it
\* took, unless the end it writes to broke.
THEOREM NothingLost == Spec => []NothingTakenIsLost
<1>1. IInv => NothingTakenIsLost
  <2> SUFFICES ASSUME IInv, NEW d \in Dir, dir[d].pc = "done", ~end[Dst(d)].dead
               PROVE  end[Dst(d)].got = end[Src(d)].taken
    BY DEF NothingTakenIsLost, At
  <2>1. Flow(d) /\ Settled(d) /\ dir[d].chunk \in Nat
    BY TypesAre DEF IInv, InStep
  <2>2. InHand(d) = 0
    BY <2>1 DEF Settled, InHand
  <2>3. end[Dst(d)].got \in Nat
    BY TypesAre, Directions DEF IInv
  <2> QED
    BY <2>1, <2>2, <2>3 DEF Flow
<1> QED
  BY <1>1, Inductive, PTL

\* The counters of an upstream and of an account follow the bytes that crossed, in this
\* order, and agree with them between connections (countedConn).
THEOREM BooksBalanced == Spec => []BooksFollowBytes
<1>1. IInv => BooksFollowBytes
  <2> SUFFICES ASSUME IInv, NEW k \in Kind
               PROVE  /\ account[k] <= upstream[k] /\ upstream[k] <= moved[k]
                      /\ phase = "idle" => account[k] = moved[k]
    BY DEF BooksFollowBytes
  <2>1. k \in Dir /\ (k = "up" \/ k = "down") /\ Booked(k)
    BY Directions DEF IInv, InStep
  <2>2. /\ dir[k].chunk \in Nat /\ dir[k].out \in Nat
        /\ upstream[k] \in Nat /\ account[k] \in Nat /\ moved[k] \in Nat
    BY <2>1, TypesAre DEF IInv
  <2>3. /\ Uncounted(k) \in Nat /\ Unbooked(k) \in Nat
        /\ Uncounted(k) = 0 \/ Uncounted(k) = Unbooked(k)
    BY <2>1, <2>2 DEF Uncounted, Unbooked
  <2>4. phase = "idle" => Unbooked(k) = 0
    BY <2>1, FreshIs DEF IInv, Phases, Unbooked
  <2> QED
    BY <2>1, <2>2, <2>3, <2>4 DEF Booked
<1> QED
  BY <1>1, Inductive, PTL

----------------------------------------------------------------------------
\* Percentiles

\* The samples that are at most v.
AtMost(s, v) == {i \in DOMAIN s : s[i] <= v}
Reordered(s, t, f) == f \in Bijection(DOMAIN s, DOMAIN t) /\ \A i \in DOMAIN s : s[i] = t[f[i]]

LEMMA Interval ==
    ASSUME NEW n \in Nat
    PROVE  IsFiniteSet(1..n) /\ Cardinality(1..n) = n
<1>1. 1 \in Int /\ n \in Int
  OBVIOUS
<1>2. IsFiniteSet(1..n) /\ Cardinality(1..n) = IF 1 > n THEN 0 ELSE n - 1 + 1
  BY <1>1, FS_Interval, Zenon
<1> QED
  BY <1>2

LEMMA AtMostFinite ==
    ASSUME NEW s \in Seq(Nat), NEW v \in Nat
    PROVE  /\ IsFiniteSet(AtMost(s, v))
           /\ Cardinality(AtMost(s, v)) \in Nat
           /\ IsFiniteSet(DOMAIN s) /\ Cardinality(DOMAIN s) = Len(s)
<1>1. DOMAIN s = 1..Len(s) /\ Len(s) \in Nat
  OBVIOUS
<1>2. IsFiniteSet(DOMAIN s) /\ Cardinality(DOMAIN s) = Len(s)
  <2>1. IsFiniteSet(1..Len(s)) /\ Cardinality(1..Len(s)) = Len(s)
    BY <1>1, Interval
  <2> QED
    BY <1>1, <2>1
<1>3. AtMost(s, v) \in SUBSET DOMAIN s
  BY DEF AtMost
<1>4. IsFiniteSet(AtMost(s, v))
  BY <1>2, <1>3, FS_Subset
<1>5. Cardinality(AtMost(s, v)) \in Nat
  BY <1>4, FS_CardinalityType
<1> QED
  BY <1>2, <1>4, <1>5

\* What is counted of a sequence does not depend on its order.
LEMMA ReorderedCounts ==
    ASSUME NEW s \in Seq(Nat), NEW t \in Seq(Nat), NEW f, Reordered(s, t, f), NEW v \in Nat
    PROVE  Cardinality(AtMost(s, v)) = Cardinality(AtMost(t, v))
<1> DEFINE g == [i \in AtMost(s, v) |-> f[i]]
<1>1. f \in [DOMAIN s -> DOMAIN t] /\ (\A a, b \in DOMAIN s : f[a] = f[b] => a = b)
      /\ \A j \in DOMAIN t : \E i \in DOMAIN s : f[i] = j
  BY Fun_BijectionProperties DEF Reordered
<1>2. g \in [AtMost(s, v) -> AtMost(t, v)]
  BY <1>1 DEF AtMost, Reordered
<1>3. \A a, b \in AtMost(s, v) : g[a] = g[b] => a = b
  BY <1>1 DEF AtMost
<1>4. \A j \in AtMost(t, v) : \E i \in AtMost(s, v) : g[i] = j
  <2> TAKE j \in AtMost(t, v)
  <2>1. PICK i \in DOMAIN s : f[i] = j
    BY <1>1 DEF AtMost
  <2>2. i \in AtMost(s, v)
    BY <2>1 DEF AtMost, Reordered
  <2> QED
    BY <2>1, <2>2
<1>5. g \in Bijection(AtMost(s, v), AtMost(t, v))
  <2> HIDE DEF g
  <2> QED
    BY <1>2, <1>3, <1>4, Fun_IsBij
<1>6. ExistsBijection(AtMost(s, v), AtMost(t, v))
  BY <1>5 DEF ExistsBijection
<1> QED
  BY <1>6, AtMostFinite, FS_Bijection

LEMMA ReorderedSame ==
    ASSUME NEW s \in Seq(Nat), NEW t \in Seq(Nat), NEW f, Reordered(s, t, f)
    PROVE  Len(s) = Len(t) /\ ToSet(s) = ToSet(t)
<1>1. f \in [DOMAIN s -> DOMAIN t] /\ (\A a, b \in DOMAIN s : f[a] = f[b] => a = b)
      /\ \A j \in DOMAIN t : \E i \in DOMAIN s : f[i] = j
  BY Fun_BijectionProperties DEF Reordered
<1>2. ExistsBijection(DOMAIN s, DOMAIN t)
  BY DEF Reordered, ExistsBijection
<1>3. Len(s) = Len(t)
  BY <1>2, AtMostFinite, FS_Bijection
<1>4. ToSet(s) = ToSet(t)
  BY <1>1 DEF Reordered, ToSet
<1> QED
  BY <1>3, <1>4

\* The percentiles of a sequence do not depend on its order.
LEMMA PercentileOfReordered ==
    ASSUME NEW s \in Seq(Nat), NEW t \in Seq(Nat), NEW f, Reordered(s, t, f), NEW p \in Nat
    PROVE  Percentile(p, s) = Percentile(p, t)
<1>1. Len(s) = Len(t) /\ ToSet(s) = ToSet(t)
  BY ReorderedSame
<1>2. ToSet(s) \subseteq Nat
  BY DEF ToSet
<1>3. \A v \in ToSet(s) : Cardinality(AtMost(s, v)) = Cardinality(AtMost(t, v))
  BY <1>2, ReorderedCounts
<1>4. {v \in ToSet(s) : 100 * Cardinality(AtMost(s, v)) >= p * Len(s)}
      = {v \in ToSet(t) : 100 * Cardinality(AtMost(t, v)) >= p * Len(t)}
  BY <1>1, <1>3
<1> QED
  BY <1>4 DEF Percentile, AtMost

\* The indices whose samples come before the one at i in the order, and the one at i.
Before(s, j, i) == s[j] < s[i] \/ (s[j] = s[i] /\ j <= i)
UpTo(s, i) == {j \in DOMAIN s : Before(s, j, i)}
Place(s) == [i \in DOMAIN s |-> Cardinality(UpTo(s, i))]

LEMMA PlaceGrows ==
    ASSUME NEW s \in Seq(Nat), NEW i \in DOMAIN s, NEW j \in DOMAIN s, Before(s, i, j), i # j
    PROVE  Place(s)[i] < Place(s)[j]
<1>1. /\ i \in Nat /\ j \in Nat /\ s[i] \in Nat /\ s[j] \in Nat
      /\ \A k \in DOMAIN s : k \in Nat /\ s[k] \in Nat
  OBVIOUS
<1>2. IsFiniteSet(UpTo(s, j)) /\ IsFiniteSet(UpTo(s, i))
  <2>1. IsFiniteSet(DOMAIN s)
    BY AtMostFinite
  <2> QED
    BY <2>1, FS_Subset DEF UpTo
<1>3. UpTo(s, i) \in SUBSET UpTo(s, j)
  BY <1>1 DEF UpTo, Before
<1>4. j \in UpTo(s, j) /\ j \notin UpTo(s, i)
  BY <1>1 DEF UpTo, Before
<1>5. UpTo(s, j) # UpTo(s, i)
  BY <1>4
<1>6. /\ Cardinality(UpTo(s, i)) <= Cardinality(UpTo(s, j))
      /\ Cardinality(UpTo(s, j)) # Cardinality(UpTo(s, i))
  BY <1>2, <1>3, <1>5, FS_Subset
<1>7. Cardinality(UpTo(s, i)) \in Nat /\ Cardinality(UpTo(s, j)) \in Nat
  BY <1>2, FS_CardinalityType
<1> QED
  BY <1>6, <1>7 DEF Place

LEMMA PlaceIsBijection ==
    ASSUME NEW s \in Seq(Nat)
    PROVE  Place(s) \in Bijection(DOMAIN s, DOMAIN s)
<1>1. /\ DOMAIN s = 1..Len(s) /\ Len(s) \in Nat
      /\ \A k \in DOMAIN s : k \in Nat /\ s[k] \in Nat
  OBVIOUS
<1>2. IsFiniteSet(DOMAIN s) /\ Cardinality(DOMAIN s) = Len(s)
  BY AtMostFinite
<1>3. ASSUME NEW i \in DOMAIN s
      PROVE  Cardinality(UpTo(s, i)) \in DOMAIN s
  <2>1. UpTo(s, i) \in SUBSET DOMAIN s
    BY DEF UpTo
  <2>2. IsFiniteSet(UpTo(s, i)) /\ Cardinality(UpTo(s, i)) <= Len(s)
    BY <1>2, <2>1, FS_Subset
  <2>3. Cardinality(UpTo(s, i)) \in Nat
    BY <2>2, FS_CardinalityType
  <2>4. i \in UpTo(s, i)
    BY <1>1 DEF UpTo, Before
  <2>5. Cardinality(UpTo(s, i)) # 0
    BY <2>2, <2>4, FS_EmptySet
  <2> QED
    BY <1>1, <2>2, <2>3, <2>5
<1>4. Place(s) \in [DOMAIN s -> DOMAIN s]
  BY <1>3 DEF Place
<1>5. ASSUME NEW i \in DOMAIN s, NEW j \in DOMAIN s, Place(s)[i] = Place(s)[j], i # j
      PROVE  FALSE
  <2>1. Before(s, i, j) \/ Before(s, j, i)
    BY <1>1 DEF Before
  <2>2. Place(s)[i] < Place(s)[j] \/ Place(s)[j] < Place(s)[i]
    BY <1>5, <2>1, PlaceGrows
  <2>3. Place(s)[i] \in Nat /\ Place(s)[j] \in Nat
    BY <1>1, <1>4
  <2> QED
    BY <1>5, <2>2, <2>3
<1>6. Place(s) \in Injection(DOMAIN s, DOMAIN s)
  BY <1>4, <1>5, Fun_IsInj
<1>7. Place(s) \in Surjection(DOMAIN s, DOMAIN s)
  BY <1>2, <1>6, FS_Injection
<1> QED
  BY <1>6, <1>7 DEF Bijection

\* Every sequence can be put in order, so Sorted is defined.
LEMMA SortedIsOrdered ==
    ASSUME NEW s \in Seq(Nat)
    PROVE  /\ Sorted(s) \in Seq(Nat) /\ DOMAIN Sorted(s) = DOMAIN s
           /\ \E f : Reordered(Sorted(s), s, f)
           /\ \A i, j \in DOMAIN s : i < j => Sorted(s)[i] <= Sorted(s)[j]
<1> DEFINE Orders(f) == \A i, j \in DOMAIN s : i < j => s[f[i]] <= s[f[j]]
           order == CHOOSE f \in Bijection(DOMAIN s, DOMAIN s) : Orders(f)
           inv == Inverse(Place(s), DOMAIN s, DOMAIN s)
<1>1. /\ DOMAIN s = 1..Len(s) /\ Len(s) \in Nat
      /\ \A k \in DOMAIN s : k \in Nat /\ s[k] \in Nat
  OBVIOUS
<1>2. inv \in Bijection(DOMAIN s, DOMAIN s)
  BY PlaceIsBijection, Fun_BijInverse
<1>3. /\ inv \in [DOMAIN s -> DOMAIN s]
      /\ \A i \in DOMAIN s : Place(s)[inv[i]] = i
  <2> HIDE DEF inv
  <2>1. inv \in [DOMAIN s -> DOMAIN s]
    BY <1>2, Fun_BijectionProperties
  <2>2. \A i \in DOMAIN s : inv[Place(s)[i]] = i
    BY PlaceIsBijection, Fun_BijInverse DEF inv
  <2>3. \A i \in DOMAIN s : \E k \in DOMAIN s : Place(s)[k] = i
    BY PlaceIsBijection, Fun_BijectionProperties
  <2> QED
    BY <2>1, <2>2, <2>3
<1>4. ASSUME NEW i \in DOMAIN s, NEW j \in DOMAIN s, i < j
      PROVE  s[inv[i]] <= s[inv[j]]
  <2> HIDE DEF inv
  <2>1. inv[i] \in DOMAIN s /\ inv[j] \in DOMAIN s
    BY <1>3
  <2>2. Place(s)[inv[i]] < Place(s)[inv[j]]
    BY <1>3, <1>4
  <2>3. s[inv[i]] \in Nat /\ s[inv[j]] \in Nat /\ inv[i] \in Nat /\ inv[j] \in Nat
    BY <1>1, <2>1
  <2>4. SUFFICES ASSUME s[inv[j]] < s[inv[i]]
                 PROVE  FALSE
    BY <2>3
  <2>5. Before(s, inv[j], inv[i]) /\ inv[i] # inv[j]
    BY <2>3, <2>4 DEF Before
  <2>6. Place(s)[inv[j]] < Place(s)[inv[i]]
    BY <2>1, <2>5, PlaceGrows
  <2>7. Place(s)[inv[i]] = i /\ Place(s)[inv[j]] = j /\ i \in Nat /\ j \in Nat
    BY <1>1, <1>3
  <2> QED
    BY <2>2, <2>6, <2>7
<1>5. order \in Bijection(DOMAIN s, DOMAIN s) /\ Orders(order)
  <2> HIDE DEF inv
  <2>1. Orders(inv)
    BY <1>4
  <2> HIDE DEF Orders
  <2> QED
    BY <1>2, <2>1
<1>6. Sorted(s) = [i \in DOMAIN s |-> s[order[i]]]
  BY DEF Sorted
<1> HIDE DEF order
<1>7. order \in [DOMAIN s -> DOMAIN s]
  BY <1>5, Fun_BijectionProperties
<1>8. Sorted(s) \in [1..Len(s) -> Nat]
  BY <1>1, <1>6, <1>7
<1>9. Sorted(s) \in Seq(Nat) /\ DOMAIN Sorted(s) = DOMAIN s
  BY <1>1, <1>8, SeqDef
<1>10. Reordered(Sorted(s), s, order)
  BY <1>5, <1>6, <1>9 DEF Reordered
<1>11. \A i, j \in DOMAIN s : i < j => Sorted(s)[i] <= Sorted(s)[j]
  BY <1>5, <1>6
<1> QED
  BY <1>9, <1>10, <1>11

\* In a sequence in order the sample at rank k is at least k samples and less than k
\* samples are below it.
LEMMA RankIsPercentile ==
    ASSUME NEW t \in Seq(Nat), \A i, j \in DOMAIN t : i < j => t[i] <= t[j],
           NEW p \in 1..100, NEW r \in DOMAIN t,
           100 * r >= p * Len(t), 100 * (r - 1) < p * Len(t)
    PROVE  t[r] = Percentile(p, t)
<1> DEFINE Enough == {v \in ToSet(t) : 100 * Cardinality(AtMost(t, v)) >= p * Len(t)}
<1>1. /\ DOMAIN t = 1..Len(t) /\ Len(t) \in Nat /\ r \in Nat /\ r >= 1 /\ p * Len(t) \in Nat
      /\ \A k \in DOMAIN t : k \in Nat /\ t[k] \in Nat
  OBVIOUS
<1>2. Percentile(p, t) = CHOOSE v \in Enough : \A w \in Enough : v <= w
  BY DEF Percentile, AtMost
<1>3. ToSet(t) = {t[k] : k \in DOMAIN t}
  BY DEF ToSet
<1>4. \A v \in ToSet(t) : v \in Nat /\ IsFiniteSet(AtMost(t, v)) /\ Cardinality(AtMost(t, v)) \in Nat
  BY <1>1, <1>3, AtMostFinite
<1>5. t[r] \in Enough
  <2>1. 1..r \in SUBSET AtMost(t, t[r])
    BY <1>1 DEF AtMost
  <2>2. Cardinality(1..r) = r
    BY <1>1, Interval
  <2>3. t[r] \in ToSet(t)
    BY <1>3
  <2>4. r <= Cardinality(AtMost(t, t[r]))
    <3>1. IsFiniteSet(AtMost(t, t[r]))
      BY <1>4, <2>3
    <3>2. Cardinality(1..r) <= Cardinality(AtMost(t, t[r]))
      BY <2>1, <3>1, FS_Subset
    <3> QED
      BY <2>2, <3>2
  <2>5. Cardinality(AtMost(t, t[r])) \in Nat
    BY <1>4, <2>3
  <2>6. 100 * Cardinality(AtMost(t, t[r])) >= p * Len(t)
    BY <1>1, <2>4, <2>5
  <2> QED
    BY <2>3, <2>6
<1>6. ASSUME NEW w \in Enough
      PROVE  t[r] <= w
  <2>1. w \in Nat /\ t[r] \in Nat /\ w \in ToSet(t) /\ Cardinality(AtMost(t, w)) \in Nat
        /\ 100 * Cardinality(AtMost(t, w)) >= p * Len(t)
    BY <1>1, <1>4
  <2>2. SUFFICES ASSUME w < t[r]
                 PROVE  FALSE
    BY <2>1
  <2>3. AtMost(t, w) \in SUBSET (1..(r - 1))
    <3>1. SUFFICES ASSUME NEW i \in DOMAIN t, t[i] <= w
                   PROVE  i \in 1..(r - 1)
      BY DEF AtMost
    <3>2. t[i] \in Nat /\ i \in Nat /\ i >= 1
      BY <1>1
    <3>3. t[i] < t[r]
      BY <2>1, <2>2, <3>1, <3>2
    <3>4. ~(r < i) /\ i # r
      BY <2>1, <3>2, <3>3
    <3> QED
      BY <1>1, <3>2, <3>4
  <2>4. IsFiniteSet(1..(r - 1)) /\ Cardinality(1..(r - 1)) = r - 1
    <3>1. r - 1 \in Nat
      BY <1>1
    <3> QED
      BY <3>1, Interval
  <2>5. Cardinality(AtMost(t, w)) <= r - 1
    BY <2>3, <2>4, FS_Subset
  <2> QED
    BY <1>1, <2>1, <2>5
<1>7. \A v \in Enough : (\A w \in Enough : v <= w) => v = t[r]
  <2> SUFFICES ASSUME NEW v \in Enough, \A w \in Enough : v <= w
               PROVE  v = t[r]
    OBVIOUS
  <2>1. v <= t[r] /\ t[r] <= v
    BY <1>5, <1>6
  <2>2. v \in Nat /\ t[r] \in Nat
    BY <1>1, <1>4
  <2> QED
    BY <2>1, <2>2
<1> HIDE DEF Enough
<1> QED
  BY <1>2, <1>5, <1>6, <1>7

\* What is shown of any samples are their percentiles.
LEMMA ShownIs ==
    ASSUME NEW s \in Seq(Nat)
    PROVE  /\ dialPercentiles(s).count = Len(s)
           /\ s # << >> => /\ dialPercentiles(s).p50 = Percentile(50, s)
                           /\ dialPercentiles(s).p95 = Percentile(95, s)
                           /\ dialPercentiles(s).max = Percentile(100, s)
<1>1. CASE s = << >>
  BY <1>1 DEF dialPercentiles
<1>2. CASE s # << >>
  <2> DEFINE t == Sorted(s)
             n == Len(s)
  <2>1. t \in Seq(Nat) /\ DOMAIN t = DOMAIN s /\ \A i, j \in DOMAIN t : i < j => t[i] <= t[j]
    BY SortedIsOrdered
  <2>2. PICK f : Reordered(t, s, f)
    BY SortedIsOrdered
  <2> HIDE DEF t
  <2>3. n \in Nat /\ n >= 1 /\ Len(t) = n /\ DOMAIN t = 1..n
    <3>1. Len(t) = n
      BY <2>1, <2>2, ReorderedSame
    <3>2. n \in Nat /\ n # 0
      BY <1>2
    <3> QED
      BY <2>1, <3>1, <3>2
  <2> HIDE DEF n
  <2>4. \A p \in 1..100 : Percentile(p, t) = Percentile(p, s)
    BY <2>1, <2>2, PercentileOfReordered
  <2>5. /\ Rank(50, n) \in 1..n /\ 100 * Rank(50, n) >= 50 * n /\ 100 * (Rank(50, n) - 1) < 50 * n
        /\ Rank(95, n) \in 1..n /\ 100 * Rank(95, n) >= 95 * n /\ 100 * (Rank(95, n) - 1) < 95 * n
    BY <2>3 DEF Rank
  <2>6. ASSUME NEW p \in 1..100, NEW r \in 1..n, 100 * r >= p * n, 100 * (r - 1) < p * n
        PROVE  t[r] = Percentile(p, s)
    BY <2>1, <2>3, <2>4, <2>6, RankIsPercentile
  <2>7. t[Rank(50, n)] = Percentile(50, s)
    BY <2>5, <2>6
  <2>8. t[Rank(95, n)] = Percentile(95, s)
    BY <2>5, <2>6
  <2>9. t[n] = Percentile(100, s)
    BY <2>3, <2>6
  <2>10. dialPercentiles(s) = [count |-> n, p50 |-> t[Rank(50, n)], p95 |-> t[Rank(95, n)],
                              max |-> t[n]]
    BY <2>3 DEF dialPercentiles, n, t
  <2>11. /\ dialPercentiles(s).count = n /\ dialPercentiles(s).p50 = t[Rank(50, n)]
         /\ dialPercentiles(s).p95 = t[Rank(95, n)] /\ dialPercentiles(s).max = t[n]
    BY <2>10
  <2>12. dialPercentiles(s).count = Len(s)
    BY <2>11 DEF n
  <2> QED
    BY <2>7, <2>8, <2>9, <2>11, <2>12
<1> QED
  BY <1>1, <1>2

----------------------------------------------------------------------------
\* The ring: before it is full the samples are the dials, then the place of each of the
\* latest dials is known from the position.
Ring ==
    LET n == Len(dials)
    IN  IF n < DialCap THEN samples = dials /\ dialPos = 0
        ELSE /\ Len(samples) = DialCap
             /\ \A i \in 1..DialCap :
                    samples[i] = dials[IF i <= dialPos THEN n - dialPos + i
                                       ELSE n - dialPos - DialCap + i]

LEMMA RingTypes ==
    ASSUME TypeOK
    PROVE  /\ DialCap \in Nat /\ DialCap >= 1
           /\ dials \in Seq(DialTime) /\ Len(dials) \in Nat
           /\ samples \in Seq(DialTime) /\ Len(samples) \in Nat
           /\ dialPos \in Nat /\ dialPos < DialCap
  BY StatsAssumption DEF TypeOK, StatsTypeOK

LEMMA RingOpen ==
    ASSUME TypeOK, Ring, NEW ms \in DialTime, Open(ms)
    PROVE  Ring'
<1> DEFINE n == Len(dials)
           Slot(i) == IF i <= dialPos THEN n - dialPos + i ELSE n - dialPos - DialCap + i
<1>1. /\ DialCap \in Nat /\ DialCap >= 1
      /\ dials \in Seq(DialTime) /\ n \in Nat
      /\ samples \in Seq(DialTime) /\ Len(samples) \in Nat
      /\ dialPos \in Nat /\ dialPos < DialCap
  BY RingTypes
<1>2. RecordDial(ms) /\ dials' = Append(dials, ms)
  BY DEF Open
<1>3. /\ Len(dials') = n + 1 /\ dials'[n + 1] = ms
      /\ \A i \in 1..n : dials'[i] = dials[i]
  BY <1>1, <1>2
<1>4. CASE n < DialCap
  <2>1. samples = dials /\ dialPos = 0
    BY <1>4 DEF Ring
  <2>2. samples' = dials' /\ dialPos' = 0
    BY <1>2, <1>4, <2>1 DEF RecordDial
  <2>3. CASE n + 1 < DialCap
    BY <1>3, <2>2, <2>3 DEF Ring
  <2>4. CASE n + 1 = DialCap
    <3>1. Len(samples') = DialCap /\ ~(Len(dials') < DialCap)
      BY <1>1, <1>3, <2>2, <2>4
    <3>2. \A i \in 1..DialCap : ~(i <= 0) /\ n + 1 - 0 - DialCap + i = i
      BY <1>1, <2>4
    <3> QED
      BY <1>3, <2>2, <3>1, <3>2 DEF Ring
  <2> QED
    BY <1>1, <1>4, <2>3, <2>4
<1>5. CASE ~(n < DialCap)
  <2>1. Len(samples) = DialCap /\ \A i \in 1..DialCap : samples[i] = dials[Slot(i)]
    BY <1>5 DEF Ring
  <2>2. /\ samples' = [samples EXCEPT ![dialPos + 1] = ms]
        /\ dialPos' = (dialPos + 1) % DialCap
    BY <1>2, <2>1 DEF RecordDial
  <2>3. dialPos' = IF dialPos + 1 = DialCap THEN 0 ELSE dialPos + 1
    <3>1. dialPos + 1 \in Nat /\ dialPos + 1 <= DialCap
      BY <1>1
    <3> QED
      BY <1>1, <2>2, <3>1
  <2>4. DOMAIN samples = 1..DialCap /\ Len(samples') = DialCap
    BY <1>1, <2>1, <2>2
  <2>5. ~(Len(dials') < DialCap)
    BY <1>1, <1>3, <1>5
  <2>6. ASSUME NEW i \in 1..DialCap, NEW m, m = n + 1
        PROVE  samples'[i] = dials'[IF i <= dialPos' THEN m - dialPos' + i
                                    ELSE m - dialPos' - DialCap + i]
    <3> DEFINE k == IF i <= dialPos' THEN m - dialPos' + i ELSE m - dialPos' - DialCap + i
    <3>1. CASE i = dialPos + 1
      <4>1. k = n + 1
        BY <1>1, <2>3, <2>6, <3>1
      <4>2. samples'[i] = ms
        BY <2>2, <2>4, <3>1
      <4> QED
        BY <1>3, <4>1, <4>2
    <3>2. CASE i # dialPos + 1
      <4>1. k = Slot(i) /\ k \in 1..n
        BY <1>1, <1>5, <2>3, <2>6, <3>2
      <4>2. samples'[i] = samples[i]
        BY <2>2, <2>4, <3>2
      <4> QED
        BY <1>3, <2>1, <4>1, <4>2
    <3> QED
      BY <3>1, <3>2
  <2>7. Len(dials') = n + 1
    BY <1>3
  <2> HIDE DEF n, Slot
  <2>8. \A i \in 1..DialCap :
            samples'[i] = dials'[IF i <= dialPos' THEN Len(dials') - dialPos' + i
                                 ELSE Len(dials') - dialPos' - DialCap + i]
    BY <2>6, <2>7, Zenon
  <2> QED
    BY <2>4, <2>5, <2>8, Zenon DEF Ring
<1> QED
  BY <1>4, <1>5

LEMMA RingStep == ASSUME TypeOK, Ring, [Next]_vars PROVE Ring'
<1>1. ASSUME NEW ms \in DialTime, Open(ms) PROVE Ring'
  BY <1>1, RingOpen
<1>2. CASE UNCHANGED <<dials, samples, dialPos>>
  BY <1>2 DEF Ring
<1>3. ASSUME NEW s \in End, PeerSends(s) \/ PeerEnds(s) \/ PeerReads(s) \/ PeerDies(s)
      PROVE  UNCHANGED <<dials, samples, dialPos>>
  BY <1>3 DEF PeerSends, PeerEnds, PeerReads, PeerDies, statsVars, history
<1>4. ASSUME NEW k \in 0..MaxBytes, Start(k)
      PROVE  UNCHANGED <<dials, samples, dialPos>>
  BY <1>4 DEF Start, statsVars, history
<1>5. ASSUME NEW d \in Dir, Copy(d)
      PROVE  UNCHANGED <<dials, samples, dialPos>>
  BY <1>5 DEF Copy, Read, ReadFails, WriteByte, WriteReturns, Count, Account, Wake, statsVars,
              history
<1>6. Close \/ UNCHANGED vars => UNCHANGED <<dials, samples, dialPos>>
  BY DEF Close, vars, statsVars, history
<1> QED
  BY <1>1, <1>2, <1>3, <1>4, <1>5, <1>6 DEF Next

\* The samples are the latest dials in another order.
LEMMA RingIsLatest ==
    ASSUME TypeOK, Ring
    PROVE  /\ samples \in Seq(Nat) /\ Latest(dials) \in Seq(Nat)
           /\ \E f : Reordered(samples, Latest(dials), f)
<1> DEFINE n == Len(dials)
           L == Latest(dials)
<1>1. /\ DialCap \in Nat /\ DialCap >= 1
      /\ dials \in Seq(DialTime) /\ n \in Nat
      /\ samples \in Seq(DialTime) /\ Len(samples) \in Nat
      /\ dialPos \in Nat /\ dialPos < DialCap
  BY RingTypes
<1>2. samples \in Seq(Nat) /\ dials \in Seq(Nat)
  <2>1. DialTime \subseteq Nat
    BY StatsAssumption
  <2> QED
    BY <1>1, <2>1, SeqMonotonic
<1>3. CASE n < DialCap
  <2>1. L = dials /\ samples = dials
    <3>1. L = SubSeq(dials, n - n + 1, n)
      BY <1>3 DEF Latest
    <3>2. n - n + 1 = 1
      BY <1>1
    <3> QED
      BY <1>2, <1>3, <3>1, <3>2, SubSeqFull DEF Ring
  <2> DEFINE f == [i \in DOMAIN dials |-> i]
  <2>2. f \in Bijection(DOMAIN dials, DOMAIN dials)
    BY Fun_IsBij
  <2>3. Reordered(samples, L, f)
    BY <2>1, <2>2 DEF Reordered
  <2> QED
    BY <1>2, <2>1, <2>3
<1>4. CASE ~(n < DialCap)
  <2> DEFINE f == [i \in 1..DialCap |-> IF i <= dialPos THEN DialCap - dialPos + i ELSE i - dialPos]
  <2>1. L = SubSeq(dials, n - DialCap + 1, n)
    BY <1>4 DEF Latest
  <2>2. \A i \in n - DialCap + 1 .. n : dials[i] \in Nat
    BY <1>1, <1>2, <1>4
  <2>3. n - DialCap + 1 \in Int /\ n \in Int /\ n - DialCap + 1 <= n
        /\ n - (n - DialCap + 1) + 1 = DialCap
    BY <1>1, <1>4
  <2>4. /\ L \in Seq(Nat) /\ Len(L) = DialCap
        /\ \A i \in 1..DialCap : L[i] = dials[n - DialCap + 1 + i - 1]
    BY <2>1, <2>2, <2>3, SubSeqProperties
  <2>5. Len(samples) = DialCap /\ \A i \in 1..DialCap :
            samples[i] = dials[IF i <= dialPos THEN n - dialPos + i
                               ELSE n - dialPos - DialCap + i]
    BY <1>4 DEF Ring
  <2>6. DOMAIN samples = 1..DialCap /\ DOMAIN L = 1..DialCap
    BY <1>2, <2>4, <2>5
  <2>7. f \in [1..DialCap -> 1..DialCap]
    BY <1>1
  <2>8. \A a, b \in 1..DialCap : f[a] = f[b] => a = b
    BY <1>1
  <2>9. \A j \in 1..DialCap : \E i \in 1..DialCap : f[i] = j
    <3> TAKE j \in 1..DialCap
    <3> DEFINE i == IF j <= DialCap - dialPos THEN j + dialPos ELSE j - (DialCap - dialPos)
    <3>1. i \in 1..DialCap /\ f[i] = j
      BY <1>1
    <3> QED
      BY <3>1
  <2>10. f \in Bijection(1..DialCap, 1..DialCap)
    <3> HIDE DEF f
    <3> QED
      BY <2>7, <2>8, <2>9, Fun_IsBij
  <2>11. ASSUME NEW i \in 1..DialCap
         PROVE  samples[i] = L[f[i]]
    <3>1. f[i] \in 1..DialCap
      BY <2>7
    <3>2. n - DialCap + 1 + f[i] - 1 = IF i <= dialPos THEN n - dialPos + i
                                       ELSE n - dialPos - DialCap + i
      BY <1>1
    <3> HIDE DEF f
    <3> QED
      BY <2>4, <2>5, <3>1, <3>2
  <2>12. Reordered(samples, L, f)
    BY <2>6, <2>10, <2>11 DEF Reordered
  <2> QED
    BY <1>2, <2>4, <2>12
<1> QED
  BY <1>3, <1>4

\* After any number of dials, before the ring is full and each time it wraps, the count and
\* the percentiles of a snapshot are those of the latest dials: sorting the ring and taking
\* the nearest rank gives the smallest time that p of a hundred do not exceed.
THEOREM DialsLatest == Spec => []DialStatsAreLatest
<1>1. Init => Ring
  BY StatsAssumption DEF Init, StatsInit, Ring
<1>2. TypeOK /\ Ring /\ [Next]_vars => Ring'
  BY RingStep
<1>3. TypeOK /\ Ring => DialStatsAreLatest
  <2> SUFFICES ASSUME TypeOK, Ring
               PROVE  DialStatsAreLatest
    OBVIOUS
  <2> DEFINE L == Latest(dials)
  <2>1. samples \in Seq(Nat) /\ L \in Seq(Nat)
    BY RingIsLatest
  <2>2. PICK f : Reordered(samples, L, f)
    BY RingIsLatest
  <2> HIDE DEF L
  <2>3. Len(samples) = Len(L)
    BY <2>1, <2>2, ReorderedSame
  <2>4. \A p \in Nat : Percentile(p, samples) = Percentile(p, L)
    BY <2>1, <2>2, PercentileOfReordered
  <2>5. L # << >> => samples # << >>
    BY <2>1, <2>3
  <2>6. dialPercentiles(samples).count = Len(L)
    BY <2>1, <2>3, ShownIs
  <2>7. L # << >> => /\ dialPercentiles(samples).p50 = Percentile(50, L)
                     /\ dialPercentiles(samples).p95 = Percentile(95, L)
                     /\ dialPercentiles(samples).max = Percentile(100, L)
    BY <2>1, <2>4, <2>5, ShownIs
  <2> QED
    BY <2>6, <2>7 DEF DialStatsAreLatest, L
<1> QED
  BY <1>1, <1>2, <1>3, TypeCorrect, PTL DEF Spec

=============================================================================
