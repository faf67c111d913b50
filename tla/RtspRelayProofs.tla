-------------------------- MODULE RtspRelayProofs ---------------------------
(* Theorems about RtspRelay, for buffers of any size and any number of bytes. *)
EXTENDS RtspRelay, TLAPS

(* The bridges run from the moment the server is reached until both are over. *)
Stage ==
    \A d \in Dirs : /\ pc[d] = "idle" <=> hpc \in {"connect", "failed"}
                    /\ hpc = "closed" => pc[d] = "done"

Typed == TypeOK /\ Stage

-----------------------------------------------------------------------------
LEMMA InitTyped == Init => Typed
BY RelayAssumption DEF Init, Typed, TypeOK, Stage

LEMMA CloseTyped ==
    ASSUME TypeOK, NEW K, CloseSockets(K)
    PROVE  /\ inb' \in [Socks -> 0..RoomIn] /\ out' \in [Socks -> 0..RoomOut]
           /\ fin' \in [Socks -> BOOLEAN] /\ shut' \in [Socks -> BOOLEAN]
           /\ broken' \in [Socks -> BOOLEAN]
BY DEF TypeOK, CloseSockets

(* The relay's own steps. *)
LEMMA RelayTyped ==
    ASSUME Typed, Handle \/ AcceptNext \/ \E d \in Dirs : Bridge(d)
    PROVE  TypeOK'
<1> USE DEF Typed, TypeOK, relayVars, sockVars, peerVars
<1>1. CASE Handle \/ AcceptNext
  <2>1. CASE Connected
    BY <2>1 DEF Connected, Stage
  <2>2. CASE ConnectFails
    BY <2>2, CloseTyped DEF ConnectFails
  <2>3. CASE AcceptNext
    BY <2>3, CloseTyped DEF AcceptNext
  <2>4. CASE CloseBoth
    BY <2>4, CloseTyped DEF CloseBoth
  <2> QED BY <1>1, <2>1, <2>2, <2>3, <2>4 DEF Handle
<1>2. ASSUME NEW d \in Dirs, Bridge(d) PROVE TypeOK'
  <2>0. src[d] \in Socks /\ dst[d] \in Socks
    BY DEF Dirs, Socks, src, dst
  <2>1. CASE Receive(d)
    <3>1. PICK n \in 1..inb[src[d]] : /\ hand' = [hand EXCEPT ![d] = n]
                                      /\ inb' = [inb EXCEPT ![src[d]] = @ - n]
      BY <2>1 DEF Receive
    <3>2. inb[src[d]] \in 0..RoomIn /\ n \in 1..RoomIn /\ inb[src[d]] - n \in 0..RoomIn
      BY <2>0, <3>1, RelayAssumption
    <3> QED BY <2>0, <2>1, <3>1, <3>2 DEF Receive
  <2>2. CASE ReceiveEnds(d) \/ TimesOut(d) \/ SendFails(d)
    <3>1. Leave(d) /\ UNCHANGED <<hpc, held, sockVars, peerVars>>
          /\ (UNCHANGED quiet \/ quiet' = [quiet EXCEPT ![d] = TRUE])
      BY <2>2 DEF ReceiveEnds, TimesOut, SendFails
    <3>2. quiet' \in [Dirs -> BOOLEAN]
      BY <3>1
    <3>3. 0 \in 0..RoomIn
      BY RelayAssumption
    <3>4. /\ pc' \in [Dirs -> {"idle", "recv", "send", "shut", "done"}]
          /\ hand' \in [Dirs -> 0..RoomIn]
          /\ \A e \in Dirs : pc'[e] = "send" <=> hand'[e] > 0
      BY <3>1, <3>3 DEF Leave
    <3> QED BY <3>1, <3>2, <3>4
  <2>3. CASE Send(d)
    <3>1. out[dst[d]] + 1 \in 0..RoomOut /\ hand[d] - 1 \in 0..RoomIn
      BY <2>0, <2>3, RelayAssumption DEF Send
    <3>2. hand[d] - 1 > 0 <=> hand[d] # 1
      BY <2>0, <2>3 DEF Send
    <3> QED BY <2>0, <2>3, <3>1, <3>2 DEF Send
  <2>4. CASE SendToClosed(d)
    BY <2>0, <2>4 DEF SendToClosed
  <2>5. CASE HalfClose(d)
    BY <2>0, <2>5 DEF HalfClose
  <2> QED BY <1>2, <2>1, <2>2, <2>3, <2>4, <2>5 DEF Bridge
<1> QED BY <1>1, <1>2

LEMMA PeerTyped ==
    ASSUME TypeOK, NEW k \in Socks, Peer(k)
    PROVE  TypeOK'
<1> USE DEF TypeOK, relayVars, sockVars, peerVars
<1>0. Toward(k) \in Dirs /\ From(k) \in Dirs
  BY DEF Toward, From, Dirs
<1>1. CASE PeerWrites(k)
  <2>1. inb[k] + 1 \in 0..RoomIn /\ sent[From(k)] + 1 \in Nat
    BY <1>0, <1>1, RelayAssumption DEF PeerWrites
  <2> QED BY <1>0, <1>1, <2>1 DEF PeerWrites
<1>2. CASE PeerEnds(k)
  BY <1>2 DEF PeerEnds
<1>3. CASE PeerReads(k)
  <2>1. out[k] - 1 \in 0..RoomOut /\ got[Toward(k)] + 1 \in Nat
    BY <1>0, <1>3, RelayAssumption DEF PeerReads
  <2> QED BY <1>0, <1>3, <2>1 DEF PeerReads
<1>4. CASE PeerIsTold(k)
  BY <1>0, <1>4, RelayAssumption DEF PeerIsTold
<1>5. CASE PeerCloses(k)
  BY <1>5, RelayAssumption DEF PeerCloses
<1>6. CASE Breaks(k)
  BY <1>6 DEF Breaks
<1> QED BY <1>1, <1>2, <1>3, <1>4, <1>5, <1>6 DEF Peer

LEMMA NextStage ==
    ASSUME Typed, [Next]_vars
    PROVE  Stage'
<1> USE DEF Typed, Stage
<1>1. CASE Handle
  BY <1>1 DEF Handle, Connected, ConnectFails, CloseBoth, TypeOK
<1>2. ASSUME NEW d \in Dirs, Bridge(d) PROVE Stage'
  <2>1. /\ hpc' = hpc /\ pc[d] \notin {"idle", "done"} /\ pc'[d] # "idle"
        /\ \A e \in Dirs \ {d} : pc'[e] = pc[e]
    BY <1>2 DEF Bridge, Receive, ReceiveEnds, TimesOut, Send, SendToClosed, SendFails,
        HalfClose, Leave, relayVars, TypeOK
  <2> QED BY <2>1
<1>3. CASE AcceptNext \/ (\E k \in Socks : Peer(k)) \/ UNCHANGED vars
  <2>1. UNCHANGED <<hpc, pc>>
    BY <1>3 DEF AcceptNext, Peer, PeerWrites, PeerEnds, PeerReads, PeerIsTold, PeerCloses,
        Breaks, relayVars, vars
  <2> QED BY <2>1
<1> QED BY <1>1, <1>2, <1>3 DEF Next

LEMMA NextTyped == Typed /\ [Next]_vars => Typed'
<1>1. TypeOK /\ UNCHANGED vars => TypeOK'
  BY DEF TypeOK, vars, relayVars, sockVars, peerVars
<1> QED BY <1>1, RelayTyped, PeerTyped, NextStage DEF Next, Typed

(* The fields have their types, and no buffer overflows, in every behaviour. *)
THEOREM RelayTypeCorrect == Spec => []TypeOK
<1>1. Typed => TypeOK
  BY DEF Typed
<1> QED BY <1>1, InitTyped, NextTyped, PTL DEF Spec

-----------------------------------------------------------------------------
(* The two directions cross: each reads where the other writes. *)
LEMMA Crossing ==
    /\ \A d \in Dirs : /\ src[d] \in Socks /\ dst[d] \in Socks /\ src[d] # dst[d]
                       /\ \A k \in Socks : k = src[d] \/ k = dst[d]
                       /\ \A k \in Socks : Toward(k) = d <=> k = dst[d]
                       /\ \A k \in Socks : From(k) = d <=> k = src[d]
                       /\ \A e \in Dirs : e # d => src[e] = dst[d] /\ dst[e] = src[d]
    /\ \A k \in Socks : Toward(k) \in Dirs /\ From(k) \in Dirs
BY DEF Dirs, Socks, src, dst, Toward, From

(* The relay ends its stream to a peer only when the direction is over. *)
Over == \A k \in Socks : shut[k] => pc[Toward(k)] = "done" \/ hpc = "failed"

LEMMA NextOver ==
    ASSUME Typed, Over, [Next]_vars
    PROVE  Over'
<1> USE DEF Over
<1>1. CASE Handle \/ AcceptNext
  <2>1. CASE Connected
    BY <2>1, Crossing DEF Connected, sockVars, Typed, Stage
  <2>2. CASE ConnectFails
    BY <2>2 DEF ConnectFails
  <2>3. CASE AcceptNext
    <3>1. UNCHANGED <<hpc, pc>> /\ (hpc # "failed" => \A k \in Socks : shut'[k] = shut[k])
      BY <2>3 DEF AcceptNext, CloseSockets, Typed, TypeOK
    <3> QED BY <3>1
  <2>4. CASE CloseBoth
    BY <2>4, Crossing DEF CloseBoth
  <2> QED BY <1>1, <2>1, <2>2, <2>3, <2>4 DEF Handle
<1>2. ASSUME NEW d \in Dirs, Bridge(d) PROVE Over'
  <2>1. CASE HalfClose(d)
    BY <2>1, Crossing DEF HalfClose, Typed, TypeOK
  <2>2. CASE ~HalfClose(d)
    <3>1. /\ UNCHANGED <<hpc, shut>> /\ pc[d] # "done"
          /\ \A e \in Dirs \ {d} : pc'[e] = pc[e]
      BY <1>2, <2>2 DEF Bridge, Receive, ReceiveEnds, TimesOut, Send, SendToClosed,
          SendFails, Leave, relayVars, sockVars, Typed, TypeOK
    <3> QED BY <3>1, Crossing
  <2> QED BY <2>1, <2>2
<1>3. CASE (\E k \in Socks : Peer(k)) \/ UNCHANGED vars
  <2>1. UNCHANGED <<hpc, pc, shut>>
    BY <1>3 DEF Peer, PeerWrites, PeerEnds, PeerReads, PeerIsTold, PeerCloses, Breaks,
        relayVars, sockVars, vars
  <2> QED BY <2>1
<1> QED BY <1>1, <1>2, <1>3 DEF Next

-----------------------------------------------------------------------------
(* Either direction as a pipe. *)
Pipe(d) == INSTANCE BytePipe WITH sent <- sent[d], flight <- InFlight(d), got <- got[d],
                                  cut <- CutOff(d), ended <- ended[d]

(* The numbers of one direction. *)
LEMMA Counts ==
    ASSUME Typed, NEW d \in Dirs
    PROVE  /\ hand[d] \in Nat /\ sent[d] \in Nat /\ got[d] \in Nat
           /\ \A k \in Socks : inb[k] \in Nat /\ out[k] \in Nat
           /\ out[dst[d]] \in Nat /\ InFlight(d) \in Nat
           /\ out[dst[d]] <= InFlight(d)
<1>1. /\ hand[d] \in Nat /\ sent[d] \in Nat /\ got[d] \in Nat
      /\ \A k \in Socks : inb[k] \in Nat /\ out[k] \in Nat
  BY RelayAssumption DEF Typed, TypeOK
<1>2. inb[src[d]] \in Nat /\ out[dst[d]] \in Nat
  BY <1>1, Crossing
<1> QED BY <1>1, <1>2 DEF InFlight

(* What a direction that is cut, or not, has under way. *)
LEMMA Flights ==
    ASSUME NEW d \in Dirs
    PROVE  /\ CutOff(d) /\ out[dst[d]] \in Nat => InFlight(d) = out[dst[d]]
           /\ ~CutOff(d) => InFlight(d) = out[dst[d]] + (hand[d] + inb[src[d]])
BY DEF InFlight

LEMMA HandlePipes ==
    ASSUME Typed, Handle \/ AcceptNext, NEW d \in Dirs
    PROVE  [Pipe(d)!Next]_(Pipe(d)!vars)
<1>1. /\ UNCHANGED <<sent, got, ended, inb, out, hand, peer>>
  BY DEF Handle, AcceptNext, Connected, ConnectFails, CloseBoth, CloseSockets, peerVars,
      sockVars
<1>2. CASE ConnectFails
  <2>1. CutOff(d)'
    BY <1>2 DEF ConnectFails, CutOff
  <2>2. InFlight(d)' = out[dst[d]]
    BY <1>1, <2>1, Counts DEF InFlight
  <2>3. InFlight(d)' \in 0..InFlight(d)
    BY <2>2, Counts
  <2> QED BY <1>1, <2>1, <2>3 DEF Pipe!Next, Pipe!Cut
<1>3. CASE ~ConnectFails
  <2>1. CutOff(d)' = CutOff(d)
    <3>1. CASE Connected
      BY <3>1 DEF Connected, CutOff, Typed, Stage, sockVars, peerVars
    <3>2. CASE AcceptNext
      BY <3>2, Crossing DEF AcceptNext, CloseSockets, CutOff, Typed, TypeOK, peerVars
    <3>3. CASE CloseBoth
      BY <3>3 DEF CloseBoth, CutOff
    <3> QED BY <1>3, <3>1, <3>2, <3>3 DEF Handle
  <2>2. InFlight(d)' = InFlight(d)
    BY <1>1, <2>1 DEF InFlight
  <2> QED BY <1>1, <2>1, <2>2 DEF Pipe!vars
<1> QED BY <1>2, <1>3

LEMMA BridgePipes ==
    ASSUME Typed, NEW d \in Dirs, NEW e \in Dirs, Bridge(e)
    PROVE  [Pipe(d)!Next]_(Pipe(d)!vars)
<1>1. /\ UNCHANGED <<hpc, sent, got, ended, peer>> /\ hpc \notin {"failed", "connect"}
      /\ hpc = "bridging"
  BY DEF Bridge, Receive, ReceiveEnds, TimesOut, Send, SendToClosed, SendFails, HalfClose,
      peerVars, relayVars, Typed, TypeOK, Stage
<1>2. CASE e # d
  <2>1. /\ pc'[d] = pc[d] /\ hand'[d] = hand[d] /\ out'[dst[d]] = out[dst[d]]
        /\ inb'[src[d]] = inb[src[d]] /\ broken'[dst[d]] = broken[dst[d]]
    BY <1>2, Crossing DEF Bridge, Receive, ReceiveEnds, TimesOut, Send, SendToClosed,
        SendFails, HalfClose, Leave, sockVars, relayVars, Typed, TypeOK
  <2>2. CutOff(d)' = CutOff(d)
    BY <1>1, <2>1 DEF CutOff
  <2>3. InFlight(d)' = InFlight(d)
    BY <2>1, <2>2 DEF InFlight
  <2> QED BY <1>1, <2>2, <2>3 DEF Pipe!vars
<1>3. CASE e = d /\ (ReceiveEnds(d) \/ TimesOut(d) \/ SendFails(d))
  <2>1. pc'[d] = "shut" /\ out' = out
    BY <1>3 DEF ReceiveEnds, TimesOut, SendFails, Leave, sockVars, Typed, TypeOK
  <2>2. CutOff(d)'
    BY <2>1 DEF CutOff
  <2>3. InFlight(d)' = out[dst[d]]
    BY <2>1, <2>2, Counts DEF InFlight
  <2>4. InFlight(d)' \in 0..InFlight(d)
    BY <2>3, Counts
  <2> QED BY <1>1, <2>2, <2>4 DEF Pipe!Next, Pipe!Cut
<1>4. CASE e = d /\ (SendToClosed(d) \/ HalfClose(d))
  <2>1. UNCHANGED <<hand, inb, out>> /\ CutOff(d) /\ CutOff(d)'
    BY <1>1, <1>4, Crossing DEF SendToClosed, HalfClose, CutOff, relayVars, Typed, TypeOK
  <2>2. InFlight(d)' = InFlight(d)
    BY <2>1 DEF InFlight
  <2> QED BY <1>1, <2>1, <2>2 DEF Pipe!vars
<1>5. CASE e = d /\ Receive(d)
  <2>1. PICK n \in 1..inb[src[d]] : /\ hand' = [hand EXCEPT ![d] = n]
                                    /\ inb' = [inb EXCEPT ![src[d]] = @ - n]
    BY <1>5 DEF Receive
  <2>2. /\ hand'[d] = n /\ inb'[src[d]] = inb[src[d]] - n /\ hand[d] = 0 /\ n \in Nat
        /\ pc[d] = "recv" /\ pc'[d] = "send" /\ out' = out /\ broken' = broken
    BY <1>5, <2>1, Crossing DEF Receive, Typed, TypeOK
  <2>3. CutOff(d)' = CutOff(d)
    BY <1>1, <2>2 DEF CutOff
  <2>4. hand'[d] + inb'[src[d]] = hand[d] + inb[src[d]]
    BY <2>2, Counts, Crossing
  <2>5. InFlight(d)' = InFlight(d)
    BY <2>2, <2>3, <2>4 DEF InFlight
  <2> QED BY <1>1, <2>3, <2>5 DEF Pipe!vars
<1>6. CASE e = d /\ Send(d)
  <2>1. /\ out'[dst[d]] = out[dst[d]] + 1 /\ hand'[d] = hand[d] - 1 /\ inb' = inb
        /\ pc[d] = "send" /\ pc'[d] \in {"recv", "send"} /\ UNCHANGED broken
        /\ ~broken[dst[d]] /\ peer[dst[d]] = "open"
    BY <1>6, Crossing DEF Send, Typed, TypeOK
  <2>2. ~CutOff(d) /\ ~CutOff(d)' /\ CutOff(d)' = CutOff(d)
    BY <1>1, <2>1 DEF CutOff
  <2>3. InFlight(d)' = InFlight(d)
    <3>1. out[dst[d]] \in Nat /\ hand[d] \in Nat /\ inb[src[d]] \in Nat
      BY Counts, Crossing
    <3>2. (out[dst[d]] + 1) + ((hand[d] - 1) + inb[src[d]])
          = out[dst[d]] + (hand[d] + inb[src[d]])
      BY <3>1
    <3> QED BY <2>1, <2>2, <3>2 DEF InFlight
  <2> QED BY <1>1, <2>2, <2>3 DEF Pipe!vars
<1> QED BY <1>2, <1>3, <1>4, <1>5, <1>6 DEF Bridge

LEMMA PeerPipes ==
    ASSUME Typed, Over, NEW d \in Dirs, NEW k \in Socks, Peer(k)
    PROVE  [Pipe(d)!Next]_(Pipe(d)!vars)
<1>1. UNCHANGED <<hpc, pc, hand, shut>>
  BY DEF Peer, PeerWrites, PeerEnds, PeerReads, PeerIsTold, PeerCloses, Breaks, relayVars
<1>2. CASE PeerWrites(k) /\ k = src[d]
  <2>1. /\ sent'[d] = sent[d] + 1 /\ inb'[src[d]] = inb[src[d]] + 1
        /\ UNCHANGED <<got, ended, out, broken, peer>>
    BY <1>2, Crossing DEF PeerWrites, Typed, TypeOK
  <2>2. CutOff(d)' = CutOff(d)
    BY <1>1, <2>1 DEF CutOff
  <2>3. InFlight(d)' = IF CutOff(d) THEN InFlight(d) ELSE InFlight(d) + 1
    <3>1. out[dst[d]] \in Nat /\ hand[d] \in Nat /\ inb[src[d]] \in Nat
      BY Counts, Crossing
    <3>2. out[dst[d]] + (hand[d] + (inb[src[d]] + 1))
          = (out[dst[d]] + (hand[d] + inb[src[d]])) + 1
      BY <3>1
    <3> QED BY <1>1, <2>1, <2>2, <3>2 DEF InFlight
  <2> QED BY <2>1, <2>2, <2>3 DEF Pipe!Next, Pipe!Write
<1>3. CASE PeerReads(k) /\ k = dst[d]
  <2>1. /\ got'[d] = got[d] + 1 /\ out'[dst[d]] = out[dst[d]] - 1 /\ out[dst[d]] > 0
        /\ ended[d] = "none" /\ UNCHANGED <<sent, ended, inb, broken, peer>>
    BY <1>3, Crossing DEF PeerReads, Typed, TypeOK
  <2>2. CutOff(d)' = CutOff(d)
    BY <1>1, <2>1 DEF CutOff
  <2>3. InFlight(d)' = InFlight(d) - 1 /\ InFlight(d) > 0
    <3>1. out[dst[d]] \in Nat /\ hand[d] \in Nat /\ inb[src[d]] \in Nat
      BY Counts, Crossing
    <3>2. (out[dst[d]] - 1) + (hand[d] + inb[src[d]])
          = (out[dst[d]] + (hand[d] + inb[src[d]])) - 1
      BY <3>1
    <3>3. InFlight(d) > 0
      BY <2>1, Counts
    <3> QED BY <1>1, <2>1, <2>2, <3>1, <3>2, <3>3 DEF InFlight
  <2> QED BY <2>1, <2>2, <2>3 DEF Pipe!Next, Pipe!Read
<1>4. CASE PeerIsTold(k) /\ k = dst[d]
  <2>0. UNCHANGED <<sent, got, inb, broken, peer>> /\ ended[d] = "none"
    BY <1>4, Crossing DEF PeerIsTold
  <2>1. CASE broken[k]
    <3>1. ended'[d] = "reset" /\ out'[dst[d]] = 0 /\ CutOff(d) /\ CutOff(d)'
      BY <1>4, <2>0, <2>1, Crossing DEF PeerIsTold, CutOff, Typed, TypeOK
    <3>2. InFlight(d)' = 0
      BY <3>1 DEF InFlight
    <3> QED BY <2>0, <3>1, <3>2 DEF Pipe!Next, Pipe!Reset
  <2>2. CASE ~broken[k]
    <3>1. ended'[d] = "eof" /\ out' = out /\ out[dst[d]] = 0 /\ shut[k]
      BY <1>4, <2>2, Crossing DEF PeerIsTold, Typed, TypeOK
    <3>2. CutOff(d) /\ CutOff(d)'
      BY <1>1, <1>4, <3>1, Crossing DEF Over, CutOff
    <3>3. InFlight(d) = 0 /\ InFlight(d)' = 0
      BY <3>1, <3>2 DEF InFlight
    <3> QED BY <2>0, <3>1, <3>2, <3>3 DEF Pipe!Next, Pipe!EndOfFile
  <2> QED BY <2>1, <2>2
<1>5. CASE (PeerCloses(k) \/ Breaks(k)) /\ k = dst[d]
  <2>1. /\ UNCHANGED <<sent, got, ended, inb>> /\ out'[dst[d]] \in {0, out[dst[d]]}
        /\ broken'[dst[d]] \/ peer'[dst[d]] = "closed"
    BY <1>5, Crossing DEF PeerCloses, Breaks, peerVars, Typed, TypeOK
  <2>2. CutOff(d)'
    BY <2>1 DEF CutOff
  <2>3. InFlight(d)' \in 0..InFlight(d)
    <3>1. InFlight(d)' = out'[dst[d]]
      BY <2>1, <2>2, Counts DEF InFlight
    <3> QED BY <2>1, <3>1, Counts
  <2> QED BY <2>1, <2>2, <2>3 DEF Pipe!Next, Pipe!Cut
<1>6. CASE \/ PeerEnds(k)
           \/ k = src[d] /\ (PeerReads(k) \/ PeerIsTold(k) \/ PeerCloses(k) \/ Breaks(k))
           \/ k = dst[d] /\ PeerWrites(k)
  <2>1. /\ sent'[d] = sent[d] /\ got'[d] = got[d] /\ ended'[d] = ended[d]
        /\ inb'[src[d]] = inb[src[d]] /\ out'[dst[d]] = out[dst[d]]
        /\ broken'[dst[d]] = broken[dst[d]] /\ peer'[dst[d]] = peer[dst[d]]
    BY <1>6, Crossing DEF PeerEnds, PeerReads, PeerIsTold, PeerCloses, Breaks, PeerWrites,
        peerVars, sockVars, Typed, TypeOK
  <2>2. CutOff(d)' = CutOff(d)
    BY <1>1, <2>1 DEF CutOff
  <2>3. InFlight(d)' = InFlight(d)
    BY <1>1, <2>1, <2>2 DEF InFlight
  <2> QED BY <2>1, <2>2, <2>3 DEF Pipe!vars
<1> QED BY <1>2, <1>3, <1>4, <1>5, <1>6, Crossing DEF Peer

LEMMA NextPipes ==
    ASSUME Typed, Over, [Next]_vars, NEW d \in Dirs
    PROVE  [Pipe(d)!Next]_(Pipe(d)!vars)
<1>1. CASE UNCHANGED vars
  BY <1>1 DEF vars, relayVars, sockVars, peerVars, Pipe!vars, InFlight, CutOff
<1> QED BY <1>1, HandlePipes, BridgePipes, PeerPipes DEF Next

(* Each direction is a stream without a gap, cut once and at its end. *)
THEOREM RelayIsTransparent == Spec => Transparent
<1>1. Init => Over /\ \A d \in Dirs : Pipe(d)!Init
  BY DEF Init, Over, Pipe!Init, InFlight, CutOff, Dirs, Socks, src, dst
<1>2. Typed /\ Over /\ [Next]_vars => Over'
  BY NextOver
<1>3. Init => UpPipe!Init /\ DownPipe!Init
  BY <1>1 DEF Dirs, Pipe!Init, UpPipe!Init, DownPipe!Init
<1>4. Typed /\ Over /\ [Next]_vars => [UpPipe!Next]_(UpPipe!vars)
  <2>1. Typed /\ Over /\ [Next]_vars => [Pipe("up")!Next]_(Pipe("up")!vars)
    BY NextPipes DEF Dirs
  <2> QED BY <2>1 DEF Pipe!Next, Pipe!vars, Pipe!Write, Pipe!Read, Pipe!Cut,
      Pipe!EndOfFile, Pipe!Reset, UpPipe!Next, UpPipe!vars, UpPipe!Write, UpPipe!Read,
      UpPipe!Cut, UpPipe!EndOfFile, UpPipe!Reset
<1>5. Typed /\ Over /\ [Next]_vars => [DownPipe!Next]_(DownPipe!vars)
  <2>1. Typed /\ Over /\ [Next]_vars => [Pipe("down")!Next]_(Pipe("down")!vars)
    BY NextPipes DEF Dirs
  <2> QED BY <2>1 DEF Pipe!Next, Pipe!vars, Pipe!Write, Pipe!Read, Pipe!Cut,
      Pipe!EndOfFile, Pipe!Reset, DownPipe!Next, DownPipe!vars, DownPipe!Write,
      DownPipe!Read, DownPipe!Cut, DownPipe!EndOfFile, DownPipe!Reset
<1>6. Spec => UpPipe!Spec
  BY <1>1, <1>2, <1>3, <1>4, InitTyped, NextTyped, PTL DEF Spec, UpPipe!Spec
<1>7. Spec => DownPipe!Spec
  BY <1>1, <1>2, <1>3, <1>5, InitTyped, NextTyped, PTL DEF Spec, DownPipe!Spec
<1> QED BY <1>6, <1>7, PTL DEF Transparent

-----------------------------------------------------------------------------
(* Nothing but a timeout, a broken connection or a missing server disturbs the
   end of direction d.                                                       *)
Undisturbed(d) == ~quiet[d] /\ ~broken[src[d]] /\ hpc # "failed"
Reaches(d) == ~broken[dst[d]] /\ peer[dst[d]] = "open"

(* Until a direction is cut every byte written is somewhere on its way; once its
   bridge has left undisturbed, the writer has ended and everything has reached
   the last buffer; and the end that was told is then true.                  *)
TrueOf(d) ==
    /\ ~CutOff(d) => got[d] + out[dst[d]] + (hand[d] + inb[src[d]]) = sent[d]
    /\ pc[d] \in {"shut", "done"} /\ Undisturbed(d) /\ Reaches(d)
          => fin[src[d]] /\ got[d] + out[dst[d]] = sent[d]
    /\ ended[d] = "eof" => (fin[src[d]] /\ got[d] = sent[d]) \/ ~Undisturbed(d)

LEMMA HandleTrue ==
    ASSUME Typed, NEW d \in Dirs, TrueOf(d), Handle \/ AcceptNext
    PROVE  TrueOf(d)'
<1>1. UNCHANGED <<sent, got, ended, inb, out, hand, fin, peer, quiet>>
  BY DEF Handle, AcceptNext, Connected, ConnectFails, CloseBoth, CloseSockets, peerVars,
      sockVars
<1>2. CASE Connected
  BY <1>1, <1>2, Crossing DEF Connected, TrueOf, CutOff, Undisturbed, Reaches, sockVars,
      Typed, Stage
<1>3. CASE hpc' = "failed"
  BY <1>3 DEF TrueOf, CutOff, Undisturbed
<1>4. CASE AcceptNext /\ hpc' # "failed"
  <2>1. UNCHANGED <<pc, hpc>> /\ \A k \in Socks : broken'[k] = broken[k]
    BY <1>4 DEF AcceptNext, CloseSockets, Typed, TypeOK
  <2> QED BY <1>1, <2>1, Crossing DEF TrueOf, CutOff, Undisturbed, Reaches
<1>5. CASE CloseBoth
  <2>1. pc' = pc /\ pc[d] = "done" /\ hpc = "bridging" /\ hpc' = "closed"
        /\ \A k \in Socks : broken[k] => broken'[k]
    BY <1>5 DEF CloseBoth, CloseSockets, Typed, TypeOK
  <2> QED BY <1>1, <2>1, Crossing DEF TrueOf, CutOff, Undisturbed, Reaches
<1> QED BY <1>2, <1>3, <1>4, <1>5 DEF Handle, ConnectFails

LEMMA BridgeTrue ==
    ASSUME Typed, NEW d \in Dirs, TrueOf(d), NEW e \in Dirs, Bridge(e)
    PROVE  TrueOf(d)'
<1>1. /\ UNCHANGED <<hpc, sent, got, ended, peer, fin>> /\ hpc = "bridging"
      /\ \A k \in Socks : broken[k] => broken'[k]
      /\ quiet[d] => quiet'[d]
  BY DEF Bridge, Receive, ReceiveEnds, TimesOut, Send, SendToClosed, SendFails, HalfClose,
      peerVars, relayVars, sockVars, Typed, TypeOK, Stage
<1>2. CASE e # d
  <2>1. /\ pc'[d] = pc[d] /\ hand'[d] = hand[d] /\ out'[dst[d]] = out[dst[d]]
        /\ inb'[src[d]] = inb[src[d]] /\ broken'[dst[d]] = broken[dst[d]]
    BY <1>2, Crossing DEF Bridge, Receive, ReceiveEnds, TimesOut, Send, SendToClosed,
        SendFails, HalfClose, Leave, sockVars, relayVars, Typed, TypeOK
  <2> QED BY <1>1, <2>1, Crossing DEF TrueOf, CutOff, Undisturbed, Reaches
<1>3. CASE e = d /\ (TimesOut(d) \/ SendFails(d) \/ SendToClosed(d))
  <2>1. /\ quiet'[d] \/ broken'[dst[d]]
        /\ pc'[d] = "shut" \/ peer[dst[d]] = "closed"
    BY <1>3, Crossing DEF TimesOut, SendFails, SendToClosed, Leave, sockVars, Typed, TypeOK
  <2> QED BY <1>1, <2>1, Crossing DEF TrueOf, CutOff, Undisturbed, Reaches
<1>4. CASE e = d /\ ReceiveEnds(d)
  <2>1. /\ pc[d] = "recv" /\ pc'[d] = "shut" /\ hand[d] = 0 /\ UNCHANGED <<sockVars, quiet>>
        /\ broken[src[d]] \/ (fin[src[d]] /\ inb[src[d]] = 0)
    BY <1>4 DEF ReceiveEnds, Leave, Typed, TypeOK
  <2>2. CutOff(d)'
    BY <2>1 DEF CutOff
  <2>3. Undisturbed(d)' /\ Reaches(d)' => fin'[src[d]] /\ got[d] + out[dst[d]] = sent[d]
    <3> SUFFICES ASSUME Undisturbed(d)', Reaches(d)'
                 PROVE  fin'[src[d]] /\ got[d] + out[dst[d]] = sent[d]
      OBVIOUS
    <3>1. ~CutOff(d) /\ fin[src[d]] /\ inb[src[d]] = 0
      BY <1>1, <2>1 DEF CutOff, Undisturbed, Reaches, sockVars
    <3>2. got[d] + out[dst[d]] + (0 + 0) = sent[d]
      BY <2>1, <3>1 DEF TrueOf
    <3> QED BY <1>1, <3>1, <3>2, Counts
  <2>4. ended'[d] = "eof" => (fin'[src[d]] /\ got[d] = sent[d]) \/ ~Undisturbed(d)'
    BY <1>1, <2>1 DEF TrueOf, Undisturbed, sockVars
  <2> QED BY <1>1, <2>1, <2>2, <2>3, <2>4 DEF TrueOf, sockVars
<1>5. CASE e = d /\ HalfClose(d)
  <2>1. pc[d] = "shut" /\ pc'[d] = "done" /\ UNCHANGED <<hand, inb, out, broken, quiet>>
    BY <1>5 DEF HalfClose, Typed, TypeOK
  <2> QED BY <1>1, <2>1 DEF TrueOf, CutOff, Undisturbed, Reaches
<1>6. CASE e = d /\ Receive(d)
  <2>1. PICK n \in 1..inb[src[d]] : /\ hand' = [hand EXCEPT ![d] = n]
                                    /\ inb' = [inb EXCEPT ![src[d]] = @ - n]
    BY <1>6 DEF Receive
  <2>2. /\ hand'[d] = n /\ inb'[src[d]] = inb[src[d]] - n /\ hand[d] = 0 /\ n \in Nat
        /\ pc[d] = "recv" /\ pc'[d] = "send" /\ out' = out /\ broken' = broken
        /\ quiet' = quiet
    BY <1>6, <2>1, Crossing DEF Receive, Typed, TypeOK
  <2>3. hand'[d] + inb'[src[d]] = hand[d] + inb[src[d]]
    BY <2>2, Counts, Crossing
  <2> QED BY <1>1, <2>2, <2>3 DEF TrueOf, CutOff, Undisturbed, Reaches
<1>7. CASE e = d /\ Send(d)
  <2>1. /\ out'[dst[d]] = out[dst[d]] + 1 /\ hand'[d] = hand[d] - 1 /\ inb' = inb
        /\ pc[d] = "send" /\ pc'[d] \in {"recv", "send"} /\ UNCHANGED <<broken, quiet>>
    BY <1>7, Crossing DEF Send, Typed, TypeOK
  <2>2. (got[d] + (out[dst[d]] + 1)) + ((hand[d] - 1) + inb[src[d]])
        = (got[d] + out[dst[d]]) + (hand[d] + inb[src[d]])
    BY Counts, Crossing
  <2> QED BY <1>1, <2>1, <2>2 DEF TrueOf, CutOff, Undisturbed, Reaches
<1> QED BY <1>2, <1>3, <1>4, <1>5, <1>6, <1>7 DEF Bridge

LEMMA PeerTrue ==
    ASSUME Typed, Over, NEW d \in Dirs, TrueOf(d), NEW k \in Socks, Peer(k)
    PROVE  TrueOf(d)'
<1>1. /\ UNCHANGED <<hpc, pc, hand, shut, quiet>>
      /\ \A s \in Socks : broken[s] => broken'[s]
      /\ \A s \in Socks : fin[s] => fin'[s]
      /\ \A s \in Socks : peer[s] = "closed" => peer'[s] = "closed"
  BY DEF Peer, PeerWrites, PeerEnds, PeerReads, PeerIsTold, PeerCloses, Breaks, relayVars,
      peerVars, Typed, TypeOK
<1> USE DEF TrueOf, CutOff, Undisturbed, Reaches
<1>2. CASE PeerWrites(k) /\ k = src[d]
  <2>1. /\ sent'[d] = sent[d] + 1 /\ inb'[src[d]] = inb[src[d]] + 1 /\ ~fin[src[d]]
        /\ UNCHANGED <<got, ended, out, broken, peer, fin>>
    BY <1>2, Crossing DEF PeerWrites, Typed, TypeOK
  <2>2. got[d] + out[dst[d]] + (hand[d] + (inb[src[d]] + 1))
        = (got[d] + out[dst[d]] + (hand[d] + inb[src[d]])) + 1
    BY Counts, Crossing
  <2> QED BY <1>1, <2>1, <2>2
<1>3. CASE PeerReads(k) /\ k = dst[d]
  <2>1. /\ got'[d] = got[d] + 1 /\ out'[dst[d]] = out[dst[d]] - 1 /\ ended[d] = "none"
        /\ UNCHANGED <<sent, ended, inb, broken, peer, fin>>
    BY <1>3, Crossing DEF PeerReads, Typed, TypeOK
  <2>2. (got[d] + 1) + (out[dst[d]] - 1) = got[d] + out[dst[d]]
    BY Counts
  <2> QED BY <1>1, <2>1, <2>2
<1>4. CASE PeerIsTold(k) /\ k = dst[d]
  <2>0. UNCHANGED <<sent, got, inb, broken, peer, fin>>
    BY <1>4, Crossing DEF PeerIsTold
  <2>1. CASE broken[k]
    <3>1. ended'[d] = "reset" /\ broken[dst[d]]
      BY <1>4, <2>1, Crossing DEF PeerIsTold, Typed, TypeOK
    <3> QED BY <1>1, <2>0, <3>1
  <2>2. CASE ~broken[k]
    <3>1. /\ ended'[d] = "eof" /\ out' = out /\ out[dst[d]] = 0 /\ shut[dst[d]]
          /\ ~broken[dst[d]] /\ peer[dst[d]] = "open"
      BY <1>4, <2>2, Crossing DEF PeerIsTold, There, Typed, TypeOK
    <3>2. pc[d] = "done" \/ hpc = "failed"
      BY <3>1, Crossing DEF Over
    <3>3. Undisturbed(d) => fin[src[d]] /\ got[d] + 0 = sent[d]
      BY <3>1, <3>2
    <3> QED BY <1>1, <2>0, <3>1, <3>3, Counts
  <2> QED BY <2>1, <2>2
<1>5. CASE (PeerCloses(k) \/ Breaks(k)) /\ k = dst[d]
  <2>1. /\ UNCHANGED <<sent, got, ended, inb>>
        /\ broken'[dst[d]] \/ peer'[dst[d]] = "closed"
    BY <1>5, Crossing DEF PeerCloses, Breaks, peerVars, Typed, TypeOK
  <2> QED BY <1>1, <2>1, Crossing
<1>6. CASE \/ PeerEnds(k)
           \/ k = src[d] /\ (PeerReads(k) \/ PeerIsTold(k) \/ PeerCloses(k) \/ Breaks(k))
           \/ k = dst[d] /\ PeerWrites(k)
  <2>1. /\ sent'[d] = sent[d] /\ got'[d] = got[d] /\ ended'[d] = ended[d]
        /\ inb'[src[d]] = inb[src[d]] /\ out'[dst[d]] = out[dst[d]]
        /\ broken'[dst[d]] = broken[dst[d]] /\ peer'[dst[d]] = peer[dst[d]]
    BY <1>6, Crossing DEF PeerEnds, PeerReads, PeerIsTold, PeerCloses, Breaks, PeerWrites,
        peerVars, sockVars, Typed, TypeOK
  <2> QED BY <1>1, <2>1, Crossing
<1> QED BY <1>2, <1>3, <1>4, <1>5, <1>6, Crossing DEF Peer

(* A peer is told the end of the stream only behind the last byte of a writer
   that has ended, unless a timeout or a broken connection ended it.         *)
THEOREM RelayEndsTruly == Spec => []EofIsTrue
<1> DEFINE AllTrue == \A d \in Dirs : TrueOf(d)
<1>1. Init => Over /\ AllTrue
  BY DEF Init, Over, TrueOf, CutOff, Undisturbed, Reaches, Dirs, Socks, src, dst
<1>2. Typed /\ Over /\ AllTrue /\ [Next]_vars => Over' /\ AllTrue'
  <2> SUFFICES ASSUME Typed, Over, AllTrue, [Next]_vars PROVE Over' /\ AllTrue'
    OBVIOUS
  <2>1. ASSUME NEW d \in Dirs PROVE TrueOf(d)'
    <3>1. CASE UNCHANGED vars
      BY <3>1 DEF vars, relayVars, sockVars, peerVars, TrueOf, CutOff, Undisturbed, Reaches
    <3> QED BY <3>1, HandleTrue, BridgeTrue, PeerTrue DEF Next
  <2> QED BY <2>1, NextOver
<1>3. AllTrue => EofIsTrue
  BY DEF EofIsTrue, TrueOf, Undisturbed
<1> QED BY <1>1, <1>2, <1>3, InitTyped, NextTyped, PTL DEF Spec
=============================================================================
