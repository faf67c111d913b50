-------------------------- MODULE SeiGatewayProofs --------------------------
(* Theorems about SeiGateway: types, the registry of clients, and that no client
   misses or repeats a message.                                              *)
EXTENDS SeiGateway, TLAPS

(* What TypeOK needs to be inductive: a cached name has a cfg; only a send that
   waits, or a closed connection, can have put a buffer two messages over; and a
   name that is free to be used again has left nothing behind.              *)
Cached == \A i \in DOMAIN cfg_names : stream_cfg[cfg_names[i]] # None

Wires == \A c \in Conns : open[c] /\ sending # c => wire[c] <= High + 1

Unused == \A c \in Conns : hpc[c] = "none" => ~open[c] /\ wire[c] = 0 /\ last[c] = None

Typed == TypeOK /\ Cached /\ Wires /\ Unused

LEMMA TickIsMessage == Tick \in Messages
BY DEF Messages

LEMMA SerialTyped == \A n \in Nat : (n + 1) % Serials \in 0..(Serials - 1)
BY GatewayAssumption

LEMMA MessageTyped ==
    ASSUME TypeOK, NEW s \in Streams
    PROVE  Cfg(s) \in Messages /\ Au(s) \in Messages
<1>1. Serial(s) \in 0..(Serials - 1) /\ version[s] \in Versions
  BY GatewayAssumption DEF TypeOK, Serial
<1> QED BY <1>1 DEF Cfg, Au, Messages

LEMMA InitTyped == Init => Typed
<1> SUFFICES ASSUME Init PROVE Typed
  OBVIOUS
<1>1. 0 \in 0..(Serials - 1) /\ 0 \in 0..(High + 2) /\ 0 <= High + 1
  BY GatewayAssumption
<1>2. TypeOK
  BY <1>1, TickIsMessage DEF Init, TypeOK
<1> QED BY <1>1, <1>2 DEF Init, Typed, Cached, Wires, Unused

-----------------------------------------------------------------------------
LEMMA EnqueueTyped ==
    ASSUME TypeOK, NEW s \in Streams, NEW m \in Messages, Enqueue(s, m)
    PROVE  outq' \in Seq(Messages) /\ serial' \in 0..(Serials - 1)
<1>1. serial \in Nat
  BY DEF TypeOK
<1> QED BY <1>1, SerialTyped DEF Enqueue, TypeOK

LEMMA StreamTyped ==
    ASSUME Typed, NEW s \in Streams, StreamerStep(s) \/ Stall(s) \/ Resume(s)
    PROVE  Typed'
<1> USE DEF Typed
<1>1. UNCHANGED <<broadcast, clients, open, wire, handlers, received>>
  BY DEF StreamerStep, Spawn, SpawnFails, SendCfg, CacheCfg, SendAu, StreamEnds, Stall, Resume
<1>2. Wires' /\ Unused'
  BY <1>1 DEF Wires, Unused, broadcast, handlers, received
<1>3. CASE Spawn(s)
  <2>1. version' \in [Streams -> Versions] /\ spc' \in [Streams -> {"down", "read", "cache", "frame", "dead"}]
        /\ feed' \in [Streams -> {"none", "up", "stalled"}] /\ sent_cfg' \in [Streams -> BOOLEAN]
    BY <1>3 DEF Spawn, TypeOK
  <2>2. TypeOK'
    BY <1>1, <1>3, <2>1 DEF Spawn, TypeOK, cache, broadcast, handlers, received
  <2> QED BY <1>2, <1>3, <2>2 DEF Spawn, Cached, cache
<1>4. CASE SpawnFails(s) \/ StreamEnds(s) \/ Stall(s) \/ Resume(s)
  <2>1. TypeOK'
    BY <1>1, <1>4 DEF SpawnFails, StreamEnds, Stall, Resume, TypeOK, cache, broadcast,
       handlers, received
  <2>2. UNCHANGED cache
    BY <1>4 DEF SpawnFails, StreamEnds, Stall, Resume
  <2> QED BY <1>2, <2>1, <2>2 DEF Cached, cache
<1>5. CASE SendCfg(s) \/ SendAu(s)
  <2>1. outq' \in Seq(Messages) /\ serial' \in 0..(Serials - 1)
    BY <1>5, MessageTyped, EnqueueTyped DEF SendCfg, SendAu
  <2>2. /\ spc' \in [Streams -> {"down", "read", "cache", "frame", "dead"}]
        /\ UNCHANGED <<feed, sent_cfg, version, cache>>
    BY <1>5 DEF SendCfg, SendAu, TypeOK
  <2>3. TypeOK'
    BY <1>1, <2>1, <2>2 DEF TypeOK, cache, broadcast, handlers, received
  <2> QED BY <1>2, <2>2, <2>3 DEF Cached, cache
<1>6. CASE CacheCfg(s)
  <2>1. UNCHANGED <<feed, version, serial, outq>>
        /\ spc' \in [Streams -> {"down", "read", "cache", "frame", "dead"}]
        /\ sent_cfg' \in [Streams -> BOOLEAN]
    BY <1>6 DEF CacheCfg, TypeOK
  <2>2. /\ stream_cfg' \in [Streams -> Versions \cup {None}]
        /\ stream_cfg'[s] # None
        /\ \A r \in Streams : r # s => stream_cfg'[r] = stream_cfg[r]
    BY <1>6, GatewayAssumption DEF CacheCfg, TypeOK
  <2>3. /\ cfg_names' \in Seq(Streams)
        /\ \A i, j \in DOMAIN cfg_names' : cfg_names'[i] = cfg_names'[j] => i = j
        /\ Cached'
    <3>0. cfg_names \in Seq(Streams)
      BY DEF TypeOK
    <3>1. CASE cfg_names' = cfg_names
      BY <2>2, <3>0, <3>1 DEF TypeOK, Cached
    <3>2. CASE stream_cfg[s] = None /\ cfg_names' = Append(cfg_names, s)
      <4>1. /\ cfg_names' \in Seq(Streams) /\ Len(cfg_names') = Len(cfg_names) + 1
            /\ cfg_names'[Len(cfg_names) + 1] = s
            /\ \A i \in 1..Len(cfg_names) : cfg_names'[i] = cfg_names[i]
            /\ DOMAIN cfg_names = 1..Len(cfg_names)
            /\ DOMAIN cfg_names' = 1..(Len(cfg_names) + 1)
        BY <3>0, <3>2
      <4>2. \A i \in 1..Len(cfg_names) : cfg_names[i] # s /\ cfg_names[i] \in Streams
        BY <3>0, <3>2, <4>1 DEF Cached
      <4>3. \A i \in DOMAIN cfg_names' : i \in 1..Len(cfg_names) \/ i = Len(cfg_names) + 1
        BY <3>0, <4>1
      <4>4. \A i, j \in DOMAIN cfg_names' : cfg_names'[i] = cfg_names'[j] => i = j
        BY <4>1, <4>2, <4>3 DEF TypeOK
      <4>5. Cached'
        BY <2>2, <4>1, <4>2, <4>3 DEF Cached
      <4> QED BY <4>1, <4>4, <4>5
    <3> QED BY <1>6, <3>1, <3>2 DEF CacheCfg
  <2>4. TypeOK'
    BY <1>1, <2>1, <2>2, <2>3 DEF TypeOK, broadcast, handlers, received
  <2> QED BY <1>2, <2>3, <2>4
<1> QED BY <1>3, <1>4, <1>5, <1>6 DEF StreamerStep

LEMMA EndOfSendTyped ==
    ASSUME TypeOK, NEW left \in SUBSET Conns, NEW failed \in SUBSET Conns,
           EndOfSend(left, failed)
    PROVE  /\ msg' \in Messages /\ sending' = NoConn
           /\ targets' \subseteq Conns /\ dead' \subseteq Conns /\ clients' \subseteq Conns
BY TickIsMessage DEF EndOfSend, TypeOK

LEMMA DeliverTyped ==
    ASSUME TypeOK, NEW c \in Conns, Deliver(c, msg)
    PROVE  /\ last' \in [Conns -> 0..(Serials - 1) \cup {None}]
           /\ conf' \in [Conns -> Versions \cup {None}]
<1>1. msg.t # "tick" => msg.n \in 0..(Serials - 1) /\ msg.v \in Versions
  BY DEF TypeOK, Messages, Tick
<1>2. msg.t = "cfg" => msg.t # "tick"
  OBVIOUS
<1> QED BY <1>1, <1>2 DEF Deliver, TypeOK

LEMMA BroadcastTyped ==
    ASSUME Typed, BroadcastStep \/ Ticker
    PROVE  Typed'
<1> USE DEF Typed
<1>0. High \in Nat /\ NoConn \notin Conns
  BY GatewayAssumption
<1>1. UNCHANGED <<threads, cache, open, handlers>>
  BY DEF BroadcastStep, Ticker, Take, SendTo, SendReturns
<1>2. Cached'
  BY <1>1 DEF Cached, cache
<1>3. CASE Ticker
  <2>1. outq' \in Seq(Messages)
    BY <1>3, TickIsMessage DEF Ticker, TypeOK
  <2> QED BY <1>1, <1>2, <1>3, <2>1
        DEF Ticker, TypeOK, Wires, Unused, threads, cache, broadcast, handlers, received
<1>4. CASE Take
  <2>1. outq' \in Seq(Messages) /\ msg' \in Messages /\ targets' \subseteq Conns
    BY <1>4, TickIsMessage DEF Take, TypeOK
  <2> QED BY <1>1, <1>2, <1>4, <2>1
        DEF Take, TypeOK, Wires, Unused, threads, cache, handlers, received
<1>5. ASSUME NEW c \in Conns, SendTo(c) PROVE Typed'
  <2>1. UNCHANGED outq /\ sending = NoConn
    BY <1>5 DEF SendTo
  <2>2. /\ msg' \in Messages /\ sending' \in {NoConn, c}
        /\ targets' \subseteq Conns /\ dead' \subseteq Conns /\ clients' \subseteq Conns
    <3>1. CASE \E failed \in {dead, dead \cup {c}} : EndOfSend(targets \ {c}, failed)
      <4>1. targets \ {c} \in SUBSET Conns /\ dead \in SUBSET Conns
            /\ dead \cup {c} \in SUBSET Conns
        BY DEF TypeOK
      <4> QED BY <3>1, <4>1, EndOfSendTyped
    <3>2. CASE targets' = targets \ {c} /\ sending' = c /\ UNCHANGED <<msg, dead, clients>>
      BY <3>2 DEF TypeOK
    <3> QED BY <1>5, <3>1, <3>2 DEF SendTo
  <2>3. /\ last' \in [Conns -> 0..(Serials - 1) \cup {None}]
        /\ conf' \in [Conns -> Versions \cup {None}]
    <3>1. CASE Deliver(c, msg)
      BY <3>1, DeliverTyped
    <3>2. CASE UNCHANGED received
      BY <3>2 DEF received, TypeOK
    <3> QED BY <1>5, <3>1, <3>2 DEF SendTo
  <2>4. wire' \in [Conns -> 0..(High + 2)] /\ Wires'
    <3>1. CASE ~open[c] /\ UNCHANGED wire
      BY <1>0, <1>1, <2>1, <2>2, <3>1 DEF TypeOK, Wires
    <3>2. CASE open[c] /\ wire' = [wire EXCEPT ![c] = @ + 1]
      <4>1. wire[c] \in Nat /\ wire[c] <= High + 1
        BY <1>0, <2>1, <3>2 DEF TypeOK, Wires
      <4>2. wire[c] >= High => sending' = c
        BY <1>5, <3>2, <4>1, <1>0 DEF SendTo
      <4>3. wire' \in [Conns -> 0..(High + 2)]
        BY <1>0, <3>2, <4>1 DEF TypeOK
      <4>4. \A b \in Conns : b # c => wire'[b] = wire[b]
        BY <3>2 DEF TypeOK
      <4>5. wire'[c] = wire[c] + 1
        BY <3>2 DEF TypeOK
      <4>6. Wires'
        <5> SUFFICES ASSUME NEW b \in Conns, open[b], sending' # b
                     PROVE  wire'[b] <= High + 1
          BY <1>1 DEF Wires
        <5>1. CASE b = c
          BY <1>0, <4>1, <4>2, <4>5, <5>1
        <5>2. CASE b # c
          BY <1>0, <2>1, <4>4, <5>2 DEF Wires
        <5> QED BY <5>1, <5>2
      <4> QED BY <4>3, <4>6
    <3> QED BY <1>5, <3>1, <3>2 DEF SendTo, Deliver
  <2>5. TypeOK'
    BY <1>1, <2>1, <2>2, <2>3, <2>4 DEF TypeOK, threads, cache, handlers
  <2>6. Unused'
    <3>1. \A b \in Conns : ~open[b] => wire'[b] = wire[b] /\ last'[b] = last[b]
      BY <1>5 DEF SendTo, Deliver, received, TypeOK
    <3> QED BY <1>1, <3>1 DEF Unused, handlers
  <2> QED BY <1>2, <2>4, <2>5, <2>6
<1>6. CASE SendReturns
  <2>1. sending \in Conns /\ UNCHANGED <<outq, wire, received>>
    BY <1>6 DEF SendReturns, TypeOK
  <2>2. /\ msg' \in Messages /\ sending' = NoConn
        /\ targets' \subseteq Conns /\ dead' \subseteq Conns /\ clients' \subseteq Conns
    BY <1>6, <2>1, EndOfSendTyped DEF SendReturns, TypeOK
  <2>3. Wires'
    <3> SUFFICES ASSUME NEW b \in Conns, open[b] PROVE wire[b] <= High + 1
      BY <1>1, <2>1 DEF Wires
    <3>1. CASE b = sending
      BY <1>0, <1>6, <3>1 DEF SendReturns, TypeOK
    <3> QED BY <3>1 DEF Wires
  <2>4. TypeOK'
    BY <1>1, <2>1, <2>2 DEF TypeOK, threads, cache, handlers, received
  <2>5. Unused'
    BY <1>1, <2>1 DEF Unused, handlers, received
  <2> QED BY <1>2, <2>3, <2>4, <2>5
<1> QED BY <1>3, <1>4, <1>5, <1>6 DEF BroadcastStep

-----------------------------------------------------------------------------
LEMMA ResendTyped ==
    ASSUME TypeOK, NEW c \in Conns, NEW pos \in Nat, NEW len \in Nat, ResendAt(c, pos, len)
    PROVE  /\ hpc' \in [Conns -> {"none", "resend", "reading"}]
           /\ hpos' \in [Conns -> Nat] /\ hlen' \in [Conns -> Nat]
           /\ \A b \in Conns : hpc'[b] = "none" <=> hpc[b] = "none" /\ b # c
<1>1. CASE /\ hpc' = [hpc EXCEPT ![c] = "reading"] /\ hpos' = [hpos EXCEPT ![c] = 1]
           /\ hlen' = [hlen EXCEPT ![c] = 0]
  BY <1>1 DEF TypeOK
<1>2. CASE /\ hpc' = [hpc EXCEPT ![c] = "resend"] /\ hpos' = [hpos EXCEPT ![c] = pos + 1]
           /\ hlen' = [hlen EXCEPT ![c] = len]
  BY <1>2 DEF TypeOK
<1> QED BY <1>1, <1>2 DEF ResendAt

LEMMA HandlerTyped ==
    ASSUME Typed, NEW c \in Conns, Connect(c) \/ HandlerStep(c) \/ Peer(c)
    PROVE  Typed'
<1> USE DEF Typed
<1>0. High \in Nat /\ NoConn \notin Conns /\ Watched \in Streams
  BY GatewayAssumption
<1>1. UNCHANGED <<threads, cache, outq, broadcast>>
  BY DEF Connect, HandlerStep, ResendNext, ResendFails, HandlerEnds, Peer, Drain, Close
<1>2. Cached'
  BY <1>1 DEF Cached, cache
<1>3. /\ hpc' \in [Conns -> {"none", "resend", "reading"}]
      /\ hpos' \in [Conns -> Nat] /\ hlen' \in [Conns -> Nat]
  <2>1. CASE Connect(c)
    <3>1. Len(cfg_names) \in Nat
      BY DEF TypeOK
    <3> QED BY <2>1, <3>1, ResendTyped DEF Connect
  <2>2. CASE ResendNext(c)
    BY <2>2, ResendTyped DEF ResendNext, TypeOK
  <2>3. CASE ResendFails(c)
    BY <2>3 DEF ResendFails, TypeOK
  <2>4. CASE HandlerEnds(c)
    BY <2>4 DEF HandlerEnds, TypeOK
  <2>5. CASE Peer(c)
    BY <2>5 DEF Peer, Drain, Close, handlers, TypeOK
  <2> QED BY <2>1, <2>2, <2>3, <2>4, <2>5 DEF HandlerStep
<1>4. clients' \subseteq Conns /\ open' \in [Conns -> BOOLEAN]
  BY DEF Connect, HandlerStep, ResendNext, ResendFails, HandlerEnds, Peer, Drain, Close, TypeOK
<1>5. /\ last' \in [Conns -> 0..(Serials - 1) \cup {None}]
      /\ conf' \in [Conns -> Versions \cup {None}]
  <2>1. CASE Connect(c)
    <3>1. PICK v \in Versions \cup {None} : conf' = [conf EXCEPT ![c] = v] \/ UNCHANGED conf
      BY <1>0, <2>1 DEF Connect, TypeOK
    <3> QED BY <2>1, <3>1 DEF Connect, TypeOK
  <2>2. CASE ResendNext(c)
    <3>1. PICK v \in Versions \cup {None} : conf' = [conf EXCEPT ![c] = v] \/ UNCHANGED conf
      BY <1>0, <2>2 DEF ResendNext, TypeOK
    <3> QED BY <2>2, <3>1 DEF ResendNext, TypeOK
  <2>3. CASE HandlerEnds(c)
    BY <2>3 DEF HandlerEnds, TypeOK
  <2>4. CASE ResendFails(c) \/ Peer(c)
    BY <2>4 DEF ResendFails, Peer, Drain, Close, TypeOK, received
  <2> QED BY <2>1, <2>2, <2>3, <2>4 DEF HandlerStep
<1>6. wire' \in [Conns -> 0..(High + 2)] /\ Wires'
  <2>1. \A b \in Conns \ {c} : wire'[b] = wire[b] /\ open'[b] = open[b]
    BY DEF Connect, HandlerStep, ResendNext, ResendFails, HandlerEnds, Peer, Drain, Close,
       TypeOK
  <2>2. wire' = [wire EXCEPT ![c] = wire'[c]]
    BY DEF Connect, HandlerStep, ResendNext, ResendFails, HandlerEnds, Peer, Drain, Close,
       TypeOK
  <2>3. wire'[c] \in 0..(High + 2) /\ (open'[c] /\ sending # c => wire'[c] <= High + 1)
    <3>0. wire[c] \in 0..(High + 2) /\ (open[c] /\ sending # c => wire[c] <= High + 1)
      BY DEF TypeOK, Wires
    <3>1. CASE Connect(c)
      <4>1. wire[c] = 0
        BY <3>1 DEF Connect, Unused
      <4>2. wire'[c] \in {0, 1}
        BY <3>1, <4>1 DEF Connect, TypeOK
      <4> QED BY <1>0, <4>2
    <3>2. CASE ResendNext(c)
      BY <1>0, <3>0, <3>2 DEF ResendNext, TypeOK
    <3>3. CASE ResendFails(c)
      BY <3>0, <3>3 DEF ResendFails
    <3>4. CASE HandlerEnds(c)
      BY <1>0, <3>0, <3>4 DEF HandlerEnds, TypeOK
    <3>5. CASE Drain(c)
      BY <1>0, <3>0, <3>5 DEF Drain, TypeOK
    <3>6. CASE Close(c)
      BY <3>0, <3>6 DEF Close, TypeOK
    <3> QED BY <3>1, <3>2, <3>3, <3>4, <3>5, <3>6 DEF HandlerStep, Peer
  <2> QED BY <1>1, <2>1, <2>2, <2>3 DEF TypeOK, Wires, broadcast
<1>7. TypeOK'
  BY <1>1, <1>3, <1>4, <1>5, <1>6 DEF TypeOK, threads, cache, broadcast
<1>8. Unused'
  <2>1. CASE Connect(c)
    <3>1. Len(cfg_names) \in Nat /\ 1 \in Nat
      BY DEF TypeOK
    <3>2. \A b \in Conns : hpc'[b] = "none" <=> hpc[b] = "none" /\ b # c
      BY <2>1, <3>1, ResendTyped DEF Connect
    <3>3. \A b \in Conns \ {c} : wire'[b] = wire[b] /\ open'[b] = open[b] /\ last'[b] = last[b]
      BY <2>1 DEF Connect, TypeOK
    <3> QED BY <3>2, <3>3 DEF Unused
  <2>2. CASE ResendNext(c)
    <3>1. hpos[c] \in Nat /\ hlen[c] \in Nat
      BY DEF TypeOK
    <3>2. \A b \in Conns : hpc'[b] = "none" <=> hpc[b] = "none" /\ b # c
      BY <2>2, <3>1, ResendTyped DEF ResendNext
    <3>3. \A b \in Conns \ {c} : wire'[b] = wire[b] /\ open'[b] = open[b] /\ last'[b] = last[b]
      BY <2>2 DEF ResendNext, TypeOK
    <3> QED BY <3>2, <3>3 DEF Unused
  <2>3. CASE ResendFails(c)
    BY <2>3 DEF ResendFails, Unused, TypeOK, received
  <2>4. CASE HandlerEnds(c)
    BY <2>4 DEF HandlerEnds, Unused, TypeOK
  <2>5. CASE Drain(c)
    BY <2>5 DEF Drain, Unused, TypeOK, handlers, received
  <2>6. CASE Close(c)
    BY <2>6 DEF Close, Unused, TypeOK, handlers, received
  <2> QED BY <2>1, <2>2, <2>3, <2>4, <2>5, <2>6 DEF HandlerStep, Peer
<1> QED BY <1>2, <1>6, <1>7, <1>8

LEMMA NextTyped == Typed /\ [Next]_vars => Typed'
<1>1. Typed /\ UNCHANGED vars => Typed'
  BY DEF Typed, TypeOK, Cached, Wires, Unused, vars, threads, cache, broadcast, handlers, received
<1> QED BY <1>1, StreamTyped, BroadcastTyped, HandlerTyped DEF Next

(* The variables keep their types; the dict has each name once, and the two tasks
   overrun a write buffer by two messages at most, for any number of streams and
   connections.                                                              *)
THEOREM GatewayTypeCorrect == Spec => []TypeOK
<1>1. Typed => TypeOK
  BY DEF Typed
<1> QED BY <1>1, InitTyped, NextTyped, PTL DEF Spec

-----------------------------------------------------------------------------
(* Whoever is to be dropped is closed, and a closed connection is opened again
   only when nobody refers to it.                                            *)
Registry == RegistryTracks /\ \A c \in dead : ~open[c]

LEMMA EndOfSendRegistry ==
    ASSUME Registry, NEW left, NEW failed, EndOfSend(left, failed),
           \A c \in failed : ~open[c], UNCHANGED <<open, hpc>>
    PROVE  Registry'
BY DEF EndOfSend, Registry, RegistryTracks

LEMMA NextRegistry == Typed /\ Registry /\ [Next]_vars => Registry'
<1> SUFFICES ASSUME Typed, Registry, [Next]_vars PROVE Registry'
  OBVIOUS
<1>1. CASE UNCHANGED vars \/ Ticker \/ Take \/ \E s \in Streams : StreamerStep(s) \/ Stall(s) \/ Resume(s)
  <2>1. UNCHANGED <<clients, open, hpc, dead>>
    BY <1>1 DEF vars, Ticker, Take, StreamerStep, Spawn, SpawnFails, SendCfg, CacheCfg, SendAu,
       StreamEnds, Stall, Resume, broadcast, handlers
  <2> QED BY <2>1 DEF Registry, RegistryTracks
<1>2. ASSUME NEW c \in Conns, SendTo(c) PROVE Registry'
  <2>1. UNCHANGED <<open, hpc>>
    BY <1>2 DEF SendTo, handlers
  <2>2. CASE ~open[c]
    <3>1. EndOfSend(targets \ {c}, dead \cup {c})
      BY <1>2, <2>2 DEF SendTo
    <3>2. \A b \in dead \cup {c} : ~open[b]
      BY <2>2 DEF Registry
    <3> QED BY <2>1, <3>1, <3>2, EndOfSendRegistry
  <2>3. CASE EndOfSend(targets \ {c}, dead)
    <3>1. \A b \in dead : ~open[b]
      BY DEF Registry
    <3> QED BY <2>1, <2>3, <3>1, EndOfSendRegistry
  <2>4. CASE UNCHANGED <<dead, clients>>
    BY <2>1, <2>4 DEF Registry, RegistryTracks
  <2> QED BY <1>2, <2>2, <2>3, <2>4 DEF SendTo
<1>3. CASE SendReturns
  <2> DEFINE failed == IF open[sending] THEN dead ELSE dead \cup {sending}
  <2>1. UNCHANGED <<open, hpc>> /\ EndOfSend(targets, failed)
    BY <1>3 DEF SendReturns, handlers
  <2>2. \A b \in failed : ~open[b]
    BY DEF Registry
  <2> QED BY <2>1, <2>2, EndOfSendRegistry
<1>4. ASSUME NEW c \in Conns, Connect(c) PROVE Registry'
  <2>1. Len(cfg_names) \in Nat /\ 1 \in Nat
    BY DEF Typed, TypeOK
  <2>2. \A b \in Conns : hpc'[b] = "none" <=> hpc[b] = "none" /\ b # c
    BY <1>4, <2>1, ResendTyped DEF Connect, Typed
  <2>3. /\ clients' = clients \cup {c} /\ UNCHANGED dead /\ c \notin dead
        /\ \A b \in Conns \ {c} : open'[b] = open[b]
        /\ dead \subseteq Conns
    BY <1>4 DEF Connect, broadcast, Typed, TypeOK
  <2> QED BY <2>2, <2>3 DEF Registry, RegistryTracks
<1>5. ASSUME NEW c \in Conns, ResendNext(c) PROVE Registry'
  <2>1. hpos[c] \in Nat /\ hlen[c] \in Nat
    BY DEF Typed, TypeOK
  <2>2. \A b \in Conns : hpc'[b] = "none" <=> hpc[b] = "none" /\ b # c
    BY <1>5, <2>1, ResendTyped DEF ResendNext, Typed
  <2>3. UNCHANGED <<clients, open, dead>> /\ hpc[c] # "none"
    BY <1>5 DEF ResendNext, broadcast
  <2> QED BY <2>2, <2>3 DEF Registry, RegistryTracks
<1>6. ASSUME NEW c \in Conns, HandlerEnds(c) PROVE Registry'
  <2>1. /\ clients' = clients \ {c} /\ UNCHANGED <<open, dead>> /\ ~open[c]
        /\ \A b \in Conns \ {c} : hpc'[b] = hpc[b]
    BY <1>6 DEF HandlerEnds, broadcast, Typed, TypeOK
  <2> QED BY <2>1 DEF Registry, RegistryTracks
<1>7. ASSUME NEW c \in Conns, ResendFails(c) \/ Peer(c) PROVE Registry'
  <2>1. /\ UNCHANGED <<clients, dead>> /\ dead \subseteq Conns
        /\ \A b \in Conns : (open'[b] => open[b]) /\ (hpc'[b] = "none" => hpc[b] = "none")
    BY <1>7 DEF ResendFails, Peer, Drain, Close, broadcast, handlers, Typed, TypeOK
  <2> QED BY <2>1 DEF Registry, RegistryTracks
<1> QED BY <1>1, <1>2, <1>3, <1>4, <1>5, <1>6, <1>7 DEF Next, BroadcastStep, HandlerStep

(* Whoever is connected is broadcast to, and nobody else is once its handler is
   over, whatever the broadcast drops at the end of a snapshot taken before.   *)
THEOREM ClientsAreTracked == Spec => []RegistryTracks
<1>1. Init => Registry
  BY DEF Init, Registry, RegistryTracks
<1>2. Registry => RegistryTracks
  BY DEF Registry
<1> QED BY <1>1, <1>2, InitTyped, NextTyped, NextRegistry, PTL DEF Spec

-----------------------------------------------------------------------------
(* The serials of the stream Watched.  f[i] is the serial that a message at place
   i of the queue has to have, if it is one of that stream; f[1] is that of the
   next message to be taken.                                                 *)
Following(n) == (n + 1) % Serials

Tracked(m) == m.t # "tick" /\ m.s = Watched

Numbers(f) ==
    /\ f \in [1..(Len(outq) + 1) -> 0..(Serials - 1)]
    /\ f[Len(outq) + 1] = serial
    /\ \A i \in 1..Len(outq) :
          IF Tracked(outq[i]) THEN outq[i].n = f[i] /\ f[i + 1] = Following(f[i])
                              ELSE f[i + 1] = f[i]

(* A connection that is still to get the message under way was sent the one
   before it last; any other, the one before the next to be taken.           *)
InStep(first) ==
    /\ targets # {} /\ Tracked(msg) => first = Following(msg.n)
    /\ \A c \in Conns : open[c] /\ last[c] # None =>
          Following(last[c]) = IF c \in targets /\ Tracked(msg) THEN msg.n ELSE first

Gapless == \E f : Numbers(f) /\ InStep(f[1])

LEMMA InitGapless == Init => Gapless
<1> SUFFICES ASSUME Init PROVE Gapless
  OBVIOUS
<1>1. Len(outq) = 0 /\ serial = 0 /\ 0 \in 0..(Serials - 1)
  BY GatewayAssumption DEF Init
<1>2. Numbers([i \in 1..1 |-> 0])
  BY <1>1 DEF Numbers
<1>3. InStep(0)
  BY DEF Init, InStep
<1> QED BY <1>2, <1>3 DEF Gapless

(* A message is put in the queue. *)
LEMMA EnqueueGapless ==
    ASSUME TypeOK, Gapless, NEW m \in Messages, outq' = Append(outq, m),
           IF Tracked(m) THEN m.n = serial /\ serial' = Following(serial)
                         ELSE serial' = serial,
           UNCHANGED <<msg, targets, open, last>>
    PROVE  Gapless'
<1> DEFINE n == Len(outq)
<1>1. PICK f : Numbers(f) /\ InStep(f[1])
  BY DEF Gapless
<1>0. PICK g : g = [i \in 1..(n + 2) |-> IF i = n + 2 THEN serial' ELSE f[i]]
  OBVIOUS
<1>2. n \in Nat /\ Len(outq') = n + 1 /\ outq'[n + 1] = m
      /\ \A i \in 1..n : outq'[i] = outq[i]
  BY DEF TypeOK
<1>3. serial \in Nat /\ serial \in 0..(Serials - 1) /\ serial' \in 0..(Serials - 1)
  BY SerialTyped DEF TypeOK, Following
<1>4. Numbers(g)'
  <2>1. g \in [1..(Len(outq') + 1) -> 0..(Serials - 1)] /\ g[n + 2] = serial'
        /\ g[n + 1] = serial
    BY <1>0, <1>1, <1>2, <1>3 DEF Numbers
  <2>2. \A i \in 1..n : g[i] = f[i] /\ g[i + 1] = f[i + 1]
    BY <1>0, <1>2
  <2>3. ASSUME NEW i \in 1..(n + 1)
        PROVE  IF Tracked(outq'[i]) THEN outq'[i].n = g[i] /\ g[i + 1] = Following(g[i])
                                    ELSE g[i + 1] = g[i]
    <3>1. CASE i \in 1..n
      BY <1>1, <1>2, <2>2, <3>1 DEF Numbers
    <3>2. CASE i = n + 1
      BY <1>2, <2>1, <3>2
    <3> QED BY <1>2, <3>1, <3>2
  <2>4. Len(outq') + 1 = n + 2 /\ 1..Len(outq') = 1..(n + 1)
    BY <1>2
  <2> HIDE DEF n
  <2> QED BY <2>1, <2>3, <2>4 DEF Numbers
<1>5. g[1] = f[1]
  BY <1>0, <1>2
<1> QED BY <1>1, <1>4, <1>5 DEF Gapless, InStep

(* Nothing is put in the queue or taken: the serials stay, and it remains to see
   what was sent to whom.                                                    *)
LEMMA SentGapless ==
    ASSUME Gapless, UNCHANGED <<outq, serial>>,
           \A first : InStep(first) => InStep(first)'
    PROVE  Gapless'
BY DEF Gapless, Numbers

LEMMA TakeGapless ==
    ASSUME TypeOK, Registry, Gapless, Take
    PROVE  Gapless'
<1> DEFINE n == Len(outq)
<1>1. PICK f : Numbers(f) /\ InStep(f[1])
  BY DEF Gapless
<1>0. PICK g : g = [i \in 1..n |-> f[i + 1]]
  OBVIOUS
<1>2. n \in Nat \ {0} /\ Len(outq') = n - 1 /\ \A i \in 1..(n - 1) : outq'[i] = outq[i + 1]
  BY DEF TypeOK, Take
<1>3. Numbers(g)'
  <2>1. g \in [1..n -> 0..(Serials - 1)] /\ g[n] = serial
    BY <1>0, <1>1, <1>2 DEF Numbers
  <2>2. ASSUME NEW i \in 1..(n - 1)
        PROVE  IF Tracked(outq'[i]) THEN outq'[i].n = g[i] /\ g[i + 1] = Following(g[i])
                                    ELSE g[i + 1] = g[i]
    <3>1. i + 1 \in 1..n /\ g[i] = f[i + 1] /\ g[i + 1] = f[(i + 1) + 1]
      BY <1>0, <1>2
    <3> QED BY <1>1, <1>2, <3>1 DEF Numbers
  <2>3. Len(outq') + 1 = n /\ 1..Len(outq') = 1..(n - 1) /\ serial' = serial
    BY <1>2 DEF Take, threads
  <2> HIDE DEF n
  <2> QED BY <2>1, <2>2, <2>3 DEF Numbers
<1>4. g[1] = f[2] /\ 1 \in 1..n
  BY <1>0, <1>2
<1>5. IF Tracked(outq[1]) THEN outq[1].n = f[1] /\ g[1] = Following(f[1]) ELSE g[1] = f[1]
  BY <1>1, <1>4 DEF Numbers
<1>6. /\ targets = {} /\ targets' = clients /\ UNCHANGED <<open, last>>
      /\ msg' = IF clients = {} THEN Tick ELSE outq[1]
  BY DEF Take, Idle, received
<1>7. \A c \in Conns : open[c] => c \in clients
  BY DEF Registry, RegistryTracks
<1>8. InStep(g[1])'
  <2>1. targets' # {} => msg' = outq[1]
    BY <1>6
  <2>2. targets' # {} /\ Tracked(msg') => g[1] = Following(msg'.n)
    BY <1>5, <2>1
  <2>3. ASSUME NEW c \in Conns, open[c], last[c] # None
        PROVE  /\ c \in targets' /\ msg' = outq[1]
               /\ Following(last[c]) = IF Tracked(outq[1]) THEN outq[1].n ELSE g[1]
    BY <1>1, <1>5, <1>6, <1>7, <2>1, <2>3 DEF InStep
  <2> QED BY <1>6, <2>2, <2>3 DEF InStep
<1> QED BY <1>3, <1>8 DEF Gapless

(* The connection is sent the message under way, and is told in no other way. *)
LEMMA SendGapless ==
    ASSUME Typed, Gapless, NEW c \in Conns, SendTo(c)
    PROVE  Gapless'
<1>1. UNCHANGED <<outq, serial, open>> /\ c \in targets
  BY DEF SendTo, threads
<1>2. /\ targets' = targets \ {c}
      /\ \/ msg' = msg
         \/ targets' = {} /\ msg' = Tick
  <2>1. CASE \E failed : EndOfSend(targets \ {c}, failed)
    BY <2>1 DEF EndOfSend
  <2>2. CASE targets' = targets \ {c} /\ msg' = msg
    BY <2>2
  <2> QED BY <2>1, <2>2 DEF SendTo
<1>3. /\ \A b \in Conns : b # c \/ ~open[b] => last'[b] = last[b]
      /\ open[c] => last'[c] = IF Tracked(msg) THEN msg.n ELSE last[c]
  BY DEF SendTo, Deliver, Tracked, received, Typed, TypeOK
<1> SUFFICES ASSUME NEW first, InStep(first) PROVE InStep(first)'
  BY <1>1, SentGapless
<1>4. ~Tracked(Tick)
  BY DEF Tracked, Tick
<1>5. targets' # {} => msg' = msg
  BY <1>2
<1>6. targets' # {} /\ Tracked(msg') => first = Following(msg'.n)
  BY <1>1, <1>5 DEF InStep
<1>7. ASSUME NEW b \in Conns, open[b], last'[b] # None
      PROVE  Following(last'[b]) = IF b \in targets' /\ Tracked(msg') THEN msg'.n ELSE first
  <2>1. CASE b = c
    <3>1. b \notin targets'
      BY <1>2, <2>1
    <3>2. Following(last'[b]) = first
      BY <1>1, <1>3, <1>7, <2>1 DEF InStep
    <3> QED BY <3>1, <3>2
  <2>2. CASE b # c
    <3>1. last'[b] = last[b] /\ (b \in targets' <=> b \in targets)
      BY <1>2, <1>3, <2>2
    <3>2. b \in targets => msg' = msg
      BY <1>5, <3>1
    <3> QED BY <1>7, <3>1, <3>2 DEF InStep
  <2> QED BY <2>1, <2>2
<1> QED BY <1>1, <1>6, <1>7 DEF InStep

LEMMA ReturnGapless ==
    ASSUME Gapless, SendReturns
    PROVE  Gapless'
<1>1. UNCHANGED <<outq, serial, open, last, targets>>
  BY DEF SendReturns, EndOfSend, threads, received
<1>2. targets # {} => msg' = msg
  BY DEF SendReturns, EndOfSend
<1> QED BY <1>1, <1>2, SentGapless DEF InStep

(* A connection that comes has been sent nothing; one that goes gets nothing. *)
LEMMA HandlerGapless ==
    ASSUME Typed, Gapless, NEW c \in Conns, Connect(c) \/ HandlerStep(c) \/ Peer(c)
    PROVE  Gapless'
<1>1. UNCHANGED <<outq, serial, msg, targets>>
  BY DEF Connect, HandlerStep, ResendNext, ResendFails, HandlerEnds, Peer, Drain, Close,
     broadcast, threads
<1>2. \A b \in Conns : open'[b] /\ last'[b] # None => open[b] /\ last'[b] = last[b]
  <2>1. CASE Connect(c)
    BY <2>1 DEF Connect, Typed, TypeOK, Unused
  <2>2. CASE HandlerEnds(c)
    BY <2>2 DEF HandlerEnds, Typed, TypeOK
  <2>3. CASE ResendNext(c) \/ ResendFails(c) \/ Peer(c)
    BY <2>3 DEF ResendNext, ResendFails, Peer, Drain, Close, received, Typed, TypeOK
  <2> QED BY <2>1, <2>2, <2>3 DEF HandlerStep
<1> QED BY <1>1, <1>2, SentGapless DEF InStep

LEMMA StreamGapless ==
    ASSUME Typed, Gapless, NEW s \in Streams, StreamerStep(s) \/ Stall(s) \/ Resume(s)
    PROVE  Gapless'
<1>1. UNCHANGED <<msg, targets, open, last>>
  BY DEF StreamerStep, Spawn, SpawnFails, SendCfg, CacheCfg, SendAu, StreamEnds, Stall, Resume,
     broadcast, received
<1>2. CASE UNCHANGED <<outq, serial>>
  BY <1>1, <1>2, SentGapless DEF InStep
<1>3. ASSUME NEW m \in {Cfg(s), Au(s)}, Enqueue(s, m) PROVE Gapless'
  <2>1. m \in Messages /\ m.t # "tick" /\ m.s = s /\ m.n = Serial(s)
    <3>1. m \in Messages
      BY MessageTyped DEF Typed
    <3>2. CASE m = Cfg(s)
      BY <3>1, <3>2 DEF Cfg
    <3>3. CASE m = Au(s)
      BY <3>1, <3>3 DEF Au
    <3> QED BY <3>2, <3>3
  <2>2. IF Tracked(m) THEN m.n = serial /\ serial' = Following(serial) ELSE serial' = serial
    BY <1>3, <2>1 DEF Tracked, Enqueue, Serial, Following
  <2> QED BY <1>1, <1>3, <2>1, <2>2, EnqueueGapless DEF Enqueue, Typed
<1>4. UNCHANGED <<outq, serial>> \/ \E m \in {Cfg(s), Au(s)} : Enqueue(s, m)
  BY DEF StreamerStep, Spawn, SpawnFails, SendCfg, CacheCfg, SendAu, StreamEnds, Stall, Resume
<1> QED BY <1>2, <1>3, <1>4

LEMMA NextGapless == Typed /\ Registry /\ Gapless /\ [Next]_vars => Gapless'
<1> SUFFICES ASSUME Typed, Registry, Gapless, [Next]_vars PROVE Gapless'
  OBVIOUS
<1>1. CASE UNCHANGED vars
  BY <1>1, SentGapless DEF vars, threads, broadcast, received, InStep
<1>2. CASE Ticker
  <2>1. ~Tracked(Tick)
    BY DEF Tracked, Tick
  <2> QED BY <1>2, <2>1, TickIsMessage, EnqueueGapless DEF Ticker, threads, broadcast,
             received, Typed
<1> QED BY <1>1, <1>2, StreamGapless, TakeGapless, SendGapless, ReturnGapless, HandlerGapless
        DEF Next, BroadcastStep, Typed

(* Only a broadcast and the end of a handler change what a connection was sent last. *)
LEMMA OthersLeaveLast ==
    /\ \A s \in Streams : StreamerStep(s) \/ Stall(s) \/ Resume(s) => last' = last
    /\ Ticker \/ Take \/ SendReturns => last' = last
    /\ \A c \in Conns : Connect(c) \/ ResendNext(c) \/ ResendFails(c) \/ Peer(c) => last' = last
<1>1. \A s \in Streams : StreamerStep(s) \/ Stall(s) \/ Resume(s) => last' = last
  BY DEF StreamerStep, Spawn, SpawnFails, SendCfg, CacheCfg, SendAu, StreamEnds, Stall,
         Resume, received
<1>2. Ticker \/ Take \/ SendReturns => last' = last
  BY DEF Ticker, Take, SendReturns, received
<1>3. \A c \in Conns : Connect(c) \/ ResendNext(c) \/ ResendFails(c) \/ Peer(c) => last' = last
  BY DEF Connect, ResendNext, ResendFails, Peer, Drain, Close, received
<1> QED BY <1>1, <1>2, <1>3

(* From its first message of a stream on, a client gets every further one once
   and in order, for any number of streams and clients and any write buffers.  *)
THEOREM NothingSkipped == Spec => NoGap
<1>1. ASSUME Typed, Gapless, [Next]_vars, NEW c \in Conns,
             last'[c] # last[c], last[c] # None, last'[c] # None
      PROVE  last'[c] = (last[c] + 1) % Serials
  <2>a. last \in [Conns -> 0..Serials - 1 \cup {None}]
    BY <1>1 DEF Typed, TypeOK
  <2>1. SendTo(c) /\ open[c]
    <3>1. last' # last /\ ~UNCHANGED vars
      BY <1>1 DEF vars, received
    <3>2. \/ \E d \in Conns : SendTo(d)
          \/ \E d \in Conns : HandlerEnds(d)
      BY <1>1, <3>1, OthersLeaveLast DEF Next, BroadcastStep, HandlerStep
    <3>3. ASSUME NEW d \in Conns, SendTo(d) PROVE d = c /\ open[d]
      BY <1>1, <2>a, <3>1, <3>3 DEF SendTo, Deliver, received
    <3>4. ASSUME NEW d \in Conns, HandlerEnds(d) PROVE FALSE
      BY <1>1, <2>a, <3>4 DEF HandlerEnds
    <3> QED BY <3>2, <3>3, <3>4
  <2>2. Tracked(msg) /\ last'[c] = msg.n /\ c \in targets
    BY <1>1, <2>1 DEF SendTo, Deliver, Tracked, received, Typed, TypeOK
  <2>3. PICK first : InStep(first)
    BY <1>1 DEF Gapless
  <2> QED BY <1>1, <2>1, <2>2, <2>3 DEF InStep, Following
<1>2. Typed /\ Gapless /\ [Next]_vars
      => [\A c \in Conns :
            last'[c] # last[c] /\ last[c] # None /\ last'[c] # None
            => last'[c] = (last[c] + 1) % Serials]_vars
  BY <1>1
<1>3. Init => Registry
  BY DEF Init, Registry, RegistryTracks
<1> QED BY <1>2, <1>3, InitTyped, NextTyped, NextRegistry, InitGapless, NextGapless, PTL
        DEF Spec, NoGap
=============================================================================
