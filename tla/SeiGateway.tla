----------------------------- MODULE SeiGateway -----------------------------
(* The gateway of src/tools/sei_gateway.py: one thread per stream that pulls
   access units from ffmpeg, and an event loop with one queue, a task that
   broadcasts what is queued, a ticker and one handler per WebSocket connection.

   The threads run beside the loop.  On the loop a task runs until it awaits:
   here, until a send has to wait for the connection's write buffer.  A message
   is abstracted to its kind, its stream, the version of the parameter sets and
   a serial number.  History is kept of one stream, Watched, which may be any:
   the serial and the version each connection was sent last.  The keep-alive of
   the websockets package, which closes a connection whose peer does not answer,
   is external.                                                              *)
EXTENDS Integers, Sequences

CONSTANTS
    Streams, Conns,
    Watched,       \* the stream that history is kept of
    NoConn,        \* the broadcast is not waiting for a send
    None,          \* nothing received or cached yet
    Versions,      \* parameter sets (SPS, PPS) a stream can have
    Serials,       \* serial numbers are taken modulo this
    High,          \* messages a write buffer holds before a send has to wait
    QueueBound     \* bound: messages in the queue, which has no limit

ASSUME GatewayAssumption ==
    /\ Watched \in Streams
    /\ NoConn \notin Conns /\ None \notin Versions /\ None \notin Nat
    /\ Serials \in Nat \ {0} /\ High \in Nat /\ QueueBound \in Nat \ {0}

VARIABLES
    spc, feed, sent_cfg, version,   \* the streamer threads
    serial,                     \* history: serial of the next message (Watched)
    stream_cfg, cfg_names,      \* cached cfg by name; the names in dict order
    outq,
    msg, targets, dead, sending,            \* the broadcast task
    clients,
    open, wire,                 \* connection up; messages in its write buffer
    hpc, hpos, hlen,            \* the handlers: program point, dict iterator
    last, conf                  \* history: last serial and cfg sent (Watched)

threads   == <<spc, feed, sent_cfg, version, serial>>
cache     == <<stream_cfg, cfg_names>>
broadcast == <<msg, targets, dead, sending>>
handlers  == <<hpc, hpos, hlen>>
received  == <<last, conf>>
vars == <<threads, cache, outq, broadcast, clients, open, wire, handlers, received>>

Tick == [t |-> "tick"]
Serial(s) == IF s = Watched THEN serial ELSE 0
Cfg(s) == [t |-> "cfg", s |-> s, v |-> version[s], n |-> Serial(s)]
Au(s)  == [t |-> "au", s |-> s, v |-> version[s], n |-> Serial(s)]

Init == /\ spc = [s \in Streams |-> "down"]
        /\ feed = [s \in Streams |-> "none"]
        /\ sent_cfg = [s \in Streams |-> FALSE]
        /\ version \in [Streams -> Versions]
        /\ serial = 0
        /\ stream_cfg = [s \in Streams |-> None] /\ cfg_names = <<>>
        /\ outq = <<>>
        /\ msg = Tick /\ targets = {} /\ dead = {} /\ sending = NoConn
        /\ clients = {}
        /\ open = [c \in Conns |-> FALSE]
        /\ wire = [c \in Conns |-> 0]
        /\ hpc = [c \in Conns |-> "none"]
        /\ hpos = [c \in Conns |-> 1]
        /\ hlen = [c \in Conns |-> 0]
        /\ last = [c \in Conns |-> None]
        /\ conf = [c \in Conns |-> None]

-----------------------------------------------------------------------------
(* The streamer threads.  An access unit that is no keyframe and has no SEI is
   skipped: that changes nothing.                                           *)

(* ffmpeg is started; the stream may have new parameter sets. *)
Spawn(s) ==
    /\ spc[s] = "down"
    /\ spc' = [spc EXCEPT ![s] = "read"]
    /\ feed' = [feed EXCEPT ![s] = "up"]
    /\ sent_cfg' = [sent_cfg EXCEPT ![s] = FALSE]
    /\ \E v \in Versions : version' = [version EXCEPT ![s] = v]
    /\ UNCHANGED <<serial, cache, outq, broadcast, clients, open, wire, handlers, received>>

(* There is no ffmpeg to start, or no process or pipe left for one: Popen raises
   in front of the try, and the thread is over.                              *)
SpawnFails(s) ==
    /\ spc[s] = "down"
    /\ spc' = [spc EXCEPT ![s] = "dead"]
    /\ UNCHANGED <<feed, sent_cfg, version, serial, cache, outq, broadcast, clients, open,
                   wire, handlers, received>>

(* run_coroutine_threadsafe: puts are run by the loop in the order of the calls. *)
Enqueue(s, m) ==
    /\ Len(outq) < QueueBound
    /\ outq' = Append(outq, m)
    /\ serial' = IF s = Watched THEN (serial + 1) % Serials ELSE serial

(* The first access unit of this ffmpeg with both parameter sets. *)
SendCfg(s) ==
    /\ spc[s] = "read" /\ feed[s] = "up" /\ ~sent_cfg[s]
    /\ Enqueue(s, Cfg(s))
    /\ spc' = [spc EXCEPT ![s] = "cache"]
    /\ UNCHANGED <<feed, sent_cfg, version, cache, broadcast, clients, open, wire,
                   handlers, received>>

(* The text message is cached for connections to come. *)
CacheCfg(s) ==
    /\ spc[s] = "cache"
    /\ stream_cfg' = [stream_cfg EXCEPT ![s] = version[s]]
    /\ cfg_names' = IF stream_cfg[s] = None THEN Append(cfg_names, s) ELSE cfg_names
    /\ sent_cfg' = [sent_cfg EXCEPT ![s] = TRUE]
    /\ spc' = [spc EXCEPT ![s] = "frame"]
    /\ UNCHANGED <<feed, version, serial, outq, broadcast, clients, open, wire,
                   handlers, received>>

(* The rest of that access unit, or one that needs no cfg. *)
SendAu(s) ==
    /\ \/ spc[s] = "frame"
       \/ spc[s] = "read" /\ feed[s] = "up"
    /\ Enqueue(s, Au(s))
    /\ spc' = [spc EXCEPT ![s] = "read"]
    /\ UNCHANGED <<feed, sent_cfg, version, cache, broadcast, clients, open, wire,
                   handlers, received>>

(* End of file, or an exception: ffmpeg is killed, to be started again. *)
StreamEnds(s) ==
    /\ spc[s] = "read" /\ feed[s] = "up"
    /\ spc' = [spc EXCEPT ![s] = "down"]
    /\ feed' = [feed EXCEPT ![s] = "none"]
    /\ UNCHANGED <<sent_cfg, version, serial, cache, outq, broadcast, clients, open, wire,
                   handlers, received>>

(* ffmpeg neither delivers nor exits: the server is silent, or ffmpeg waits to
   write to its stderr, a pipe that nobody reads.                           *)
Stall(s) ==
    /\ feed[s] = "up"
    /\ feed' = [feed EXCEPT ![s] = "stalled"]
    /\ UNCHANGED <<spc, sent_cfg, version, serial, cache, outq, broadcast, clients, open,
                   wire, handlers, received>>

(* A silent server may come back. *)
Resume(s) ==
    /\ feed[s] = "stalled"
    /\ feed' = [feed EXCEPT ![s] = "up"]
    /\ UNCHANGED <<spc, sent_cfg, version, serial, cache, outq, broadcast, clients, open,
                   wire, handlers, received>>

-----------------------------------------------------------------------------
(* Sending on a connection: the message enters the write buffer at once. *)

Deliver(c, m) ==
    /\ wire' = [wire EXCEPT ![c] = @ + 1]
    /\ last' = IF m.t # "tick" /\ m.s = Watched THEN [last EXCEPT ![c] = m.n] ELSE last
    /\ conf' = IF m.t = "cfg" /\ m.s = Watched THEN [conf EXCEPT ![c] = m.v] ELSE conf

(* broadcast() *)

Idle == targets = {} /\ sending = NoConn

Ticker ==
    /\ Tick \notin {outq[i] : i \in 1..Len(outq)}
    /\ Len(outq) < QueueBound
    /\ outq' = Append(outq, Tick)
    /\ UNCHANGED <<threads, cache, broadcast, clients, open, wire, handlers, received>>

(* The message goes to whoever is a client now. *)
Take ==
    /\ Idle /\ outq # <<>>
    /\ msg' = IF clients = {} THEN Tick ELSE Head(outq)
    /\ outq' = Tail(outq)
    /\ targets' = clients
    /\ UNCHANGED <<threads, cache, dead, sending, clients, open, wire, handlers, received>>

(* After the last send, with nothing awaited in between, the dead are dropped. *)
EndOfSend(left, failed) ==
    /\ targets' = left
    /\ sending' = NoConn
    /\ msg' = IF left = {} THEN Tick ELSE msg
    /\ dead' = IF left = {} THEN {} ELSE failed
    /\ clients' = IF left = {} THEN clients \ failed ELSE clients

(* Mutant: the exception of one send ends the loop over the clients. *)
SendUntilFailure(c) ==
    /\ sending = NoConn /\ c \in targets
    /\ IF ~open[c]
       THEN /\ EndOfSend({}, dead \cup {c})
            /\ UNCHANGED <<wire, received>>
       ELSE /\ Deliver(c, msg)
            /\ EndOfSend(targets \ {c}, dead)
    /\ UNCHANGED <<threads, cache, outq, open, handlers>>

SendTo(c) ==
    /\ sending = NoConn /\ c \in targets
    /\ IF ~open[c]
       THEN /\ EndOfSend(targets \ {c}, dead \cup {c})
            /\ UNCHANGED <<wire, received>>
       ELSE /\ Deliver(c, msg)
            /\ IF wire[c] < High
               THEN EndOfSend(targets \ {c}, dead)
               ELSE /\ targets' = targets \ {c}
                    /\ sending' = c
                    /\ UNCHANGED <<msg, dead, clients>>
    /\ UNCHANGED <<threads, cache, outq, open, handlers>>

(* Mutant: only a drained buffer ends the wait. *)
ReturnWhenDrained ==
    /\ sending # NoConn
    /\ open[sending] /\ wire[sending] <= High
    /\ EndOfSend(targets, dead)
    /\ UNCHANGED <<threads, cache, outq, open, wire, handlers, received>>

(* The buffer has drained, or the connection was lost meanwhile. *)
SendReturns ==
    /\ sending # NoConn
    /\ ~open[sending] \/ wire[sending] <= High
    /\ EndOfSend(targets, IF open[sending] THEN dead ELSE dead \cup {sending})
    /\ UNCHANGED <<threads, cache, outq, open, wire, handlers, received>>

-----------------------------------------------------------------------------
(* handler(ws) *)

(* One step of the loop over stream_cfg.items(), which raises when the dict has
   grown; the exception is swallowed and ends the resending.                *)
ResendAt(c, pos, len) ==
    IF pos > len \/ Len(cfg_names) # len
    THEN /\ hpc' = [hpc EXCEPT ![c] = "reading"]
         /\ hpos' = [hpos EXCEPT ![c] = 1]
         /\ hlen' = [hlen EXCEPT ![c] = 0]
    ELSE /\ hpc' = [hpc EXCEPT ![c] = "resend"]
         /\ hpos' = [hpos EXCEPT ![c] = pos + 1]
         /\ hlen' = [hlen EXCEPT ![c] = len]

(* A new connection (a name is used again once no task refers to the old one). *)
Connect(c) ==
    /\ hpc[c] = "none" /\ c \notin targets \cup dead \cup {sending}
    /\ clients' = clients \cup {c}
    /\ open' = [open EXCEPT ![c] = TRUE]
    /\ ResendAt(c, 1, Len(cfg_names))
    /\ IF cfg_names = <<>>
       THEN UNCHANGED <<wire, conf>>
       ELSE /\ wire' = [wire EXCEPT ![c] = 1]
            /\ conf' = [conf EXCEPT ![c] =
                          IF cfg_names[1] = Watched THEN stream_cfg[Watched] ELSE None]
    /\ UNCHANGED <<threads, cache, outq, broadcast, last>>

(* The previous send is over; the next name follows. *)
ResendNext(c) ==
    /\ hpc[c] = "resend" /\ open[c] /\ wire[c] <= High
    /\ ResendAt(c, hpos[c], hlen[c])
    /\ IF hpc'[c] = "reading"
       THEN UNCHANGED <<wire, conf>>
       ELSE /\ wire' = [wire EXCEPT ![c] = @ + 1]
            /\ conf' = [conf EXCEPT ![c] =
                          IF cfg_names[hpos[c]] = Watched THEN stream_cfg[Watched] ELSE @]
    /\ UNCHANGED <<threads, cache, outq, broadcast, clients, open, last>>

ResendFails(c) ==
    /\ hpc[c] = "resend" /\ ~open[c]
    /\ hpc' = [hpc EXCEPT ![c] = "reading"]
    /\ hpos' = [hpos EXCEPT ![c] = 1]
    /\ hlen' = [hlen EXCEPT ![c] = 0]
    /\ UNCHANGED <<threads, cache, outq, broadcast, clients, open, wire, received>>

(* Mutant: no clean-up when the connection ends. *)
HandlerLeaves(c) ==
    /\ hpc[c] = "reading" /\ ~open[c]
    /\ hpc' = [hpc EXCEPT ![c] = "none"]
    /\ UNCHANGED <<threads, cache, outq, broadcast, clients, open, wire, hpos, hlen, received>>

(* The connection is closed: whatever happened to its client, it is one no more. *)
HandlerEnds(c) ==
    /\ hpc[c] = "reading" /\ ~open[c]
    /\ hpc' = [hpc EXCEPT ![c] = "none"]
    /\ clients' = clients \ {c}
    /\ wire' = [wire EXCEPT ![c] = 0]
    /\ last' = [last EXCEPT ![c] = None] /\ conf' = [conf EXCEPT ![c] = None]
    /\ UNCHANGED <<threads, cache, outq, broadcast, open, hpos, hlen>>

(* The peer reads, *)
Drain(c) ==
    /\ open[c] /\ wire[c] > 0
    /\ wire' = [wire EXCEPT ![c] = @ - 1]
    /\ UNCHANGED <<threads, cache, outq, broadcast, clients, open, handlers, received>>

(* or it leaves, or the keep-alive gives it up. *)
Close(c) ==
    /\ open[c]
    /\ open' = [open EXCEPT ![c] = FALSE]
    /\ UNCHANGED <<threads, cache, outq, broadcast, clients, wire, handlers, received>>

-----------------------------------------------------------------------------
StreamerStep(s) ==
    Spawn(s) \/ SpawnFails(s) \/ SendCfg(s) \/ CacheCfg(s) \/ SendAu(s) \/ StreamEnds(s)
BroadcastStep == Take \/ SendReturns \/ \E c \in Conns : SendTo(c)
HandlerStep(c) == ResendNext(c) \/ ResendFails(c) \/ HandlerEnds(c)
Peer(c) == Drain(c) \/ Close(c)

Next == \/ \E s \in Streams : StreamerStep(s) \/ Stall(s) \/ Resume(s)
        \/ Ticker
        \/ BroadcastStep
        \/ \E c \in Conns : Connect(c) \/ HandlerStep(c) \/ Peer(c)

Spec == Init /\ [][Next]_vars

(* The threads and the loop keep running; the peer of a full buffer reads or is
   given up by the keep-alive.                                              *)
Fairness == /\ \A s \in Streams : WF_vars(StreamerStep(s))
            /\ WF_vars(BroadcastStep)
            /\ \A c \in Conns : WF_vars(Peer(c))

FairSpec == Spec /\ Fairness

-----------------------------------------------------------------------------
Messages == [t : {"cfg", "au"}, s : Streams, v : Versions, n : 0..(Serials - 1)]
            \cup {Tick}

(* The variables have their types; stream_cfg is a dict: each cached name occurs
   once in its order.  A write buffer can be overrun by one message of each of
   the two tasks that send on it.                                           *)
TypeOK ==
    /\ spc \in [Streams -> {"down", "read", "cache", "frame", "dead"}]
    /\ feed \in [Streams -> {"none", "up", "stalled"}]
    /\ sent_cfg \in [Streams -> BOOLEAN]
    /\ version \in [Streams -> Versions]
    /\ serial \in 0..(Serials - 1)
    /\ stream_cfg \in [Streams -> Versions \cup {None}]
    /\ cfg_names \in Seq(Streams)
    /\ \A i, j \in DOMAIN cfg_names : cfg_names[i] = cfg_names[j] => i = j
    /\ outq \in Seq(Messages) /\ msg \in Messages
    /\ targets \subseteq Conns /\ dead \subseteq Conns /\ clients \subseteq Conns
    /\ sending \in Conns \cup {NoConn}
    /\ open \in [Conns -> BOOLEAN]
    /\ wire \in [Conns -> 0..(High + 2)]
    /\ hpc \in [Conns -> {"none", "resend", "reading"}]
    /\ hpos \in [Conns -> Nat] /\ hlen \in [Conns -> Nat]
    /\ last \in [Conns -> 0..(Serials - 1) \cup {None}]
    /\ conf \in [Conns -> Versions \cup {None}]

(* While a connection is up it is a client, whatever broadcast drops meanwhile,
   and once its handler is over it is none, whatever snapshot broadcast is still
   working through (clients.add and discard in handler and broadcast).       *)
RegistryTracks ==
    \A c \in Conns : /\ open[c] => c \in clients
                     /\ hpc[c] = "none" => c \notin clients

(* From the first message of a stream a connection receives until it closes, it
   receives every further one once and in order, whoever joins, stalls or leaves
   during the broadcast.                                                     *)
NoGap ==
    [][\A c \in Conns :
          last'[c] # last[c] /\ last[c] # None /\ last'[c] # None
          => last'[c] = (last[c] + 1) % Serials]_vars

(* A peer that does not read delays the broadcast for all, but not for ever. *)
BroadcastReturns == targets # {} \/ sending # NoConn ~> Idle

Pending(c) ==
    \/ spc[Watched] = "cache"
    \/ \E i \in 1..Len(outq) : outq[i].t = "cfg" /\ outq[i].s = Watched
    \/ c \in targets /\ msg.t = "cfg" /\ msg.s = Watched

(* The comment in handler: cached cfgs are resent "so a client that connects
   after the one-time cfg was broadcast still gets the decoder config".       *)
LateClientConfigured ==
    \A c \in Conns :
        open[c] /\ hpc[c] = "reading" /\ ~Pending(c) => conf[c] = stream_cfg[Watched]
=============================================================================
