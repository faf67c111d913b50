----------------------------- MODULE RtspRelay ------------------------------
(* One connection of src/tools/rtsp_relay.py: main() accepts a client, handle()
   connects to the server and runs _bridge twice, once in each direction, each
   on its own thread.

   A socket is what TCP makes of it: two streams of bytes, each with a bounded
   buffer and an end, and a connection that can break.  Bytes are counted,
   their order being that of the streams.  The server's socket keeps the timeout
   of create_connection (10 s), the client's has none.  The peers and the
   network are external: a peer writes, reads, ends its stream, closes, and may
   do none of it.                                                           *)
EXTENDS Integers

CONSTANTS
    Items,     \* bound: bytes each peer writes
    RoomIn,    \* bytes a socket holds for recv
    RoomOut    \* bytes a socket holds for its peer

ASSUME RelayAssumption ==
    Items \in Nat /\ RoomIn \in Nat \ {0} /\ RoomOut \in Nat \ {0}

Socks == {"client", "server"}
Dirs  == {"up", "down"}

(* The two calls of _bridge: (client, up) and (up, client). *)
src == [up |-> "client", down |-> "server"]
dst == [up |-> "server", down |-> "client"]
Toward(k) == IF k = "client" THEN "down" ELSE "up"    \* the direction k reads
From(k)   == IF k = "client" THEN "up" ELSE "down"    \* the direction k writes

VARIABLES
    hpc,        \* handle(): "connect", "bridging", "failed", "closed"
    held,       \* nothing but main()'s variable conn may keep the client's socket
    pc,         \* pc[d]: program point of the bridge of direction d
    hand,       \* hand[d]: bytes received and not yet sent
    inb, out,   \* per socket: bytes from the peer; bytes for the peer
    fin, shut,  \* per socket: the peer ended its stream; the relay ended its own
    broken,     \* per socket: the connection was reset
    peer,       \* per socket: the peer's end is "open" or "closed"
    sent, got, ended,    \* history, per direction: written, read, end told
    quiet       \* history, per direction: a timeout ended the bridge

relayVars == <<hpc, held, pc, hand>>
sockVars  == <<inb, out, fin, shut, broken>>
peerVars  == <<peer, sent, got, ended>>
vars == <<relayVars, sockVars, peerVars, quiet>>

Init == /\ hpc = "connect" /\ held = TRUE
        /\ pc = [d \in Dirs |-> "idle"] /\ hand = [d \in Dirs |-> 0]
        /\ inb = [k \in Socks |-> 0] /\ out = [k \in Socks |-> 0]
        /\ fin = [k \in Socks |-> FALSE] /\ shut = [k \in Socks |-> FALSE]
        /\ broken = [k \in Socks |-> FALSE]
        /\ peer = [k \in Socks |-> "open"]
        /\ sent = [d \in Dirs |-> 0] /\ got = [d \in Dirs |-> 0]
        /\ ended = [d \in Dirs |-> "none"]
        /\ quiet = [d \in Dirs |-> FALSE]

-----------------------------------------------------------------------------
(* handle() and main() *)

(* The relay's side of socket k is closed: nothing refers to it any more. *)
Closed(k) == hpc = "closed" \/ (k = "client" /\ hpc = "failed" /\ ~held)

(* close() ends the stream to the peer, or resets the connection when there are
   bytes nobody has received.                                               *)
CloseSockets(K) ==
    /\ shut' = [k \in Socks |-> shut[k] \/ k \in K]
    /\ broken' = [k \in Socks |-> broken[k] \/ (k \in K /\ inb[k] > 0)]
    /\ UNCHANGED <<inb, out, fin>>

(* From here on the bridges refer to both sockets. *)
Connected ==
    /\ hpc = "connect"
    /\ hpc' = "bridging" /\ held' = FALSE
    /\ pc' = [d \in Dirs |-> "recv"]
    /\ UNCHANGED <<hand, sockVars, peerVars, quiet>>

(* create_connection raises and ends the thread.  Nobody closes the client's
   socket: it goes with the last reference to it, which is main()'s variable
   until another client has been accepted.                                  *)
ConnectFails ==
    /\ hpc = "connect"
    /\ hpc' = "failed"
    /\ CloseSockets(IF held THEN {} ELSE {"client"})
    /\ UNCHANGED <<held, pc, hand, peerVars, quiet>>

AcceptNext ==
    /\ held
    /\ held' = FALSE
    /\ CloseSockets(IF hpc = "failed" THEN {"client"} ELSE {})
    /\ UNCHANGED <<hpc, pc, hand, peerVars, quiet>>

(* Mutant: only the first thread is joined. *)
CloseAfterFirst ==
    /\ hpc = "bridging" /\ pc["up"] = "done"
    /\ hpc' = "closed"
    /\ CloseSockets(Socks)
    /\ UNCHANGED <<held, pc, hand, peerVars, quiet>>

(* Both threads are joined, then both sockets closed. *)
CloseBoth ==
    /\ hpc = "bridging" /\ \A d \in Dirs : pc[d] = "done"
    /\ hpc' = "closed"
    /\ CloseSockets(Socks)
    /\ UNCHANGED <<held, pc, hand, peerVars, quiet>>

-----------------------------------------------------------------------------
(* _bridge(src, dst) *)

(* The loop is over: at the end of the stream or after an OSError, where what
   was in hand is dropped.                                                   *)
Leave(d) == /\ pc' = [pc EXCEPT ![d] = "shut"]
            /\ hand' = [hand EXCEPT ![d] = 0]

(* recv returns some of what is there. *)
Receive(d) ==
    /\ pc[d] = "recv" /\ ~broken[src[d]]
    /\ \E n \in 1..inb[src[d]] :
          /\ hand' = [hand EXCEPT ![d] = n]
          /\ inb' = [inb EXCEPT ![src[d]] = @ - n]
    /\ pc' = [pc EXCEPT ![d] = "send"]
    /\ UNCHANGED <<hpc, held, out, fin, shut, broken, peerVars, quiet>>

(* recv returns nothing at the end of the stream, and raises when the connection
   is broken.                                                               *)
ReceiveEnds(d) ==
    /\ pc[d] = "recv"
    /\ broken[src[d]] \/ (fin[src[d]] /\ inb[src[d]] = 0)
    /\ Leave(d)
    /\ UNCHANGED <<hpc, held, sockVars, peerVars, quiet>>

(* Mutant: the timeout is lifted once the connection stands. *)
NeverTimesOut(d) == FALSE /\ UNCHANGED vars

(* The server's socket times out: recv when the server is silent, sendall when
   it does not read.                                                        *)
TimesOut(d) ==
    /\ \/ pc[d] = "recv" /\ src[d] = "server" /\ inb["server"] = 0 /\ ~fin["server"]
       \/ pc[d] = "send" /\ dst[d] = "server" /\ out["server"] = RoomOut
                         /\ peer["server"] = "open"
    /\ ~broken["server"]
    /\ Leave(d)
    /\ quiet' = [quiet EXCEPT ![d] = TRUE]
    /\ UNCHANGED <<hpc, held, sockVars, peerVars>>

(* Mutant: send in place of sendall: what does not fit is forgotten. *)
SendOnce(d) ==
    /\ pc[d] = "send" /\ ~broken[dst[d]] /\ peer[dst[d]] = "open" /\ out[dst[d]] < RoomOut
    /\ out' = [out EXCEPT ![dst[d]] = IF @ + hand[d] > RoomOut THEN RoomOut ELSE @ + hand[d]]
    /\ hand' = [hand EXCEPT ![d] = 0]
    /\ pc' = [pc EXCEPT ![d] = "recv"]
    /\ UNCHANGED <<hpc, held, inb, fin, shut, broken, peerVars, quiet>>

(* sendall hands the bytes over as there is room for them. *)
Send(d) ==
    /\ pc[d] = "send" /\ ~broken[dst[d]] /\ peer[dst[d]] = "open" /\ out[dst[d]] < RoomOut
    /\ out' = [out EXCEPT ![dst[d]] = @ + 1]
    /\ hand' = [hand EXCEPT ![d] = @ - 1]
    /\ pc' = [pc EXCEPT ![d] = IF hand[d] = 1 THEN "recv" ELSE "send"]
    /\ UNCHANGED <<hpc, held, inb, fin, shut, broken, peerVars, quiet>>

(* What is sent to a peer that has closed brings back a reset. *)
SendToClosed(d) ==
    /\ pc[d] = "send" /\ peer[dst[d]] = "closed" /\ ~broken[dst[d]]
    /\ broken' = [broken EXCEPT ![dst[d]] = TRUE]
    /\ UNCHANGED <<relayVars, inb, out, fin, shut, peerVars, quiet>>

SendFails(d) ==
    /\ pc[d] = "send" /\ broken[dst[d]]
    /\ Leave(d)
    /\ UNCHANGED <<hpc, held, sockVars, peerVars, quiet>>

(* finally: the stream to dst is ended; that fails when the connection broke. *)
HalfClose(d) ==
    /\ pc[d] = "shut"
    /\ pc' = [pc EXCEPT ![d] = "done"]
    /\ shut' = [shut EXCEPT ![dst[d]] = @ \/ ~broken[dst[d]]]
    /\ UNCHANGED <<hpc, held, hand, inb, out, fin, broken, peerVars, quiet>>

Bridge(d) == \/ Receive(d) \/ ReceiveEnds(d) \/ TimesOut(d) \/ Send(d)
             \/ SendToClosed(d) \/ SendFails(d) \/ HalfClose(d)

-----------------------------------------------------------------------------
(* The peers and the network (external).  There is no server before handle() is
   connected.                                                               *)
There(k) == peer[k] = "open" /\ (k = "client" \/ hpc \in {"bridging", "closed"})

PeerWrites(k) ==
    /\ There(k) /\ ~fin[k] /\ ~broken[k] /\ ~Closed(k)
    /\ inb[k] < RoomIn /\ sent[From(k)] < Items
    /\ inb' = [inb EXCEPT ![k] = @ + 1]
    /\ sent' = [sent EXCEPT ![From(k)] = @ + 1]
    /\ UNCHANGED <<relayVars, out, fin, shut, broken, peer, got, ended, quiet>>

(* The peer ends its stream and goes on reading. *)
PeerEnds(k) ==
    /\ There(k) /\ ~fin[k]
    /\ fin' = [fin EXCEPT ![k] = TRUE]
    /\ UNCHANGED <<relayVars, inb, out, shut, broken, peerVars, quiet>>

PeerReads(k) ==
    /\ There(k) /\ out[k] > 0 /\ ended[Toward(k)] = "none"
    /\ out' = [out EXCEPT ![k] = @ - 1]
    /\ got' = [got EXCEPT ![Toward(k)] = @ + 1]
    /\ UNCHANGED <<relayVars, inb, fin, shut, broken, peer, sent, ended, quiet>>

(* The peer is told the end of the relay's stream, or that the connection broke,
   which may drop what it has not read.                                     *)
PeerIsTold(k) ==
    /\ There(k) /\ ended[Toward(k)] = "none"
    /\ \/ /\ broken[k]
          /\ ended' = [ended EXCEPT ![Toward(k)] = "reset"]
          /\ out' = [out EXCEPT ![k] = 0]
       \/ /\ ~broken[k] /\ shut[k] /\ out[k] = 0
          /\ ended' = [ended EXCEPT ![Toward(k)] = "eof"]
          /\ UNCHANGED out
    /\ UNCHANGED <<relayVars, inb, fin, shut, broken, peer, sent, got, quiet>>

PeerCloses(k) ==
    /\ There(k)
    /\ peer' = [peer EXCEPT ![k] = "closed"]
    /\ fin' = [fin EXCEPT ![k] = TRUE]
    /\ out' = [out EXCEPT ![k] = 0]
    /\ broken' = [broken EXCEPT ![k] = @ \/ out[k] > 0]
    /\ UNCHANGED <<relayVars, inb, shut, sent, got, ended, quiet>>

(* A reset: by the peer, by the network, or for what reaches a closed socket. *)
Breaks(k) ==
    /\ There(k) /\ ~broken[k]
    /\ broken' = [broken EXCEPT ![k] = TRUE]
    /\ UNCHANGED <<relayVars, inb, out, fin, shut, peerVars, quiet>>

Peer(k) == PeerWrites(k) \/ PeerEnds(k) \/ PeerReads(k) \/ PeerIsTold(k)
           \/ PeerCloses(k) \/ Breaks(k)

Handle == Connected \/ ConnectFails \/ CloseBoth

Next == \/ Handle \/ AcceptNext
        \/ \E d \in Dirs : Bridge(d)
        \/ \E k \in Socks : Peer(k)

Spec == Init /\ [][Next]_vars

(* The threads run and the timeout fires; a client, which is ffmpeg, reads what
   it is sent and closes at the end of the stream.  Nothing is asked of the
   server.                                                                  *)
ClientLeaves == ended["down"] # "none" /\ PeerCloses("client")

Fairness == /\ WF_vars(Handle)
            /\ \A d \in Dirs : WF_vars(Bridge(d))
            /\ WF_vars(PeerReads("client") \/ PeerIsTold("client"))
            /\ WF_vars(ClientLeaves)

FairSpec == Spec /\ Fairness

-----------------------------------------------------------------------------
(* The fields; a buffer never holds more than its room, and a bridge that sends
   has something to send.                                                   *)
TypeOK ==
    /\ hpc \in {"connect", "bridging", "failed", "closed"} /\ held \in BOOLEAN
    /\ pc \in [Dirs -> {"idle", "recv", "send", "shut", "done"}]
    /\ hand \in [Dirs -> 0..RoomIn]
    /\ \A d \in Dirs : pc[d] = "send" <=> hand[d] > 0
    /\ inb \in [Socks -> 0..RoomIn] /\ out \in [Socks -> 0..RoomOut]
    /\ fin \in [Socks -> BOOLEAN] /\ shut \in [Socks -> BOOLEAN]
    /\ broken \in [Socks -> BOOLEAN]
    /\ peer \in [Socks -> {"open", "closed"}]
    /\ sent \in [Dirs -> Nat] /\ got \in [Dirs -> Nat]
    /\ ended \in [Dirs -> {"none", "eof", "reset"}]
    /\ quiet \in [Dirs -> BOOLEAN]

(* Nothing more enters the last buffer of direction d. *)
CutOff(d) ==
    \/ pc[d] \in {"shut", "done"}
    \/ hpc = "failed"
    \/ broken[dst[d]] \/ peer[dst[d]] = "closed"

InFlight(d) == out[dst[d]] + IF CutOff(d) THEN 0 ELSE hand[d] + inb[src[d]]

UpPipe   == INSTANCE BytePipe WITH sent <- sent["up"], flight <- InFlight("up"),
                got <- got["up"], cut <- CutOff("up"), ended <- ended["up"]
DownPipe == INSTANCE BytePipe WITH sent <- sent["down"], flight <- InFlight("down"),
                got <- got["down"], cut <- CutOff("down"), ended <- ended["down"]

(* The docstring's "transparent": each direction is a stream without a gap, cut
   at most once and at its end, whatever fails on whichever side.            *)
Transparent == UpPipe!Spec /\ DownPipe!Spec

(* The end of a stream that a peer is told is the end the other peer gave it,
   behind its last byte, unless the other's connection broke, a timeout ended
   the bridge, or there never was a server (_bridge: the end of one direction
   must not end the other, and the sockets are closed after both).           *)
EofIsTrue ==
    \A d \in Dirs : ended[d] = "eof" =>
        \/ fin[src[d]] /\ got[d] = sent[d]
        \/ quiet[d] \/ broken[src[d]] \/ hpc = "failed"

(* The comment in handle(), "closing any side tears down the pair": once a peer
   has closed or a connection broke, both sockets are closed in the end, however
   silent the server stays.  Only a client whose server could not be reached is
   kept until main() accepts the next one.                                   *)
TearsDown ==
    \A k \in Socks : peer[k] = "closed" \/ broken[k]
                     ~> Closed("client") \/ (hpc = "failed" /\ held)
=============================================================================
