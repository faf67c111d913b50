# A formal model of SEIInjector

SEIInjector is an OBS plugin that stamps every encoded video frame with the
wall-clock time at which OBS submitted it, as an SEI message inside the H.264 or
H.265 bitstream, together with tools that read the stamps back and use them to
show several streams in step. Paths below are relative to the repository.

This directory holds TLA+ modules that model the program, TLC configurations
that check them on small instances, and proofs for TLAPS. `PROJECT.json` lists
components, runs, mutants, findings, hazards and theorems, and maps each
definition to the lines it stands for.

## 1. The system

    OBS -- frames --> encoder -- packets + SEI --> RTMP / MediaMTX / RTSP (external)
                        |                                     |
                  realtime clock <-- SNTP server          ffmpeg (external)
                                                              |
    director page <-- WebSocket -- gateway: streamers, queue, broadcast, handlers

| component | source | state | operations | what makes it correct |
|---|---|---|---|---|
| realtime clock | `src/realtime-clock.c` | offset, synced flag, counters, stop flag, mutex, worker thread | create, destroy (joins the worker), getters, a synchronisation of up to three SNTP exchanges | a getter sees one published pair; nobody uses a freed clock; destroy ends; the best sample of a round is published; a caller once told "synchronised" gets the local time plus a measured offset |
| submit-time ring | `src/sei-timestamp-encoder.c:103-203` | array of entries, head, length | `put_entry`, `take_entry` | behaves as a bounded queue in submission order |
| encoder | `src/sei-timestamp-encoder.c` | resources, ring, sequence number, output buffer | default codec, create (five failing exits, behind seven points of failure: frame, packet or both may be refused at the last), encode (nine steps), destroy | a packet carries the time of its own frame; nothing leaks, and each thing goes back to its own allocator; the size computed in advance agrees with what is copied; losses show in the numbering; the defaults start |
| SEI payload | `src/sei-payload.c`, parsers of `tools/verify_sei.py` and `tools/sei_gateway.py` | none | build, escape, unescape, parse | no start code inside an SEI; every reader reads what was written |
| bitstream helpers | `src/h26x-util.c` | none | find prefix NALs, turn avcC/hvcC into Annex-B | the stamp stands behind the prefix and before the slice; headers are exactly the parameter sets |
| gateway: access-unit splitter | `tools/sei_gateway.py:112-197` | read buffer | `split_aus`, `_analyze` | nothing depends on where a read ends |
| gateway: streamers, broadcast, handlers | `tools/sei_gateway.py:199-302` | ffmpeg processes, cfg cache, queue, set of clients | spawn, send, cache, broadcast, tick, connect, resend, leave | no client misses or repeats a message; every client gets a cfg; one peer cannot stop the others |
| director page | `tools/director.html`, `tools/director2.html` | decoder, cfg, frame queue and health of each stream, global timeline | configure, decode, present, reconnect | a decoder starts at a keyframe; queues are in the order of the stamps whatever order they come in; a picture goes back only to a frame that came late; streams are shown together |
| RTSP relay | `tools/rtsp_relay.py` | two sockets and two threads a connection | accept, dial, copy each way, half-close, join and close | each direction is a stream without a gap; an end of stream is the other side's; the pair is torn down |
| FFmpeg binding | `src/ffmpeg-bind.c` | table of functions, major, handle, flags | probe one major after another, bind, check the version, clean up | a bound table is whole and from one library that stays; a failure leaves nothing; a retry succeeds |
| verification and alignment | `tools/verify_sei.py`, `tools/align_streams.py` | none; the sweep over two captures | demux, parse, pair, report | the parser agrees with the C one; a frame is paired with the nearest one |
| the rest | plugin entry points, settings page, diagnostic tools, build | | | see section 8 |

**How they interact.** The encoder owns one clock and calls its getters three
times a frame; the clock's worker changes what they answer at any moment, under
a mutex that it also holds while it talks to the network. The encoder puts the
submit time of each frame in the ring before it gives the frame to the codec and
takes it by pts when the packet comes out, which may be several frames later and
in another order. The packet is assembled with the help of the bitstream helpers
and the payload. In the gateway one thread a stream reads ffmpeg's output, cuts
it into access units and puts messages in the queue of the event loop; the
broadcast task and the handlers share the set of clients and the cfg cache with
each other and, without a lock, with those threads. The relay stands between any
RTSP client (the gateway's ffmpeg is one) and a server; the two threads of a
connection share both of its sockets. The FFmpeg binding is not part of the build
and called by nothing.

**What is hard.** Two threads and a mutex held over the network (clock);
destruction while the worker is anywhere in its loop; packets delayed and
reordered by a codec, frames refused, a flag and a stamp read at two moments
(encoder); creation that fails half-way; a clipped, full, wrapping array (ring);
byte stuffing and nested lengths at their boundaries (payload, helpers); reads
that end anywhere (splitter); tasks that suspend at every send while clients come
and go and threads write the dict being iterated (gateway); a peer that stops
reading; an ffmpeg that stops writing; a direction that ends, breaks or times out
while the other goes on (relay); a library that is bound in part and given up, and
a load that is tried again (binding). Each of these is a row of `hazards` in
`PROJECT.json`, with the properties that guard it.

## 2. The modules

| module | models | form |
|---|---|---|
| `ClockService` | what `realtime-clock.h` promises to a caller | abstract specification |
| `RealtimeClock` | `realtime-clock.c` in full | state machine, refines `ClockService` |
| `RealtimeClockProofs` | | proofs |
| `StampQueue` | what the encoder needs of the ring: a bounded queue | abstract specification |
| `PtsRing` | `put_entry`, `take_entry` on the array | state machine, refines `StampQueue` |
| `StampEncoder` | default codec, create, encode, destroy; extends `PtsRing`, instantiates `ClockService` | composition |
| `StampEncoderProofs` | the ring, then the encoder | proofs |
| `SeiPayload` | `sei-payload.c` and the Python readers | operators over bytes |
| `H26xUtil` | `h26x-util.c` and the assembly of a packet; extends `SeiPayload` | operators over bytes |
| `AuSplitter` | `split_aus`, `_analyze`; extends `H26xUtil` | state machine |
| `AuSplitterProofs` | the bytes of a stamp, the splitter, the parameter sets, the way of a stamp | proofs |
| `SeiGateway` | streamer threads, queue, broadcast, ticker, handlers | state machine |
| `SeiGatewayProofs` | | proofs |
| `Director` | `director.html`: connection, decoders, queues, timeline, `present` | state machine |
| `DirectorProofs` | | proofs |
| `BytePipe` | what one direction of a relayed connection promises: a byte stream, cut at its end | abstract specification |
| `RtspRelay` | one connection of `rtsp_relay.py` | state machine, refines two `BytePipe`s |
| `RtspRelayProofs` | | proofs |
| `FfmpegBind` | `ffb_load` of `ffmpeg-bind.c` | state machine |
| `FfmpegBindProofs` | | proofs |
| `AlignStreams` | `pair_report` of `align_streams.py` | state machine |
| `AlignStreamsProofs` | | proofs |
| `MC...` | values for the model checker | |

No module uses a RECURSIVE operator, so a theorem can be added to any of them.
A definition whose comment begins with "Mutant" is a plausible mistake in the
definition after it. It is part of no specification; it serves to show that a
property can be violated by a change of the code.

### RealtimeClock

`wpc` is the place of `rtc_worker`: `check` (the loop condition), `sleep` (the
wait on the stop event, 200 ms each, counted by `wakes` instead of by the clock),
`lock`, the exchange (`resolve`, `socket`, `send`, `recv`, `close`), `score`
(keep the best sample, go on or stop), then `publish` and `flag` (two
assignments) or `fail`, and `unlock`. `lock` is the mutex. A caller of a getter
is `idle`, `wait`ing for the mutex or `inside`. `Create`, `Destroy` (raises stop)
and `JoinAndFree` are the owner's; OBS never destroys a clock that another of its
threads is using, so `Destroy` requires all callers to be idle. An exchange can
fail at each of its points, and `Close` frees the address list and the socket.
`Measure` computes offset and rtt from the four times exactly as the code does;
`out` in a sample and the variables `round`, `stamp` and `saw` are history: `stamp` is what
the last `now_us` of a caller added to the local time, `saw` what `ntp_synced` told it.
Packet layout, NTP eras and the value of the wall clock are abstracted to `Skew`.

The two getters read different fields, which the worker writes one after the other;
that flag and offset belong together is therefore a property (`SyncedStaysCorrected`)
and no part of the model. In `ClockService` publication is one step. In the code it is two assignments
under the mutex; the refinement maps the state between them to "already
published", which is sound because the offset is new from then on and no getter
runs inside a synchronisation.

### PtsRing and StampEncoder

`PtsRing` is the array with `head` and `len`; `RingInit` and `NewRing` let the array
contain anything, because the code allocates it uncleared. `StampEncoder` goes
through create step by step: `request` is what the settings say (a default chosen by
`stamp_defaults_common`, or a saved name, perhaps empty or unknown) and which
encoders this FFmpeg has; `ChooseCodec` and `FindEncoder` look the name up, the
three `OpenStep`s are what FFmpeg may refuse, `FinishCreate` the rest, which cannot
fail. `resources` says what was acquired; each failure runs `DestroyData`, which
gives back exactly what it passes to the function of the resource's own allocator
(`Allocator`, `Freer`: OBS, C library, FFmpeg, clock). Then through encode: check the frame, read the clock, `put_entry`,
send the frame, receive a packet, read the flag, `take_entry`, fall back to now,
build the SEI, make room and assemble. Between any two of these steps the clock
may synchronise (`ClockPublishes`). The codec is external: it accepts or refuses
a frame, holds up to `Depth` and returns any of them, of any size, as a keyframe
or not. OBS is external: it creates, encodes frames with increasing pts, and
destroys between two calls; it may call encode again after a failure. A submit
time is abstracted to the frame it was taken for and to whether the clock added an offset
(every offset a synchronisation may measure is 1 here, and 0 is none), which is what the
properties tell apart. `Total` is the size that encode computes before it copies, by which
the buffer grows and which OBS is told; `Pieces` are the four copies under their own
conditions, wherever the packet is cut for the SEI, and `written` is where the last of them
ended. `inline_headers_size` and the headers themselves are kept apart. `request` keeps what
the settings asked for, `codec_name` is what create makes of it.

### SeiPayload, H26xUtil, AuSplitter

Bytes are kept here, since stuffing, start codes and lengths are properties of
bytes. The widths of the UUID (16 in the code), of `frame_seq` (4) and of the
times (8) are constants so that small instances exist; no operator depends on
their values. `AuSplitter` takes a video (codec, extradata, frames: what the codec put
before the slices, and the slices), assembles its packets as the encoder does, and lets
`split_aus` read them in chunks of any of the given sizes: `Yield` and `Flush`
are the inner loop, `Read` the outer one, `EndOfFile` the empty read. A loop of the code over
bytes is a recursive function of how many turns have been done; what one turn does is an
operator of its own (`EscapeByte`, `UnescapeByte`, `SizedUnit`, `UnitArray`). The gateway closes an access unit
behind every slice, so that a picture of two slices becomes two units: `UnitsOf`
says how a packet is cut, and `StampsKept` that exactly the first unit of a
picture carries its stamp, with its keyframe flag and its parameter sets, and how many
units without a stamp follow it. What the code relies on in a codec's output is written down
as predicates of a video: `CodecMakes` (a packet is NAL units, none of them ending in a zero
byte; before the slices only parameter sets, AUDs and SEI, none of which is a stamp
(`OtherSei`); a slice is one NAL; in H.264 a packet flagged as a keyframe is IDR slices) and
`SetsWhereDue` (the extradata has SPS and PPS, and a packet has both by itself only where the
encoder puts them too). They restrict nothing in the specification: they are hypotheses of
theorems, and `MadeAsAssumed` has TLC check that every video of the run satisfies them, and
the theorems' other hypotheses `Fits` and `PlainSize` (section 6) with them. RTMP,
MediaMTX, RTSP and ffmpeg lie between encoder and gateway and are external: they
are taken to keep the NAL units and their order. The gateway handles H.264 only,
as does `Read`; the properties of packets cover both codecs.

### SeiGateway

`spc` is the place of a streamer thread (`down`, `read`, `cache` between the send
of a cfg and its caching, `frame` the rest of that access unit, `dead` when ffmpeg
could not be started, which raises outside the `try`) and `feed` the
state of its ffmpeg. `outq` is the queue: `_send` hands over with
`run_coroutine_threadsafe`, which preserves the order of one thread. A task runs
without interruption until it awaits something that has to wait; so `Take` takes
a message and its snapshot of clients, `SendTo` sends to one client in any order
(the snapshot is of a set) and either returns at once or leaves the broadcast
waiting in `sending`, and the removal of the dead belongs to the last send.
`wire` counts the messages in a connection's write buffer; a send waits while it
holds more than `High`. A handler iterates the live dict by `hpos`; if the dict
grew since, the iteration raises, the exception is swallowed and the rest is
skipped (`ResendAt`). `last` and `conf` record what a connection was sent of
the stream `Watched`.

### Director

One action for each callback of the page: `Open`, `Close` (`onclose`), `Cfg`, the
five ways `onmessage` can treat an access unit (`DropDelta`, `DropForWantOfCfg`,
`ConfigureFails`, and `Decode` with a chunk that is taken or refused),
`DecoderError`, `OnDecoded` and `Present`, which is a whole animation frame for all
streams. `decoder` is `none`, `empty` (configured, no keyframe yet) or `running`,
with the frames it holds in `pending`; that is what WebCodecs, which is external,
lets a page see. Of an access unit only its stamp and its keyframe flag matter;
the four guards against malformed messages are left out, since the gateway sends
none. A stamp may be any, whatever the stamps before it: a clock that synchronises steps
its stream back or forth, and a decoder outputs in an order of its own. `paintAt` is the frame on
the canvas, which survives a reconnection, unlike `lastPaintedRt`; `Open` comes after the
1.5 s that the page waits, longer than a frame is held. `keyLost` and `late` are history:
`late` has the frames that were decoded after a later one had been painted, since the queue was last drained. A connection may deliver a cfg before, after or without
the keyframe that needs it, which a `SeiGateway` connection really may: a cfg is
resent by a handler while the broadcast sends access units.

### RtspRelay

One connection. `hpc` is the place of `handle()` and `held` whether `main()`'s
variable still refers to the client's socket, which nobody closes when the server
cannot be reached; `pc[d]` is the place of `_bridge` for each direction: `recv`, `send`,
`shut` (the `finally`), `done`. A socket is what TCP makes of it: bytes from the peer
(`inb`), bytes for the peer (`out`), the end of either stream (`fin`, `shut`), and
`broken`. Bytes are counted and not told apart, since `recv` and `sendall` keep their
order. `Receive` takes any part of what is there; `Send` is one byte of `sendall`, which
waits for room; `TimesOut` exists for the server's socket only, on which
`create_connection(timeout=10)` leaves its timeout; every `OSError` ends the loop and
drops what is in hand. Peers and network are external: a peer writes, reads, ends its
stream, closes, breaks, or does nothing. `BytePipe` has the bytes under way as
one number; the refinement adds what is in the two sockets and in hand, or only the last
buffer once the direction is cut.

### FfmpegBind

`ffb_load` step by step: `pc` is `open`, `bind` (`slot` is the next function), `version`,
`next_major` (the label), or `idle` between two calls. A library is named by its major and
an address abstracted to its library. The environment says what is installed, exported
and reported; OBS maps more libraries at any moment. POSIX `dlopen` also finds libraries
that are not mapped, and its handles are closed by `NextMajor`; Windows looks only among the
mapped ones and may hand out another major. The code has no lock and no thread of its own
calls it, so there is one caller, which calls again and again.

### AlignStreams

`pair_report` loop by loop: `SkipOlder` is the first inner `while`, `Scan` one turn of the
second, with its early stop, `EndScan` its condition, `Pair` the end of the outer loop.
The captures are any two members of `Captures`, which are sorted because `parse_stream`
sorts what it returns. `sorted`, from which the report takes its median, is any ordered
rearrangement of the measured differences: which one does not matter. A pair is kept with the number of its frame of b in place of the
frame's stamp. `Report` has the number of pairs and the median; MAD, the trimmed range and
the drift are not compared with anything.

## 3. The runs

Each run checks properties of one module; `PROJECT.json` has for every property
of a passing run a mutant that violates it.

| run | properties | bounds |
|---|---|---|
| `clock` | `MutualExclusion`, `NoUseAfterFree`, `NothingLeaks`, `BestOfRound`, `SyncedStaysCorrected`, `DestroyReturns`, `GettersReturn`, `KeepsSynchronising`, `ImplementsService` | one caller, two samples a round, a period of two wake-ups, counters modulo 2 |
| `encoder` | `StampOfOwnFrame`, `UnmarkedIsLocal`, `AssemblyFits`, `NothingLeft`, `SeqCountsPackets`, `DefaultsStart`, `RingIsQueue` | four frames, a codec that holds three, a ring of two, two candidate codecs |
| `pipeline` | `NothingLost`, `StampsKept`, `HeadersExact`, `NoEmulation`, `ReadersAgree`, `SeiBeforeSlice` | two frames of one slice or two; 976 videos; reads of 1, 5 and 64 bytes; a cap of 70 |
| `gateway` | `RegistryTracks`, `NoGap` | one stream, two connections, serials modulo 3, a queue of one |
| `gateway_alive` | `BroadcastReturns` | two streams, one connection |
| `director` | `TypeOK`, `FastIsCovered`, `KeyframeFirst`, `NeverBack`, `SlowestLeads`, `FrameLock` | two interchangeable streams, three stamps in any order, queues of three, timelines of four |
| `relay` | `EofIsTrue`, `Transparent`, `TearsDown` | two bytes each way, two bytes of room for `recv`, one for a peer |
| `ffmpeg_bind` | `LoadedIsWhole`, `NothingDangles`, `FailureLeavesNothing`, `RetrySucceeds` | two majors, two functions, both platforms, every environment |
| `align` | `NearestPaired`, `SmallShiftMeasured` | every two sorted captures of up to four frames over six stamps, at least three pairs for a report |
| `clock_rtt`, `encoder_marked`, `gateway_late` | one violated statement each, see section 5 | as above |

The type invariants of `RealtimeClock`, `StampEncoder`, `SeiGateway`, `RtspRelay`,
`FfmpegBind` and `AlignStreams`, and
`FfmpegBind!StaysLoaded`, are proved (section 6) and in no run of their own.

**Why the bounds are enough to be interesting.**
*clock*: two samples are the least that can compete for the best and the least
for which stopping early differs from going on; the processor may be lost for 25
or 40 ms between the reads of the clock, so that measured rtts lie on both sides
of the 20 ms limit (with the two reads adjacent they are 0, see finding 2). One
caller meets every point of the worker; the proofs cover any number of callers.
*encoder*: a codec deeper than the ring makes entries drop while their frames are
pending, and the head wraps; the sequence number wraps; the output buffer must grow;
a second encoder is created after the first; the FFmpeg of the build has both, one
or none of the two candidates. The ring for any capacity and any content is a matter
of proof. *pipeline*: fields range over values whose bytes are
all zeros, contain 0 0 3, 0 2 3 or 1 0 0, or are negative; packets come bare, with
an AUD and with a foreign SEI that both readers must pass over; the reads end in
every position of a start code (chunks of one) or between (5), and only the
longest access unit exceeds the cap, so that it is flushed in the middle.
Pictures of two slices come as keyframes and as others, with different stamps.
`CHECK_DEADLOCK FALSE`: the stream ends. *gateway*: two connections are the least
for which one can fail, stall or leave during a broadcast to another, and names
of connections are used again. Three serials tell a repeated message from a
skipped one. Growth of the dict during a resend needs two streams: the run
`gateway_alive`. *director*: stamps step back and forth, so that frames come in front of
what waits and behind what was painted; one stream may join with older frames than those
the other shows, so that the presentation point goes back; queues overflow; double speed
begins, ends by its budget and ends for want of frames; keyframes are lost for want of a cfg.
The constraint `Configured` leaves out that one stream has frames while the other has no cfg or
has lost a keyframe, and that both decoders hold a frame: to the queues, the first is
a stream that has not begun yet, and of the second they see only in which order the frames come.
The view `Relevant` drops `firstRt` once the timeline has begun, as nothing reads it
again before it is reset. The streams are treated alike, so the run may take them as
symmetric; it checks safety only. *relay*: two bytes are the least of which one may be
in hand while the other is in a socket; `recv` returns one or both; `sendall` of two has
to wait for room, and may be interrupted between them by a timeout or an error.
`CHECK_DEADLOCK FALSE`: the connection ends. *ffmpeg_bind*: with two majors one may be
bound in part and given up before the other is bound, or a lower one report too little;
two functions are the least for a partial table. `CHECK_DEADLOCK FALSE`: once the table is
bound, further calls change nothing. *align*: frames may have equal stamps, lie in the window
or out of it, and be skipped for one frame and not for the next; the scan stops early and
at its end; a capture against itself one unit
later, at intervals of three, is the shift that `SmallShiftMeasured` needs.
`CHECK_DEADLOCK FALSE`: the report is the end.

Named bounds that the code does not have: `QueueBound` (the gateway's queue is
unlimited; a streamer waits instead of queueing more), `Serials`, `CountMod` and
`SeqMod` (counters, taken modulo), `Frames`, `Items` (bytes a peer of the relay writes), and `Director`'s `MaxRt`,
`MaxConsumed`, `MaxPending`; the constraint `Configured` of the run `director`.

## 4. Fairness

`RealtimeClock!Fairness`: weak for the worker's steps, since every wait of it is
bounded (the sleep has a timeout of 200 ms, the receive one of 1.2 s at
`realtime-clock.c:187-194`, name resolution gives up); strong for taking the
mutex, by worker and getter alike, because the mutex is released again and again
and a pthread mutex does not starve a waiter for ever; weak for the join and for a
getter inside. Nothing is assumed about create, destroy and new calls.

`SeiGateway!Fairness`: weak for each streamer thread and for the broadcast task (threads and
loop are scheduled); weak for a peer, which reads or is given up: the websockets
package pings every 20 s and closes a connection that does not answer. Without
the last assumption a silent peer stops the broadcast for everybody, since
`broadcast` awaits each send without a timeout. No fairness is assumed for
`Resume`: nothing in the code makes a stalled ffmpeg go on.

`RtspRelay!Fairness`: weak for `handle()` and for the two bridges (threads are scheduled,
and the timeout fires); weak for the client, which is ffmpeg: it reads what it is sent
and closes when it is told the end. Nothing is asked of the server, which may fall
silent for ever: that `TearsDown` holds rests on the timeout that also causes finding 5.

`FfmpegBind!FairSpec`: weak for the steps of `ffb_load`, with a caller that keeps asking
(`ffb_ok` and `ffb_supported` load when nothing is bound). Nothing is assumed of OBS.

## 5. Disagreements found

1. `clock`: `realtime_clock_now_us` "Never blocks" (`realtime-clock.h:48`), but waits
   for the mutex the worker holds over the network (`.c:319`, `.c:382`).
   `GettersReturn` is what can be said: the wait ends.
2. `clock_rtt`: t4 is read before the reply is awaited (`.c:218`), so the "rtt" is
   the time to send and not a round trip, the first sample is practically always
   accepted, and the offset is off by half the difference between the true trip
   and the request.
3. `encoder_marked`: a frame submitted before the first synchronisation and
   output after it is marked `CLOCK_NTP` over an uncorrected stamp (`:589`). The
   converse never happens: `UnmarkedIsLocal`.
4. `gateway_late`: a client that connects between the broadcast of a cfg and its
   caching gets no cfg until ffmpeg is restarted.
5. `relay`: the timeout of the connect stays on the server's socket
   (`rtsp_relay.py:49`), so that ten quiet seconds end the direction, and the client is
   told an end of stream the server never sent. `EofIsTrue` needs the exception `quiet`.
6. `align`: "'median' > 0 means B's stamps run later" (`align_streams.py:262`), but
   each frame of B is compared with the nearest frame of A: with regular frames the median
   never exceeds half an interval, and is 0 for an offset of a whole one. The criterion of
   `TEST_PLAN.zh-CN.md:118`, a median of at most half a frame, can hardly fail.
   `SmallShiftMeasured` says what the median does measure, and needs its condition.
7. `director`: "WebCodecs must start from a keyframe: drop delta frames until one
   arrives" (`director.html:198`), but a keyframe dropped for want of a cfg ends the waiting
   too (`:199`, `:201`), so that a decoder may start with delta chunks. `KeyframeFirst`
   says that this is the only case, and needs it as an exception (`keyLost`).

More were met that no run shows, because they are outside the models, or are stated
inside a property that holds.

- "Respawn ffmpeg if it exits or stalls" (`sei_gateway.py:209`): the loop over `split_aus`
  blocks in `read` without a timeout and nothing watches the process, so only an exit or an
  exception leads to a respawn. In the model a stalled ffmpeg may stay so (`Stall`, `Resume`).
- "Resend each stream's cached cfg" (`sei_gateway.py:290`), but the loop iterates the live dict:
  a stream that is cached for the first time meanwhile ends it with an exception that is
  swallowed, and the names it had not reached are never sent to this client (`ResendAt`).
- `TEST_PLAN.zh-CN.md:99` and `:109` start the timeline when both streams have a frame, from
  the slower of them; the code starts it with the first frame of any (`:81`), so the
  maximum at `:83` is always over that one stream.
- `realtime-clock.h` promises a "single blocking initial sync" and that `ntp_synced` is
  true "when the last NTP exchange succeeded"; the worker does the first
  synchronisation like every other, and the flag stays up after a failure.
- The comment at `sei-timestamp-encoder.c:619-622` wants the output buffer never to
  move; `brealloc` right below (`:623-626`) may move it, as the comment admits.
- The preset, profile and tune of the settings page have no effect: `avcodec_open2` gets
  no options, and what `map_preset` finds is only logged.
- `_first_au_end` speaks of AUD and SPS as boundaries; only slices close an access unit.
- The relay turns a reset of one side into a clean end of stream for the other
  (`EofIsTrue`, second disjunct). A client whose server cannot be reached stays open until
  the next one is accepted (`rtsp_relay.py:70`): the exception in `TearsDown`.
- `ffmpeg-bind.c` is said to gate the FFmpeg major (`CMakeLists.txt:160`), but is not
  built. `g_load_attempted` is never read; `ffb_major` keeps a rejected major after a
  failure, and `ffb_error` says "ok" when all libraries are too old; on Windows the
  functions of avutil are looked up in avcodec, where a stock build has none; on POSIX an
  installed lower major is bound before the one OBS has mapped.

## 6. Proofs

All theorems hold for every value of the constants that satisfies the named
assumptions (`ClockAssumption`, `RingAssumption`, `EncoderAssumption`,
`CandidatesAssumption`, `RelayAssumption`, `BindAssumption`, `GatewayAssumption`,
`DirectorAssumption`, `AlignAssumption`, `PayloadAssumption`, `SplitterAssumption`,
`VideosAssumption`), which TLC evaluates in the runs.

`RealtimeClockProofs`. The checked invariants are not inductive: that a getter
excludes a synchronisation follows only if one knows who holds the mutex at each
program point; that freeing is safe, only if one knows where a worker may be at
each stage of the clock's life. The inductive invariant is

    IInv == TypeOK /\ LockInv /\ LifeInv /\ HoldInv /\ RoundInv /\ SawInv /\ ServerInv
            /\ OffsetInv

`LockInv` ties the holder to the program points, `LifeInv` the stage of life to
the worker and the callers, `HoldInv` address list and socket to the points of an
exchange, `RoundInv` the kept sample to the samples of the round, `SawInv` a
caller's knowledge to the flag, `ServerInv` the absence of a server to the absence
of a worker, `OffsetInv` the flag to an offset that an exchange has measured. There is one lemma for each group of actions; `StepIInv` combines
them. From `Spec => []IInv` follow `TypeCorrect`, `Exclusion`, `SafeFree`,
`ExchangesClean`, `LowestRttPublished`, `CorrectionLasts` (an action property,
from `SawInv`, `ServerInv` and `OffsetInv`) and `Refinement` (`Spec => ImplementsService`: each
step of the worker is a stutter or a `Publish`, each `ReadAndRelease` a query,
each `Create` a `Restart`).

`StampEncoderProofs`, the ring. `RingTypeCorrect`, and `RingImplementsQueue`: `RingSpec =>
RingIsQueue` for every capacity. The contents of the queue are the slots from the
head on. The arithmetic is in lemmas about `(head + i) % Cap` (a slot; injective
for i < Cap; a shift of the head shifts the index; the successor slot); on top of
them `PutRefines` and `TakeRefines` show that `put_entry` appends, after dropping
the oldest of a full ring, and that moving entries down removes exactly one.

`StampEncoderProofs`. The invariants are proved in layers, each from those before it:

- `Typed`: `TypeOK`, the types of the clock, and what a packet record contains at each
  program point. Gives `EncoderTypeCorrect`, and, as every step of the encoder is a step
  of the ring or leaves it alone, `EncoderKeepsQueue` from `RingImplementsQueue`.
- `Headed`: `inline_headers_size` is the size of the headers that are held, and 0 without
  any, from create to destroy. So the condition under which the headers are copied and the
  size that was added for them agree, and the four copies end at `Total`: `PacketsFit`.
- `NothingIsLeft`, which needs a few facts on resources besides.
- `Counted`: the sequence number is one behind the number of packets received exactly
  between `receive` and `take`. Gives `NumbersCount`.
- `Own`: the contents of the ring (as a queue) are in the order of their pts, each carries
  its own frame, and a frame that is pending in the codec is in the queue or `Old`, that
  is, at least `Cap` frames have been recorded after it. Gives `OwnStamps`. The lemmas under it
  say how distances of pts in the queue survive an append, a drop and a removal.
- `Sourced`: while the flag is down every stamp in the queue, the clock's answer and the
  packet in hand are local. Gives `UnmarkedStamps`, for every moment of a synchronisation.
- `Asked`: during a creation the name asked for is the default of this build unless the
  user saved one, and the name chosen is the one asked for or, if that was empty, the first
  candidate of this build. Gives `DefaultsLead`.

`RtspRelayProofs`. `Typed` adds to `TypeOK` that no bridge runs before the connect. `Over`:
a stream to a peer is ended only when the bridge toward it is done, or the connect failed.
`TrueOf(d)`, the invariant of one direction, is a balance: until the direction is cut, what
was read, what is in the last buffer, in hand and in the first buffer add up to what was
written; a bridge that ended undisturbed did so with the first two alone. From these
`RelayIsTransparent` (every step of the relay or a peer is a step of each `BytePipe` or a
stutter) and `RelayEndsTruly`.

`FfmpegBindProofs`. `IInv == TypeOK /\ Progress /\ LoadedIsWhole`, where `Progress` says
at each program point which functions are bound (`slot - 1` of them, from the library
behind `h`), that this library is held, and that nothing is held or bound otherwise. It gives
`BoundTableIsWhole`, `NoAddressDangles`, `FailureIsClean` and `BoundStaysBound`.

`SeiGatewayProofs`. `Typed == TypeOK /\ Cached /\ Wires /\ Unused`: a name in the cfg dict has
a cfg, a write buffer is overrun by one message unless the broadcast is waiting in it, and
a connection that never was has nothing. `Registry` adds to `RegistryTracks` that whoever the
broadcast found dead is closed. `Gapless`, which gives `NothingSkipped`, says that the
places of the queue and of the message being sent can be numbered without a gap, up to the
last serial the streamer gave out, and that a connection which was sent anything of the
stream was sent the message before the first of those that still await it.

`DirectorProofs`. `Keyed`: a page that neither waits for a keyframe nor has given one to its
decoder has dropped one; this gives `KeyframesFirst`. `Queued`, of each
stream, makes no assumption on the order of the stamps: the queue is sorted and within its cap,
what was painted is not newer than its newest frame, and a frame of the queue that is older than
what was painted is `late`. `onDecoded` inserts anywhere (`InsertedInOrder`), and neither the
insertion nor the cap makes the newest frame older, so that cushions only grow between two
animation frames; draining keeps the pick and everything behind it in the queue, and nothing late
(`DrainedQueued`), so the cushions of the next animation frame are those that were
tested, and what is picked later is not older than what was painted unless it came late. From
`Sound == Keyed /\ Stamps /\ Queues /\ Fed /\ Timeline` follow `DirectorTypeCorrect`,
`FastStaysCovered`, `NoStepBack`, `NothingFuture` and `LockStep`, for any number of streams
(the lemmas on `Min` and `Max` are for any set of integers with a bound).

`AuSplitterProofs` is about bytes: any UUID, any widths of the fields, any packets and
extradata, any size of the reads. The provers know nothing of a function that is defined
recursively, so the module first shows that it exists: `LoopExists` builds the unique function
that a loop computes turn by turn (`IsLoop`), from `Induction`, which rests on the order of the
natural numbers being well-founded and takes a set where the library's theorem takes a
predicate. What a loop computes is then one more `Induction` over its turns. Loops whose turn
depends on nothing but the state and the next byte are folds (`Folded`): a fold over
`Append(x, b)` is one more turn after a fold over x, which is how two loops are compared.

- *Nothing emulated* (`Spec_NoEmulation`). `Escaped(d, zeros)` says that what has been written
  contains nothing like a start code and how many zeros it ends in; every turn of `Escape` keeps
  it and writes at most two bytes, `SeiHeadEscaped` starts it and the final 128 ends it.
- *What is written is read*. `UnescapeOfEscape`: for all bytes, and whatever follows them,
  unescaping undoes escaping (`LockStep`: after each byte the reader has read exactly the
  bytes escaped so far, and has seen as many zeros as the writer; `EnoughIsEnough`: it stops
  where it should). `NumberOfBigEndian`: reading the bytes of a number behind what was shifted
  out of it gives the number, hence `UnsignedBack` and, two's complement, `SignedBack`. On these
  rest `ParseOfRawPayload`, and `StampReadable`: wherever a SEI stands in a stream of bytes
  (`Stands`), both parsers, with any bound behind it, return exactly what was put in.
  `Spec_StampsReadable` says so of every packet that the encoder assembles; it needs
  `EndsBehind`, that no NAL unit begins within the SEI, from `Spec_NoEmulation`'s lemmas. Two
  hypotheses are not assumptions of the model but of these theorems. `Fits`: the fields fit the
  types they have in the code. `PlainSize`: the size of the record is no multiple of 255, in the
  code 38; `build_nal` counts zeros from the NAL's beginning, the readers behind the size
  field, and only if the size does not end in a zero byte is this the same.
- *The splitter*. `SplitterInv` is the types of its variables and `NothingLost`, which is
  inductive together with them: what a read adds to the buffer is what it takes from the stream,
  and every cut gives back the two parts of the buffer (`CutInTwo`). Gives `Spec_NothingLost`.
  `Spec_CutsWhereDue`: an access unit ends where it would end if the whole of the rest of the
  stream had been there to look at; a start code that a read has cut in two is never missed nor
  taken for a shorter one, since what is seen in a part of a stream stays (`StartsStay`) and a
  boundary is only used once the code behind it is complete (`BoundaryFinal`). So how the reads
  fall cannot change where the units end, as long as none is flushed.

- *Parameter sets* (`Spec_HeadersExact`). What a codec may hand over is described from the
  writer's side: `Forms(G, units)` puts the forms of the sets one behind the other, `Avcc` and
  `Hvcc` are a head that counts and the sets with their lengths, and `WellFormed` says that the
  extradata is the sets in Annex-B form, or begins with such a blob, or is a proper part of one;
  it is the theorem's hypothesis, and true of every video of the run. `SizedRead` and
  `ArraysRead` are the two loops of the parsers against it, by `Induction` over the sets read
  so far. For a part of a blob, each loop has either failed or agrees with the loop over the
  whole, and has not gone beyond the part's end (`Agrees`, kept by every turn): at the end it
  would stand behind the whole blob, so it has failed, wherever the cut is (`AvccCut`,
  `HvccCut`). Lengths of up to 65535, up to 31 SPS and 255 PPS, arrays of 1 to 64 sets: what
  the fields can express and the code accepts.

- *Packets* (`Spec_ReadersAgree`, `Spec_SeiBeforeSlice`). When two sequences of bytes are put
  one behind the other, the start codes of the whole are those of the two (`StartsJoined`),
  provided that the first does not end in a zero and the second begins with a start code; that
  is what `CodecMakes` and `StampIsUnit` (the SEI itself is one such unit) give, and why they ask
  it. So the NAL units of a packet are known: `Laid` says what stands in front of the stamp and
  behind it, `PrefixIs` that the encoder's search for prefix NALs ends exactly between, and
  `Stamped` what follows for any reader: at one NAL it reads the record, at every other nothing
  (a SEI of the codec's own is passed over, whether it is too small or has another UUID,
  even if it is read with a bound beyond its end). `Spec_ReadersAgree` takes the first or the
  only one from this, `Spec_SeiBeforeSlice` the types on either side.
- *The way of a stamp* (`Spec_StampsKept`). `StampsKept` speaks of the end only and says nothing
  of the steps before it. The inductive invariant is `CutsInv`: the units yielded so far are the
  first so many of `AllCuts(video)`, which are computed from the video without any reading: of
  each frame its first slice with all that stands before it, then every other slice by itself;
  and at the end they are all. It is inductive together with `SplitterInv`, because the rest of
  the stream is the rest of these units (`RestIsAfter`), its first boundary is the end of the
  next of them (`CutIsUnit`: a unit has one slice, the last of its NALs, and the unit behind it
  begins with a start code), and the boundary that is found in the buffer is the boundary of the
  whole rest (`BoundaryFinal`, as above). At the end of the stream no boundary is left, so what
  is in the buffer is the last unit. Then `_analyze` is computed for the two kinds of units
  (`FirstUnitSent`, `LaterUnitSent`) and put together over slices and frames (`FrameSent`,
  `FormsOfFlat`). Besides `PlainSize` and `Fits`, the hypotheses are those on the codec:
  `WellFormed`, `CodecMakes` and, for H.264, `SetsWhereDue`. `StampsKept` itself excepts a stream
  of which an oversized run was flushed.

`AlignStreamsProofs`. `IInv == Typed /\ Behind /\ Scanned /\ NearestPaired`: what was skipped is
too old for this frame and, b being sorted, for all later ones (`Behind`); the best so far
is the least among all frames before the one in turn, skipped ones included (`Scanned`). The
early stop is sound because the distance can only have grown past the frame itself. It
gives `SweepFindsNearest`. `Spec_SmallShiftMeasured`, that a capture measured against itself, shifted
by less than half of what lies between its frames, reports that shift: the nearest frame is the
frame's own (`PartnerIsNearest`), so every pair measures the shift (`PairsMeasure`) and so does
the median of any rearrangement of them (`SortedConstant`).

**Only model-checked**: liveness (`DestroyReturns`, `GettersReturn`, `KeepsSynchronising`,
`BroadcastReturns`, `TearsDown`, `RetrySucceeds`), which the proof system does not
reach. Every other property of a passing run is proved.

## 7. Plan

The modules were written in the order of the table in section 2: the clock and the ring, the
encoder that uses both, the bytes, the gateway, the page, then the relay, the binding and
the alignment. What could be added, in this order:

- a composition of `SeiGateway` and `Director`: the page takes any order of cfgs and access
  units, which includes what the gateway sends, so it would only narrow `KeyframeFirst` to the
  orders that one connection really produces;
- H.265 in the gateway, if it is ever supported;
- two connections of the relay, if they come to share anything.

## 8. Not modelled

- The content of an SNTP packet, acceptance of any reply whatever its origin
  timestamp or stratum, and the NTP era that ends in 2036 (a hazard without a
  property): absolute dates and packets are abstracted away.
- What OBS does with a packet after encode returns (the output buffer is reused), and draining of the codec,
  which the code never does: external.
- The settings page and the property lists of the encoder, `stamp_encoder_update` and
  `get_extra_data`, and registration (`sei-timestamp-plugin.c`): tables and copies without
  behaviour. `map_preset` decides only what is logged.
- Allocation failures except those the code handles by failing create or encode.
- Codec names other than by whether this build has them; FFmpeg, OBS, the browser, TCP and
  the websockets package otherwise than as the code uses them.
- Several connections of the relay at once: they share nothing but `main()`'s variable,
  which `held` stands for.
- Other callers of `ffb_load` on other threads: there are none, and the file is not built.
- `dump_nal.py`, `serve_nocache.py`, `test-clock.html` are pure input and output; the report
  of `verify_sei.py` and the statistics of `align_streams.py` are floating point.
- Frames that the page drops without `close` on reconnection (`director.html:177`): how many
  a browser tolerates is its own.
- `tests/test_sei.c` tests the pure helpers in sequence; it was read for what they
  promise.

## 9. Running

    tlc -workers 2 -config MCRealtimeClock.cfg MCRealtimeClock
    tlapm RealtimeClockProofs.tla

and likewise for the other pairs that `PROJECT.json` lists. The longest runs take
about three minutes, the proofs of `AuSplitterProofs` from nothing about eleven.
