# AirplayServer: specification, model checking and proofs

AirplayServer is an AirPlay receiver: an RTSP/HTTP server (C, `src/lib`) that a
phone or a computer connects to, which then sends audio by RTP over UDP and
its screen as H.264 over TCP. An Android application shows both. This
directory holds TLA+ modules of the parts where order, concurrency, failure and
byte-level bookkeeping decide whether the program is right, the TLC
configurations that check them, and TLAPS proofs of the most important results
for every value of the constants.

All line numbers refer to the sources in `src/`.

## 1. The system

```
 sender ──TCP── httpd thread ── http_parser.c, http_request.c ──┐
   │              (httpd.c)  ◄── http_response.c ── plist.c ◄── RTSP handlers (raop.c, raop_handlers.h)
   │                                                            │ start / stop / post / flush
   │                                                            ▼
   ├──UDP── audio thread (raop_rtp.c) ── jitter buffer (raop_buffer.c, crypto/aes.c) ── PCM ─┐
   └──TCP── mirror thread ─┐                                                                 │
    └─UDP── clock thread  ─┴ raop_rtp_mirror.c ── mirror_buffer.c (aes.c) ── H.264 ──────────┤
                                                                                             ▼
 raop_server.c, dnssd.c (start, stop, announce) ── JNI ── RaopServer.java, player/ (render thread)
```

| Component | State | Operations | How it interacts | Hard parts | Correct means |
|---|---|---|---|---|---|
| audio jitter buffer, `raop_buffer.c` | ring of 512 entries, `first_seqnum`, `last_seqnum`, `is_empty` | queue, dequeue, handle_resends, flush | called by the audio thread only, and by stop once that thread is joined | 16-bit wrap-around, slots shared by numbers 512 apart, late, repeated and lost packets | plays each packet at most once, in order, never a packet of an earlier lap |
| audio session, `raop_rtp.c` | `running`, `joined`, mailboxes (volume, metadata, cover art, remote control, progress, flush) under `run_mutex`; sockets; the UDP thread | start_audio, set_*, flush, stop; the thread's loop | posts from the httpd thread, callbacks to the player | values exchanged without holding the lock while they are used; stop and restart; flushes left over; failing calls | nothing posted is lost, nothing of an earlier session is played, stop returns |
| HTTP server, `httpd.c` | connection table, `open_connections`, server socket | start, stop; accept, serve, remove | conn_init, conn_request, conn_destroy of `raop.c` | slot reuse, full table, clients that leave inside a request or do not read their responses, stop at any time | exact count, handlers allocated and freed one for one, stop leaves nothing; a slow client holds nobody up for ever unless it never reads |
| HTTP requests and responses, `http_parser.c`, `http_request.c`, `http_response.c` | the parser's state, flags and lengths, marks, the request put together, the response's allocation | execute on the bytes of one recv, the callbacks, add_header, add_data | httpd thread; the finished request goes to a handler | requests cut at any byte, chunks, upgrades, errors, buffers that double | a request is what the client sent, whatever the cuts; what a handler adds is written inside the allocation |
| mirror session, `raop_rtp_mirror.c` | `running`, `joined`, two sockets, a stream, `readstart`; two threads | start, stop, destroy; the two loops | started and destroyed by the httpd thread | two joins in order, a condition signal that can be lost, reconnecting senders, partial reads, loops that end only with what was sent | no socket closed under a thread, stop returns, headers read from their beginning |
| mirror decryption, `mirror_buffer.c` | AES-CTR state, `og`, `nextDecryptCount` | init_aes, decrypt | called by the mirror thread per payload | payloads that end inside a cipher block | every byte is decrypted with its own keystream byte |
| AES, `aes.c`, `crypto/aes.c`, `aes_ctr.c` | contexts: round keys, iv, counter | CTR of the video; CBC of the audio; CTR of the signatures | mirror_buffer, raop_buffer, pairing | two implementations of one cipher; counters that carry | what was sent is read |
| RTSP handlers, `raop.c`, `raop_handlers.h` | per connection: the two sessions; per server: pairing session, FairPlay keys | one handler per method | run on the httpd thread | order of requests, SETUP repeated, TEARDOWN or disconnect at any time, stop racing a handler | no session used after destroy; keys of this client only |
| pairing, `pairing.c` | `status`, keys | setup, handshake, finish | handlers | steps out of order | keys of this client's handshake |
| FairPlay, `fairplay_playfair.c` | the 164-byte key message | setup, handshake, decrypt | handlers | decrypt before handshake | keys of this handshake |
| server object, `raop_server.c`, `dnssd.c` | `running`, service handles | start, stop, destroy | JNI | one step of start fails, the httpd thread is not stopped first | what was started is stopped, once |
| property lists, `plist.c`, `bplist.c`, `xplist.c`, `base64.c`, `time64.c`, `bytearray.c`, `node.c`, `node_list.c`, `hashtable.c` | trees of linked nodes; dictionaries with a table from a size on; the XML parser's open tags and waiting key | the API, the readers and writers of binary files and of XML | handlers read requests and write answers with it, as binary files | each call keeps list and table in step; widths of references and numbers; room in the output buffer; texts cut into parts, entities, CDATA | the tree is what the calls say; a file read back is the tree written |
| Android player, `RaopServer.java`, `player/` | packet lists, work loop, codec, audio track | addPacker, doSomeWork, start, reset, stop | JNI callbacks on the C threads, render thread, user-interface thread | check-then-act on lists, messages that outlive stop, buffers of the codec | no exception of a list, a track or a sound codec without a start or stop beside it; buffers in one place; video follows audio |
| Android clock helpers, `AudioTimestampPoller.java`, `AudioTrackPositionTracker.java` | poller's state, wrap counts, smoothed offsets | getCurrentPositionUs | asked by the renderer each round | 32-bit head counter, timestamps of the device that are old or wrong | the clock stays near the audio |
| user interface, utilities, vendored libraries | none of interest | | | | |

`PROJECT.json` lists the same components with what is modelled of each, and
under `hazards` each place in this code that is hard to test, at its line, with
the properties that cover it or the reason why none does.

## 2. The modules

| Module | What it is |
|---|---|
| `Seqnum`, `RaopBuffer` | the jitter buffer: sequence-number arithmetic; one action per outcome of each function |
| `PlayoutWindow` | abstract specification: what a jitter buffer promises, without ring, slots or stored numbers |
| `RaopRtp` | an audio session: the UDP thread and the control thread, with an instance of `RaopBuffer` |
| `ServerThread` | abstract specification: what `httpd.h` promises the owner of the callbacks `conn_init` and `conn_destroy` |
| `Httpd` | the server thread, the thread that starts and stops it, and the clients |
| `HttpRequest`, `HttpParser`, `HttpResponse`, `HttpExchange` | a request collected from callbacks; the parser, byte by byte; a response's allocation; one client's connection composed of the three |
| `MirrorBuffer` | the carry-over of keystream between payloads |
| `Bytes`, `TinyAes`, `Aes`, `Ciphers` | byte arithmetic; the two AES implementations; video, audio and signatures over them, extending `MirrorBuffer` |
| `RaopRtpMirror` | a mirror session: mirror thread, clock thread, control thread, sender |
| `Raop`, `RaopServer` | connection, handlers, sessions' lives, pairing and keys; with them the server object, the DNS services and the thread that starts and stops them |
| `PlistNodes`, `Bplist`, `XplistData`, `Xplist`, `Plist` | linked nodes in a heap; the binary format; numbers, dates, base64 and entities as text; the XML writer and parser; the API with the hash tables |
| `PlistTree` | abstract specification: property lists as values |
| `Player` | the Android receiver: interface thread, callbacks, render thread, codec |
| `AudioTimestampPoller`, `AudioTrackPositionTracker`, `AvClock` | the clock helpers as records with operators; frames shown, dropped or kept by that clock |
| `MC*` | instances for TLC |
| `RaopBufferProofs`, `RaopRtpProofs`, `RaopRtpMirrorProofs`, `HttpdProofs`, `HttpExchangeProofs`, `RaopServerProofs`, `PlayerProofs`, `HelperProofs` | theorems and proofs, each about the module it is named after; `RaopRtpMirrorProofs` also about `MirrorBuffer`, `HelperProofs` about `AvClock` and `PlistNodes` |

An operator whose comment begins "A broken form" is the one below it with a
plausible mistake; no specification uses it. They show that a property fails
when the code is wrong in that way (`mutants` in `PROJECT.json`).

### Jitter buffer (`Seqnum`, `RaopBuffer`, `PlayoutWindow`)

Variables are the fields of `raop_buffer_s`, plus the result of the last call
(`ret`, `played`, `request`). An entry with `available = 0` is `Vacant`: none of
its other fields is read before it is written. Decryption and AAC decoding are
reduced to the flag `decoded`, and a packet's contents to its timestamp.
`raop_buffer_queue` is `QueueNoPacket` (wrong length, keep-alive payload),
`QueueIgnored` (late or held), `QueueStored` and `QueueOutOfMemory` (the malloc
at line 273 fails, which `RaopRtp` uses); `raop_buffer_dequeue` is
`DequeueNothing` and `DequeueHead`; `raop_buffer_handle_resends` is
`HandleResends`; `raop_buffer_flush` is `FlushTo` (a number) and `FlushAll`
(anything outside 0..0xffff).

`PlayoutWindow` is a window of positions that slides over the stream: a packet is
kept once at its place, the head is played at its turn, as silence when its
packet is missing. `ImplementsWindow` maps the ring to it: position k of the
window is the slot of `first_seqnum + k`.

### Audio session (`RaopRtp`)

`thread` is the UDP thread's place in its loop: `events` and `callbacks` are the
two halves of `raop_rtp_process_events`, with and without the lock; `select`;
`control` and `data` handle the two sockets; `drain` is the dequeue loop;
`resends` the resend scan. `control` is the place of the httpd thread inside
`raop_rtp_stop`. The mailboxes that work alike (volume, metadata, cover art,
remote control, progress) are one function, `mail`; the flush has a variable of
its own. The session number is used as the timestamp of the packets it receives,
so that "played by the wrong session" can be said. `posted` and `session` are
history variables. `no_resend` is chosen at each start: the handlers of this
program pass a control port of 0 (`raop_handlers.h:273,390`) and so ask for no
resends; the other branch would run as soon as a port is passed. A failing
assertion is the state `aborted`; the sync packets' times and the pts arithmetic
are left out.

### HTTP server (`Httpd`) and one connection (`HttpExchange`)

`connected`, `user_data`, `request` are the fields of `connections[i]`; `live` is
the set of handlers that `conn_init` has allocated and `conn_destroy` not yet
freed. A pass of the loop is `CheckRunning`, one of the outcomes of `select`,
at most one accept, and one step per readable connection in the order of the
table: `Disconnect`, `RequestIncomplete`, `RequestUnanswered` (no CSeq, no response),
`RequestAnswered`. The response is written by a loop of blocking calls of `send`
(`httpd.c:316-324`): `RequestAnswered` brings the thread to `send`, where it stays as long as the
client takes no more (`blocked`, which `ClientReads` ends), and leaves by `SendEnds`. `CloseConnection` and `CloseServer` are the exit path. Only the IPv4 socket exists (line 389). `recv`
failing gives the parser -1 bytes; besides the outcomes the other actions already
have, the process may end (`RecvFails`).

The connections of `raop.c` know of all this only the callbacks of `httpd.h`.
`ServerThread` states what these promise: the phase of the thread (off, on, stopping,
exited) and the handlers there are, made and taken one by one, at most `Limit` at a
time, only while the thread runs; none is left when it ends, and a server is off again
only when its thread was joined. `Httpd` implements it with `Phase` and `live`
(`Callbacks`); `RaopServer`, which has a single connection and no table, is an
instance of it with `Limit` 1. So what `RaopServer` takes `httpd` to do is what `Httpd`
does.

What decides between those outcomes is `HttpExchange`: the bytes of a message
are parsed one at a time by `HttpParser`, an action per state (or group of states
that do the same) of `http_parser_execute`. `EndOfData` may come after any byte,
so that a recv may end anywhere; an element under a mark is then handed to its
callback as far as it has come. The parser's lookup tables are sets of
characters; methods are recognised by a first guess and its corrections, as in
the code. Letters of names go through the table of tokens, those of values through `LOWER`,
which sets a bit and so makes other characters of some that are no letters. `ULLONG_MAX`
is small, so that a length can overflow. A response is the
number of bytes written and of those that went past the allocation (`HttpResponse`);
its pieces are lengths, and an empty piece, on which line 40 asserts, is `refused`.
`Responses` are the headers `conn_request` and the handlers add, the client's `CSeq` with any
length of `CSeqLengths` and any body of `BodySizes`; at most two `Content-Type`s come from one SETUP
(one per stream the sender asks for) or GET_PARAMETER.

### Mirror decryption and AES (`MirrorBuffer`, `Ciphers`)

In `MirrorBuffer` a byte is its position in the keystream: `sent` is the sender's
position, `generated` how far `aes_ctx` has gone, `og` and `nextDecryptCount` the
block kept; `output[i] = payloadStart + i` says that byte i was decrypted with
the keystream byte it was encrypted with. `Ciphers` extends it with the bytes
themselves, so one step does both. `TinyAes` is `lib/aes.c` (columns of bytes,
Cipher, CTR with the carry of its counter), `Aes` is `lib/crypto/aes.c` (words,
encryption and decryption, CBC) with `aes_ctr.c`; both have the tables of the
sources. The sender is external and encrypts with the *other* implementation, so
the runs compare the two; an `ASSUME` checks both on the example of FIPS 197.

### Mirror session (`RaopRtpMirror`)

`mirror` and `time` are the places of the two threads, `control` that of
`raop_rtp_mirror_stop`. A byte of `packet[]` is the number of the stream it came
from, so that `prefix` tells whether a header is made of two streams. Only the
first four bytes of a packet are read with a look at `running` between the reads;
the loops around `recv` for the header's rest and the payload are one step each,
taken when the sender has sent it all. The sender may fall silent, go on or leave at any moment,
amid a packet too. When its stream ends inside one of these loops, or a decrypted payload
has a NAL unit whose length is not positive (`raop_rtp_mirror.c:388-400`), the thread is at `spin`
for good (`EndsInPacket`, `NalLengthNotPositive`); `cut` are the streams that ended amid
a prefix. The wait of the clock thread (3 s or a
signal) may end at any time; a signal is lost unless it waits.

### Server and handlers (`Raop`, `RaopServer`)

A handler is two steps: its request arrives (`req`), it does its work. In between
`raop_stop`, which takes no lock, can free what it is about to use; such a use sets
`misuse`. Sessions are numbered; `rtp` and `mirror` are the connection's pointers,
`audio` and `video` the states of the objects, `abandoned` the sessions a second
SETUP without streams has overwritten (`raop_handlers.h:339`). `status`, `secret`
and `keymsg` are the state of pairing and FairPlay, as the number of the connection whose
request made them; a renewal may fail (`raop.c:302-304`) and leave an object `gone`. `fresh` and
`told` are history: what was made since the last renewal, and what the open client was
answered, a signature of its own handshake or the answer to its key message. A seed that
cannot be had leaves the handshake as it was, and pair-verify is answered all the same. A handler
that follows NULL or fails an assertion ends the process (`Crash`): for an object that is gone, or
for a request that lacks what the handler takes for granted, as a SETUP without a plist or
an `eiv` does (`raop_handlers.h:322`). `RaopServer` adds the user-interface thread: `pc` goes
through `start_raop_server` and its error exits, `stop_raop_server`, `raop_stop`,
`httpd_stop` and the DNS registrations. One connection is open at a time:
`raop_server.c:125` gives `httpd` room for one, and `Httpd` shows that it keeps to
it.

### Property lists (`PlistNodes`, `Bplist`, `Plist`, `PlistTree`)

A heap is a sequence of nodes; lists are linked by `prev`, `next`, `begin`, `end`
as in `node_list.c`, the end of an empty list being the list itself (-p).
`Plist` has an action per call of the API on the trees a program holds, among
them the round trip through `Bplist`: the tree is flattened to objects (equal
ones once), written to bytes with its offset table and trailer, read back.
`Xplist` is the same for XML (`ConvertXml`). Its writer keeps the buffer's
capacity as `node_estimate_size` and `str_buf_append` set it, because the base64
encoder writes into the buffer itself: a byte written beyond it makes the text
worthless (`beyond`). Its reader has an operator per branch of the parser's loop,
over a record of the parser's variables; it returns the nodes in the order in which
they are made, and `Built` makes them with the calls of the API, as the parser does.
`ReadDocument` reads texts that the writer would never write: documents with
DTD, comments, CDATA and references, each with the tree it stands for, and texts to be
refused, one for each error exit that a short text reaches. libc's `strtoull`,
`atof`, `sscanf` and `strftime` are modelled for the texts that these formats
allow (no blank or second sign in a number). In `PlistTree`,
`AsXml` is what XML keeps of a value: no fraction of a second, a dictionary for a
UID, 8 bytes of an integer where they are enough.
`PlistTree` states the same calls on plain values, and `Refines` maps a heap to
the tree it stands for.

### Android player (`Player`, `AvClock`)

`Player` has the threads: the interface thread inside start and stop (`ui`), the
callbacks that add packets, the render thread inside a round (`work`). It counts
packets and buffers and leaves the times out; decisions of the clock are open. A codec may
fail at any time and throws from then on, and a frame may be too long for its input buffer,
which throws a `BufferOverflowException` (`MediaCodecVideoRenderer.java:94`): `crashed` says of what
the render thread has ended.
`AvClock` has the times: a round and the tick of playing after it are one step, the audio track
is external and answers with timestamps that are true, old or off. The helpers are records with
an operator per method. Time is in ticks and frames are counted in packets.

## 3. What the runs check

| Run | Bounds | Properties | Question |
|---|---|---|---|
| `buffer` | ring of 4, 16 numbers, 2 timestamps | `WindowInv`, `ResendAsksForTheGap`, `HeldBackIsRequested`, `TimelyPacketsAccepted`, `ImplementsWindow` | Does every sequence of calls do what the playout window promises? |
| `session` | ring of 2, 6 numbers, 2 sessions, 1 mailbox with 2 values, failing calls | `JoinedIsQuiet`, `BufferHasOneOwner`, `OwnSessionOnly`, `NoLostPost` | Do two threads share mailboxes and buffer without losing or mixing anything? |
| `session_live` | ring of 2, 6 numbers, 1 session, 1 value, failing calls | `StopReturns`, `RequestsAreServed` | Does stop return, and is what was posted taken? |
| `httpd` | 3 slots, 4 handlers, failing calls, clients that do not read | `CountIsExact`, `UsersAreOwned`, `OwnRequest`, `StoppedIsQuiet`; `StopReturns`, `ClientsAreServed` | Is the table exact, whoever comes and goes? |
| `http` | 2 messages; every method and every kind of header, body and error; lengths up to 255; a CSeq of 1, 848 and 2100 characters | `HandledAsSent`, `ParserAssertionsHold`, `ResponseFits`; `EveryMessageHandled` | Is a request what the client sent, however it is cut? |
| `raop` | 2 connections, 2 sessions, 2 starts, failing steps and renewals | `NoDanglingSession`, `KeysOfClient`, `StoppedIsQuiet`, `MisuseOnlyWhileStopping` | What can requests and stops in any order do to shared objects? |
| `mirror` | 3 streams that end anywhere, prefix of 3 bytes, lossy network, failing calls | `JoinedIsQuiet`, `SocketsOutliveThreads`, `HeaderOfOneStream`; `StopReturns` | Two threads, two sockets, one stop: is the order right? |
| `ciphers` | blocks of 16 bytes, payloads of 15 to 28, streams of 64, 2 keys whose counters carry | `OwnKeystream`, `ReadsWhatWasSent` | Is every byte decrypted as it was encrypted? |
| `plist` | up to 4 calls from 29 trees, 3 keys, tables from 2 children on, 40 documents, pages of 16 bytes | `LookupFindsItem`, `ListsWhole`, `Refines` | Do nodes, tables, binary files and XML hold the tree they stand for? |
| `player` | 2 input and 2 output buffers, lists of 2, 2 starts, 3 clients, failing codec | `CrashNeedsOverlap`, `BuffersInOnePlace`; `AudioIsTaken` | What do starts, stops and resets do to the render thread? |
| `player_reconnect` | as `player` | `CanContinueToConnect` (violated) | Finding 1 |
| `clock` | 10 ticks, a head counter that wraps at 8, 2 connections, 2 video and 3 audio packets each, 2 devices | `HeadCountsFrames`, `FramesKeepToAudio` | Does video stay with the audio whatever the device answers? |

**Why the bounds are enough.** In the buffer only the position of a number relative
to the window and its slot matter. Sixteen numbers over a ring of four have
numbers that are late, inside the ring, beyond it, and in the half that compares
as "before", and the numbers wrap round the ring several times; the proofs
then cover every size. `HalfMod` must be larger than the ring and the ring must
divide the numbers, as 512 divides 65536: `SeqnumAssumption`. The session adds the
interleaving of two threads, for which a ring of two, in which a packet can be
held behind a gap, and two sessions are the smallest that make left-over packets,
posts and flushes possible. Mailboxes are independent of each other, so one with
two values shows an overwritten post. Three slots let a connection be removed
before, at and after the one being served, and one handler more than slots lets
freed handlers be reused and leaks be seen. The messages of `http` visit every
state of the parser and every error exit; since a recv may end after each byte,
the cuts are all there, and the second message shows what the first leaves
behind. Two connections, two SETUPs and two starts let every leftover of `raop`
meet what follows it. A prefix of three bytes can be read in one, two or three
parts. Payloads of 15, 16, 17, 21 and 28 bytes leave every remainder and are
followed by payloads that end on a block and that do not. A table from two
children on, in place of 500, is reached by the calls themselves; the samples of
`plist` lie on both sides of every width the format has (numbers of 1 to 16
bytes, sizes below and above 15, more than 256 objects). With pages of 16 bytes instead of 4096
the output buffer grows many times in one document, and texts that need more room than
was estimated come before data in every remainder of a page; dates lie before and after 1970 and
2008, where `gmtime64_r` begins to count, within 32 bits; a double is a key into a
table of values (`Reals`), since its bits and its digits need arithmetic that TLC has not. Three clients cost one
buffer more than the codec has. The lengths of the CSeq in `http` are a usual one, the
longest with room for every answer, and one whose next small piece makes the allocation
shrink. In `clock` polls come at each of their intervals; timestamps are
true, as far ahead or behind as is accepted, in position and time together, or beyond. A frame is
shown as far ahead of the audio as `FramesKeepToAudio` permits and kept as far behind as it
permits, so that either bound with one tick less is violated; its bound on dropped frames
is reached with three video packets, which take longer than the run is given. Ten frames are played:
a device up to API 29 is asked at the eighth, when its counter is at zero and it is asked in vain,
and again after it.

**Cases left out of a passing run.** Each is a constant that is FALSE or a set that is
smaller than what the code could meet; with them the properties fail, and section 4
says how.

- `Pipelines = FALSE` (`http`): a client waits for its answer, as RTSP senders do.
- `CopiesTables = FALSE`, `RemovesBesideFirst = FALSE` (`plist`): no dictionary with a
  table is copied, and no item is removed from a short array into which one was
  inserted as the first. The program does neither.
- `plist`: the documents are those a reader should understand or refuse; section 4 lists
  texts that are understood differently. No double is less than 4e-7 below a whole
  number.
- `ciphers`: payloads of at least a block less one byte. It is an assumption on the
  sender, whose payloads are parameter sets and coded frames; the code checks nothing.
- `http`: bodies come last, as in all handlers, and the wire shows one short CSeq; the lengths
  of the others are chosen when the response is written.
- `mirror`: payload sizes and NAL lengths that are negative or overflow an int, and what is read
  past the payload with them. A NAL length that is not positive is a choice of any payload, so
  that a cipher out of step, after a short payload or a second SETUP, is in the model as the loop it
  may end in.
- `FramesKeepToAudio` is about the first connection. In a later one the track's position goes on
  from the frames of the ones before, and all video is late by them (section 4).

`CHECK_DEADLOCK FALSE` is set where the modelled system really stops: the process
may abort (`httpd`, `session`, `session_live`), the session is destroyed (`mirror`),
the client has said all it has to say (`http`), the calls, starts or ticks of the bound
are used up (`plist`, `raop`, `player`, `player_reconnect`, `clock`).

**Fairness.** Threads are scheduled by the operating system, so each thread's step
relation as a whole is weakly fair, and so are the steps of a stop once it is
called; which way a step goes is never assumed. `select` has a timeout in every
loop, so that a thread always has a next step. In `http` the server's steps
are fair: whoever has bytes in a connection is read. In `player` the render thread
and each half of a start and a stop are. In `mirror` the loops that read a packet are
strongly fair: a sender that pauses again and again, but sends again and again, is read
to the end. Clients and senders owe nothing; where the code waits for
them, the property says so.

What the liveness properties say, and what they do not:

- `StopReturns` (three modules): a stop that was called comes back, or the process
  has aborted. In `httpd` unless a client never reads its response, with the thread in `send`
  (`ClientsRead` is the hypothesis that none does so for ever); in `mirror` unless the thread is in a loop that cannot
  end (`spin`) or the sender is silent amid a packet for ever, with the stream open. These are the
  ways a peer can keep the code from stopping, and the properties say that there are no others.
- `RequestsAreServed`: a post or a flush of a session is taken by its thread, unless
  the session ends first or the thread has ended on a failing select.
- `ClientsAreServed`: a connection with unread bytes is looked at, if no client leaves its
  response unread for ever and refused clients do not arrive for ever. After a refusal the loop starts over (`httpd.c:253-255`)
  before it looks at any client, so an endless row of clients that `conn_init`
  refuses, or for which `getsockname` fails, starves those already connected.
- `EveryMessageHandled`: a message that has arrived is handled or costs the connection;
  the parser never waits for bytes that no message has.
- `AudioIsTaken`: the render loop orders itself again and none of its inner loops goes on
  for ever, so that it comes back to the audio.

## 4. What the code does differently from what it says

**Finding 1**, the run `player_reconnect`: `MediaCodecVideoRenderer.java:106`. When a
connection ends, `reset()` forgets the input buffer the renderer holds without giving
it back; each such connection costs the codec a buffer, and once all are gone no later
connection shows video, although `RaopServer.java:99-101` says that connecting can go on.

The following were met while modelling. The models have them as they are, or leave the
case out where section 3 says so.

*Audio.*
- `raop_buffer.c:270` marks an entry available before the malloc that may fail; the
  resend of that packet is ignored (259) and the entry is played undecoded, where the
  assertions of `raop_rtp.c:496,538`, which also fail for short datagrams and a failing
  recvfrom, do not end the process first.
- `raop_rtp.c:545` computes the pts of a gap frame from a `timestamp` nobody has set, as an
  unsigned difference, and from the sync pair of the session before until the first sync
  packet comes.
- Metadata or cover art posted twice before the thread takes it is leaked
  (`raop_rtp.c:645`). A resent packet is not played before the next data packet (495).

*Mirror.*
- A payload shorter than the keystream left over (`mirror_buffer.c:126-137`) loses the rest
  of it; everything after it is garbage.
- `raop_rtp_mirror.c:326-331` keeps `readstart` when a stream ends inside the first four
  bytes of a packet, although line 324 says that the length is initially 0; the next
  stream's header is put behind them. The descriptor of an ended stream is not closed (330).
- The loops at 345-349 and 374-378 look neither at `running` nor at a result of 0: a sender
  that goes away inside a packet leaves `raop_rtp_mirror_stop` waiting for ever. So does the loop
  over NAL units (388-400) at a length that is not positive. A result of -1 is added to
  `readstart` like a length.
- A clock request follows an answer only (178): one lost datagram silences the thread.

*HTTP, handlers and server.*
- `send` blocks (`httpd.c:316-324`): a client that does not read its response keeps the thread from
  the others and `httpd_stop` from returning.
- What follows the end of a request in the same recv is lost with the parser
  (`http_request.c:180`, `httpd.c:299-333`).
- `http_response.c:46` never updates `data_size` nor adds `data_length`: a large piece and
  then a small one makes the buffer shrink. What the handlers add fits all the same; a CSeq of more than
  848 characters, which `raop.c:138` echoes, may not. An empty CSeq fails the assertion of line 40.
- `raop_handlers.h:322` copies 16 bytes from NULL when the body of a SETUP is no plist or has no `eiv`;
  459 and 503 compare NULL when there is no Content-Type. When the seed of a handshake fails, 187-204
  answer with what is on the stack. `raop.c:302-304` does not look at what the renewals return.
- A second SETUP without streams overwrites the two live sessions
  (`raop_handlers.h:339`), whose threads are never joined; a second SETUP of the mirror
  stream re-initialises the cipher under the mirror thread (358). The loops over streams
  read item 0 each time (344).
- pair-verify is ignored unless the last step was pair-setup (`raop_handlers.h:168`), so
  its second message (205) is never verified and `pairing_session_finish` (`pairing.c:212`) never gets past
  its look at the status. `Ciphers` has the rest of that function all the same.
- Pairing and FairPlay outlive the connection: a client that sends SETUP without having paired gets the keys
  of the one before. `KeysOfClient` says when it gets its own.
- `raop_stop` frees the address and renews the pairing before it stops the server
  (`raop.c:386-397`): `MisuseOnlyWhileStopping` says that this is the only time a handler
  can meet freed objects.
- The JNI's callbacks return early on a failing array without `DetachCurrentThread`.

*Property lists.*
- `plist_copy` gives the copy's hash table the first one's items (`plist.c:279-287`), where
  `plist.h:208-214` promises a copy.
- Removing the only item of a list, when it was inserted in front of others (its `prev` is NULL),
  leaves `end` on the removed node (`node_list.c:140-146`): theorem `RemoveLeavesEnd`.
- `dtostr` rounds the fraction up without a carry (`xplist.c:120-129`): a double less than
  4e-7 below a whole number is written as `1.:00000` and read as 1.0.
- A `<data>` or `<date>` whose text is parted by a comment or CDATA is read up to the length of its
  first part (`xplist.c:1268,1308`), although all parts have been joined.
- Entities are compared up to the length of their names, so that `&ltx;` is `<`, and the last
  character of a text is not looked at (`xplist.c:787,800-808`).
- An empty root, `<array/>`, becomes the parent of what follows it (1332-1340), what follows
  the root is ignored, and `</plist>` need not come (1390-1393).
- A date without a month reads `julian_days_by_month` at -1 (`xplist.c:398`, `time64.c:263`).
- A UID is written as a dictionary (315-339) and not read back as one.
- `plist_array_set_item` returns silently where `plist.h` says that it asserts;
  `plist_set_date_val` states a length of 16 for a double.

*Android.*
- `removeCallbacks(null)` (`AVPlayer.java:66`) removes no message, so that each start adds a
  work loop to the ones before.
- A reconnecting client meets a clock that went on: `AudioPlayer.reset` zeroes the first pts,
  not the track's position. Audio that comes before any video makes absolute times. A first
  pts of 0 counts as none, and the next packet's as the first.
- After a stop the audio player makes a new track (`AudioPlayer.java:107-110`), but the
  tracker still asks the released one it was given in the constructor (76). `AvClock` has one start.
- A frame longer than the codec's input buffer ends the render thread
  (`MediaCodecVideoRenderer.java:94`), and so does a codec in error.
- The comment on late frames says 300 ms, the code -400000 µs. Frames more than 400 ms early
  wait for a clock that may have stopped.
- The workaround for API levels up to 29 ignores the wrap count at a raw position of 0; the
  smoothed offsets are stale after a pause without polls.

## 5. What is proved

Proofs hold for every value of the constants under the assumptions the modules
name (`SeqnumAssumption`, `BufferAssumption`, `RtpAssumption`, `SessionBufferAssumption`,
`MirrorAssumption`, `MirrorBufferAssumption`, `HttpdAssumption`, `ExchangeAssumption`, `WidthAssumption`,
`TablesAssumption`, `BoundsAssumption`, `StartsAssumption`, `PlayerAssumption`, `AvClockAssumption`), which TLC
evaluates for each instance. `TablesAssumption` says of the tables of characters in
`HttpParser` what the provers, to which strings are opaque, cannot read off them: that a
digit's value is one of 0 to 9 (or 15), and that a space is neither a letter nor a digit.
`SessionBufferAssumption` repeats the buffer's assumptions for the instance in `RaopRtp`. One theorem needs more of the
environment and says so as a hypothesis of every state, `[]PolledInTime`, and one needs a process that
is not ended by an assertion, `[]Alive`.

Every inductive invariant was checked by TLC on an instance before it was proved.

**Jitter buffer.** `RaopBufferProofs` begins with the arithmetic: comparison is
antisymmetric and consistent with adding an offset below half the numbers, and
two numbers less than a ring apart with the same slot are equal. That needs the
ring to divide the numbers. On it rest `TypeCorrect`,
`WindowCorrect`, `NewestHeld`, `HeldBackRequested` and `ResendCorrect`. The inductive
invariant is `TypeOK /\ WindowInv /\ NewestIsHeld`. `WindowInv` alone is not
inductive: that a packet added or played leaves the entries inside the window needs
`BufLen` to be the true distance between first and last, which holds because
numbers are in range and the window is no longer than the ring, and the ring shorter
than half the numbers. `NewestIsHeld` in turn needs `WindowInv`: a new packet never
takes the slot of the newest one because two numbers of one window never share a
slot. The proof has a step per action; the jump of the window (`Beyond`), where all
entries go and the window restarts, is the one that fails if the test is off by
one. For the resend scan, the distances it passes form a finite, downward closed
set of naturals, hence a segment whose length is its cardinality
(`DownwardClosedIsSegment`), and it ends at a held packet because the newest one is
(`GapAtHead`). That no packet in time is dropped (`NoneDropped`, hence `TimelyAccepted`) is
a lemma of its own, since the session needs it too. Its last section proves
`Refinement`: initial states map to initial states and
every call maps to a step of `PlayoutWindow` or a stutter. A stored packet is
`StartAt` or `Keep`, a dequeue is `PlayHead` with the window shifted by one, both
flushes are `Reposition`, everything else is `NoEffect`.

**HTTP server.** `HttpdProofs` proves `TypeCorrect`, `CountCorrect`,
`OwnershipCorrect`, `RequestsCorrect` and `StoppedCorrect` from one inductive invariant: `TypeOK`,
`CountIsExact`, `UsersAreOwned`, `OwnRequest`, where the thread may be given
`running`, `joined` and the place of stop (`ThreadsInv`), that the table is not
full while the thread is about to accept (`AcceptInv`), and that a thread that is
gone has left no connection. That a free slot is found follows from the exact count, by
the cardinality of a set of slots. `HttpdImplementsThread` is the refinement of `ServerThread`:
the handlers there are count what the connected slots count (`HandlersCounted`), so
that `conn_init` is never called beyond `Limit`, and a removed slot's handler is one that
was made and not yet taken (`HandlerOf`). Taking a client, removing one and closing the server
are the only steps that change the handlers; the rest change the phase or nothing.

**Audio session.** `RaopRtpProofs` proves the four safety properties of `RaopRtp`
(`JoinedCorrect`, `OwnerCorrect`, `SessionCorrect`, `PostsCorrect`) and that the session keeps
the buffer's promises (`SessionBufferCorrect`). None of them is inductive. `ThreadsInv` is the
table of which threads, sockets and packets there are at each place of `raop_rtp_stop`: the
UDP thread, which ends by itself, is gone only when waited for, and until `cleanup` has emptied
the ring it may hold packets. `SessionInv` says that every packet in the ring is of the
running session; with the empty ring of a joined one it makes `OwnSessionOnly` inductive.
`MailInv` follows a posted value: it is in its mailbox, or among those taken in the unlocked half of
`raop_rtp_process_events`, or delivered. `BufferInv` takes over the
invariant of `RaopBufferProofs` through an instance of it (`Ring`): every step of the session
changes the buffer by one of the buffer's own operations or by a failed allocation,
which may leave the ring moved but its window whole (`OutOfMemoryType`, `ResendStep`), until an
assertion has ended the process (`thread = "aborted"`). On it rests the composition of the two
refinements: while the process lives, every step of the session is one of the buffer's
operations or leaves the buffer alone (`LivingStep`), hence a step of `PlayoutWindow` or a
stutter (`SessionStepMaps`). `EveryLivingStepMaps` says so of every step but the one that
ends the process; `SessionImplementsWindow` of behaviours in which no assertion fails. The
hypothesis is needed: the failed malloc of `raop_buffer.c:273` leaves an
entry that was neither kept nor ignored, and the assertion on its result is what keeps it from
being played.

**Handlers and server.** `RaopServerProofs` proves the two safety properties of `RaopServer`
and its action properties `KeysOfClient` and `MisuseOnlyWhileStopping`, for any number of connections,
sessions and starts. `raop_stop` frees what the handlers share before it stops their thread, so that the
invariant says for each of its places what the httpd thread may still be doing: no thread
beyond `join` (`NetInv`), shared objects missing only between their free and the join
(`SharedInv`), and to which caller `raop_stop` returns, since four places call it
(`PlacesInv`, on which the services and the name in `ServicesInv` depend). `ConnectionInv`
and `SessionsInv` tie sessions to the connection: one that runs is pointed to, or was
abandoned by a second SETUP. Handlers are taken together where they leave the same things
alone (`HandleKeepsFrame`); sessions, pairing state and keys have a lemma of their own.
`KeysInv` is what makes `KeysOfClient` inductive: a client was told nothing unless its connection is
open, what it was told of is its own while `raop_stop` is not at work (`OwnKeys`), and no
key is older than the last renewal (`FreshKeys`). `RaopImplementsThread` shows that
the httpd thread as this module has it is an instance of `ServerThread` with one connection at a
time. The handlers' numbers are those of the connections (`NumberInv`), so that a new one is
never one that still lives.

**Player.** `PlayerProofs` proves `CrashCorrect` and `BuffersCorrect`. The first is about the exceptions of
indices, lists, the track and a codec that has not failed: each needs another thread between two calls of
a round, or a start or stop under way. A frame that is too long, a codec in error and a missing
renderer end the thread without any of that, and the theorem does not speak of them. For it,
`RoundInv` says what the render thread may rely on between two calls of a round in which no
other thread has come between (`~overlap`): the buffer it fetched is still valid, the list it saw filled
is not empty. `StateInv` is the order in which the interface's thread takes things away
during a stop. For the second, `HandsInv` counts buffers, and must count the one
whose round was reset after it was fetched: it is still the render thread's to give back
(`Showing`). `RoundsInv` bounds the messages in the looper by the starts.

**HTTP parser.** `HttpExchangeProofs` proves `AssertionsCorrect` for any messages, any cuts
and any width of `content_length`: what a client may send is a constant nothing is assumed of.
The invariant ties the fields of `http_parser` to its state: chunk states need `CHUNKED`, which no
header after them takes away; the states of a body have bytes left, those of a size have a
length at all; a value is read with one of the header states of values (`ValueStates`); the count is 0
before a chunk and its byte is not looked at twice; and an element is marked in
`MarkedStates` only, between entry and return (`MarkInv`). That the last digit of a length cannot make
it `ULLONG_MAX` is `LengthGrows`, the arithmetic of the two overflow checks (1535, 1945). All of it holds
until the parser has refused its bytes, after which it is never run again (`ThreadInv`,
`LengthCorrect`).

**HTTP response.** `ResponsesCorrect` says of every CSeq, every body within `BodySizes` (up to half an int)
and every choice of headers that a response is written past the allocation only if
the CSeq is longer than `CSeqRoom`. `http_response_add_data` compares the
allocation with the initial 1024 bytes and the new piece, and never with what was
written before (section 4). A piece fits because everything before it, status line,
headers and the digits of the length, stays within those 1024 bytes (`Fits`: a response
that is no longer than `InitialSize` holds the next piece, whatever its length). 50 bytes
are the status line and the framing of the two headers every response has, 96 at most come from a
handler (`HandlerFits`), 30 from the announced length (`FinishFits`), so that 848 characters
are left for the `CSeq`, which is the client's and which nothing in the code limits. It also
says that the assertion on an empty piece fails only for an empty CSeq.

**Mirror decryption.** `KeystreamCorrect`: for every block length, and payloads
of at least a block less one byte (`LongPayloads`), every byte is decrypted with
its own keystream byte. The inductive invariant adds to it that what is generated is
what is sent plus the kept rest (`generated = sent + nextDecryptCount`) and that the
kept block ends where the generated keystream ends (`InStep`). With a shorter
payload the first of these fails, as section 4 says, so that the assumption is needed.

**Mirror session.** `RaopRtpMirrorProofs` proves `TypeCorrect`, `StoppedCorrect`
and `SocketsCorrect` for every length of the prefix and number of streams. Neither property is
inductive: that `joined` means quiet needs to know, for every place of stop between the first join
and `joined = true`, which thread has been waited for and which socket closed. `StopInv` is that
table; only the control thread changes it, since the other two end by themselves but are gone
only when waited for. `HeaderCorrect` holds wherever streams end: every byte of the prefix is of the
stream whose packet is on its way, or of one that was cut amid a packet (`PrefixInv`). That such bytes stay
for the next stream's header is what the code does, as section 4 says; the theorem says that
nothing else ever does.

**Player's clock.** `HeadCorrect`: the tracker's count, last raw position plus wraps times
`WRAP`, is what the track had played when it was asked last, for every width of the counter and through
pauses, new connections and devices up to API 29. The head is taken modulo `WRAP` and a wrap
is seen only as a head that went back, so that the tracker must be asked in time: `PolledInTime`,
less than half of what the counter holds is played between two questions (for 32 bits and 44100 frames
a second, 13 hours; the renderer asks every round). Half and not all of it, because up to API 29 a head
that stands at zero while a count is known is not believed (`AudioTrackPositionTracker.java`), and two
intervals between questions add up: a head of `WRAP - 1`, then `WRAP`, then `2 * WRAP - 1` is
counted as one turn less. `CountInv` says which of the two cases it is. The run `clock` also
reaches states beyond `PolledInTime`, and the property holds there at its bounds.

**Lists of nodes.** `HelperProofs` reads a list of `node_list.c` as the sequence of its nodes:
`IsList(h, p, s)` says that count, begin, end and the links both ways are those of `s`. `Forest(h, kids)`
says it of many lists at once, no two of which share a node. `CreateKeepsForest`, `AddKeepsForest`,
`InsertKeepsForest` and `RemoveKeepsForest` prove, for heaps and lists of any size, that the
functions do to the sequence what `Append`, `InsertAt` and `RemoveAt` do, and that no
other list notices. Two conditions are needed. The node to be added is in no list: the C code does
not look, and the callers make a new node or detach the old one. And the node to be removed is not
the only one with NULL for its `prev`; that case ends with what `RemoveLeavesEnd` states (section 4).
TLC found the lists of every reachable heap of `plist` to be such a forest. `ListsWhole` itself is not
a theorem, because it reads the lists by recursive definitions.

**Only model-checked.**
- Liveness, of every component: it rests on fairness and `ENABLED`, which the prover does not have.
- Where recursive definitions describe data (`Bplist`, `XplistData`, `Xplist`, `Plist`,
  `PlistTree`, `TinyAes`, `Aes`, `Ciphers`): `LookupFindsItem`, `ListsWhole`, the refinement of `PlistTree`
  and `ReadsWhatWasSent`. That a file read back is the tree written for every tree needs induction
  over the data, which the installed provers cannot instantiate.
- `HandledAsSent`: strings put together from pieces are opaque to the provers, and what the parser
  makes of a message is an induction over its bytes.
- `FramesKeepToAudio`: the mean of the offsets is a fold, and its bound an induction
  over the ring of offsets.

Proved and not the property of a run are the two refinements of `ServerThread` and
those of the session. The first two were checked by TLC with the constants of `httpd` and
`raop`, and a handler kept or a join not waited for refute them.

## 6. What is not modelled, and what comes next

- The number theory and the codecs: `crypto/bigint.c`, `curve25519`, `ed25519`, `playfair`,
  `fdk-aac`. Their state does not outlive a call, their values are out of TLC's reach
  (numbers of 256 bits and more), and the rest of the program relies on their
  results only as "the right key" or "a signature that fits", which is how `Raop` has them.
- `mDNSResponder`: `RaopServer` keeps what `dnssd.c` registers with it.
- The contents of answers, formats of SDP and of volume and progress lines: pure functions of
  their input.
- Times: NTP, the pts of audio and the offsets of sync packets. Nothing but logging
  and the clock's first value depends on them. The clock of the player is in `AvClock`.
- H.264: the NAL units and parameter sets of a decrypted payload, copied from one
  buffer to another.
- The conversions of arrays in the JNI bridge, the user interface, the Windows build, logging and
  wrappers; `VideoFrameReleaseTimeHelper.java`, of which an object is made and no method called; from the vendored
  libraries everything the program does not reach (responses and URLs in `http_parser.c`,
  local time in `time64.c`, ECB and other key sizes in `aes.c`).

Next are, in this order: the arithmetic of sync packets in `RaopRtp` (`raop_rtp.c:545`), with
which the pts of audio could be said to be of its session; the second SETUP of a mirror stream
(`raop_handlers.h:358`), which composes `RaopServer` with `MirrorBuffer`; and the composition of
`Httpd` with `HttpExchange`, of which `ServerThread` would be the other half.
