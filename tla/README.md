# A TLA+ development of tiny_http

tiny_http is an HTTP/1.1 server library in C: one thread, one event loop,
non-blocking sockets, callbacks all the way up. This directory holds TLA+ models
of its parts, the TLC configurations that check them on small instances, and
proofs, checked by TLAPS, of what matters most for every instance.

The models are of the files in `src/src` and `src/include`. (`src/th.c` and
`src/th.h` at the top are an amalgamation of these, line for line, generated by
`src/amalgamate.py`: what is said here of a file of `src/src` holds of its copy
in them, and nothing is mapped to the copy.) `PROJECT.json` says for each definition which lines it is
a translation of, and lists the hazards of the code with the properties that
cover them.

## 1. Inventory

### 1.1 The event loop (`th_loop`, `th_task`, `th_queue`)

*State.* An intrusive FIFO of tasks, `num_tasks`, and the loop's own task for the
reactor, which is always in the queue unless the reactor runs.
*Operations.* Push a task, increase and decrease the count, `th_loop_poll` (pop
tasks until one was completed; the reactor's task runs the reactor and goes to
the back), `th_loop_run` (poll until the count is zero).
*Hard.* The count is kept by hand in a dozen places; the queue is linked through
the tasks themselves, so a task pushed twice cuts it.
*Correct when* the count is what is outstanding, no task is in the queue twice,
and the reactor runs again and again.

### 1.2 The poll reactor (`th_poll`, `th_reactor`, `th_op`, `th_timer`)

*State.* Handles (a descriptor, a pending operation for each direction, one
timer), the map from descriptors to handles, the vector of `pollfd`s.
*Operations.* Create and destroy a handle, submit an operation, cancel a handle,
run: `poll()`, then scan the vector, perform, abort or time out what is there,
and compact the vector.
*Hard.* While the vector is scanned, operations that are performed submit again
(the vector grows), and handles come and go under entries the scan has not
reached; timeouts race with readiness; a push may fail for want of memory
after the slot was taken.
*Correct when* each operation that was started completes exactly once, its
callback never runs inside the call that started it, and no operation the
reactor holds is ever dropped from the vector.

### 1.3 Operations and sockets (`th_recv`, `th_send`, `th_sendvec`, `th_sendfile`, `th_accept`, `th_socket`, `th_acceptor`)

*State.* An operation's flags, error and progress; a socket's handle.
*Operations.* Submit (tries at once, waits on `EAGAIN`), perform again when
ready, complete through the queue, cancel, `set_fd`, close.
*Hard.* Partial transfers, exact reads, cancellation of what is queued.
*Correct when* bytes are neither lost nor repeated over partial transfers, and
the result the callback sees is the one the operation completed with.

### 1.4 The handle map and the hash map (`th_poll_handle_map`, `th_hashmap.h`)

*State.* A dense array of handles and an open-addressing table of indices; the
table's slots, size, and the bounds `begin` and `end` of what is used.
*Operations.* Set, find, erase (closing the hole), growth in place; removal from
the dense array moves the last handle.
*Hard.* Runs of entries that go around the end of the table, entries moved by
the closing of a hole, growth without a second table.
*Correct when* it is a function: what was set and not erased is found.

### 1.5 Connections and the listener (`th_tcp_conn`, `th_conn`, `th_conn_tracker`, `th_listener`, `th_server`)

*State.* The listener's next connection and its accept, `running`; the tracker's
list and count and the task that waits for a connection to go.
*Operations.* Start, accept completion (hand the connection to HTTP, prepare the
next), stop (cancel everything), destroy, `th_server_stop` (stop, then run the
loop dry), `th_server_deinit`.
*Hard.* Stopping between two polls while completions are queued; no memory for
the next connection; the limit on connections when the next connection counts
itself.
*Correct when* an accept is always under way while the listener runs, no
connection is left when it is destroyed, and stopping ends.

### 1.6 The HTTP connection (`th_http`)

*State.* The buffer and its size, `read_bytes`, `parsed_bytes`, `close`.
*Operations.* Read (parse, enlarge once for the head, refuse, move the body),
route and handle, answer (with `Connection: close`, `keep-alive` or `upgrade`),
restart or close, upgrade to WebSocket.
*Hard.* Three counters describe the same buffer while the body is moved over the
head; a request may be refused before it is read; each answer decides and
announces what becomes of the connection in different functions.
*Correct when* every read has room, the handler sees the request's own body,
limits hold, requests are told apart, and announcements are kept.

### 1.7 The WebSocket connection (`th_ws`, `th_ring`, `th_ws_frame`, `th_ws_frame_parser`)

*State.* `closing`, `sending`, the ring of frames to send and the part of it
under way, the parser and the receive buffer.
*Operations.* Start, callbacks of receive and send, `th_ws_send`, `th_ws_close`,
destroy.
*Hard.* Two operations at once, and handlers, callers and the closing handshake
that interleave with both.
*Correct when* the ring drains, one send is under way at a time, CLOSE is the
last frame, a close ends, and nothing refers to a destroyed connection.

### 1.8 The file cache (`th_fcache`, `th_refcounted.h`, `th_response`)

*State.* A map from names to entries, a list in order of use, the entries'
reference counts.
*Operations.* Get (hit, outdated, miss), insert with eviction, give back, deinit.
*Hard.* The map holds no reference; outdated and evicted entries live on in
responses.
*Correct when* references are exact, the map leads to no freed entry, and the
list's assertions hold.

### 1.9 TLS (`th_ssl_conn`, `th_ssl_io`, `th_ssl_session`, `th_ssl_smem_bio`, `th_ssl_recv`, `th_ssl_send`)

*State.* Two memory buffers with a read and a write position, between the engine
(OpenSSL) and the socket; an operation's direction, progress and whether only
its ciphertext remains to be sent (`draining`).
*Operations.* Handshake, read and write steps of the engine; the shuttle, which
moves ciphertext between a buffer and the socket and waits when it would block;
receives and sends of plaintext in chunks; cancel and abort.
*Hard.* A step of the engine may want the socket in the other direction. The shuttle
is run again from the start whenever the socket is ready, and must know whether
plaintext has moved already. Positions in a buffer only go back when it is empty.
*Correct when* plaintext is reported once, ciphertext a peer may be waiting for
is sent before the operation waits for the peer, and buffers have room.

### 1.10 Requests, routes and responses (`th_request_parser`, `th_request`, `th_router`, `th_response`, `th_str`, `th_url_decode`, `th_cookie_parser`, `th_multipart_parser`, `th_part`, `th_ws_handshake`)

*State.* The parser's state, content length and encoding; the request it fills;
the tree of route segments; a response's headers, body or file, and the plan of
what is written.
*Operations.* Parse what has arrived, reset for the next request; register a
route or a WebSocket route; resolve a path, handle, ask what would be handled;
set a body, a file, a header; add the defaults and plan the write.
*Hard.* What is not complete is parsed again from its start. The search in the
tree does not come back from a segment that matched, and the tree keeps what a
failed registration left. The parts of a body are told apart by lines that their
contents may resemble, or by lengths. Headers are told apart by their spelling.
*Correct when* the request that is handled is the one that was written, however
it was cut; the handler is the one the path and the method mean, whatever the
order of registration; and what is on the wire has the length it says.

### 1.11 Bytes on their way out (`th_iov`, `th_sendvec`, `th_sendfile`, `th_ring`, `th_ws_frame`)

*State.* What is left of an iov, the position in a file; the ring's chunks with
their positions.
*Operations.* An attempt that takes any part, consume; write a frame whole, peek
at the first chunk, consume what was sent.
*Hard.* A send refers to memory of the ring while frames are queued behind it;
chunks wrap, grow, drain and go. A file may change while it is sent.
*Correct when* the wire has each byte once and in order.

### 1.12 WebSocket frames coming in (`th_ws_frame_parser`)

*State.* The header bytes kept, the frame under way, the message it belongs to.
*Operations.* Parse what was received.
*Hard.* Headers of three lengths, masks, fragments and control frames among
them, all of it cut anywhere.
*Correct when* the handler is given the messages the client sent, and what is
refused does not depend on how it was cut.

### 1.13 The parts that are not modelled yet

File paths, the directory manager, the allocators. Section 6 has the plan for them.

### 1.14 How they interact

```
 th_server ── th_listener ── th_conn_tracker       ThListener
                  │ conn_start / upgrade              │ INSTANCE (one per connection)
               th_http ── buffer, limits           ThSession ──refined by── ThHttp, ThExchange
                  │ ├─ th_request_parser           ThExchange ── ThRequestParser ─┐
                  │ ├─ th_router, handler              │      ── ThRouter ──────── ThText
                  │ └─ th_response, th_sendfile        │      ── ThResponse, ThTransfer
                  │         └─ th_fcache               │         ThFcache
                  │ 101                            ThConnection (ThExchange, then ThWsData)
                th_ws ── frame parser, ring        ThWsData ── ThFrameParser, ThRing, ThTransfer
                  │                                    └─refines─ ThFrameQueue    ThWs
                  │ recv/send                                                      │ steps of
             [ th_ssl_conn, over ]                 [ ThSsl ]                       │
            th_tcp_conn, th_socket, th_op          ThAsync ────────────────────────┘
                  │ submit / cancel / callback         │ refined by
              th_poll ── handle map ── hash map    ThPoll    ThHandleMap ── ThHashmap
                  │ count, post                        │ EXTENDS
               th_loop                             ThLoop
```

Everything runs on one thread. Concurrency is that of callbacks: the order in
which the kernel completes operations, in which tasks stand in the queue, and
in which the application calls the library between polls and in its handlers.

## 2. The modules

| module | models | state and code |
|---|---|---|
| `ThLoop` | `th_loop.c` | `queue`, `numTasks`; `phase`, `running` and `empty` are where `th_loop_poll` is and its locals |
| `ThPoll` | `th_poll.c`, the operations' `fn`/`abort`, `th_socket`, `th_acceptor` | `handle` is the handles by owner, `pending` the slots, `fds`/`revents`/`cursor`/`kept` the vector and the locals of the scan, `expired` the timers, `err`/`left` an operation's result and progress |
| `ThAsync` | what 1.1 to 1.3 promise | operations `flying`, `completed` with results in order, the callback `delivering` |
| `ThHashmap` | `th_hashmap.h` | no state: operators from a map to the map after the call |
| `ThHandleMap` | `th_poll_handle_map` | the array, and a map of `ThHashmap` beside the function it should be (`dict`) |
| `ThSession` | what the listener may expect of HTTP | `stage`, `last` |
| `ThHttp` | `th_http.c` | the struct's counters, the recv under way, the request that is being sent |
| `ThListener` | `th_listener.c`, `th_conn_tracker.c`, `th_tcp_conn.c`, `th_server.c` | a `ThSession` for each connection, operations under way and due |
| `ThWs` | `th_ws.c` | the struct's flags, the ring as a sequence of frames, the operations of `ThAsync` |
| `ThFcache` | `th_fcache.c`, the reference held by `th_response.c` | map, list, number, reference counts |
| `ThSsl` | `th_ssl_*.c` without contexts | `op` the operation of `th_ssl_io`, `rbio` and `wbio` the buffers by their positions, `ssl` what is known of the engine |
| `ThText` | `th_str.c`, `th_url_decode.c`, `th_cookie_parser.c`, the variables of queries and forms | no state: text as sequences of bytes and words |
| `ThMultipart` | `th_multipart_parser.c` | no state: what a body and its type are taken for |
| `ThRequestParser` | `th_request_parser.c`, `th_request.c` | the parser and the request as records, a call as a function of what has arrived |
| `ThRouter` | `th_router.c` | the tree as the sequence of its segments with their parents |
| `ThResponse` | `th_response.c` | the response as a record, the iov it is written from |
| `ThTransfer` | `th_iov.h`, `th_sendvec.c`, `th_sendfile.c` | an operation as a record: what is left of the iov, the position |
| `ThExchange` | `th_http.c` above these | `setup`, `turn`, `arrived`, `fileLen` are the world; `reader`, `request`, `response`, `answer`, `parsed`, `close` the struct; `onWire`, `seen`, `outcome` histories |
| `ThRing` | `th_ring.c` | the chunks with their cells, `len` |
| `ThFrameQueue` | what `th_ws.c` expects of the ring | frames queued, and how many of them are under way |
| `ThFrameParser` | `th_ws_frame_parser.c`, `th_ws_frame.c` | the parser as a record; bytes know which part of which frame they are |
| `ThWsData` | `th_ws.c` above these | the struct's parser, payload, ring, flags; `wire`, `got`, `accepted` histories |
| `ThConnection` | an exchange, then a WebSocket | |
| `ThPollProofs`, `ThHttpProofs`, `ThSslProofs`, `ThListenerProofs`, `ThFcacheProofs`, `ThWsProofs`, `ThConnectionProofs`, `ThWsDataProofs` | proofs | see section 5 |
| `MC*` | instances for TLC | |

### ThLoop and ThPoll

A step of `th_loop_poll` is an action: `StartPoll`, `Finalize` (an operation's
callback begins), `Return` (it ends), `RunReactor` and then one action for each
entry of the vector the scan comes to (`ScanStale`, `ScanReady`, `ScanAbort`,
`ScanTimeout`, `ScanKeep`), and `ScanEnd`. The scan is not one step because the
vector grows and handles appear while it goes on: an accept that is performed
creates a handle, perhaps with the number of a descriptor that an entry further
on still names. Client code (`Submit`, `Cancel`, `SetFd`, `Close`) may run
whenever user code runs: between polls and in callbacks. `Perform` is the
`fn` of all five operations: what it does to the world is a choice, what it
does to the loop, the slot, the vector and the timer is not, including a push
that fails. The clock is the action `Tick`, which may expire any timer of a
handle something waits on. The handle map is a function here; that the real one
is one is checked with `ThHandleMap`.

A socket stands for its owner's protocol of use: at most one operation of a
direction at a time, and descriptors are replaced or closed when nothing is in
flight. The modules above show that the owners keep the former
(`ConnContract` of `ThWs`). They do not keep the latter: see `DestroyedIsQuiet`
in section 4.

### ThAsync

The abstract specification of asynchronous I/O: started operations complete
once and are delivered once, in the order of completion, one at a time, never
inside the call that started them; cancelling completes what flies. `ThPoll`
implements it (`AsyncSpec`, by the refinement mapping `flying <- pending`,
`completed <-` the queue without the reactor's task with the results, `delivering <-
running`), and `ThWs` is built from its steps in place of a connection.

### ThHashmap and ThHandleMap

`Set`, `Removed`, `Expand`, `Find` follow the macros slot by slot, with linear
probing, growth in place and the closing of holes. A read beyond the array sets
`broken`. `ThHandleMap` does what `th_poll_handle_map_set`, `_try_get` and
`_remove` do with such a map, `failed` standing for their assertions. `dict` is
what was set and not removed, and the invariants compare the table with it slot
by slot and in its bounds (`TableIsSound`), and lookup by lookup (`LookupIsExact`).

### ThHttp and ThSession

A request is a head and a body of some length; TLC and the proofs see no other
content. `n` bytes arrive, at most what the recv asked for. What the parser
decides is a choice where it depends on the content (`ReadBad`) and a
consequence of the lengths where it does not (`HeadComplete`, `Complete`). The
buffer logic is kept whole: growth to the large header length once, limits,
moving of the body, the exact read of what remains. What the router and the
handler answer is a choice of response (`Handle`), with what each way of
answering does to `close` and says in the headers. `ThSession` is what the
connection looks like from the listener: unborn, reading, writing, handed over
or ended, and whether this answer is the last. `SessionSpec` is the refinement.

### ThListener

Composes a session for each connection with the listener, the tracker and the
server. A callback is one step, up to its return to the loop. Misused pointers
and failed assertions set `crashed`, from which nothing goes on.

### ThWs

The handler's events and the callbacks are places (`pc`), so that the
application may call `th_ws_send` and `th_ws_close` wherever it can in the code:
between polls, and in a handler. The frame parser is a choice of what it finds;
the ring is a sequence of frames of which the send under way covers the first
`inFlight`.

### ThFcache

`cache` is the struct, changed by operators that are the functions of the file;
the actions are the calls `th_response.c` and the server make. A file may be
modified at any time (`Modify`), an entry's memory is reused (`Blocks`).

### ThSsl

The connection has one operation at a time, as HTTP uses it. `at` is where that
operation is: about to call the engine, about to move ciphertext, waiting in the
slot of a direction, done with its callback due. Bytes are counted, not named.
The engine is external: a call reads any part of `rbio`, emits any number of
bytes, and returns what it likes, within what OpenSSL promises (it emits
nothing but in answer to input or to a write; it wants to read only when it has read
everything; after a failure it emits no more). What it emits beyond the room in
`wbio` it keeps (`held`). What the session and the shuttle make of this (`Classify`,
`Progress`, `Moved`) is the code's, in its order. Waiting is a step of `ThAsync`
in the small: `Wait`, then `Ready` or `Abort`. An operation of the
reactor that finds no memory completes at once. Above, `Callback` receives the rest,
sends the next chunk (`Fill`, which takes it from `left`, what is not in a chunk yet),
or goes on to the next operation of an HTTP connection. What the engine did not take
of a chunk is gone, as it is in the code.

### ThText, ThMultipart, ThRequestParser, ThRouter, ThResponse, ThTransfer

Pure modules: operators from what a function is given to what it leaves. A byte
is a string, a delimiter or a whole word, so that a request is a few dozen
bytes, every cut of which is a cut of the real one that the parser can tell from
others. An escape is a byte of its own, with what it decodes to. `Parse` is one
call of `th_request_parser_parse`: steps until one wants more. What a step stores
before it finds that more must arrive is stored in the model, too. `Parts` reads a
body by its boundary as the code does, with the offsets it skips; the client of
`ThExchange` writes parts with and without a `Content-Length` of their own.

A router is built by `Registered` from the list of calls an application makes,
failures included, and searched by `Resolve`, segment by segment without return.
Both are compared with a definition that has no tree (`HandlerMeant`,
`VarsCaptured` in `ThExchange`): a path leads to the best of all registered
shapes, where a literal beats a capture, a number a word and a word the rest of
the path, at the first segment in which they differ.

### ThExchange

Joins them as `th_http.c` does, for requests within the limits (those are
`ThHttp`'s subject). A client writes requests one after the other, `Arrive`
brings any piece of them, and the piece that completes one goes through the
router, a handler's reply, the headers of the answer and the first attempt to
send. `SendMore` are the other attempts. The application is external: `Replies`
says what a handler may do. `ExchangeSession` shows that this is still the
session the listener composes.

### ThRing, ThFrameQueue, ThFrameParser, ThWsData

A chunk is a buffer of cells between a head and a tail that only go up. A send
refers to cells; what it puts on the wire is what they hold when the socket takes
them, something else if the chunk was freed or written again meanwhile. The
client's frames are a constant; the stream is their bytes. What the parser makes
of a receive is a sequence of steps (`ParseNext`), one round of its loop each; without
memory for a payload the connection ends there (`CannotKeep`).
`Read` reads the wire as a client does, by the lengths in the headers. The queue
of frames that `ThWs` works with is the abstract specification
(`FrameQueueSpec`).

### ThConnection

The exchange until a handshake is answered, and then the WebSocket.
`OutputEnds` is stated here: what there is to send comes to its end.

## 3. The runs

All constants called a bound in the modules are bounds of the model, not of the
code.

| run | question | instance and why it is enough |
|---|---|---|
| `MCThPoll` | is every operation in one place, counted, and polled for? | Two sockets, one an acceptor without timeout, two descriptors so that one is reused while an old entry names it, a vector of up to three entries so that pushes fail, an accept may create a handle during the scan. |
| `MCThPollLive` | does it implement `ThAsync`, and does everything get its turn? | One socket with both directions, which is where the shared timer matters, transfers in two parts; a descriptor that is ready may have nothing to move. |
| `MCThHandleMap` | is the table a function, and does the reactor find the handle of every descriptor? | Five descriptors, of which three collide at every capacity up to 16 and the others lie next to them, all at the low end so that no run goes around; growth from 1 to 16; allocation may fail. |
| `MCThHandleMapSpread` | the same, for descriptors that collide at the end of the table | **violated**, section 4. |
| `MCThHttp` | is the buffer handled correctly and is the connection used as announced? | Small limit 2, large limit 4, bodies up to 6: heads below, at and above both limits, bodies that fit behind the head, fit when moved, need a larger buffer, or are too large; every split. |
| `MCThListener` | does it accept, bound, stop and clean up? | Memory for three connections, one may be served: one served, one rejected, one waiting. |
| `MCThWs` | do frames drain, CLOSE come last, closes end? | A ring of three frames (a message in flight, one queued, the CLOSE), two frames in one receive, a ring that may refuse. |
| `MCThWsDestroy` | is nothing outstanding on a destroyed connection? | **violated**, section 4. |
| `MCThSsl` | is plaintext reported once, and is ciphertext sent before the peer is waited for? | Records of up to two bytes, buffers of two and four, chunks of two: a record arrives whole or in halves, the engine's output fits, fits behind what is left, or does not fit; sends and receives of up to three bytes, more than a chunk; memory may fail. |
| `MCThFcache` | are references exact and slots live? | Two names, two cached at most, two responses, four blocks: two cached entries while two outdated ones live on in responses. |
| `MCThConnection` | is what is handled what was asked, and what is on the wire what was answered, on both sides of an upgrade? | 39 setups, below. |
| `MCThFrameSplit` | may a header be split anywhere? | **violated**, section 4. |

`CHECK_DEADLOCK FALSE` is given where the system may really stop: a cache or
server that was destroyed, a connection that has ended (plain or TLS, or one whose
client has nothing more to say), a handle map or a cache in which an assertion
failed.

`MCThConnection` is one run because its parts are one path. Its setups are
sequences of requests, most of them of two or three so that a connection is
used again: with query, cookies (one quoted), forms, a body, HEAD and OPTIONS,
HTTP/1.0, handshakes that miss a header, have another `Connection` or too long a
key or come with HEAD, a path capture with a slash at its end, and one request for each code a malformed one is refused with. Bodies of
several parts have a file name and a type or not, content that is empty or begins
like a boundary, lengths that are told or not, no end, more behind the end, no
boundary, no line. They arrive
in pieces of up to three bytes or whole, so that every byte is the last of a
receive in some behaviour. Routes of three kinds of conflict (captures of
different types at one place, one path for a method, all methods and a
WebSocket, one with a fault in it) are registered in all six orders; there the
cuts do not matter and requests arrive whole. Handlers set a body, a file, both or
neither, a header the code sets too, and a gate sets a body for an upgrade. The file
has a length of 0, 3 or 5 bytes (a chunk is 2), and changes between them. Frames: eleven
sequences with each length form, fragments with a PING between them, a message of
exactly the limit (4) and one beyond it, a CLOSE with more behind it, and one
violation of the protocol each; received in pieces of every size. Lengths are
written with two values to a digit (`Radix`), in seven bits up to 1, in two
digits up to 3. The ring begins with 4 cells and takes up to 12, so frames wrap,
grow into a second chunk and are refused. `LenRange` 5 cuts the announced length
of the longest file. No request announces a body of `UintRange` bytes.

### Properties worth reading first

* `OnePlace`, `TaskCount`, `PendingIsPolled` (ThPoll): the three facts on which
  every callback in the program depends.
* `StalledOnlyByRenewal` (ThPoll): an operation that stays for ever is one whose timer
  is set again and again: by traffic in the other direction, or because one of the
  two is tried again and again without moving anything, as the send of a file that
  became shorter (`th_sendfile.c:43`) is. This is weaker than "each operation times
  out", and that is what the code provides: both directions of a handle share
  a timer, which every submit sets (`th_poll.c:189`). Each of the ways occurs in the
  instance, where a descriptor may be ready and move nothing.
* `RingIsDrained`, `ClosingEnds` (ThWs): while there are frames, exactly one send
  is under way; once a CLOSE is queued the connection goes.
* `BodyIsRequests`, `InSync`, `HeadBounded` (ThHttp). `InSync` says when requests
  are not told apart: the bytes a client sends ahead are dropped, and the rest of
  a request that was refused early is read as the next. `HeadBounded` says that
  the limit on heads does not hold on a connection whose buffer has grown for a
  body.
* `AcceptHasItsConn`, `CleanDeinit`, `StopEnds` (ThListener).
* `OutputGoesFirst`, `ReportsExact` (ThSsl): an operation never waits for a peer
  that may be waiting for it, leaves nothing behind when it is done unless the
  socket took less than it was offered, and never repeats a step of the engine
  that has moved plaintext. What is reported is what the engine took; that it took
  the whole chunk is not true of the code (section 4).
* `RequestIsWritten` (ThExchange): the request that is routed is the one that was
  written, with its variables, cookies, forms and parts, and a malformed one is refused
  with its code, however the bytes came and whatever the connection was used for
  before. Left out are parts whose length misleads the parser (`Misjudged`, section 4).
* `RouteIsMeant` (ThExchange): against a definition without a tree. A WebSocket was
  asked for with a whole handshake, by GET or, as the code has it, HEAD (section 4). It leaves out
  applications in which a literal segment has the name of a capture in the same
  place (`Mistakable`, section 4).
* `AnswerIsWhole`, `OutputEnds`: what the socket has taken at the end is the answer,
  once and in order, and has the length it announces, also when it is cut by
  every attempt or the file changes; and the end comes, unless the file is
  shorter than it was.
* `MessagesExact`, `WireIsAccepted`, `FrameQueueSpec` (ThWsData): what the handler is
  given is what the client sent, and what a client reads is what was queued.
* `RefsExact`, `SlotsAreLive` (ThFcache): hold up to the point where an assertion
  fails, which it does (section 4).
* `TableIsSound`, `LookupIsExact` (ThHandleMap): likewise while the table does not
  wrap.

### Fairness

* `ThPoll`: weak fairness of the loop's steps and callbacks' returns (the user
  keeps polling, the code is straight-line), of the scan and of the clock; strong
  fairness of `RunReactor`, because `poll()` may fail now and then (`EINTR`).
* `ThWs`: weak fairness of the handlers' returns and of the loop; strong fairness
  of each operation's completion by the world, which is what `ReactorNotStarved`
  and `StalledOnlyByRenewal` of `ThPoll` give an operation with a timeout, as long
  as a peer that reads nothing does not keep the shared timer alive by sending (a ws
  sends no files).
* `ThSsl`: weak fairness of the whole (straight-line code, and an operation that
  waits is made ready, times out or is cancelled, by `ThPoll`); strong fairness of
  the shuttle to the socket taking bytes (`Takes`), the peer's part: a peer that
  lets every send block for ever is a timeout, but one that does so only now and
  then is no excuse for bytes that stay.
* `ThConnection`: weak fairness of what the loop runs when it is due and of the
  socket taking some of what it is offered (`Progress`). None of what arrives: a
  client may stop writing.
* `ThListener`: weak fairness of callbacks and of `Deinit`; strong fairness of
  each connection's operation failing in the end: a client does not go on
  with requests for ever, and each operation has a timeout. None for the accept,
  which has no timeout.

## 4. Where the code differs from what it says

Checked by a run that finds the violation:

* **`th_ws.c:51`, `DestroyedIsQuiet`.** The connection is destroyed in the
  callback of one operation while the other is pending or its completion queued.
  The reactor, or the queue, keeps an operation in freed memory.
* **`th_hashmap.h:183`, `HandlesArePresent`.** The closing of a hole does not go
  around the end of the table: an entry of a run that wraps becomes
  unreachable. The hash of a descriptor is itself, so descriptors
  that are equal modulo the capacity are enough.
* **`th_ws_frame_parser.c:23`, `WholeMessages`.** A header that comes in pieces is
  first asked to have two bytes, then as many as these say. When more than two
  are kept already, `needed - header_len` wraps in the first of these questions
  and all that was received is copied behind them, beyond the header and perhaps
  beyond `header_buf`. `MessagesExact` leaves out what happens then.

Seen while modelling, stated in the models, without a run of their own:

* A part with a `Content-Length` is skipped by that length twice and the boundary by
  its own without the dashes (`th_multipart_parser.c:206`). It comes out right for a
  length of 4 before another part and of 6 or more in the last one; the tests that
  read such a part have a last one, of 6 and of 12 bytes. Elsewhere parts are lost or refused
  (`Misjudged`).
* A boundary directly behind a part's headers, without the empty content's own line,
  makes the rest of the body that part's content: 2 is taken from a position of 0
  (`th_multipart_parser.c:213`).
* An entry of the file cache that was evicted or found outdated while a response
  serves it stays in the map; the next lookup of its name erases it from a list
  it is not in, against the assertion in `th_list.h:72` (`th_fcache.c:93`;
  `broken` in `ThFcache`).
* The handler that should accept again when a client goes is given the task and
  takes it for the listener (`th_listener.c:122`; `Destroy` in `ThListener`).
* `th.h:398` says a WebSocket upgrade proceeds if the gate on the same path
  "returns TH_ERR_OK (or is absent)". Only a gate that returns the code 101 lets
  it proceed; one that returns `TH_ERR_OK` answers as any handler (`Respond` in
  `ThExchange`). And a gate that sets a body before it returns 101 has it sent,
  ahead of the first frame (`AnswerIsWhole` counts it).
* A handler that sets `Content-Type` or `Content-Length` in this spelling, which is
  the code's own, gets a second one beside it: the table of known headers has
  lower-case names (`th_response.c:81`, `:137` "Set the content type, if not
  already set"; `KnownIds` in `ThResponse`, `LengthKept` in `AnswerIsWhole`).
* The announced length of a response is cut to 32 bits (`th_response.c:221`), and a
  request's `Content-Length` wraps at 2^32 (`th_str.c:31`); one that is no number
  is answered with 500.
* A file that is shorter than it was when it was opened keeps its sendfile
  operation going without end, ready each time (`th_sendfile.c:43`; `OutputEnds`).
* `th_ring.h:57` has `TH_ERR_INVALID_ARG` for a message whose "total size alone
  exceeds max_len, retrying never helps"; it is returned for one that does not fit
  beside what is queued, too (`th_ring.c:82`; `Refused` in `ThRing`).
* A literal route segment spelled as the name of a capture in the same place is
  taken for the capture (`th_router.c:296`; `SameSegment`). A registration that
  fails leaves its first segments, which from then on take paths from others
  that would have matched, to a 405.
* A frame that announces a length near 2^64 passes the limit, because the sum
  wraps (`th_ws_frame_parser.c:79`; `Wraps` in `ThWsData`).
* An answer to the peer's CLOSE that cannot be queued is lost and the connection
  stays until something fails (`th_ws.c:83`; `ClosingEnds` starts from a queued
  frame).
* The CLOSE event may come before the peer's CLOSE (`th_ws.c:142`), although
  `th.h` describes it as following the handshake.
* The handle map's set fails silently (`th_poll.c:115`); a later removal fails its
  assertion (`untold` in `ThHandleMap`).
* The destruction of a replaced, outdated cache entry removes the slot of its
  name, which by then is another entry's: that one stays cached and is never
  found (`th_fcache.c:20`).
* A second `th_set_body_from_file` on the same response loses the first
  reference (`lost` in `ThFcache`).
* With no client and no memory the listener asserts that there is a client to
  wait for (`th_conn_tracker.c:51`; `crashed` in `ThListener`).
* The result of `th_buf_vec_resize` is not looked at (`th_http.c:310`, `:332`,
  `:359`; `short` in `ThHttp`).
* A handshake that comes with HEAD is upgraded: `th_http_prehandle_request`
  (`th_http.c:239`) makes a GET of it before `th_ws_is_handshake` looks, which
  is to find "a valid RFC 6455 upgrade request" (`th_ws_handshake.h:12`) and does
  refuse other methods (`th_ws_handshake_test.c:51`; `AsksForWebSocket`).
* A send over TLS takes each chunk out of the iov or the file before it is written
  (`th_ssl_send_op_fill`, `th_ssl_send.c:35`) and goes on with the next one whatever the engine took
  of it (`:26`). Partial writes are enabled (`th_ssl_session.c:33`), so with records
  shorter than a chunk, as a peer may ask for, the rest of the chunk is lost and the
  send ends well, although `th_ssl_send.h:22` promises one "until every byte has
  been written" (`Fill` and `Callback` in `ThSsl`; `ReportsExact` is about what is
  reported, which is what the engine took).
* An operation of TLS that has moved plaintext is done after one transfer of
  ciphertext, whole or not (`th_ssl_io.c:131`), against the same promise. What is left goes out with
  the next operation, or is lost when the connection is closed after its last
  answer (`OutputGoesFirst`, `behind` in `ThSsl`).
* For the same reason a large answer to a slow peer fills the write buffer, whose
  positions only go back when it is empty. A write that finds no room is an error
  (`th_ssl_session.c:119`; `starved` counts it only when the peer is not behind).
* Without memory for the write buffer the engine's output is held, nothing is
  pending, and the shuttle and the engine take turns without ever waiting
  (`Flushes` speaks of what is pending).

## 5. What is proved

The proofs are for every value of the constants under the assumptions the modules
state (`LoopAssumption`, `PollAssumption`, `HttpAssumption`, `SslAssumption`,
`ListenerAssumption`, `FcacheAssumption`, `WsAssumption`, `WsDataAssumption`), which
TLC evaluates in the runs of the same modules. They say that the limits are
natural numbers, the sets finite where something is counted, and special values none of the
ordinary ones. `WsDataAssumption` also says that the numbers of `size_t` go beyond the
limit of a message and the 14 bytes of the longest header, that the first chunk of
the send ring has a size, and that two digits are enough for a length up to `Len16Max`
(0xFFFF in the code) and eight for one up to the ring's limit.

### ThPollProofs

`TypeCorrect`, `QueueIntact` (`OnePlace`) and `CountExact` (`TaskCount`): for any
number of sockets and descriptors and any length of the vector.

The three are not inductive. What is missing is where the scan is and what runs.
`IInv` is `TypeOK`, the bounds of the scan (`ScanBounds`: `kept < cursor`, entries
reported on are a prefix of the vector, none outside the scan), which task
runs (`RunningTask`: one of `Tasks` in phase "task", the reactor's otherwise),
`OnePlace` and `TaskCount`.

The argument: every action changes the queue, the count and the slots through
`Complete`, `Wait`, `WaitFails` or a step of the loop. A lemma for each says
that from a state where the operation is not queued it leads to one where the
operation is in exactly one place and the count has moved by what the call
chain adds. `Cancel` posts up to two operations, which are distinct and
were in slots. The rest is what `\cup` and `\` of one element do to a
cardinality.

`NoneIsForgotten` (`PendingIsPolled`): the handle of every pending operation is open
and an entry for it survives the scan. By itself this is not inductive: an entry
that the scan drops must not have been another operation's. What is added is
`Distinct`, that no two sockets have the same open descriptor; then an entry names
at most one pending operation (`PollFdInjective`). The rest is where an entry
goes: a kept one moves down to `kept`, one that is pushed while the scan
goes on lies behind `cursor`, and the end of the scan cuts only between the two.

`ImplementsAsync`: the initial states of `ThPoll` are mapped to those of `ThAsync` and
each step to a step or a stutter. `Loop` and the reactor's own
bookkeeping stutter, `Complete` appends to the mapped queue, `Finalize` takes its head.
Needed of the mapping are two facts about the queue without the reactor's task
(`Others`): what appending a task does to it, and that it does not change when
the reactor's task leaves the front or comes to the back. With
`OnePlace` there is one such task, and this is where `QueueIntact` is used. The
fairness of `AsyncSpec` stays with TLC.

### ThHttpProofs

`TypeCorrect`, `RecvFits`, `HandlerSeesBody`, `HeadLimit`, `StaysInSync`,
`KeepsPromises` and `ImplementsSession` (the refinement of `ThSession`): for all
limits and all lengths of heads and bodies.

`IInv` adds to the checked properties what each place in the reading means for
the counters. Before the end of the head nothing was moved, and the recv asks
for the rest of the buffer. After it `parsed_bytes` and what was moved add up
to the head, and the recv asks for exactly the rest of the request, which fits.
While a response is written `close` and the announcement agree, and if the
connection is kept the request was read to its end (or the exceptions of
`InSync` apply). The buffer never exceeds the large limit but for a body. With
this each property is a consequence, and each action preserves it by
arithmetic on the counters.

`ThHttp`'s recv asks for at least one byte, so the session never mistakes a
full buffer for the end of the stream; that is part of `RecvFits`.

### ThSslProofs

`TypeCorrect`, `PlaintextExact` (`ReportsExact`), `OutputFlushed`
(`OutputGoesFirst`) and `RoomSuffices` (`RoomWhenNeeded`): for all sizes of buffers, chunks, records and transfers. The
one relation assumed of them is that a record fits into the write buffer.

`IInv` adds what each place of the operation means. Before a step of the engine
nothing is unreported and the operation is neither draining nor has a
result (`StepBegins`). While it shuttles, what is unreported is its result if it
is draining and nothing otherwise (`ShuttleHolds`). It shuttles or waits for
input only when the engine has no output left, in the buffer or held, and has
read all input (`FetchesLast`); hence the read buffer was reset and has room. A
success that is due reports what the engine moved, and the engine holds nothing
(`DueHolds`).

The lemmas are about the operators of a buffer (`Taken`, `Fed`, `Ensured` keep its
positions in order and reset them when empty) and about a call of the engine: from
an empty write buffer, with memory, it holds nothing.

### ThListenerProofs

`TypeCorrect`, `ServesAtMost` (`ServedBounded`), `AcceptPaired`
(`AcceptHasItsConn`), `DeinitIsClean` (`CleanDeinit`) and `ConnsKeepSession`: for any finite set of
connections, any limit, and an allocator that fails or not.

`IInv` ties three things the code keeps apart. `OneOperation`: the connections HTTP
works on are those with an operation under way or due, one each, so that a
callback finds the connection in the stage it was started in. `AcceptConn`: if an
accept is under way or due, exactly one connection is unborn, and otherwise none is
and a listener that runs has run out of memory; this is what a stop between two
polls, with an accept's completion queued, could break. `PhaseFits`: who
runs in which phase, and that a destroyed server has nothing under way. `LastFits`
says what of `ThSession`'s `last` is settled in each stage, without which the number of
those served could not be counted. The bound on that number is inductive with these.

`ConnsKeepSession` is the other half of `ImplementsSession`: `ThHttp` implements
the session, and the listener does nothing to a connection but what
the session allows.

### ThFcacheProofs

`RefsAreExact` (`RefsExact`), `SlotsStayLive` (`SlotsAreLive`) and `OnlyEvictedBreaks`:
for all names, blocks, responses and capacities.

Both invariants are about an unbroken cache: the assertion in `th_list.h:72`
can fail (section 4). `OnlyEvictedBreaks` says that this is the
only way: every step that breaks the cache looks up a name whose entry was evicted and
lives on in a response. So no reference is given back twice, no lookup meets an
entry that was freed, and a full cache has an entry to evict, whatever the order.

`IInv` is stated for a cache and the references `Outside` its list, so that it can be
said in the middle of a call, between two of the functions of the file: `Fit(c, h)`, where
`h` counts the references the caller and the responses hold. Each function has a
lemma that takes `Fit` before to `Fit` after with `h` changed by what it takes or
gives back. That the list holds an entry once (`IsInjective`) is needed because an
erase removes one place only.

### ThWsProofs

`NoFrameIsStuck` (`RingIsDrained`), `CloseIsLast` (`CloseFrameLast`) and
`KeepsContracts` (`ConnContract`): for any length of the queue and any number of frames in
a receive.

`IInv` says in which place (`pc`) which callback runs (`Placed`), that no receive is
under way where the next may be started (`Reads`), and that `sending` is set exactly
while a send is under way, from its start to the end of its callback (`Sends`). The
last is the one that matters: `th_ws_send` may be called in the handler of
the very send that has just ended, where the flag is still set and no operation is
under way. `Covered` relates the flag to the ring. A CLOSE is queued only together with
`closing`, after which `Send` refuses, and `Drain` only takes frames away.

### ThConnectionProofs

`KeepsSession` (`ExchangeSession`): whatever the parser, the router and the handlers come
to, the exchange goes through a session. The proof needs nothing of what
they compute but this: a response keeps its fields, so that the code that is
looked at is the code that was set (`Coded`), and `close` is not set while a request is
awaited nor when an upgrade is answered (`KeptOpen`). The latter holds because
`th_http_try_upgrade_ws` answers a handshake without a look at whether the request asked
to close, and no other answer has the code 101.

The other theorems of this module are about the WebSocket that follows. The argument is
in `ThWsDataProofs`, whose lemmas are about the steps of `ThWsData`; here they become
invariants of the connection, which takes a step of `ThWsData` or leaves its state alone.

### ThWsDataProofs

Two invariants, of what comes in and of what goes out.

`WsTypeCorrect` (`WsTypeOK`) and `MessagesAreLimited` (half of `MessagesExact`): for all
sequences of frames, all ways to cut them into receives and all limits.

`Receiving` says what the parser may hold: bytes of the client's frames in its
header, the types of the rest, that no more of a payload was read than it has, and, until a byte is lost,
that the message kept and what is still to come of the frame under way
(`Expected`) fit the limit together. The limit is checked at the end of each frame's
header only, in 64 bits; the last conjunct is what carries the check over the
frame's payload, which may come in any number of pieces. A control frame in between
has a payload of its own that does not count. Each step of the parser has a
lemma (`HeaderStep`, `PayloadStep`) that leads from a parser that `ParserFits` to one that
does. `FillType` is about the unsigned difference in
`th_ws_frame_parser_fill_header`, which is a large number for a header that is
longer than needed.

`SentAsAccepted` (`SentInOrder`: what is on the wire is the bytes of the frames that were
accepted, up to some place, and all of them when no send is in flight) and `RingBounded`
(`RingIsBounded`: the ring's length is within its limit, covers what is not on the wire, and
is zero when nobody sends): for all frames, sizes of the first chunk, limits, failures of
the allocator and partial sends. From the first follows `ReadAsAccepted`
(`WireIsAccepted`): a client that finds its way by the headers reads the same frames.

`SendPath` says what `ring`, `sendOp` and `wire` have to do with `accepted`. All bytes
accepted are those that have left the ring (`from`) and those the chunks hold, chunk by
chunk (`Queue`). While a send is in flight, it is of the first `header` bytes of the first
chunk, `pos` of them are done, and `wire` is `from` with these (`InFlight`, `OpOf`: the
iov is what is left of them, one run or two around the end of the buffer). Otherwise
`wire` is `from` and there is nothing in the ring but an empty chunk that is kept
(`Out`). Only the last chunk may be empty, and only if it is the first (`Ringed`), which is
what lets `th_ring_write` retire it.

The argument goes along the calls. `ChunkWritten`: a write moves nothing that a chunk holds,
whether or not it wraps; the bytes behind the tail were free. `RingWritten`: a message
goes behind what waits, and a first chunk that a send points into keeps its address, its head
and what it held (`SameHead`), so the send still reads the same (`StillInFlight`), though
more is written behind it or into a new chunk. `RunsConsumed` and `CellsOfRuns`: after n
bytes the iov is what an iov made for the rest would be, and shows the cells of the
chunk in order. `AttemptIs`: so what the socket takes is the next n bytes held.
`RingConsumed`: what was sent leaves, with the chunk freed or kept.

Reading (`ReadAsAccepted`, whose lemmas are in `ThConnectionProofs`) is decoding, step by
step along the frames. `DigitsRead`: the digits
`th_ws_frame_header_write` takes from a length come back to it, if nothing of it is left
behind them (`Shifted` is zero); the limit on the ring sees to that, since no frame in it
can be longer (`AcceptedFit`, the invariant added here). `EncodedTells` and `WholeIsRead`: in each of the
three forms the header tells the type and the length, and where the frame ends.
`PartIsLeft`: of a frame the wire has only a part of, nothing is read, even if its
length is not all there yet. `FramesLaid` says where the frames lie in the bytes, and
`ReadLaid` that `Read` goes from one to the next, as far as they are whole. That the
function `Read` is defined by exists is shown by giving it: the ends of the frames.

What an iov and its length are is defined with folds. Where the proofs need one, it is the
value for one or two runs, or for sequences of any length an induction over the set of
lengths it holds for (`LeastNat`, `UpTo`).

### Only model-checked

Liveness and everything under fairness, and `ENABLED`: beyond TLAPS here. This
includes the fairness half of `AsyncSpec`.

`TableIsSound` and `LookupIsExact` (ThHandleMap) do not hold for all values of the constants:
`MCThHandleMapSpread` refutes them for descriptors whose runs go around the
end of the table, and what would have to be assumed of the descriptors to exclude
it is the property itself.

`RequestIsWritten`, `RouteIsMeant`, `AnswerIsWhole` (ThExchange), `MessagesExact`
(ThWsData, beyond the limit), and the refinement of `ThFrameQueue` by `ThWsData`, compare
what folds over texts, trees and frames compute with definitions that are recursive
themselves: induction over data, for which the installed provers have no rule. (Where
`ThWsDataProofs` needs one over numbers, `UpTo` is it, with a set for the predicate.)

## 6. The plan

Done, in this order: the loop and the reactor with their abstract specification
(everything depends on them), WebSocket, cache, hash map, HTTP, listener, TLS; the
proofs of the reactor's safety, of HTTP and of TLS; transfers, request parser with
bodies of several parts, router, response, ring and frame parser, and their composition; the proofs about the
reactor's vector and its refinement of `ThAsync`, the listener, the cache, the WebSocket and the
session of an exchange, the frame parser's types and limit, and the bytes of the send ring.

Next, in this order:

1. TLS with an operation in each direction, for WebSocket: there a receive that has
   ciphertext to send submits to the slot a send may hold (`th_poll.c:183`).
2. `ThPool`: the pool and arena allocators. `ThText`: file paths, with the directory
   manager.

## 7. What is not modelled, and why

* System calls, address resolution, file I/O: the kernel's choice.
* TLS contexts, the making of sessions and OpenSSL itself: straight paths and a
  library.
* The digest of the WebSocket handshake, cookies of responses, formatting, dates,
  logging, error texts, MIME and header tables generated by gperf: pure text with
  no state.
* File paths and the directory manager, allocators: planned
  (section 6).
* `src/th.c` and `src/th.h`: the same code in one file.
* `th_server_init` and several listeners: a straight path and independent copies.
* Examples, benchmarks and the test harness.
