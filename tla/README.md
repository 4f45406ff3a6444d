# A verification project for stw

`stw` is a C++ library for web applications: a multi-threaded HTTP server on an
epoll (kqueue, WSAPoll) poller, a web socket, an HTTP client, sessions, a file
cache, a router, a template generator and the small system classes under them.
This directory holds TLA+ models of it, the TLC configurations that check
them on small instances, and TLAPS proofs of the results that matter most.
Paths below are relative to the repository (`http_server.cpp` is
`stw/src/stw/net/http_server.cpp`, `queue.hpp` is
`stw/include/stw/system/queue.hpp`, and so on).

## The system

Inside a server process:

```
 signal ──> isRunning
              │
 clients ──> run(): accept ── queue<socket,1024> ──> worker_update (one per core)
                              (lock free, SPSC)        │  poller, contexts, clean-up
                                                       │  on_read / on_write
                                                       │
                                body > 128 KB ── thread_pool ──> process_request
                                                                  │ finalize_request
                                                    poller, isLocked <──┘
```

Beside the server stand classes a program uses on its own: `web_socket` (one
thread of the program, one peer), `file_cache` (any thread, under a mutex), the
poller as a class, sockets as owners of descriptors, and functions without
state: text, URIs, routes, templates, configuration.

| Component | State it keeps | Operations | What is hard | What makes it correct |
|---|---|---|---|---|
| `queue.hpp` | ring, atomic `head`, `tail` | `enqueue`, `try_dequeue` | weak memory: a load may be stale, a slot is plain memory | no race on a slot; a bounded FIFO |
| `thread_pool.cpp` | task queue, mutex, condition variable, `stopFlag`, `activeThreads` | `enqueue`, `is_available`, worker loop, destructor | lost wake-ups, a counter updated outside the lock, a destructor that takes no lock | every task runs once; a worker sleeps only when it may |
| `http_server.cpp`, connections | `isRunning`; per worker a queue, a poller, `contexts`, `stopFlag`; per connection `isLocked`, `requestCount`, `lastActivity` | `run`, `worker_update`, `on_read`, `process_request`, `finalize_request`, `send_response`, `on_write` | two threads on one connection, recycled descriptor numbers, events older than what they are applied to, shutdown | one user of a context at a time; tables own their descriptors; nobody forgotten, nothing leaked; zombies collected |
| `http_server.cpp`, conversation | `requestBuffer`, `responseBuffer`, `headerBytesSent`, `response.content`, `closeConnection` | the same, seen by one client | any segmentation of the bytes, partial writes, content that cannot be rewound, pipelining, keep-alive rules | responses whole and in order; requests cut out right; persistence as announced |
| `poller.cpp` | kernel interest set or `pollFDs` and its copy, wake-up descriptor | `add`, `modify`, `remove`, `notify`, `wait` | three implementations of one interface; called from two threads | no wait sleeps over an event; what stays ready is reported |
| `http_stream.cpp` | bytes that came with the head, socket | `read`, `read_as_string` | order of the two sources, stale `errno` | the body, once, in order |
| `http.cpp` | request and response records | `http_request::parse` | hostile or cut input, state kept from the last request | a request equals what was sent |
| `socket.cpp`, `ssl.cpp` | descriptor, TLS context and handle | create, move, accept, connect, close | ownership when moved or failing half-way | each descriptor closed exactly once |
| `web_socket.cpp` | socket, role, fragments | handshake, `receive`, `send`, `close` | fragmentation, control frames in between, masks, a write that stops inside a frame, a peer that misbehaves | messages whole and in order both ways; the status code echoed |
| `http_session_manager.cpp` | session map, shared mutex, file | `start`, `destroy`, `cleanup`, `save_state`, `load_state` | readers that write, clean-up, a crash while saving | sessions live as long as promised and end for good; a saved state loads, whole or not at all |
| `file_cache.cpp` | map of file contents | `read_file` | files that change during a call, clocks set back | nothing older than the call is served |
| `http_router.cpp`, `http_controller.cpp` | ordered routes | `add`, `process_request` | the order of the routes | the first match decides, whatever follows |
| `http_client.cpp` | libcurl handle, header list | requests | clean-up on each error path | handles freed once |
| `stream.cpp` | position, data or file | `read`, `write`, `seek` | buffered writes that fail late | see `SessionState`, `HttpConversation` |
| `templ.cpp` | tokens, included files | `create_templates` | nesting of tags, directives in text | every token reaches the output once, in its language |
| `string.cpp`, `ini_reader.cpp`, `http_config.cpp` | none, or fields | decode, validate, load | boundaries; bytes that are no UTF-8; a load that fails half-way | decoders undo encoders; all UTF-8 passes; a file reads back as written, or as far as it goes |
| `crypto`, `file`, `directory`, `runtime`, `signal`, `date_time`, `arg_parser`, `stringstream` | little or none | wrappers and formatting | - | not modelled, see below |

`PROJECT.json` lists each component with its status, every hazard with the line
where it bites and the properties that watch it, and for every definition the
lines it models.

## Modules

| Module | What it is |
|---|---|
| `SpscQueue` | the ring of `queue.hpp`, one action per load, slot access and store |
| `BoundedFifo` | what the ring promises; `SpscQueue` implements it |
| `ThreadPool` | `thread_pool.cpp` with its callers and its destructor |
| `HttpServer` | acceptor, workers, pool threads, clients, kernel descriptors |
| `HttpConversation` | one connection, seen by its client |
| `SessionManager` | sessions in memory: `start`, `destroy`, `set_value`, invalidation, clean-up |
| `SessionState` | `save_state` and `load_state` on a `file_stream`, with kills and failures |
| `Checkpoint` | what the two promise together; `SessionState` implements it |
| `WebSocket` | the message layer of `web_socket.cpp` against an RFC 6455 peer |
| `Poller` | `poller.cpp`: epoll, kqueue and WSAPoll behind one interface |
| `FileCache` | `file_cache.cpp`, with files and a clock that move under it |
| `Sockets` | who owns which descriptor: `socket.cpp`, and the handshakes of `web_socket.cpp` |
| `Strings` | `string.cpp`, and the URI functions of `socket.cpp` and `web_socket.cpp`: validation, decoding, cutting, URIs, numbers |
| `Documents` | `templ.cpp`, `ini_reader.cpp`, `http_config.cpp`, `http_router.cpp` |
| `Library` | composes these six, and states what the functions owe their callers |
| `SpscQueueProofs`, `ThreadPoolProofs`, `SessionManagerProofs`, `SessionStateProofs`, `HttpServerProofs`, `HttpConversationProofs`, `WebSocketProofs` | theorems about the module each is named after; `WebSocketProofs` also about the functions of `Strings`, which `WebSocket` extends |
| `LibraryProofs` | theorems about `Poller`, `FileCache`, `Sockets`, the functions and the router; `Library` implements the parts' specifications, and so keeps their theorems |
| `MCHttpServer`, `MCSessionManager`, `MCSessionState`, `MCLibrary` | symmetry sets, messages and texts for TLC; the other modules are checked as they stand |

### SpscQueue and BoundedFifo

`headMO` and `tailMO` are the modification orders of the two atomics: the
sequence of all values ever stored. A relaxed load by the only storing thread
returns the last store. An acquire load by the other thread returns *some* store
not older than the one it read last (`WeakLoads = TRUE`, what C++ allows), or
the newest (`FALSE`). `headSeen` and `tailSeen` are how far each thread has
read; reading a store synchronises with all that precedes it, so "every former
value of the slot was released by a store I have read" is the absence of a data
race, stated as `NoSlotRace`. The refinement mapping reads the
abstract queue's items out of the slots themselves, so a value overwritten too
early would show as a wrong item. With stale loads a call may fail although it
could succeed; `BoundedFifo` has the constant `Spurious` for that, and nothing
else changes.

### ThreadPool

One action per step between two accesses to shared state. The two parts of
`cv.wait` that matter are apart: the predicate is tested with the mutex held
(`TestTrue`, `TestFalse`), then releasing the mutex and joining the wait set is
one step (`Block`). `enqueue` notifies after it has released the mutex. The
destructor stores, notifies and joins without the mutex. Spurious wake-ups are
possible at any time. `Take` has only the guard the code has.

### HttpServer

A worker's pass is cut into wait, clean-up (one connection per step), adoption
(one socket per step) and one step per event, with handlers and writes in
between, because the acceptor, the pool's threads, the clients and the clock
may act there. Descriptor numbers are reused, lowest first, as the kernel does;
`contexts` and `events` are keyed by number, as in the code, so an event can
outlive its connection. Each event remembers in `of` whose it was; no action
reads it, only `ClosedForAReason` does. `ctx[c]` is the `http_context`: `locked`
is `isLocked`, `count` is `requestCount`, `age` the ticks since `lastActivity`,
`closing` is `closeConnection`, `reply` the parts of the response not yet sent.
`cleanAge` counts the ticks since `lastCleanup`. Whether a read yields nothing,
part of a head, a bad head, a small or a large request is chosen when the bytes
are read; whether the socket has room is chosen when the worker waits. A task
that is still in the pool when `run()` has returned would use a destroyed
worker: the model stops the pool there. `Terminate` is the end of the process by
an exception that nothing on a worker's thread catches: `on_write` throws one
when it rewinds a file whose end was read (see Findings).

### HttpConversation

Bytes in units, in both directions. `Deliver` cuts the client's bytes into
segments, `ReadPart`/`ReadHead`/`ReadTooMuch` are what `on_read` does with what
one `recv` returns, `HandlerRead` is `http_stream::read`, `KeepAlive` and
`Announces` are the rules of `process_request`, `WriteHeader`, `WriteContent`
and `Finish` are `on_write`. The content is read from a stream in memory or from a
file: a file whose last read was short (`Chunk`) cannot be rewound any more
(`SeekThrows`), so that a partial write of this chunk ends the process, which is
`phase = "terminated"`. What the client has then is still a beginning of the
responses, and `ResponsesIntact` says so; that it does not get the rest is the
finding `HttpConversationFile`. `aligned` records whether a handler left part of a
body unread or bytes arrived behind a body; the code then loses them or takes
them for the next request, and `Framed` promises nothing from there on.

### SessionManager

`start` is cut where another thread can come between: the count, the clean-up,
the store of 0, the look-up (the shared lock is taken and the clock read), the
test, the store of `expires`, the creation and the insertion. `Readers` are the
threads that hold the shared lock; whatever takes the unique lock waits for
`Readers = {}` and is one step. Time is relative: `left` is `expires` minus now
and every `Tick` lowers it; `lag` is the age of the instant a thread has read,
at most `Delay`, so that what is said of lifetimes says how long a call takes.
`issued`, `promised` and `uncleaned` are history. `get_id`, `get_value` and
`key_exists` change nothing and have no action. `create_id` never returns an id
twice (128 random bits); `Unassigned` keeps the threads from starting more calls
than there are ids left.

### SessionState and Checkpoint

Fields instead of bytes. A write goes into the stream's buffer, which reaches
the file in whole fields, when and as far as it likes (`Flush`), at the seek
(`Rewind`) and at the destructor (`Close`). `Fail` is a write, the seek or the
destructor failing; `Crash` kills the process and starts a new one. What the
kernel has been given stays in the file: a power failure is not modelled.
`ReadRecord` is one pass of the loop of `load_state`, `Reading` the loop, `Stored`
what it would find now.

`Checkpoint` has no file: a save makes a checkpoint of the sessions in one step
(`Save`), while they do not change, or gives up; `found`, what a load would find
now, is at every moment all that has not expired of it. `ImplementsCheckpoint`
maps the checkpoint to the sessions of the last save if that was carried to its
end, and to none otherwise, and `found` to what `load_state` would read from the
file (`Stored`). `Close`, the write of the number by the stream's destructor, is
where the save takes effect; every write before it is a stutter.

### WebSocket

`send` writes one frame a step; `receive` is one step per pass of its loop, so
that the peer, and the end of its stream, come between any two frames.
`message` is the local variable in which `receive` collects fragments: it is
reset wherever the function returns. A write fails when the
peer has gone, and on a socket that does not block when its buffer is full:
`NotSent` writes nothing of the frame or a part of it, and after a part
(`broken`) the peer reads what it cannot make out (`PeerMisreads`), since nothing
tells the next call of `send` where the last one stopped. `receive` does not look
at what came of the answers it writes, which fail in the same way (`Answered`).
`FragmentsOf` is how the peer cuts a
message; a frame may arrive in two parts (`whole`), pings and malformed frames
come anywhere (a control frame's payload has up to `MaxControl` bytes, 125 in the
code, and one more when it is malformed), the peer fails a connection on which
fragments come out of place, may die and take what is under way with it. Masks are a
flag: `veiled` says whether a payload is masked now, applying a mask twice
restores it, and a payload read while veiled is garbage, which is how the
masking in place of `write_frame` shows. The payload of a control frame that `onReceived`
is handed (a client's answer has masked two bytes of it by then,
`web_socket.cpp:711`) is left out. SIGPIPE is taken as ignored, as
`http_server.cpp` does. The model starts where a handshake that succeeded leaves
the object. No sequence of calls gets there in this commit (see Findings), so
these results say what the layer does once the handshake is repaired.

### Poller

`interest` is the kernel's set, or `pollFDs`; `workingSet` and `dirty` are the
copy that `WSAPoll` is given. One thread waits and changes registrations between
waits; another changes them at any time and then calls `notify`, as the pool's
threads do in `finalize_request`. Waits have no time limit in the model: with
the server's limit of a second nothing would ever sleep for good, and the
question whether `notify` is needed, and enough, would go away. `remove` of
kqueue leaves a registration for writing alone where it is, since the call that
is to delete both filters ends at the one for reading that is not there. Error
events are left out.

### FileCache

`read_file` holds the mutex throughout, so one call is under way; its steps are
those between which another program can change the file: the test that it
exists, the reading of its time, of the clock, and of its bytes. Contents are
version numbers. The file may be replaced, removed, and come back; the clock may
be set back. Two versions with one time cannot be told apart by any cache that
compares times: `ServedFresh` excludes them.

### Sockets

Objects of `socket` and `web_socket`, and the kernel's descriptors. A call is
one step, with a failure of any part of it as an outcome. `overwritten` collects
what move assignment drops; `HandlesOwned` shows that nothing else is lost. The
header of a handshake arrives whole, as a sequence of fields, and
`generate_accept_key` is an injective function of the key.

### Strings, Documents and Library

Texts are sequences of character codes, as the functions compare and take apart
characters; templates are sequences of tokens, routes match sets of paths. The
functions are operators, and `Library` states each property against a
definition that owes nothing to the code: the characters of UTF-8 as RFC 3629
has them (`Utf8WellFormed`), every way to encode a character in a URL, with
digits of either case, the parts a URI was put together from, the lines a
configuration was written to. `Utf8Shaped` is the weaker rule that `is_valid_utf8`
does enforce. An unsigned number is read as `operator>>` reads it: behind blanks
and a sign, up to the first character that is no digit; a negative one counts
from the end of what the field can hold.
`load_from_file` assigns the strings first and then number by number, so that a
number that is refused leaves what `operator>>` has stored and those behind it
untouched. Tags are replaced in a number of passes, since for a
file that includes itself the code does not end. `FilesAssumption` says that no file
does, directly or through others, and that `MaxPasses` passes replace any tag with
all that its file brings; `IncludedRight` proves that the passes `TemplatesAgree`
allows for a template are then enough, so that the bound cuts nothing short. `replace` is defined for a target that is not
empty, for the same reason.

The six parts share no state. `Library` puts them side by side: `part` says which
one a behaviour is about, the others stand still, and a text is an initial state
of its own.

## Runs

| Run | Shows | Size |
|---|---|---|
| `SpscQueue` | `NoSlotRace`, `ImplementsFifo` (FIFO with spurious failures) under stale loads; `EveryValueLeaves` | 4 slots, 6 stores (a turn and a half), 2 values |
| `ThreadPool` | `ExactlyOnce`, `CountHonest`, `NoLostWakeup`, `TasksComplete`, `ShutdownCompletes` | 3 workers, 2 callers, 3 tasks |
| `HttpServerConnections` | `OneUserAtATime`, `NobodyForgotten` | 1 worker, 1 pool thread, 2 connections at once |
| `HttpServerWorkers` | `TablesOwnDescriptors`, `NoDescriptorLeak`, `ClosedForAReason`, with aborts and the stop signal | 2 workers, 2 connections on 1 number |
| `HttpServerLive` | `LocksReleased`, `RequestsAnswered`, `ZombiesCollected`, `ShutdownReturns` | 1 worker, 2 connections on 1 number |
| `HttpServerZombies` | violated: see Findings | 1 worker, 2 connections at once |
| `HttpConversation` | `ResponsesIntact`, `Framed`, `PersistenceHonoured`, `EveryRequestAnswered` | 2 requests, heads of 2 units, bodies of 0 or 2, contents of 0 or 4, buffer of 3 |
| `HttpConversationFile` | violated: see Findings | the same |
| `SessionManagerSafety` | `NotCutShort`, `CleanupDue`, `EndedForGood`, `ExpiredForGood` | 2 threads, 4 ids, `MAX_AGE_SECONDS` 3 ticks, threshold 2, calls of up to 1 tick |
| `SessionManagerInvalidate` | violated: see Findings | 1 thread, 1 id, 2 values |
| `SessionStateCrash` | `AllOrNothing`, `ImplementsCheckpoint` | 2 sessions, 2 keys, 3 instants |
| `Library` | `MessagesInOrder`, `MessagesArrive`, `SentInOrder`, `CloseEchoed`; `NobodySleepsThrough`, `ReadyReported`; `ServedFresh`; `HandlesOwned`; `StringsAgree`, `Utf8Validated`, `TemplatesAgree`, `ConfigLoads`, `FirstRouteDecides` | see below |

The bounds of `Library`: the two ends of a web socket send two messages in all
(`MaxMessages`), of the application's three (one whole chunk of two bytes, a chunk
and a part of another, a close frame), one begun when the peer has read what went
before, and of the peer's three (one of two fragments), with one
ping or malformed frame, a close frame, and one frame under way; one descriptor with three
conditions and two notifications; one file of 3 versions, a clock of 3 ticks,
ages of 0 and 1; 2 sockets, 2 web sockets, 3 descriptors; every text of up to 4
bytes over 10 values for UTF-8 (leading bytes of each length, and those overlong
forms, surrogates and code points that are too large begin with), 3 encoded
characters, 4 characters to cut, 4 template tokens and files that nest two deep
(`MaxPasses = 6`), configurations of a number of 16 bits, one of 32 and a string,
each there or not, with numbers at and beyond the limits, signed, behind blanks,
before other characters, or none at all; up to three routes, which match the path
or not, for a method or for a controller.

Why these bounds are enough to be of use. The ring has one free slot, so 4 slots
let it be empty, partly full and full, and 6 stores wrap both indices. Two
workers race for a task and for a notification; the third lets one sleep
meanwhile. In the server the hazards need two connections (one in the pool while
the worker serves the other, or one that inherits the other's number), two
workers for a number that moves between epoll sets,
`QueueCapacity = 1` to make a queue full, and `MaxRequests = 2` for a first and
a last request on a connection. `KeepAliveTime = CleanupPeriod = 0` means that
one tick makes a connection overdue and a clean-up due; as ticks come at any
moment, this loses no order of events. In the conversation, `MaxHeaderSize = 3`
and a buffer of 3 with heads of 2 lets bytes of a body be counted as head, and a
content of 4 needs two chunks, the second one partial.
With sessions, 4 ids let both threads replace a session that has ended, and a
`Delay` of 1 makes one call store an older instant after another's newer one; a
threshold of 2 is the least that makes counting and resetting race. Two sessions
of up to two settings are the least that can be saved, or loaded, in part; three
instants let a session expire between the save and the load.
For a web socket, two messages are the least that have an order, that let one
begin where another was given up half-way, by a `receive` that returns between
its fragments or by a write that fails inside a frame, and, one from each end, that
make `receive` answer in the middle of what the application sends. One extra frame falls
between any two others; more extras repeat that. What the bounds leave out, more
frames under way and messages of more chunks, is in the proofs. One descriptor is
enough for the poller, whose registrations do not influence one another but
through `dirty` and the results' index. Three versions let a file change twice
during one call. Two sockets and two web sockets give every pair of objects that
a call connects, three descriptors let one be left over and the last one run out.
Every bound is a CONSTANT; none is used as a state constraint. Symmetry is used
only in runs without liveness properties.

Deadlock is not checked where the system really stops: the pool after its
destruction (and when its destructor loses the race below), the server after it
returned, the conversation after the close, a web socket after its close, the
descriptors when they are used up, a text. The other runs check it.

### Fairness

*Ring:* a worker drains its queue on every pass of its loop, and a call once
begun goes on; a store becomes visible to the other thread in a finite time, so
a consumer that keeps looking finds it (strong fairness of `DequeueSome`);
nothing makes the producer call. *Pool:* runnable threads are
scheduled and tasks return; callers, the destructor and spurious wake-ups are
under no obligation. *Server:* every worker, pool thread and the acceptor (but
not the arrival of clients) is weakly fair, since `wait` has a timeout of a
second and handlers return; time passes. Clients need never send, read or
close. *Conversation:* a client that has begun a request goes on with it and
reads what it is sent. *Web socket:* the program goes on calling `receive`, whatever else
it calls in between (strong fairness of `StartReceive`, which is disabled while
another call is under way), and calls return; a peer sends what it has begun and reads, until it dies, which it
may do at any time. *Poller:* a worker waits again and again, and who changes a
registration goes on to `notify`.

`ShutdownCompletes` is conditional: between the destructor's store and its
`notify_all` a worker that has just found nothing to do, but is not yet in the
wait set, misses the notification, and `join()` never returns.

### Findings

* `HttpServerZombies`: `on_write`'s header loop (`http_server.cpp:467-494`)
  handles a failed `write` only if the error is EAGAIN. When the client has
  aborted, it calls `write` again for ever; the worker serves none of its
  connections again and never cleans up, against the comment at line 323 that
  zombie connections "don't stick around for too long". `HttpServerLive`
  therefore assumes clients that do not abort.
* `SessionManagerInvalidate`: `invalidate_sessions_with_key_and_value`
  (`http_session_manager.cpp:192`) ends every session that has the key; its
  parameter `value` is never used.
* `HttpConversationFile`: a `file_stream` whose last read was short has `eofbit`
  and `failbit` set (`stream.cpp:63`), and `seek` throws (line 104). `on_write` seeks to "the
  exact byte where the socket stopped" (`http_server.cpp:527`) after a partial
  write, and no function on the worker's thread catches that: a file whose last
  chunk does not fit into the socket ends the process (`ResumesWhereStopped`).

Not a run, but proved:

* `MoreThanUtf8` (`WebSocketProofs`): `is_valid_utf8` counts continuation bytes and
  no more. It takes overlong forms for UTF-8 (and surrogates and code points above
  0x10FFFF), where "According to RFC 6455 we need to verify if text opcodes contain
  valid UTF-8" (`web_socket.cpp:726`).
* `NoHandshakeSucceeds` (`LibraryProofs`): no web socket gets connected, against "Web
  socket implementation for client and server" (`README.md:7`). `socket::connect`
  returns false unless `s.fd` is less than `INVALID_SOCKET_HANDLE`
  (`socket.cpp:246`), which it never is; `web_socket::accept` reads the header of the
  request from the listening socket (`web_socket.cpp:457`) and answers 400 to every
  client.

Met on the way: a Connection header of a response does not take
precedence, as the comment at `http_server.cpp:374` has it; `KeepAlive` of
`HttpConversation` has its value overwritten as line 388 does.

What is hazardous but contradicts no text: the
clean-up cuts a response that takes longer than the keep-alive time, a stale
hang-up can close the connection that inherited a number (the last disjunct of
`ClosedForAReason`; without it TLC finds the behaviour), body bytes count
towards `maxHeaderSize`, the last response allowed announces keep-alive.
No property covers (the `note` of each in `PROJECT.json` says why): the moment between the
taking of a task and its being counted (`thread_pool.cpp:76`); the notification
of the destructor that is lost (line 40), which is the condition of `ShutdownCompletes`; a
handler that does not return (`http_server.cpp:304`); a task of the pool that outlives its worker
(line 293); the last response of a connection, which does not say so (line 393);
bytes behind a body, or a body left unread (line 264), from where on `Framed` promises nothing; a stop signal before `isRunning` is set (line 74);
`hardware_concurrency()` of 0 (line 103); a stale `errno` in
`http_stream::read_as_string` (`http_stream.cpp:106`); settings stored in the
request that creates the session (`http_session_manager.cpp:145`); a save that
fails in the destructor of its stream (line 274), a load that fails after it
dropped the sessions (line 287); a header that arrives in pieces
(`web_socket.cpp:1027`) or is shorter than four bytes (line 1012); two threads
that write frames (line 890); `close` on a silent peer (line 546); the payload of a close frame that `onReceived`
is handed; a descriptor that move assignment overwrites (`socket.cpp:226`), which
`HandlesOwned` sets apart; a registration that kqueue does not remove
(`poller.cpp:189`), and the table by which it merges two results (line 230); the pointer
returned by `read_file` after the unlock (`file_cache.cpp:67`) and two versions
within one tick (line 41); a descriptor added twice to `wsa_poller`
(`poller.cpp:326`); malformed escapes in a URL (`string.cpp:156`) and `replace` with an empty target (line 369); a template
that includes itself (`templ.cpp:138`) or leaves a block open (line 264).

## Proofs

TLAPS proves the following for every value of the constants that satisfies the
named assumptions.

`SpscQueueProofs` (from `SizeAssumption`: a positive power of two;
`ValueAssumption`; `BoundAssumption`):

* `TypeCorrect`, `IndicesSynchronised`, `SlotRaceFree`. The
  invariant is `TypeOK /\ Synchronised`. That no slot is raced for is not
  inductive: that a slot is free follows from how far the *seen* indices may be
  apart, and that from `Len(tailMO) - headSeen <= Size - 1` and
  `Len(headMO) <= tailSeen`, which every step keeps. The arithmetic of indices
  modulo `Size` is in the lemmas `ModUnique`, `ModSucc`, `ModInj`, `ModTurn`.
* `RefinesFifo`: `Spec => Fifo!Spec`. `EnqueuePublish` maps to `Put`,
  `DequeuePublish` to `Take`, failures to `Refuse` and `Miss`, the calls to the
  calls, all else stutters. `ItemsUnchanged` says that writing a free slot does
  not change the items.

`ThreadPoolProofs` (from `PoolAssumption`: finite sets of threads):

* `TypeCorrect`, `TasksOnce`, `PopsSafe`, `CounterExact`, `WakeupsKept`. The
  inductive invariant adds to the properties `Exclusion` (who is inside the
  mutex; who sleeps; a worker about to block has seen an empty queue, and it
  still is) and `Submission` (which threads hold a task, and no two callers the
  same one). `WakeupsKept` needs it: only `Block` makes a worker sleep, and it
  does so while the queue is empty; from then on each push brings a
  notification, each notification a worker, and each pop uses up one worker and
  one task. `WorkersCount` and `CallersCount` are the counting facts.

`SessionManagerProofs` (from `SessionAssumption` and `NoSessionAssumption`):

* `TypeCorrect`, `SessionsKept`, `EndedStay`, `ExpiredStay`, `CleanupsDue`. The
  invariant `IInv` adds to `TypeOK` and `NotCutShort` what a thread knows
  (`Known`: a thread about to extend a session holds the shared lock on one that
  was unexpired at the instant it read; ids under way are nobody else's) and
  `Budget`. `CleanupDue` is not inductive: `Budget` relates the requests since
  the last clean-up to the counter and to the threads that wait to clean up or
  to reset. A thread that resets the counter late hides at most `Threshold - 1`
  requests, and each thread does so at most once between two clean-ups; a thread
  that waits to clean up stands for `Threshold` of them.

`SessionStateProofs` (from `StateAssumption`: the keys are finitely many, so that a
session can be written at all, and `MaxTime` is a natural number):

* `TypeCorrect`, `AllOrNone`, `RefinesCheckpoint`, for any number of sessions and settings,
  from `Invariance`, whose `IInv` adds two parts to the types:
  * `Saving`: while a save is under way, file and buffer together are a first field
    of zero and, behind it, the records of the sessions that were saved so far
    (`Layout`); the number waits in the buffer only once the records are all in the
    file.
  * `Saved`: a save that was not carried to its end, for whatever reason, has left
    no file or a first field of zero; one that was has left the number and that
    many records of `snapshot`. A spill of the buffer, of any length, keeps both.
* `Layout` says that there are places, ids and orders of the settings with a
  record at each place (`Holds`) and the next one right behind it. A record more is
  `LaidMore`, the number written over the zero `LaidFirst`.
* That `load_state`, which works these places out one by one, finds the sessions
  again is `Finds`. It is by induction on the number of records, and `Reading` is
  a recursive function: both are made of least counterexamples (`LeastNumber`).
  `ReadingIs` shows that there is a function with the equation of `Reading`;
  `RecordFound` that a record that is there is read, with its settings in any order.
* `RefinesCheckpoint` is `NextAtomic`, one step per action, from the same
  invariant: `Saving` has the sessions unchanged since the save began when `Close`
  makes them the checkpoint, and `StoredIs`, before the step and after it, that
  the file holds what has not expired of the checkpoint.

`HttpServerProofs` (from `ServerAssumption`: there is a worker, connections are
finitely many, descriptors and limits are natural numbers):

* `TypeCorrect`, `TablesOwn`, `OneUser`, `NoneForgotten`, `NoLeak`,
  `ClosedWithReason`, all from `Invariance`, whose `IInv` is the conjunction of
  the types and four layers:
  * `Ownership`: every open socket has one descriptor number and no other open
    socket has it; it is in exactly one place (with the acceptor, in a queue, in
    one worker's table); workers and tasks refer to connections of the worker
    they belong to. The steps that matter are `accept`, which takes a number that
    was closed a moment ago, and `close`, after which events still carry it.
  * `Locking`: `isLocked` is set exactly while a handler or a task has yet to
    clear it, there is one such user, and the others that touch contexts (the
    clean-up, an event) have found it clear in the same step. Without the
    "exactly" a task could clear the lock another one has set.
  * `Interest`: a connection that nobody has locked is registered for reading,
    or, when part of a response is left, for writing. Registrations are made by
    pool threads too, after the response is there and before `isLocked` is
    cleared; both orders are in the invariant.
  * `Noticing`: an event a worker has yet to process, or a descriptor it has
    found overdue, is about a connection that was there when it was noticed:
    either it still is, or the connection was closed since (and its number may
    be another's, the stale hang-up of `ClosedForAReason`).
* No property is inductive alone: `OneUserAtATime` needs `Ownership` because a
  lock is found through a descriptor, `NobodyForgotten` needs `Locking` because
  the thread that clears the lock must be the one that registered. One lemma per
  action and layer; the parts were first checked by TLC on the three safety
  instances.

`HttpConversationProofs` (from `ConversationAssumption`: heads are not empty, sizes
are natural numbers):

* `TypeCorrect`, `Intact`, `InFrame`, `Persists`, from `Invariance`:
  * `Lasting` relates the number of responses, what they announced and
    `closeConnection`; `PersistenceHonoured` follows from it.
  * `Writing`: the client has the bytes of all responses but the last, and of
    that one as much as `headerBytesSent` and `content.offset` count.
    `ResponsesIntact` says what the client has; only with the counters does it
    survive a partial write.
  * `Cutting`: there is a stream, the requests one behind the other, and the
    connection is at a place in it: what is on the wire, in the buffer, in
    `initial` and in the body read so far is, in this order, the stream behind
    the beginning of the request whose turn it is. `Framed` is about requests
    handed over already; that the next one will be cut right is in `Cutting`.
    It holds while `aligned` and while there is a next request.
* `FlattenSeq` is recursive: `FlattenAppend`, what one more response adds to it,
  is all that is used of it, and is proved from the definition by the least
  counterexample (`LeastNumber`, from `WellFoundedInduction`). TLC checked
  `IInv`, with the stream given as an expression, on the run's instance before it
  was proved.

`LibraryProofs`, on the parts of `Library` that are not proved about elsewhere:

* `SocketsOwned` (if descriptors are natural numbers, as the kernel has them).
  `HandlesOwned` is inductive with the types. One lemma each for opening, closing
  and handing on: an object opens only while it holds nothing, what is opened was
  free and so nobody's, what is closed had no other owner. `connect()` never opens one (`NeverConnects`), so
  that `NoHandshakeSucceeds`: what `accept` reads its request from has none either.
* `PollerWaits`. `NobodySleepsThrough` needs to know that the copy is up to date
  while `dirty` is not set, and that a change during a wait is the other
  thread's, which then owes a notification (`Copied`).
* `CacheServes`. The invariant says of every entry that its time is that of a
  version no later than its bytes, and of a call under way that the time it has
  read is that of a version no earlier than the call; when times are distinct,
  equal times make the bytes no older than the call (`ServeFresh`). Writing
  another version changes neither (`WriteFresh`).

`WebSocketProofs` (from `MessagesOK`: a message of the peer has a fragment at
least, the chunk size is positive, and a ping of the application fits into one
chunk, as RFC 6455 has it for control frames):

* `TypeCorrect`, `ReceivedInOrder`, `DeliveredInOrder`, `CodeEchoed`, from
  `Invariance`. No bound is on the number of messages, of fragments, or of
  frames under way. Beside the types (`Typed`), the invariant has one
  part per property:
  * `Echoing`: a close frame on its way to us carries a payload the peer has sent;
    one on its way to the peer, as long as `send` was asked for none, carries the
    first two bytes of such a payload. `CloseEchoed` is about frames the peer has
    read already; `Echoing` follows them from when they were written. `Sending`
    adds that what `send` is writing was asked for.
  * `Ordered`: from what the peer has (the messages it took, the fragments it
    has gathered), the frames under way to it lead to what `send` was asked for,
    less the `rest` it has yet to cut. `SentInOrder` says only that the first is
    a prefix of the last. A send that fails between two frames leaves fragments
    without an end, and the peer refuses what begins behind them; one that fails
    inside a frame leaves it `broken`, nothing is added to what is under way from
    then on, and the frames lead to a beginning of what was asked for.
  * `Received`: the frames under way to us, and behind them what the peer has
    yet to send, are the fragments that come next after what `receive` has handed
    over and gathered.
* The last two are about sequences of any length, so they say that there *is* a
  path (`Leads`): one state of the reader before each frame and one behind the last,
  each frame being a step from one to the next. A frame sent makes the path longer
  at its end (`LeadsMore`), a frame read shorter at its beginning (`LeadsLess`),
  and control frames lead from each state to itself. A path ranges over functions
  on infinite sets, which TLC cannot enumerate: it checks the three properties, not
  `Ordered` and `Received`.
* The lemmas on `FlattenSeq` are those of `HttpConversationProofs`, here for
  fragments that make up a message.

`LibraryProofs` also carries the properties of four parts to the composition, which
the run checks (`DescriptorsOwned`, `WaitsEnd`, `CacheFresh`, `ReceivedInOrder`,
`DeliveredInOrder`, `CodeEchoed`): every step of `Library` is a step of `Sockets` or leaves
its variables alone, and likewise for `Poller`, `FileCache` and `WebSocket`
(`ImplementsSockets`, `ImplementsPoller`, `ImplementsFileCache`,
`ImplementsWebSocket`). What the parts assume are the assumptions of `Library`
(`HandlesAssumption`, `MessagesAssumption`), which TLC evaluates.

The pure functions are proved for every input that `TextsAssumption` allows:
any number of routes, any sequence of bytes, any URL-encoded text without a null character
(the code throws where one is decoded), any 32-bit code, any text and number of parts, any URI whose parts have
none of the delimiters that follow them; any configuration file with one line for each field it has, blanks, signs and characters behind a
number as they may be; any
template of tokens, and any files that no chain of inclusions leads back to
(`FilesAssumption`).
`EntitiesAssumption` says of the table of
named entities what `string.cpp:44` shows of it: names of at least two letters or
digits; `ConfigAssumption` of the fields of a configuration that their names have no
space, as those of `http_config.cpp:46` have none, and of its numbers that they have 16 or 32
bits and a field each. TLC evaluates the four on the
texts and the files of the run.

* `RoutesInOrder`. `process_request` asks for the least index whose route matches
  (`FirstAnswers`), or there is none (`NoneMatches`). `RoutesCut`: wherever a list of
  routes is cut, that index is in the first part, or no route of the first part
  matches and it is that of the second part, moved by the length of the first.
* `ValidatorRight`. The fold of `IsValidUtf8` over a text of any length is unfolded
  into one state before each byte (`Utf8Accepts`). As long as nothing was wrong the
  state is what the last leading byte asks for, less the bytes since (`Counted`); it
  is zero where the next character begins exactly when that one has the length asked
  for. Both directions are inductions by least counterexample (`AcceptedComplete`,
  `CompleteAccepted`), and make what is accepted just what is `Utf8Shaped`. That
  UTF-8 is (`Utf8Taken`) follows character by character (`CharacterShaped`): each
  form of RFC 3629 has the length that its leading byte says. `MoreThanUtf8` is the
  witness that the converse does not hold.

* `StringsRight`. The loops of `url_decode`, `html_decode`, `split`, `replace`,
  `Decimal` and `Hexadecimal` are recursive functions. For each a lemma says that a
  function with its equation exists, and so that the function in the definition has
  it; what it makes of a text then follows by least counterexample.
  * `UrlDecodes`: where the decoder stands at the beginning of the form of a
    character, it writes this character and stands at the beginning of the next.
    No form is taken for a part of another, since only a percent sign begins a
    hexadecimal one. `HexReadIs` says what two hexadecimal digits of either case are read as.
  * `HtmlDecodes`: an entity is read as what it stands for in the text `& &entity;;`,
    so that the first ampersand, which begins none, stays, and so does the last
    semicolon. That a code comes back from its digits (`Decimal`, `Hexadecimal`,
    `Number`) is arithmetic of `\div` and `%`; that `Utf8` writes what `is_valid_utf8`
    accepts follows from its four cases.
  * `SplitsRight`: `split` and the text in hand are related by what is `JoinedWith`
    the separator, which is a fold; `replace` finds the same places.
  * `UriRight`: `ComesApart` says what the three regular expressions find in a URI
    put together from its parts; `ResolvedPlain` and `ResolvedPort` what `resolve`
    makes of a host without and with a port.

* `ConfigsLoad`. `Says` relates a line to what is in it, blanks before and behind and
  a comment apart; `ConfigInput` has one line of the file say each field, and no other
  line begin with its key and a space; a field may be missing. `CommentStripped`: `strip_comment` returns what
  a line says (`TrimIs`). `FieldFound`: a line that says a field is cut into the key
  and the value (`SplitInTwo`); `FieldNamed`: a line whose first part is the key begins with
  the key and a space, so that it is that line. `FieldsRead`: the lines of fields and the
  keys are then equally many, which is the test by which `read_file` notices a key
  that is there twice, and `FieldsLoaded` that each key has the value that was written,
  or nothing. `NumberRead` says what `UnsignedRead` makes of blanks, a sign, the digits
  of a number and what follows them: whether it is accepted, and what it stores if it is and if
  it is not (0, the largest, or what stands before the first other character).
  `ConfigRight` follows `load_from_file` through the numbers, up to the first that
  is refused.

* `TemplatesRight` has two halves.
  * What a template becomes once its files are in place (`TemplateRight`).
    `Languages` reads a text token by token, `parse` jumps from delimiter to delimiter.
    `LanguageRuns`: between two delimiters the language stays, and the tokens are
    appended to what there is. `PlaceRead` says so of the jump `parse` makes from each
    place it can be at, and `ParseStep` that what it emits from there on is the rest
    of what `Languages` makes, if that holds where the jump ends. Jumps come nearer to
    the end of the text (`PlaceNearer`; a jump that stands still enters a block),
    so that the induction is on how far there is to go (`ParseRight`).
    `BodyRight` and `CodeHas` follow a directive from the C++ parts to the tokens.
  * What a template becomes when tags are replaced, the first one in each pass
    (`IncludedRight`). `Expands(d, r, m)` says that wherever `d` stands behind text
    without tags, at most `m` passes make `r` of it; it holds of a tag for one pass
    more than of its file (`ExpandsTag`), and of texts one behind the other for the sum
    (`ExpandsTwo`, `ExpandsEach`). `FilesExpand` is an induction on the passes a tag
    takes: a file stands for what `Inlined` says, as `FilesAssumption` has each tag
    in it take fewer. A text without tags does not change any more (`FreeStays`).

What stays with TLC is liveness under fairness: `EveryValueLeaves`, `TasksComplete`,
`ShutdownCompletes`, the properties of `HttpServerLive`, `EveryRequestAnswered`,
`MessagesArrive`, `ReadyReported`. Every other property of a passing run is a theorem.

## Plan

1. *Server*: the use of a worker by a pool task after `run()` has returned,
   start-up with a signal that comes too early.
2. *Poller*: an abstract level-triggered poller that the three implement and
   `HttpServer` uses.
3. *Ownership*: TLS and libcurl handles.
4. *Web socket*: a header in pieces, two threads on one object.

## Not modelled

Digests and encodings (`crypto.cpp`), file and directory wrappers, the loading
of shared libraries, dates, arguments and string formatting keep no shared
state and are a matter for unit tests. `ssl.cpp` binds OpenSSL at run time and
`http_client.cpp` wraps libcurl: what they do is what those libraries do.
Start-up (binding, listening, the installation of signal handlers), the wait
after `bad_alloc` and the logging of the server are left out. `onRequest` is any
handler: it may return any response, throw, or leave its input unread. The
bytes of a web socket's header and frame lengths are abstracted; what a program does with the payload of a control
frame, and a controller factory that returns nothing (500), are left out too.
