# A TLA+ development for JetSocket

JetSocket (`src/src/jetsocket/`) is a Python WebSocket client: an asyncio
connection manager that reconnects, watches its connection with a heartbeat and
buffers messages for replay, over its own transport, with a Cython core and, on
top, a connection pool, a channel multiplexer and a synchronous facade.

This directory holds TLA+ modules translated from that code, TLC configurations
that check them on small instances, and TLAPS proofs. `PROJECT.json` maps every
modelling definition to the lines it stands for, and lists the runs, the mutants
that show each property can fail, the hazards, and the theorems.

## 1. Inventory

| Component | State | Operations | Talks to | What is hard |
|---|---|---|---|---|
| Ring buffer (`_core.pyx` `RingBuffer`, twin in `buffer.py`) | array, head, tail, length, dropped counter | push, pop, peek, drain, drain_with_sequences, clear, reset_dropped_counter | message buffer | wrapping indices, three overflow policies |
| Message buffer (`buffer.py` `MessageBuffer`) | ring buffer, last sequence id, window of seen ids | push, pop, drain, clear, clear_dedup, reset | manager (tracking, replay) | one part of push() done when another refuses; ids that leave the window before their message leaves the buffer |
| Connection manager (`manager.py` `WebSocket`) | state, flags, attempt counter, transport, timers, message task, queue | connect, run, close, send, recv, iteration, and four background activities | all of the below | several tasks reconnect or close the same object; every `await` is a point where another task changes it |
| Heartbeat (`heartbeat.py`) | task, pending ping, latency samples | start, stop, on_pong, the loop | manager callbacks | its timeout handler stops the very task it runs in |
| Backoff (`backoff.py`) | attempt counter, last success | next_delay, exhausted, success, maybe_reset, reset | manager | counter at its limit; a reset nobody calls |
| Async transport (`transport/_async.py`) | protocol frame list and events, flags, parser | connect, send, recv, ping, close, protocol callbacks | event loop, parser | wakeups, backpressure, close handshake |
| Sync transport (`transport/_sync.py`) | socket, parser, pending frames | connect, send, recv, close | parser | data behind a close frame, an echo that is longer than what it echoes, waits without a limit |
| Pool (`pool.py`) | connections per URI, semaphore, lock, flags | acquire, release, close, health check, cleanup | manager | decisions taken under a lock and used after it; calls that are cancelled where they wait |
| Multiplexer (`multiplex.py`) | subscriptions, bounded queues, router task | subscribe, unsubscribe, route, close | manager | full queues, markers, a router that dies |
| Sync client (`sync_client.py`) | thread, event loop, queue | connect, send, recv, close | manager | two threads, start and shutdown |
| Frame parser and encoder (`_core.pyx`) | byte buffer, fragment state | feed, encode | transports | frames split over chunks, lengths at their boundaries |
| Events, statistics, typed messages, presets, URI, exceptions | handlers, counters | dispatch, counting, parsing | manager | little of it is stateful |

What makes each one correct, in a sentence: the ring buffer is a bounded queue;
the message buffer refuses exactly what it has seen and knows where a replay
starts; the manager is always either connected, or has somebody working on it,
or is finished, and `close()` finishes it for good; a heartbeat notices a dead
peer; backoff bounds the dialling; a transport delivers every frame in order or
reports the end; a parser returns the frames of its stream however the stream is
cut; the pool never hands one connection to two users nor loses a
permit; the multiplexer delivers each message to its channel and ends each
subscription once; the sync client wakes every blocked caller.

## 2. Modules

| Module | Models | Kind |
|---|---|---|
| `BoundedQueue` | what a message buffer promises | abstract specification |
| `RingBuffer`, `MCRingBuffer` | `RingBuffer` of `_core.pyx` and `_PythonRingBuffer` of `buffer.py` | component |
| `MessageBuffer`, `MCMessageBuffer` | `MessageBuffer` of `buffer.py`, over `RingBuffer` | component |
| `Manager` | `connect`, `run`, `close`, the message loop, the heartbeat and age tasks of `WebSocket`, with the transport and backoff as they see them | composition of interacting tasks |
| `Session` | what travels over the connections of a `WebSocket`: tracking, queue, `recv`, replay, ping and answer; over `MessageBuffer` | composition |
| `Transport` | `AsyncTransport` and `_WSProtocol` | component |
| `FrameParser` | `FrameParser` of `_core.pyx`: `feed` and `encode` as operators on bytes | pure algorithm |
| `SyncTransport` | `SyncTransport` over `FrameParser`, with a second thread that sends | composition |
| `Pool` | `ConnectionPool` with its users and background tasks | component |
| `Multiplex` | `Multiplex` and `Subscription` | component |
| `SyncClient` | `SyncWebSocket`: the owner, the event loop's thread, other threads | component |
| `Filters`, `FilterTheorems` | the elements of a sequence that are in a set, and what is proved of them | helper |
| `SessionProofs`, `ManagerProofs`, `TransportProofs`, `SyncTransportProofs`, `PoolProofs`, `MultiplexProofs`, `SyncClientProofs` | theorems on the modules of these names; `SessionProofs` also holds those on `RingBuffer` and `MessageBuffer`, `SyncTransportProofs` the lemmas on `FrameParser` | proofs |

In every module with asyncio tasks a step takes one task from one suspension
point to the next; between two `await`s that really suspend nothing else runs,
and an uncontended `asyncio.Lock` does not suspend. In the modules with threads a
step ends where the thread blocks or where something it has read may be stale
when it is used. History variables, marked as such where they are declared,
serve properties only. Definitions whose comment begins "Mutant of" are the
plausible bugs that `PROJECT.json` lists: no specification uses them.

### RingBuffer and BoundedQueue

Variables are the fields of the class, plus `result`, what the last call
returned or raised. Every method is one action because nothing in it suspends.
`push` is split by its branches (`PushStored`, `PushOverwrites`, `PushRefused`,
`PushRaises`). As in the code, overwriting does not clear the slot of the oldest
pair but lets the new pair fall on it, and `drain()` leaves out messages that
are `None` while `drain_with_sequences()` does not. `BoundedQueue` is the same
interface on a sequence; `Window` (the slots from head on, `len` of them) is the
refinement mapping.

### MessageBuffer

Extends `RingBuffer` with `last_sequence_id` and `seen`, the keys of the ordered
dictionary in their order. `PushNumbered` tracks the id before the ring buffer
decides, as `push()` does.

### Manager

The suspension points are the values of `pc`: `dial` (`transport.connect`),
`replay` (`_replay_on_reconnect()`), `sleep` (the backoff delay), `start`,
`recv` and `hung` (the message loop), `beat` (the heartbeat's cycle), `age`, and
`hbstop` / `agestop` (awaiting a timer task that was cancelled). `kpc` and `rpc`
are the same for each call of `close()` and for `run()`.

- Tasks: `Caller` runs `connect()`, `L(n)`, `H(n)` and `A(n)` are the message
  loop, heartbeat and age timer of the n-th connection. Any of them may be in
  the middle of `_handle_disconnect()` or `_schedule_reconnect()`, which is why
  those are operators on a task and not actions.
- Cancellation is modelled as asyncio does it: `cancelled` holds tasks with a
  `CancelledError` to be delivered, a task that awaits another one passes the
  cancellation on, and the `suppress(CancelledError)` around the awaits of timer
  tasks swallows it.
- `sock` is what became of a connection's socket: open, a close frame or an end
  of file waiting to be read, or shut. `connected` and `closing` are the flags
  of `AsyncTransport`. `_handle_heartbeat_timeout()` and
  `_connection_age_timer()` clear the flag and leave the socket alone.
- A dial that succeeds sets `CONNECTED`. After a reconnection the replay comes
  next (`Replays`: one is configured), and only `Replayed` starts the heartbeat,
  the age timer and the message loop; what happens in between is nobody's to see.
  A replay swallows what its callback and its sends raise, and may hang, so
  `Replayed` has no fairness.
- `DISCONNECTED` and `RECONNECTING` never outlive a step and so are not states
  of the model; therefore `connect()` passes its test of the state only once.
- A dial fails with an exception `_connect_internal()` catches (`refused`) or
  with one it does not (`raw`, such as the `OSError` that `connection_lost()`
  puts into the handshake future).

Abstractions: message contents; event handlers are taken not to suspend and not
to call `close()` themselves; the ping and pong of a heartbeat cycle are one
wait that may time out; one kind of timer per instance; a caller does not cancel
`connect()`; `close()` waits for the transport at most `close_timeout`, and
`CloseTransportTimesOut` is the case in which that fires first.

### Session

The half of `WebSocket` that `Manager` leaves out. A connection is up, lost or
given up (`phase`, `lost`); what is on its way to the message loop is `chan`.
`Connected` is the end of `_connect_internal()`: only a reconnection replays, and
the message loop and the heartbeat start after the replay. `Handle` is one turn
of the loop: the answer to a ping, or a message that is tracked in the buffer
(`TrackReceived`, whose result is ignored) and queued for `recv()`. `on_replay`
and the resending of `full_buffer` may fail at every step. A send waits while
writing is paused (`Pause`, `Resume`), which a lost connection never resumes.
`PongMatcher` chooses between answers that are messages and PONG frames. The loop
of a connection that the heartbeat gave up may read one more frame of it (`old`).

The server is an assumption, and a weak one: it numbers its messages; on a new
connection it goes on with what is new at once or waits to be asked; asked to
replay from n it goes on with n + 1, or with n, which it then sends again.
`early` and `resent` remember which it did.

### Transport

`cpc`, `rpc`, `kpc` and `spc` are where `connect()`, `recv()`, `close()` and the
senders are suspended. `net` holds the frames in flight; `DataReceived(n)` takes
a chunk of n of them, before the handshake is answered into the handshake buffer
and later through the parser into `frames`. `Wake` is `_frame_ready.set()`: all
that matters of the event is whom it has woken, because `recv()` and `close()`
clear it before they wait. A task that a callback has woken runs before the next
read of the socket, except `close()`, which waits inside `wait_for`, in a task of
its own. `Write` may fill the buffer, in which case `pause_writing()` is called
at once.

### FrameParser and SyncTransport

`Encode` and `Feed` work on bytes: opcode, reserved bits, the three forms of the
length, masking and payload. The widths are constants so that all three forms
occur in frames of a few bytes: `Inline` is the longest payload whose length is
in the second byte (125 in the code), `Base` the value of a length digit (256),
`Wide` the digits of the long form (8). `Feed` is a recursive function, since the
loop of `feed()` consumes frames until none is complete. `Xor` is the exclusive
or of two bytes, written with arithmetic, so that the provers can reason about
masking too.

`SyncTransport` runs it over a stream `wire` that is read in chunks of any number
of bytes. `Write` is `_send_all()` when it ends: it may have stopped before the
frame or inside it. `RecvChunk` feeds a chunk, `Answer` writes one answer to a
ping or a close frame, and goes on with the next (`todo`) when that fails,
`Answered` returns the first data frame. `Echo` decodes and encodes the reason of
a close frame as the code does: each byte that is not UTF-8 becomes three
(`Reencoded`; the model's reasons have bytes that are ASCII and bytes that are
no UTF-8 at all). The selector is shared between the threads, so `RecvEnds` is
either the end of the stream or the reader that finds the socket only writable.
`skipped`, `torn` and `broken` remember that bytes came with the handshake's
answer, that a write stopped inside a frame, that `feed()` has raised. There is
no fairness: by default a write and a read have no timeout, and the five seconds
of `close()` start again with every chunk.

### Pool

`pc` is where each user is suspended in `acquire()` or `release()`. No section
under `_lock` suspends except the one in `close()`, so only `close()` is ever
seen to hold it (`lock`). A `WebSocket` is its state as the pool can see it,
which changes by itself (`WebSocketMoves`). The cleanup's list (`todo`) is
collected under the lock and worked off without it. `AcquireCancelled` is a
cancellation at any point where `acquire()` has its permit: `except Exception`
does not see it, and a connection that was opened by then is left open
(`orphans`). `ReleaseCancelled` is one inside `WebSocket.close()` or while
waiting for the lock: the connection stays registered (`kept`). `close()`
cancels the cleanup, which either ends or swallows the cancellation inside a
`WebSocket.close()`.

### Multiplex

Subscriptions are numbered; `subs` is the dictionary, `active` the flag of each,
`queue` its bounded queue with 0 as the end marker. `Deliver` drops the oldest
when the queue is full; `Mark` drops the marker then. A consumer waits in `wait`.
`RouterRaises` is an exception of
`channel_extractor`, after which `close()` raises it before it closes the manager.
`late` holds subscriptions made while `close()` was waiting. `queue_size` is
positive (0 would be unbounded).

### SyncClient

The owner calls `connect()` and `close()`; `lpc` follows the background thread
through `_run_event_loop()`; consumers call `recv()` with or without a timeout,
or iterate; a sender tests the fields (`Send`) and then uses them
(`SendSubmits`). `_SHUTDOWN` is 0 in the queue. `RecursionLimit` stands for
Python's, because `__next__()` calls itself while nothing arrives.

## 3. Runs

| Run | Bounds | Shows |
|---|---|---|
| `ring` | 3 slots, 2 messages (one of them `None`), one id | indices, length and slots agree; the buffer implements `BoundedQueue` for each policy. Three slots make the window wrap with slots on both sides |
| `messages` | 4 slots, 3 ids, a window of 2 | ids leave the window while their messages are buffered; and come again; still, the replay boundary is refused, duplicates are far apart, the replay position is that of the newest message |
| `lifecycle` | no timer, a replay, 2 attempts, 4 connections, 2 calls of `close()` | somebody reconnects, one task in charge with the sockets of earlier connections shut, no dial after close, terminal states final, `close()` returns and ends `run()`, reconnecting settles |
| `lifecycle_heartbeat` | heartbeat, a replay, 1 attempt, 3 connections, 1 call of `close()` | a dead connection is noticed even if the message loop missed it, while heartbeat, loop and `close()` race |
| `lifecycle_age` | age timer, 2 attempts, 3 connections, uncaught dial errors, 1 call of `close()`, no replay | the budget, with two tasks asleep or dialling at once, and no dial after close, also where the timer and a dial that died leave tasks behind |
| `session` | 2 messages, a buffer and a window of 1, application-level answers; 3 connections, or 2 with a heartbeat | replay by id leaves no gap and repeats only what the server sent again, `full_buffer` sends back at most once, a replay ends unless writing stays paused, and the heartbeat's verdict is right: it gives up without an answer only and goes on with a fresh one only |
| `heartbeat_pong` | `session` with PONG frames; expected to fail | see below |
| `transport` | 4 frames with the handshake's answer, 2 addresses, 2 senders | order, one close frame; `connect()` and `close()` end, a failed `connect()` without an open socket; a waiting reader and a blocked sender go on |
| `sync_transport` | 3 frames of the server, 1 `send()`; `Inline` 3, `Base` 3, `Wide` 3, frames up to 9; a close frame with one byte that is not UTF-8 | every cut of the stream, frames written with the middle and with the longest form of the length: nothing lost or reordered, what is written can be read, but for an echo that is too long, and holds one close frame at most, the socket is released |
| `pool` | 2 users, 1 URI, 2 permits, 3 connections, 2 calls of `close()` | permits, exclusive use; what is left open, or in a closed pool, is exactly what the properties name; `close()` and waits for the lock end |
| `multiplex` | 2 channels, 2 subscriptions, queues of 2, 3 messages | newest kept and consumed in order, consumers released by the marker |
| `sync_client` | 2 consumers, 1 sender, 1 handler, 2 `connect()`, 2 messages | messages and handlers kept, and no caller left blocked |

Why the bounds are enough for the cases to happen: two connections are needed
for a task of the old one to disturb the new one, and three, without a timer,
for it to do so while the second is given up. `MaxConns` of `Manager` bounds the
dials; in `lifecycle` it is one more than the connections that `MaxAttempts`
permits, so that it never hides a dial in excess, and in `lifecycle_age` the
three dials are the permitted ones, two of which may be under way together. In
`messages` an id leaves its window of two and comes again while its first message
is still in one of the four slots. In `session` a buffer of one overflows at the
second message under each policy, the second reconnection happens after a replay,
and a second message is behind the one that is sent again; with a heartbeat
(`beats`, chosen at the start) a second connection is enough for a late frame of
the first to meet it, and `MaxBeating` bounds those apart, because each has many
more states. In `transport` four frames are the answer, a frame behind it, one
that may be a close frame and one behind that. In `pool` a third connection lets
one be dropped and made anew while another is in use; all share one URI, which
only restricts who may take which. In `multiplex` three messages overflow a queue
of two, and two subscriptions allow a channel to be subscribed again after it
ended. Two consumers of `sync_client` compete for one marker. Every bound is a
constant or sits in the guard of the action that it bounds.

Deadlock is checked where a component can always be called (`ring`,
`messages`). Elsewhere the system may rightly stop: closed, failed, connected to
a silent peer, or at a bound.

### What the code contradicts

- `heartbeat_pong`: `recv()` of the transport skips PONG frames
  (`_async.py:571`, "handled by heartbeat manager externally"), so that the
  message loop's call of `_handle_pong()` is never reached and a heartbeat without
  a `pong_matcher` gives up a connection whose peer has answered. `heartbeat.md:22`
  says the connection is considered dead if no pong is received.

Five more disagreements are steps of the models, which a property has to except
or cannot forbid:

- `_track_received_message()` ignores that `push()` refuses a duplicate
  (`manager.py:1021`), and the message is given to the application all the same.
  `message-buffering.md:37` says that deduplication prevents duplicates.
  `AppInOrder` excepts exactly the messages that the server sent again (`resent`).
- Nothing calls `maybe_reset()`, so attempts add up over the life of the object.
  `reconnection.md:65` says that the counter resets after staying connected.
  `ReconnectBudget` therefore counts over the whole life.
- The semaphore counts connections in use, and idle ones of other URIs stay open
  beside them. `pool.py:38` calls `max_connections` the maximum of concurrent
  connections. `PermitsAccounted` speaks of those in use.
- An exception of `channel_extractor` ends the router, and `close()` passes it on
  (`multiplex.py:384`) before it has closed the connection; a second `close()`
  returns at once. Its docstring says that it closes all subscriptions and the
  connection (`RouterRaises`, `MuxClose`).
- The echo of a close frame whose reason is not UTF-8 may be longer than the 125
  bytes that the parser allows a control frame (`_core.pyx:270`).
  `WrittenIsReadable` excepts a close frame.

Further steps in which the code does something that callers would not expect; a
property that must except them says so in its comment:

- `close()` during a dial finishes, and when the dial succeeds the object goes
  from `CLOSED` to `CONNECTED` (`state.py:55`: no further transitions).
- With a heartbeat, `close()` drops the object that `_handle_disconnect()` is
  waiting to reset; the `AttributeError` surfaces in `close()`.
- After a timeout of the heartbeat or the age timer the old socket stays open
  and its message loop alive (`heartbeat.md:23`).
- Without a heartbeat a connection lost while the loop handles a message is
  never noticed: `recv()` clears the event that said so.
- `run()` returns after the first reconnection (`manager.py:460`).
- A message that overflow refused makes its own retransmission a duplicate.
- An uncaught dial error leaves the state `CONNECTING` with nobody dialling.
- A sender held back by a full buffer waits for ever if the connection is lost; so
  does a reconnection whose replay sends. A `connect()` cancelled during the
  handshake leaves its socket open.
- `SyncTransport` drops bytes that come with the handshake's answer; a sending
  thread can make a receiving one report the connection closed; after the end of
  the stream the socket stays open and `close()` does nothing; data frames
  queued beside a close frame cannot be read. An answer that cannot be written is
  passed over, and the next one is written behind it.
- A server that speaks before it is asked for a replay moves the replay position
  past what it has yet to replay; if that connection is lost, those messages are
  never asked for.
- Cancelled `acquire()` calls use up permits, and leave a connection open that
  they had opened; a cancelled `release()` leaves its connection in the pool,
  closed or not; `acquire()` removes, unclosed, a connection that is just
  reconnecting; the cleanup may close a connection that was acquired meanwhile.
- A subscription made during `close()` of the multiplexer hangs its consumer; a
  failed `connect()` cannot be repeated.
- `close()` of the synchronous client releases one blocked `recv()`; iteration
  ends with `RecursionError` after a long silence; handlers that had moved to a
  manager that failed to connect are gone.

Met while reading, outside the models: the server's close code never reaches
`_is_fatal_code()` (`reconnection.md:125`), nor an HTTP status
`_is_fatal_error()`; `connect()` returns normally with the state `FAILED` when
attempts run out (`manager.py:358`); a first connection that took two attempts
counts as a reconnection (`stats.py:32`); the table of valid transitions in
`state.py` is consulted and not enforced; a frame that announces 2^63 bytes or
more makes `feed()` raise `OverflowError`, which the transports do not expect.
The hazards in `PROJECT.json` keep what bears on correctness.

### Fairness

- `Manager`: the event loop eventually runs every task that is ready, a sleep
  ends, a dial has a timeout and so succeeds or fails, and a peer that is gone
  sends no pong, so that the heartbeat times out. Nothing makes a replay end.
- `Session`: the same for the loops and the wait for an answer, which has a
  timeout. A send of a replay ends if writing is not paused, or is resumed again
  and again (strong fairness: the first resume wakes it); nothing makes a peer
  read, nor a lost connection resume.
- `Transport`: name resolution, dialling, handshake and the wait for the close
  frame have timeouts; a socket closed on our side is reported lost; what was
  written is acknowledged or the connection breaks. No timeout stands behind
  `recv()` (`read_timeout` is `None` by default), so nothing is assumed there.
- `SyncTransport`: none, and no liveness is stated (see above).
- `Pool`, `Multiplex`: whoever waits for the lock, the router or a queue that has
  something runs in the end, and `WebSocket.close()` returns.
- `SyncClient`: threads run; every `future.result()` and `join()` has a timeout.

Nothing is assumed of callers, of the arrival of messages, or of the peer.

## 4. Proofs

Every theorem holds for every value of the constants that satisfies the
assumptions named in the modules. Those only say what the constants are: bounds
are natural numbers, a capacity, a window and a queue size are positive, as the
code enforces or needs (`CapacityAssumption`, `DedupWindowAssumption`,
`NoneAssumption`, ...), `None` is no sequence id (`NoIdAssumption`), the pool
has URIs (`UrisAssumption`), in a session a message is its number
(`SessionAssumption`), a length field can say every length that the parser
accepts (`WidthsAssumption`), and a server takes the frames that the client
takes, one with the code of a close frame among them (`LengthsAssumption`). TLC
evaluates them in the runs. Each inductive invariant below was checked by TLC on
the run's instance, or a larger one, before it was proved.

**Ring buffer.** `RingTypeCorrect`, `RingWindowCorrect`: `WindowInv` is inductive
with the types; the work is arithmetic modulo the capacity (`PosBijective`: the
positions 0 .. Capacity-1 from the head on are all the slots, each once), needed
because pushing and popping re-number every slot. `RingImplementsQueue`: one
lemma per effect on the window (append, drop the head, both, empty), then one
case per action.

**Message buffer.** `BoundaryTheorem`, `NewestTheorem`, `DuplicatesTheorem`, from
`MsgInv`. `DuplicatesFarApart` speaks of the buffer and is kept up by the window
of seen ids, so the invariant has to relate the two: counted from the newest end,
the numbered messages of the buffer and the seen ids are the same, and where the
seen ids end first their window is full (`Agree`). A new id is then absent from
the last `DedupWindow` numbered messages.

**Session.** `Core` collects the types, `MsgInv`, that the heartbeat runs only
with the message loop (`Started`), that a server that waits to be asked is silent
until then (`Silent`), and that no message is known that was not numbered
(`Known`).

- `SessionUsesBuffer`: `SessionSpec => MsgSpec`; tracking and draining are
  operations of the buffer, so its theorems hold inside a `WebSocket`.
- `VerdictTheorem`, for answers that are messages (`PongMatcher`; with PONG frames
  it is false, see above): while the heartbeat waits, either no answer was read,
  and the ping is pending and its event clear, or the event is set.
- `ReplayTheorem`: `ReplayMissesNothing` is not inductive, since a message on its
  way will move the position. `ReplayInv` adds that each channel, the one of a
  connection given up included, is `Covered`: whatever it brings, the messages
  before it were given to the application or come earlier in it. Where the server
  spoke before it was asked, that fails; what is kept is that the messages before
  the server's next one were given or are on their way.
- `OrderTheorem`, also with a server that resends the message a replay starts
  from: `OrderInv` adds that what is on its way is newer than the position, or is
  the position sent again, and is below the server's next message, and that no
  seen id is above the position, so that a new message is never taken for a
  duplicate and the position never falls behind.
- `EchoTheorem`: messages sent back, to be sent back and buffered form one
  sequence, `Outgoing`. A step only thins it out or adds a message just received
  at its end (`OutgoingStep`), which is newer than all of it.

**Manager.** For every configuration, any set of calls of `close()` and any bound
on connections:

- `FreshInv`, which the others rest on: a connection has no tasks before its dial
  has ended and its replay is over, and no two tasks dial or replay the same one.
- `TypeCorrect`: the inductive invariant `TypeInv` adds that a task waiting on a
  connection or a timer has one on its mind.
- `BudgetKept`: `ReconnectBudget` is not inductive: a task asleep has been
  granted a delay it has not spent. `BudgetInv` adds the number of sleepers, and
  one for an object not yet connected. Every step is either `Calm` (at most one
  more sleeper, and then one more delay), a `FirstDial`, or a `Redial` that uses
  up a sleeper; the lemmas show which.
- `CloseIsFinal`: `Spec => NoDialAfterClose`, from `IdleInv`: an object still
  `IDLE` has nothing for `close()` to wait for, so it is never left `IDLE` with
  `close()` called, the one situation in which `connect()` would take it back.
- `ReconnectionTheorem`: `SomeoneReconnects`, for every kind of timer, if a dial
  fails with caught errors only (after an uncaught one it is false, see above).
  It breaks if a task that reconnects is cancelled. `HandoverInv` adds that a
  timer's task which reconnects is no longer the object's timer and so is not
  stopped with it (`TimerInv`), that before any call of `connect()` or `close()`
  nothing runs (`CallInv`), and that until `close()` is called no cancellation is
  on its way to a task that dials or sleeps (`Unstopped`).
- `OneTaskTheorem` and `TerminalTheorem`, without timers (with one, the old
  message loop stays alive, see above), both from `SoloInv`: one task at most is
  active, and if it is a message loop it is the object's own (`OneActive`); until
  `connect()` is over there is nothing else, and until its replay no connection
  (`BeforeInv`); who reconnects has no connection, and what was given up is shut
  (`NetInv`); `close()` waits only for a loop it has cancelled, or for a socket
  (`StopInv`); and in a terminal state nothing is active but `connect()`, and
  after a `close()` the message loop that it starts (`FinalInv`). Each step is a turn of
  the active task, a hand-over to a new loop, or one of `close()`.

**Transport.** `InOrderTheorem`, from `FlowIInv`: what `recv()` returned, the
parsed frames, the handshake buffer and the frames in flight are one increasing
sequence, complete while nobody closes and nothing is lost. Every step keeps that
sequence (`Kept`), cuts a part out of it (`Cut`) or adds the next frame at its
end (`Added`); `Phases` says which parts are empty when. `OneCloseTheorem`:
whoever writes the close frame has set `closing`, which the other one tests.

**Pool.** `PoolTypes`, `PermitsTheorem`, `ExclusiveTheorem`, `LeaksTheorem`,
`ClosedTheorem`, for any users, URIs, permits and calls of `close()`. The types
include which users have a connection and that the pool's connections are those
made so far. Cancellation is a step like the others: `orphans` and `kept` are
history, which the two properties name. For the permits each step moves at most
one user into or out of the set of holders. `NothingLeaks` needs `KeepInv`: a
user about to forget its connection has closed it (`UnregOK`), and `close()`,
which empties the dictionary only at the end, has closed or still has on its
list each connection it will forget (`GatherOK`).

**Multiplexer and synchronous client.** `NewestTheorem`, `BoundedTheorem`,
`MessagesTheorem`, `HandlersTheorem`. The queues mix messages with end markers;
`FilterTheorems` says how the messages among the entries behave under append,
tail, concatenation and split. These are inductions over sequences, which the
provers cannot do by the library's rule; they are done by taking the least
length at which the statement fails (`LeastNumber`) and removing one element.

**Parser and synchronous transport.** For all widths of the length fields, all
limits, and payloads of any length. About the operators:

- `NumberOfDigits`, `MaskTwice`, `EncodeHeader`, `DecodeOne`, `DecodeStream`: a
  frame that is encoded, masked or not, is decoded to itself whatever bytes
  follow; a stream of frames is parsed up to the first one that is refused.
- `FeedChunks`: `feed()` does not depend on how its input is cut. Feeding a and
  then b returns what feeding both at once would, and leaves the same buffer;
  after an error the error stays. It rests on `FrontStays`: a complete frame, or
  an error, at the front of the buffer is not changed by what follows.

About the transport:

- `SocketTheorem`, from `Sockets`, which says where the owner may be with and
  without a socket.
- `WrittenTheorem`, from `Written` (unless a write was given up, the bytes written
  are those of `sent`) and `Closes` (no close frame is written before `closing` is
  set, and one is written or waits to be written at most). A chunk may hold pings
  and several close frames; `AnswersType` shows that its answers hold one close
  frame, and only if there was one to answer. That the echo is short enough is
  not true, and the theorem says what follows from that: the server reads every
  frame before it.
- `NothingLostTheorem`: `NothingLost` says nothing of a transport after an
  error, but the next chunk is read all the same. `Lossless` adds that the cause
  of the error stays at the front of the buffer, so that nothing behind it is
  ever returned; that nothing waits while `recv()` reads; and that before
  `connect()` no byte was touched.

The parser's operators are recursive functions, and what they compute is proved
by induction over numbers and sequences in the form the provers accept: with a
set in place of a predicate (`Induct`, `StrongInduct`, `SeqInduct`).

Only model-checked: liveness, which needs fairness and `ENABLED`. Every
invariant and every action property that a passing run checks is the subject of
a theorem; three of them hold under the hypotheses on `Timer` and
`DialErrors` named above, and one under that on `PongMatcher`.

## 5. Plan

Done: every component with state of its own, and all safety properties of all of
them. Open:

1. That `Transport` implements the socket that `Manager` uses.
2. Heartbeat and age timer in one instance of `Manager`, and an inductive
   invariant that bounds the tasks in charge when there are timers.
3. Handlers that suspend, which would put a suspension point into every dispatch.

## 6. Not modelled

Handshake contents, compression, UTF-8, TLS, URI parsing, random jitter and the
length of delays, latency samples, statistics, dispatch to event handlers, typed
messages, presets, exceptions and the package surface: either without state, or
computation that does not interleave and that unit tests cover. Handlers that
suspend, and calls of `connect()` or `close()` from several threads of one
synchronous client, would need the code between any two statements to interleave
and are left out; so is a transport object that is connected twice, which no
code of the repository does.
