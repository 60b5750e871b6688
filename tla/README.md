# TLA+ models of the Licode C++ client

The client joins a room of a Licode server. It gets a token over HTTP, opens a
websocket, speaks socket.io over it, learns which streams are in the room,
subscribes to them and answers the offers of the server with the help of
libwebrtc. The models in this directory follow the code under `src/`; where they
leave something out, this file says so.

## 1. The system

| Part | Source | Threads that enter it | Module |
|---|---|---|---|
| Scheduler | `thread/scheduler.*` | its own pool, callers of `Schedule`, the owner | `Scheduler` |
| Worker | `thread/worker.*` | its thread, posters, scheduler threads, the owner | `Worker` |
| WebsocketSession | `messenger/websocket_session.*` | its io thread, senders, the owner | `WebsocketSession`, `MessageChannel` |
| LicodeSignaling, LicodeRoom: joining and leaving | `core/licode_signaling.*`, `core/licode_room.*` | application, one io thread per session, worker | `RoomSession` |
| LicodeRoom: streams | `core/licode_room.*`, `main.cpp` | worker, io thread, libwebrtc, application | `RoomStreams` |
| WebrtcConnection | `core/webrtc_connection.*`, `main.cpp` | worker, libwebrtc's signaling thread | `PeerConnection` |
| LicodeNuveApi, SimpleHttpSession | `core/licode_nuve_api.*` | caller, one io thread per call | `NuveApi` |
| HttpUrl | `messenger/http_url.*` | one | `HttpUrl` |
| ThreadPool, WebrtcWrapper, packets, HttpRequest, records, VideoRender | see section 8 | | not modelled, or only at their interface |

What is hard about each part, and what should hold:

* **Scheduler.** Several threads wait on one condition variable for entries of one
  multimap; `Schedule` and `Stop` notify after they have released the mutex.
  Nothing may be executed twice or lost, no wakeup may be lost, `Stop` must
  return, and a draining `Stop` must execute what was accepted before it.
* **Worker.** `Stop` resets the work guard and joins, so that queued tasks are
  executed first; a task posted from a task runs inside it; the periodic task is
  a chain of closures through the scheduler, each with its own clock reading, and
  must not drift.
* **WebsocketSession.** `boost::beast` allows one outstanding write; messages come
  from several threads; after a write error the queue is never emptied;
  `connected_` is true for a moment before there is a connection.
* **Joining and leaving.** `websocket_` is replaced while handlers of the earlier
  session may still run; these act on the same `state_` and on `websocket_`, which then is
  another session. The keep-alive task runs on a third thread and tests the state before it
  uses the session. A session is destroyed by whoever gives up the last reference to it, its
  own thread included. The room may be destroyed while its session is open, a callback is
  under way and its keep-alive task scheduled.
* **Streams.** All subscribe answers carry the same number and are matched to
  streams by order alone; all messages carry the `erizo_id_` that the first answer
  brought. Maps are indexed without tests. One handler changes a map and a list on
  the wrong thread.
* **Peer connections.** An offer is set and answered in two calls from the worker,
  the answer comes back on another thread, is set and sent there, and failures of
  libwebrtc are only logged.
* **Nuve API.** An error handler sets the promise first and the response after it;
  the caller copies the response in between.
* **HttpUrl.** Positions in a text are computed from positions that may be `npos`.

`PROJECT.json` lists 40 such hazards with the line where each bites and the
properties that cover it.

The parts are composed by what they assume of each other. `RoomSession` takes the
steps of resolving, connecting and shaking hands as one and keeps from
`WebsocketSession` what the owner sees: `connected_`, `do_disconnect_`, the posted
`DoClose`, writing that is under way or has failed for good, and the references that the
handlers hold. `RoomStreams` has the worker's queue as a sequence of tasks and uses from `Worker` that tasks run one
at a time and in order, and from `MessageChannel` that requests arrive in order. An
answer being created is one member of the set `answering` there; `PeerConnection` takes
the offers of a single stream and has their negotiation in detail.
`Worker` assumes of `Scheduler` that a turn is executed in the end
(`EventuallyExecuted`) and, because `NeverEarly` fails for two threads, not that
it is never early.

## 2. How the modules correspond to the code

Every definition that stands for code is in the `map` of `PROJECT.json` with its
lines. In general:

* a field is a variable of almost the same name (`function_queue_` is
  `functionQueue`, `do_disconnect_` is `doDisconnect`);
* a handler that runs on one thread without releasing a lock is one action, named
  after the function; a function that another thread can come between is split
  there and nowhere else;
* variables marked *history* in their comment are not in the code: no guard of the
  code's actions reads them, except for bounds;
* what a library decides (an error code, which waiter is notified, when a timer
  fires) is a free choice;
* operators with the comment "A plausible bug" are variants of the definition that
  follows them. They are not part of any specification; they serve to show
  that each property can fail.

**Scheduler.** A step lasts from one release of `queue_mutex_` to the next. Thread
states are `ready` (wants the mutex), `waiting` (`wait`), `timed` (`wait_until`),
`woken` (leaving `wait_until`), `running` and `exited`. `Enter` and
`WaitUntilReturns` contain the loop of `ProcessFunctionQueue`; `NotifyOne` and
`NotifyAll` are steps of their own because they come after the unlock. Spurious
wakeups, functions that throw (`LOG(FATAL)` ends the process), and a second
`Stop` by the destructor are included.

**Worker.** `queue` is what waits in `ioc_`, `stack` what is being executed, the
innermost first, because `dispatch` runs a task inside its caller. The periodic
task is followed through `arm`, `timer` (in the scheduler), `queue`, `run`,
`again`. Time is in ticks, `Unit` of which make the millisecond to which
`ScheduleFromNow` cuts a delay; clock readings that are different in the code are
different steps here.

**WebsocketSession.** `op` is the outstanding operation of the chain
resolve-connect-handshake-read, `posted` the handlers other threads have posted,
`queue` is `queue_`. A write that was begun on a stream that is not open is
`doomed`. `DoClose` may throw when the closing handshake fails, and then nothing
catches it (`terminated`). `MessageChannel` is what a sender may expect.

**RoomSession.** The variables of a session are functions of its number, in the order of
creation; `cur` is `websocket_`. `user`, `at` and `worker` say where the application's thread,
the io thread of each session and the worker are inside a function:

* `Init` is `InitTest`, `InitSession` and `InitConnect`; between the last two `connected_` is
  already true.
* The "40", "43111" and "41" messages are `OnSocketIoConnect`, `OnInitTokenResponse` and
  `ProcessDisconnect`. `InitToken` sends the token on whatever `websocket_` is by then.
  `ProcessDisconnect` goes on with `UpdateState`, `Dispose`, `DisposeDisconnects` and
  `DisconnectCallback` (places `update`, `dispose`, `disconnect` and `callback`), so a `Join` can
  come between the change of `state_` and the closing, which then hits the new session.
* An error ends the chain (`ChainEnds`); `OnWebsocketDisconnect` reports it, and `Return` is the
  end of the handler, where it gives up its reference.
* `Held` says that a session is referred to by a handler: of the chain, a posted `DoClose`, a
  posted `OnSend` or an outstanding `OnWrite`. `DropReference` models the destructor of a
  session that runs on the session's own thread (it joins itself and the process ends).
* `Destroy` is the end of the room: it clears the callbacks of the current session but stops
  neither the sessions nor the keep-alive task. A later step that uses the room, also from
  inside a callback that had begun before (`call`), ends in `dangling`, a use of a destroyed
  session through the old value of `websocket_` in `stale_websocket`, and the end of a room that
  was never joined in `null_websocket`.

`interrupted` and `unfinished` are history variables: the sessions that were replaced while
their `ProcessDisconnect` was between its test of the state and the end of `Dispose`, and those
that were replaced while they had a handler. Steps of the code are joined where the difference
cannot be seen. `OnSend` and `OnWrite` are one step per session (`sending`), because from
`SendMsg` to the last message some handler refers to the session without a break. A callback
is tested and entered in one step, since a `Destroy` in between is met by the next place of the
callback. A thread that has read `websocket_` before it was replaced acts as if it had gone
first, as long as that session is not destroyed. The `DoClose` that a session posts to itself
comes before its next read (`closing`). The server greets a session, says "41" and answers a
token at most once each.

**RoomStreams.** `remote` and `local` are the two maps, with the null entries that
`operator[]` leaves; `pendingSub` is the queue by which answers are matched. The
server is modelled as the code relies on it: it handles requests in order,
answers each, allocates a connection on any of its erizos and takes an answer only
if it names the right one. The application is that of `main.cpp`: it subscribes to every
stream and answers every offer. `OnJoinRoom` takes two steps, since the websocket
thread replaces the map and the list of ICE servers while the worker goes on: a
task that uses them in between is a data race (`RaceWithJoin`), whose outcome is
undefined. A race and the use of a null pointer are recorded in `crash`, after which
nothing more is said.

**PeerConnection.** `chain` is libwebrtc's chain of operations, modelled from the header
`operations_chain.h`: each starts when the one before it is complete. What an operation
does inside libwebrtc is external, and modelled from how `WebrtcConnection` uses it.
`OnReceiveOffer` and `CreateAnswer` are the two blocking calls of the worker, `AnswerCreated`
the end of the operation, `OnSdpCreateSuccess` the call of the observer that follows it, with
`SetLocalDescription` and `SendAnswer`. Every operation may fail (`trouble`), and offers may
overlap (`overlapped`). `OnConnectionChange` keeps the test of the optional instead of its
value.

**NuveApi.** `caller` is the thread in `SyncRequest`, `stage` and `handler` the io
thread. A response is its status and what its body is good for. `Return` and
`SelfJoin` model who drops the last reference to the session.

**HttpUrl.** A text is a sequence of tokens: separators and words. `ParseText` and
`ToText` follow `Builder::Parse` and `Builder::ToString`; every setter is an
action. `Resolved` is a definition of dot segments without a stack, against which
`Push` and `Pop` are checked. `Host` leaves the host empty, as
`std::transform` into the `begin()` of a cleared string does. The module has its own
`FoldLeft`, `FlattenSeq`, `SetToSeq`, `RemoveAt` and `Front`, which read as those of
`SequencesExt`: that module brings so many facts with it that the proofs would take
twice as long.

## 3. What is checked with TLC

| Run | Bounds | States | What it shows |
|---|---|---|---|
| `scheduler_pool` | 2 threads, 3 functions, times 1 and 2 | 237 000 | `NoLostWakeup`, `ExactlyOnce`, `StoppedIsQuiet`, `DrainIsComplete`; `EventuallyExecuted`, `StopReturns` |
| `scheduler_early` | 2 threads, 2 functions | violation | `NeverEarly` fails |
| `worker` | 2 tasks, 2 starts, 2 turns, 4 ticks | 140 000 | `NothingLost`, `StopDrains`, `NoDrift`; `StopReturns`, `TasksRun`, `TurnsGoOn` |
| `websocket` | 4 messages, 2 reads, 4 handlers | 35 301 | `OneWriter`, `OpenIsWritable`, `ReportedOnce`, `ImplementsChannel`; `Flushed`, `ConnectEnds` |
| `session` | 2 sessions, 1 extra step | 888 122 | `JoinUnderWay`, `OldSessionsMute`, `TokenOncePerSession`, `SelfJoinNeedsCause`, `JoinedByCurrentSession`, `AbandonedStaysSo`; `LoopsEnd`, `JoinEnds` |
| `session_end` | 1 session, 1 extra step | violation | `SessionEndIsShown` fails |
| `streams` | 2 remote streams, 2 erizos, 1 removal, 1 join | 193 103 | `StreamsUnderWay`, `AnswersInOrder`, `ConnectionsMatch`, `CrashNeedsCause`; `StreamsAnswered` |
| `streams_rejoin` | 1 remote, 2 own streams, 2 joins | 1 116 037 | `AnswerFindsPending`, `OwnStreamsStayLocal` |
| `peer` | 3 offers of a stream | 2 171 | `DescriptionsAgree`; `OffersAnswered` |
| `peer_report` | 1 offer | violation | `StateChangeIsShown` fails |
| `nuve` | 3 calls | 19 581 | `PromiseKept`, `ResultFromServer`; `CallsReturn` |
| `url` | 2 words, 2 ports, 3 pieces, 2 segments | 142 000 | `ParseIsRight`, `RoundTrip` |

`TypeOK` is proved for the seven modules that define it, so the runs check other things.
Five invariants are the part of a liveness property that does not depend on fairness:
`NoLostWakeup` (of `EventuallyExecuted` and the scheduler's `StopReturns`), `NothingLost`
(of `TasksRun` and the worker's `StopReturns`), `JoinUnderWay` (of `JoinEnds`),
`StreamsUnderWay` (of `StreamsAnswered`) and `PromiseKept` (of `CallsReturn`). They say that
what has to happen still can; that it then happens is left to the liveness property.

Every property is stated in words above its definition. Each property of a passing run has a
variant of some definition ("A plausible bug") under which it fails.

Why the bounds are enough:

* *Scheduler*: the races are between two threads about one entry and its successor,
  while a third function is being scheduled; `ThreadPool` makes the pool with two
  threads. The safety properties are also proved for any pool.
* *Worker*: two tasks make nesting, queueing behind a turn and posting while
  stopped possible, two starts a stop in between. `Period = Unit = 2` gives delays
  that are cut and turns late by more than a period. The safety properties are
  also proved for any values.
* *WebsocketSession*: four messages are one being written, one waiting in `queue_`,
  one posted, and one accepted early. The safety properties are also proved.
* *RoomSession*: the hazards are between a session and the one that replaced it, which two
  sessions show. Extra steps (a ping, `Leave`, a message that changes nothing, a failed write)
  can come at any moment; one shows what each can do. Three sessions add two old ones at once,
  of which one may have been left open by an interrupted `ProcessDisconnect`: the safety
  properties are proved for any number of sessions and extra steps.
* *RoomStreams*: order needs two requests; a removal can fall between any two
  steps of its stream; two erizos are one that `erizo_id_` names and one that it does
  not. In `streams_rejoin` two own streams and a remote one mix the two kinds of
  answers, over two joins. All its safety properties are also proved.
* *PeerConnection*: three offers can overlap in every way that the chain allows.
  `DescriptionsAgree` is also proved for any number.
* *NuveApi*: calls are independent except for sessions that an earlier call left
  behind; a second call sees one, a third sees that nothing accumulates.
* *HttpUrl*: three pieces suffice for a word, a dot segment and what it removes;
  a query has up to two pieces, and a builder up to two segments. Both properties are
  also proved, for any words and any number of pieces and segments.

No symmetry is used. Deadlock is not checked where the program may really stop:
calls, tasks, messages and sessions are bounded, and nobody is obliged to make
more of them. `HttpUrl` is checked for deadlock.

## 4. Fairness

* `Scheduler`: threads that want the mutex get it, notifications are sent,
  functions return, time passes, an expired wait ends. Nobody is obliged to call
  `Schedule` or `Stop`; functions are not obliged to throw.
* `Worker`: the thread runs its handlers, `join` returns when the thread has ended,
  a turn that is due is executed, time passes.
* `WebsocketSession`: posted handlers run; resolving, connecting and the handshake
  complete or fail. The resolver of the system gives up by itself (no timer of the session
  covers it), `expires_after`, set in `OnResolve`, ends connecting, and the timeouts of the
  stream end the handshake. A write completes or fails. A read may wait for ever.
* `RoomSession`: the same for the chain, the posted handlers and the writes of a session; a
  thread inside a function goes on (`InitTest`, `InitSession`, `InitConnect`, `Continue`), and
  the worker runs its loop.
  Nothing is asked of the server, except in `JoinEnds`, whose premise says that it
  greets and answers.
* `RoomStreams`: the worker runs its tasks, libwebrtc creates the answers it was
  asked for, `OnJoinRoom` goes on, the server handles requests and sends offers.
* `PeerConnection`: operations of the chain start, an answer is created or fails, the
  observer is called, the worker makes its second call. Nobody is obliged to send offers.
* `NuveApi`: an operation with a deadline ends; nothing is asked of the server.

All of it is weak fairness of single steps of one thread.

## 5. What is proved

The proofs hold for every value of the constants that satisfies the assumption
named in the module (finite, non-empty pool; finitely many streams; bounds are naturals; `Unit` is
positive; words are not separators). Each theorem about a specification is an instance of:
initial states satisfy the invariant, every action preserves it, it implies the property.

**SchedulerProofs** (from `SchedulerAssumption`)

* `TypeCorrect`: `TypeOK` is inductive.
* `StopIsQuiet`: `QuietInv` relates `thread_count_` to the number of threads that have not
  exited, and says that only a thread in state `running` holds a function. The count needs
  the cardinality of a finite set from which one element is taken (`LeavingCounts`).
* `ExecutedOnce`: `OnceInv` adds to `ExactlyOnce` that ids are unique in the queue,
  without which taking an entry could leave its id behind. `ThreadStepKinds` sorts
  all steps of a thread into those that move, leave or take, so that the three
  inductive proofs have one case for each kind.
* `DrainCompletes`: `DrainInv` says what a thread that has exited without
  `stop_requested_` knew: everything to be drained was taken by then.
* `WakeupNeverLost`: `WakeInv` is `NoLostWakeup` with "a scheduler that is not live has one of
  the two stop flags set", and needs `DrainInv`: while something is left to drain no thread has
  exited. `ThreadOutcome` says what a thread knows when it goes into a wait: the queue is empty and
  no stop flag is set, or its deadline is no later than any entry.
* `NeverEarlyAlone`: with a single thread `NeverEarly` holds. `WaitInv` says that
  an entry due no later than the deadline of a timed wait is still there when the wait
  ends, so that the first entry is due. A second thread can take that entry.

**WorkerProofs** (from `WorkerAssumption`)

* `TypeCorrect`: needs that a clock reading held by a closure is not in the future
  and that only posted tasks are queued (`TypeInv`).
* `NoDriftEver`: `Grid` says that the reading and the delay a closure holds add up to
  its place on the grid plus the time lost between clock readings, exactly; errors
  of a millisecond therefore do not add up. It needs that no turn is queued before
  `ScheduleEvery` (`NoTurn`).
* `StopAlwaysDrains`: `Drain` says that what `Stop` owes is done, queued or being
  executed at any time until the thread ends.
* `WorkerKeepsAll`: `PlaceInv` adds to the property that a closure whose turn has asked for the
  next one is on top of the stack, where `Arm` takes it from. `ThreadInv` says where the thread is in each state of the owner.

**WebsocketProofs** (from `WebsocketAssumption`)

* `TypeCorrect`, `AlwaysOneWriter`, `AlwaysReportedOnce`: together with "after an error
  the queue is not empty" these are one inductive invariant, `Sound`.
* `IsChannel`: the session implements `MessageChannel`. `Order` says that the wire,
  then `queue_`, then the posted messages are the numbers `1 .. sent` in order. Each
  step of the session is then a step of the channel or leaves it unchanged
  (`ChannelStep`).
* `OpenStaysWritable`: `Timely` says when `connected_` can be true and that without an
  early message no write was begun on a stream that was not open.

**NuveApiProofs** (from `NuveApiAssumption`)

* `TypeCorrect`: a promise is set at most once, since exactly one of the caller's
  wait, the chain and the last handler is in progress (`Chained`).
* `ResultAlwaysFromServer`: `Honest` says that the response is the server's, or that
  there is none and the body is empty. The body, not the status, is what makes
  the race harmless: between the promise and the status of a failure the
  response still says ok.
* `PromiseAlwaysKept`: `Covered` says that a caller whose promise is not set has a chain that goes on,
  and that connecting, writing and reading have the deadline; `Chained` gives the rest.

**RoomSessionProofs** (from `RoomSessionAssumption`)

* `OldSessionsStayMute`, `OneTokenPerSession`, `SelfJoinHasCause`, `TypeCorrect`: one inductive
  invariant, `Inv`. That a replaced session is mute is decided when `Init` replaces it, by
  what `state_` says about the session of that moment: `Ending` (a disconnected signaling has
  a session whose chain is over or which is past the closing that follows a "41", unless it is
  in the middle of `ProcessDisconnect`, or a session before it was). `PlaceFacts`, `MessageFacts`,
  `ConnectedFacts` and `CloseFacts` say what a place in a handler tells about the session: its
  phase, the messages it has had, who can have closed it. `SettingUp` covers the session that
  `Init` is making, `Unused` those not made yet. For the self-join, `OldHandlers` says that an
  old session with a handler is in `unfinished`, and `Causes` that the room could be
  joined again only for one of the causes of the property.
* `JoinIsByCurrent`: by `Active` a session that still hands over messages is the current one or
  comes after an interrupted one.
* `AbandonedForGood`: follows from the same lemma; the worker and the callbacks that have begun
  are the only others that use the room.
* `JoinNeverStalls`: `InStep` says that a current session that is set up and has not failed is
  where the signaling's `state_` says, as long as no replaced session that was told "41" has a handler
  left. `InterruptedFacts` and `LeftoverStays` show that an interrupted session keeps such a
  handler while the process goes on, so the exception covers it. `FirstJoin` covers the
  time before the first session.

**RoomStreamsProofs** (from `RoomStreamsAssumption`)

* `TypeCorrect`, `OwnStreamsAreLocal`: `TypeInv` adds to the types what the fields of a task and a
  packet are, by the place that makes them, and `OwnFacts`: when an own stream is announced its
  entry is in the local map, or the task that makes it is ahead in the queue.
* `AnswersFindPending`: `SubFacts` numbers the subscriptions. The first `acked` connections have been
  handled, each of the others has one answer in the queue of tasks, in order, and the
  requests under way have higher numbers, none above that of the last pending
  stream. This survives a disconnection, since what is dropped only leaves numbers out.
  `PubFacts` says the same of publications with the numbers of the calls.
* `AnswersKeepOrder`: in the first join nothing is left out, so that pending streams,
  connections and requests are the same streams in the same order, each once (`OrderFacts`).
  `FirstJoin` and `ObservedFacts` say why a stream is subscribed to only once.
* `ConnectionsAlwaysMatch`: from the order, and because a stream that is being answered has a
  connection (`AnswerFacts`); `ErizoFacts` says that `erizo_id_` is that of some connection.
* `CrashesHaveCause`: `CalmFacts` says that as long as streams only arrive the map has an entry
  exactly for the streams shown, with the connection allocated for them, and every
  task finds what it looks for.
* `StreamsStayUnderWay`: `UnderWay` lists the stages of a stream, and a step that takes a stream out
  of a stage puts it into a later one. That an offer is answered for the stream it was made for
  is `ConnectionsMatch`; that the stream is not taken for one of our own is `OwnOnly`.

**PeerConnectionProofs** (from `PeerConnectionAssumption`)

* `TypeCorrect`: `TypeOK`, with "an answer under way is in the chain", is inductive.
* `DescriptionsAlwaysAgree`: as long as nothing has failed, `Flow` says that the chain holds
  exactly the operations that the counts of offers received, answers created and sent and
  descriptions set leave to be done, each kind in the order of the offers and an answer after its
  offer. When offers overlap, `Doomed` holds: an offer has replaced one whose answer was not set yet,
  or will (`Late`). The local description then stays behind, so that the end is not reached without a
  failure. The theorem therefore covers overlapping offers.

**HttpUrlProofs** (from `HttpUrlAssumption`)

* `BuilderStaysOK`: `BuilderOK` is the inductive invariant. It says which tokens each part of a
  builder can hold: none that would end the part in the written text, and no segment
  that `Push` would skip or take for a dot. `Parse` establishes it (`ParseOK`), the setters keep
  it (`SettersOK`).
* `WhatIsWrittenIsRead`: `RoundTrip` follows from `BuilderOK`. `ParsedText` says what `Parse`
  makes of a text that consists of a scheme, a host, a port, a path, a query and a fragment, when
  none of them holds a token that ends it. The lemmas before it give the places
  where `Find` finds the separators and cut the text there. A text that is joined
  with a separator is taken apart into the same pieces (`Joined`), whatever their number.
* `DotsAreResolved`: after the first `n` pieces the stack holds the words at the places
  that survive the first `n` pieces, in their order (`StackedAt`). For the step, `Places` says
  how the words above a place on the stack follow from the words and ".." after it in the path: a ".."
  removes the last place that survived and no other. At the end, the places in order are
  those that the reference definition numbers by counting (`Ranked`).
* `WhatIsParsedIsRight`: the texts that are given to `Parse` have the form that `ParsedText` asks for
  (`RenderedRead`), and `DotsAreResolved` gives the path. A setter leaves no input to compare with.

The functions of `HttpUrl` fold over sequences of any length, so these proofs need induction
over data. The induction theorems of the library cannot be instantiated by the provers; the
proofs speak instead of the set of lengths for which a statement holds, and take the least
one that is missing from it (`Induction`, `LeastNumber`, from the well-foundedness of the naturals).
`FoldLeft` is defined over sets of positions, the largest taken off each time; `FoldValue`
turns it into the sequence of values after each position.

The SMT encoding of tlapm 1.4.5 has an axiom that is too strong: from a function that is not
a sequence and its `Len` it derives a contradiction. The proofs do not rely on it. With the
axiom weakened to what is true of sequences (a domain `1 .. n` means length `n`), all SMT
steps of the eight modules are proved as well.

Only model-checked: all liveness properties, since the proof system does not handle
fairness.

## 6. Where code and comments disagree

* `scheduler_early`: `scheduler.cc:70` says that a thread waits until the first
  function is to be executed. When two threads wait for the same entry, the slower one executes the
  next entry before its time. The keep-alive pings and periodic tasks tolerate it
  (`NoDrift`).
* `session_end`: `licode_event.h:29` and `:30` promise that the user is shown the end of a
  connection or the failure to make one. Only a "41" from the server and a refused
  token reach the room; after a lost connection, a failed connection attempt or `Leave` it keeps
  its state and cannot be joined again.
* `peer_report`: `licode_event.h:21` names an event for a changed state of a connection.
  `OnConnectionChange` tests its optional for having a value instead of for the value, so that
  the application is told of a lost connection with `OnPeerConnect`, and `OnPeerDisconnect`
  is never called.
* `http_url.cc:74-78` says that `Pop` puts `""` in the place of the segment it removes
  (`["a", "b", "c"] ==> ["a", "b", ""]`), and `:437` that the segments always contain `""`. The code
  of `Pop` only removes, and `Push` adds no empty segment, so no `""` is ever there. The model
  follows the code, and what `ParseIsRight` expects of a path that ends with ".." is the
  path without the segment, not the one of the comment. No run is about the comment, as
  the path of the code is the one that dot segments ask for, apart from a final `/`. `PathSize`,
  which relies on the comment and has no caller, gives one less than the number of
  segments.

## 7. What the properties say about known weak spots

Some properties hold only with an exception, and name it:

* `OpenIsWritable` and `Flushed` except a message accepted while the callbacks of a
  new session are being set, when `connected_` is already true. `JoinEnds` shows how
  that happens: a ping that tested the state before the session was replaced.
* `OldSessionsMute`, `TokenOncePerSession`, `JoinedByCurrentSession`, `AbandonedStaysSo` and
  `JoinEnds` except an interrupted `ProcessDisconnect`: a `Join` between its `UpdateState` and the end
  of its `Dispose` replaces `websocket_`, `Dispose` closes the new session, and the old one
  stays open. Its messages then act on the state of the sessions that follow, and its
  callbacks are not cleared when the room is destroyed.
* `SelfJoinNeedsCause`: a session is destroyed on its own thread only after the end of the
  room, or after a new `Join` replaced it while one of its handlers was left, and that takes a
  refused token or a "41". A lost connection is no cause, since the room does not show it.
* `AbandonedStaysSo`: a room that is destroyed while its keep-alive loop runs, or while a
  callback of its session has begun, is used after its end. Once neither is the case nothing
  uses it any more, whatever its sessions do.
* `CrashNeedsCause`: null entries of the maps are used, and the race with `OnJoinRoom`
  is met, only after a stream was removed or the room was joined again. `AnswersInOrder`
  and `ConnectionsMatch` are stated for one join, because pending requests survive a
  disconnection and the answers after it are matched with the wrong streams.
  `ConnectionsMatch` speaks of the erizo only if there is one: `erizo_id_` is never changed.
* `DescriptionsAgree` and `OffersAnswered` except failures of libwebrtc, which the code only
  logs. Offers that overlap always lead to one: the first answer is applied to the second offer,
  after which the second answer is refused, though it was sent, or cannot be made.
* `JoinUnderWay` and `JoinEnds` except what `JoinFailed` lists, which leaves the room connecting.
  `JoinUnderWay` has one more exception: after a "41" and a new `Join`, the late
  `disconnect_callback_` of the replaced session can undo a join that has succeeded, and its
  late `Dispose` can close the new session. The replaced session still has a handler then.
* `CallsReturn` names the process that ends because a session joins its own thread.
* `ParseIsRight` and `RoundTrip` name the URL without a path, whose host and port
  become its path (`http_url.cc:272`).

## 8. What is not modelled

* `ThreadPool`: `Start` and `Stop` do the same for each worker; `GetLessUsedWorker`
  compares reference counts.
* `WebrtcWrapper`: a fixed sequence of calls that creates libwebrtc's factory and threads.
* In `WebrtcConnection`: tracks, data channels and the callbacks that only log;
  `CreateOffer`, which nothing reaches.
* The text of packets and requests, the signature of the Nuve API, JSON, and base64:
  the models have well-formed messages as values, and, in `NuveApi`, bodies that
  cannot be parsed or decoded.
* `WebsocketSession::ParseUrl`, `HttpRequest`, `VideoRender`, `main` beyond its observer.
* Destruction of a worker. `UnPublishStream`, `UnSubscriberStream` and `SendOffer`, which
  nothing calls and which send one packet each without changing a state; `Unschedule`,
  which has no caller.
* Everything under `src/third`: the headers of libwebrtc, which come with the repository and
  are most of its lines.
* In `HttpUrl`: white space around a URL, `:` inside a path, `?` inside a fragment,
  and the accessors of a finished URL.

## 9. Order of work

The modules were built from the bottom: `Scheduler`, `WebsocketSession` with
`MessageChannel`, `RoomSession`, `RoomStreams`, `Worker`, `NuveApi`, `HttpUrl`,
`PeerConnection`, and the proofs after the runs had passed.

To repeat the checks, in this directory: `tlc -config MCWorker.cfg MCWorker` for a
run, `tlapm WorkerProofs.tla` for a module of proofs.
