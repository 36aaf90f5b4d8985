# nghttp2-corosio in TLA+

TLA+ models of nghttp2-corosio, an HTTP/2 server and client that bridges
nghttp2 (callbacks) to capy/corosio coroutines, with the TLC runs that check
them on small instances and TLAPS proofs for instances of any size.
`PROJECT.json` maps every definition to the source lines it stands for, and
lists components, runs, findings, hazards and theorems.

## The system

One io_context runs everything on one thread. A coroutine runs undisturbed from
one `co_await` to the next, so what can go wrong is what other coroutines and
nghttp2's callbacks do while a coroutine is suspended.

* `Server` accepts connections (optionally over TLS), makes a `Session::Impl` of
  each and spawns its `run()` into the `TaskGroup` of the io_context. `Client`
  connects and does the same. The destructor of the server stops the group and
  runs the io_context until the group is empty.
* `Session::Impl` drives one nghttp2 session: `send_loop()` pulls frames from
  nghttp2, coalesces them and writes them; `recv_loop()` reads and feeds nghttp2,
  which calls back. `streams_` maps identifiers to `Stream`s.
* `Stream` bridges both directions of one HTTP/2 stream and its message head.
  Data comes in by `on_data()` and is taken by `read_some()`; data goes out when
  nghttp2 calls `producer_callback()`, out of the buffers of a suspended
  `write_some()` or `write_eof()`; `status()` waits for the response.
* `Request`, `Response`, `ClientRequest` and `ClientResponse` are what
  applications see. `echo_handler.cpp` is an application.

## Modules

| Module | Models | Proofs |
|---|---|---|
| `AsyncEvent` | `capy::async_event`, as the code relies on it (external) | `AsyncEventProofs` |
| `Body` | bodies: a byte is its position | in the module |
| `BytePipe` | abstract: what a reader is promised | |
| `ByteSink` | abstract: what a writer is promised | |
| `StreamRead` | read side of `Stream` | `StreamReadProofs` |
| `StreamWrite` | write side of `Stream` | `StreamWriteProofs` |
| `StreamHead` | message head, `get_response()`, `handle_request()` | `StreamHeadProofs` |
| `Session` | `Session::Impl` with nghttp2 as its environment | `SessionProofs` |
| `Echo` | the echo handler and its client, over two flow-controlled streams | `EchoProofs` |
| `TaskGroup`, `Server` | the group; server, client and destructor | `ServerProofs` |

Variables that end in `_` are members of the C++ classes under their own names;
the others are locals of coroutines (`pc` is where a call is), the state of
nghttp2, or history variables, and are commented as such.
An operator named `X_Y` after a comment "Mutation" is a deliberately wrong
variant of `X`. No specification uses one; putting it in place of `X` must
break a property, which shows that the property has teeth.

**StreamRead.** `ReadSome` starts a call, `DrainChunk` is one iteration of the
loop over `chunks_`, `ReturnDrained`, `ReturnEnded` and `Park` are the three ways
out of it, `Resume` is what runs after the wait. While a call holds the thread
(`pc = "draining"`) nothing else is enabled. `OnData`, `OnReadEof` and `OnClose`
are the callbacks, limited to what nghttp2 delivers: no DATA beyond the window,
after END_STREAM or on a closed stream. `Cancel` is a stop request, which may
come before or after the callbacks that wake the same wait. Buffers are not
empty.

**StreamWrite.** `WriteImpl`, `WriteClosed` and `Resume` are `write_impl()`;
`Defer` and `Produce` are the two outcomes of `producer_callback()`. `provider`
is nghttp2's view of the data provider: none (before `Submit`), ready, deferred,
done (END_STREAM taken) or gone. A stream of a client starts with its provider,
one of a server without; nothing in the code keeps a handler from writing before
`submit()`, and the model lets it. `send_loop()` is reduced to whether it runs,
waits or has ended (`SendLoopDone`, `SendLoopFails`, `SendLoopCancel` and
`SendLoopWake` are its four ways out), `recv_loop()` to whether it still reads
(`RecvEnds`); `RunEnds` is the end of `run()`, which closes the stream. Writes
without `write_eof()` have at least one byte. The model also has a `write_eof()`
with bytes of its own, which `Stream::write_eof()` accepts and no present caller
uses: `Response` and `ClientRequest` write first and end with an empty one. The
application continues after the bytes a call reported, also after a
cancelled call. `ImplementsSink` maps the bytes on the wire, END_STREAM and the
results of calls to `ByteSink`.

**StreamHead.** nghttp2 decodes a header block as it arrives, so a block may
span several reads and coroutines run between them; `reading` is true while
`nghttp2_session_mem_recv2()` holds the thread. Blocks are a request, an
informational response, a final response and trailers. `MayBegin` and `MaySend`
are the messaging rules nghttp2 enforces before it calls back; a CONNECT, the one
request without `:path`, is left out. Field values are
numbers; a content-length is the number it parses to, or `Malformed`. What the
peer has sent is kept in history variables: the regular fields of all blocks
(`arrived`), how many there were at the end of each block (`upTo`), and the
`:status` values.

**Session.** `Pull`, `Flush`, `WriteDone`, `SendFails`, `Idle` and `Wake` are
`send_loop()`, in which nothing else runs while it pulls; `RecvRequest` to
`RecvFails` are the iterations of `recv_loop()`, by what nghttp2 found in the
bytes read; `RunEnds` is the end of `run()`. nghttp2 is the set of frames it
holds, the streams it knows and its GOAWAY state. It sends frames in an order
of its own, except that a stream's HEADERS come before its end, and drops
frames that it may not send (`Sendable`, `Refusable`, `Drop`): those of streams
it does not have any more, requests after a GOAWAY of the peer, those of any stream
once the session terminates, and then also its own replies if it likes.
There are fewer streams than the 100 that SETTINGS allow. Frames have the size 1, which
fits the accumulator while there is room, or `Capacity + 1`, which never does.
What an application coroutine does with a stream is reduced to
submitting, ending, consuming, and waiting; the waits themselves are the subject
of the three stream modules. A request head counts as received in one read here;
`StreamHead` has it in parts. `unanswered`, fixed at the start, says whether the
executor is one that may leave a wakeup of `send_loop()` unanswered, as
`session_impl.hpp` reports of it.

**Echo.** One request, from end to end. `Start`, `Read`, `ReadFails`, `Write`,
`WriteFails`, `WriteEof` and `WriteEofFails` are `echo()` between its suspension
points; `pc` is the call it is in. The calls on streams are taken at the level
`BytePipe` and `ByteSink` state: a read takes what has arrived, up to the buffer;
a write sends what the window allows and goes on until its buffer is written. The
client writes its body and reads the response concurrently, or writes first, or
awaits the response first (`mode`). It announces a length, or none, or with faults
one that is too small or too large. A write that meets a closed stream fails, but
a `write_eof()` waiting when the stream closes may also report success
(`ClientWriteClosed`; finding `StreamWriteEof`). Faults are resets by either side at any moment, a submission that
fails, and a stop of the handler. Byte i of `down` is the position in the request
body of the byte sent back. Three facts about nghttp2 are used: it gives a window
back once half of it has been consumed; it sends no DATA, not even an empty frame
with END_STREAM, into a closed window; it resets a stream whose body does not have
the announced length (the tests of the repository rely on the last two). The
window of the connection is left out: `on_data_chunk_recv_callback()` gives it
back at once, so it holds up nobody for good. The windows are 1 MiB from the start;
that the peer uses 65535 until it has read SETTINGS is left out.

**Server.** Tasks of the group are the accept loop, sessions and handlers. The
io_context runs in `run()` or in the destructor. `run()` is left by `Stop`, or by
`RunReturns` when the io_context has no work any more. `AcceptThrows` is an exception
of `set_option()`, whose result type leaves no other way to report an error.
`Connect`, `ConnectHandshake`, `ConnectFailed` and `Connected` are
`Client::connect()`, awaited by a coroutine of the application that is not in
the group.

## Runs

`tlc -config <run>.cfg <module>`; every run is exhaustive for its bounds.

| Run | Checks | Bounds |
|---|---|---|
| `StreamRead` | order, no loss under cancellation, exact wakeups, flow control, sink lifetime, refinement of `BytePipe` (the end is last, and the right one); every byte and the end are read | body 5, buffers up to 3, window 4 |
| `StreamWrite` | exact wire and reports, buffer lifetime, no empty frames, no lost resume, END_STREAM last, refinement of `ByteSink` (success is progress, nothing after the end); writes return, at the latest when the connection ends | body 4, writes up to 3, window 3 |
| `StreamHead` | complete requests, faithful responses, failure only as truncation, response stays, later responses are the final one, no status or close missed by a waiter; waiters are woken | 3 regular fields, values 0 and 5 |
| `Session` | `send_loop()` sleeps only when there is nothing to send and nothing to end, wire order, `streams_` agrees with nghttp2 and is empty at the end but for later requests, nobody left waiting, GOAWAY flushed; sessions end | 1 stream, accumulator of 2, 1 reply |
| `Echo` | exact echo, a clean end is a whole response, one window buffered at most, an exchange in which nobody can go on is complete; exchanges complete | window 4, buffer 3, bodies of 0, 4 and 5, with faults 0 and 5 |
| `Server` | exact count, safe destruction, `run()` lasts until a stop or an exception; the drain ends | 4 tasks, TLS on and off |

Why the bounds suffice: a body of 5 with buffers of 3 and a window of 4 has
chunks split between sink and queue, several chunks queued, a chunk read in
parts, and a full window. Writes of 3 against a window of 3 have partial frames,
an exhausted window, and `write_eof()` over several frames. Three fields put a
duplicate or a content-length on either side of a break between two reads, and
in trailers. One stream is enough for the loops of a session, which do not look at
streams; that GOAWAY and resets which hit one stream spare the others is in the
proofs, which hold for any set of streams. A window of 4 with bodies of 0, 4 and 5
has the empty body, the one that fills the window and closes it to END_STREAM, and
the one that needs the window given back; the buffer is smaller than the window, as
in the code (64 KiB and 1 MiB), so a body takes several rounds of `echo()`. Faults
are explored with the bodies of 0 and 5 (`FaultySizes`): one has no data, the other
every stage. Four tasks are the accept loop, a session, its handler and a client
session. Runs say `CHECK_DEADLOCK FALSE` where the system may stop: a closed
stream, an ended session or exchange, a destroyed server. `StreamRead` goes on forever, the
application may always read again.

Fairness. The executor runs what is posted (weak fairness of resumptions; strong
for `get_response()`, which takes turns with reads). The application keeps
reading (`StreamRead`). `send_loop()` goes on until it waits, and writes to
the connection complete or fail; `run()` ends once both loops have. The peer goes
on granting window to an open stream while its frames are read (`StreamWrite`);
without that a write may rightly wait forever. In `Echo`
the connection delivers, and the client and the handler each go on when they can:
no fairness is given to a window, which opens only when the other side reads.
`EchoCompletes` is about undisturbed exchanges and the orders of writing and
reading that suit: concurrently, writing first what fits the window, or awaiting
first a response that is submitted early. A stop
request ends reads, accepts, handshakes, sessions and handlers (`Session`,
`Server`): corosio cancels the operations of a stopped coroutine. An executor
that leaves wakeups unanswered owes `send_loop()` nothing until the stop request;
`SessionEnds` says that a stop then ends the session nevertheless. Nothing
is assumed of the peer's frames.

## Findings

Six runs show a disagreement between a comment or documentation and the code.
Each checks the one property that states the comment.

* `StreamHeadClosed`: `get_response()` called after its stream closed without a
  status clears the latch of `on_close()` and waits forever.
* `StreamWriteEof`: a `write_eof()` waiting when its stream closes returns success
  although END_STREAM was not sent.
* `StreamHeadComplete`: `get_response()` is woken by `:status` and copies the
  fields that have arrived by then; a head in two reads gives an incomplete
  response.
* `SessionLate`: `submit_request()` after the end of `run()` enters a stream into
  `streams_`, which is not cleared again.
* `SessionRecv`: after a connection error the GOAWAY goes out and nghttp2 wants
  nothing more, and `recv_loop()` stays in its read until the peer acts.
* `ServerInFlight`: a `Client::connect()` in flight is not in the task group, and
  the destructor of the server does not wait for it.

`NobodyLeftWaiting`, `ImplementsSink` and `WaiterWoken` are stated so as to hold
beside these: they except streams submitted late, the success of writes on closed
streams, and `get_response()` on closed streams. `CleanEndIsWhole` excepts handlers
that were stopped while they echoed a body of unannounced length: `echo()` then
goes on to `write_eof()`, and END_STREAM may still go out. `WriteReturns` excepts
writes that wait on an open stream, with the connection still read, for a submission
the application has not made or for the close after END_STREAM, and those that wait
after `send_loop()` has ended and before `recv_loop()` has: when both have ended
every write returns. `RunsUntilStopped` excepts an exception in the accept loop, after
which `run()` returns as soon as the last session has ended.

## Proofs

`tlapm <module>` checks them. The only assumptions are those on constants:
sizes, bounds and field values are natural numbers (`ReadAssumption`,
`WriteAssumption`, `HeadAssumption`, `SessionAssumption`), the window and the
buffer of an exchange are not 0 (`EchoAssumption`); `Tasks` and `Streams` are any
sets. Each safety property of each passing run is proved. The argument is always
an inductive invariant `IInv` with one lemma per action; the properties are not
inductive one by one, and `IInv` adds what they need.

* `StreamReadProofs`: every safety property of `StreamRead`, and that it
  implements `BytePipe`. `IInv` adds `Contiguous`, that `chunks_` holds without
  gaps everything from the next byte to deliver to the last one received, and
  `CallState`, that a sink with room left never stands in front of a buffered
  chunk (or `on_data()` would deliver bytes out of order) and that the event of a
  parked call tells whether it has something to report. The refinement follows
  from the same invariant, step by step.
* `StreamWriteProofs`: every safety property of `StreamWrite`, the action
  property `EofOnlyWhenDrained`, and that it implements `ByteSink`. `IInv` adds
  `CallState`, that a call whose bytes are offered still has something to do, and
  that one woken on an open stream has done what its success stands for, and
  `ProviderState`, that nghttp2 takes nothing more after END_STREAM and drops the
  provider exactly when the stream closes. All of it holds through the ends of
  `send_loop()` and `recv_loop()` in either order.
* `StreamHeadProofs`: complete requests, faithful responses, failure as
  truncation, and the action properties `ResponseStays`, `StatusNeverMissed` and
  `LaterIsFinal`.
  `IInv` adds `Decoded`, that
  the members of the stream hold what has arrived; `BlockState`, what the progress
  through the header blocks says about the members (a handler exists only after
  the end of the request block, a client's END_STREAM only after a status); and
  `WaitState`, that a woken `get_response()` has a status or a closed stream.
  `StatusNeverMissed` is stated of steps because as an invariant it does not hold:
  a `get_response()` called after the close waits with the stream closed (finding
  `StreamHeadClosed`). `LaterIsFinal` says what does hold beside the finding
  `StreamHeadComplete`: a call that returns after the end of the final head has its
  status and all its fields. It takes a second invariant, `FinalState`: no status
  comes after the final one.
* `SessionProofs`: no stranded output, wire order, the stream map, the waiters and
  the flushed GOAWAY, for any set of streams. `IInv` adds `LoopState`, what
  `send_loop()`, its event and `run()` agree on, among it that a loop that ended
  in good order has emptied its accumulator and sent GOAWAY or had one from the
  peer, and `MapState`, that nghttp2 has a stream as queued or open but not both
  and that what is left in the map after `run()` came late. That no sleep outlasts
  the end of the reading or a stop takes a second invariant over the first,
  `WindDown`: `recv_loop()` does not end before the GOAWAY is queued, and
  `send_loop()` does not go back to its wait once that is sent. `NoStrandedOutput`
  follows from the two.
* `EchoProofs`: exact echo, whole responses, one window buffered. `IInv` adds
  `Flow`, that nobody has sent more than a window beyond what the other has read;
  `Bodies`, that the handler has written all it has read except what is in its
  buffer; `UpEnd`, that the end of the request comes after all of it; and
  `DownEnd`, that the handler ends a response on an open stream only after the
  request's end, or stopped, and that the announced length is the request's.
  Two more results are the safety core of `EchoCompletes`, for every window, buffer
  and body. `ExchangeNeverStuck`: an undisturbed exchange in which the writer, the
  getter and the handler all wait and nothing is on its way is complete. It rests
  on `Open`, that a reader that has read everything sent to it has opened the
  window again (nghttp2 gives a window back once half of it is consumed, and one
  that is closed and all read is consumed whole), and `Calm`, where an undisturbed exchange is
  when a stream closes, a body ends or a coroutine is done. `StepsCount` and
  `StepsBounded`: every step, disturbed or not, increases `Work`, the bytes moved
  and the stages passed, which never exceeds 6 * `size` + 17; so no schedule keeps
  the coroutines busy for ever. What is left to the run is that under fairness
  somebody who can go on does. The conditions under which each one waits
  (`WriterWaits`, `GetterWaits`, `HandlerWaits`, `NothingOnItsWay`) are written
  out, since the provers have no `ENABLED`; evaluated with TLC on the instance of
  the run they hold together exactly where none of the fair actions is enabled.
* `ServerProofs`: exact count, safe destruction, and that `run()` lasts. `IInv` adds
  that the live tasks are finitely many, and `AcceptState`, that the task of the
  accept loop lives as long as the loop, which ends only by an exception or after
  the stop request of the destructor; the lemmas `SpawnCounts` and `CompleteCounts` carry the counting.
* `AsyncEventProofs` and `Body` hold lemmas on events and byte sequences.

Type correctness is proved of all six models; the runs `StreamHead`, `Echo` and
`Server` do not check it again. `SuccessMeansProgress` and `EndReportedLast` are proved on the way; the refinements
the runs check imply them. Model-checked only: the liveness properties
(`EveryByteRead`, `EndIsReported`, `WriteReturns`, `WaiterWoken`, `SessionEnds`,
`EchoCompletes`, `DrainTerminates`): fairness and `ENABLED` are out of the prover's
reach.

## Not modelled

* nghttp2, capy and corosio beyond what the code relies on.
* Logging and formatting, the options of `server_main.cpp`, and the stand-alone
  sample `main.cpp`, which uses nothing of the library.
* `write_eof(buffers)` of `Response` and `ClientRequest` as an action of its own:
  it is `write()` followed by `write_eof()`, which the client of `Echo` does.
* Handlers other than echo. A handler that returns without `write_eof()` leaves
  its stream open until the session ends; the library does not forbid it.
* A read into an empty buffer: no caller does it, and no result is promised.
* A TLS handshake without end: the accept loop has no timeout for it.
* Several streams competing for one connection's window in `Echo`; the window of
  the connection is given back on receipt and bounds no reader.
