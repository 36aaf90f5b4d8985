------------------------------ MODULE Session -------------------------------
(***************************************************************************)
(* Session::Impl: run() drives one nghttp2 session over one connection     *)
(* with two coroutines, send_loop() and recv_loop(), while the coroutines  *)
(* of the application (request handlers, or the users of ClientRequest)    *)
(* submit messages and wait on streams.                                    *)
(*                                                                         *)
(* send_loop() runs undisturbed from one suspension point to the next: as  *)
(* long as it is pulling frames no other step is enabled (send = "pull").  *)
(* What a step of recv_loop() or of an application coroutine does between  *)
(* two suspension points is one action.                                    *)
(*                                                                         *)
(* nghttp2 is external.  It is given by the frames it holds for sending,   *)
(* the streams it knows and its GOAWAY state.  It sends frames in an order *)
(* of its own, so the frames it holds are a set.                           *)
(***************************************************************************)
EXTENDS Integers, Sequences, Body, AsyncEvent

CONSTANTS Streams,      \* bound: the streams of the connection
          Capacity,     \* what send_loop()'s accumulator holds (1460 bytes)
          MaxReplies    \* bound: frames nghttp2 answers on its own

ASSUME SessionAssumption == Capacity \in Nat /\ MaxReplies \in Nat

VARIABLES
    role_, streams_, write_ready_,
    closed,         \* the streams on_close() has been called on
    send,           \* where send_loop() is
    pending, used,  \* its accumulator: the chunks in it, and their size
    data,           \* the chunk nghttp2 returned last, if it did not fit
    recv,           \* where recv_loop() is
    run,            \* where run() is
    user,           \* the application coroutine of each stream
    submitted,      \* the streams with a request or response submitted
    ending,         \* the streams with a write_eof()
    unanswered,     \* the executor may leave a wakeup of send_loop() unanswered
    stopped,        \* the stop token of the session is triggered
    failed,         \* history: nghttp2 or the connection failed send_loop()
    gone,           \* history: the connection has failed or ended recv_loop()
    late,           \* history: streams submitted after the end of run()
    out,            \* nghttp2: frames to send
    replies,        \* nghttp2: frames it has queued on its own
    queued,         \* nghttp2: requests submitted and not sent
    open,           \* nghttp2: streams it has opened
    localEnd,       \* nghttp2: streams with END_STREAM sent
    remoteEnd,      \* nghttp2: streams with END_STREAM received
    term,           \* nghttp2: its terminating GOAWAY
    goaway,         \* nghttp2: the peer has sent GOAWAY
    produced,       \* history: number of chunks nghttp2 has returned
    wire            \* history: chunks written to the connection

fixed    == <<role_, unanswered>>
mapVars  == <<streams_, closed, user>>
sendVars == <<send, pending, used, data, failed, produced, wire>>
recvVars == <<recv, gone>>
appVars  == <<submitted, ending, late>>
h2Vars   == <<out, replies, queued, open, localEnd, remoteEnd, term, goaway>>
vars == <<fixed, mapVars, write_ready_, run, stopped, sendVars, recvVars,
          appVars, h2Vars>>

Frame == [kind : {"reply", "headers", "end", "rst", "goaway"},
          stream : Streams \cup {0}]

Reply == [kind |-> "reply", stream |-> 0]
Goaway == [kind |-> "goaway", stream |-> 0]

TypeOK ==
    /\ role_ \in {"client", "server"}
    /\ streams_ \subseteq Streams
    /\ write_ready_ \in Event
    /\ closed \subseteq Streams
    /\ send \in {"pull", "writing", "waiting", "done"}
    /\ pending \in Seq(Nat)
    /\ used \in 0 .. Capacity
    /\ data \in Seq(Nat)
    /\ recv \in {"reading", "done"}
    /\ run \in {"running", "ended"}
    /\ user \in [Streams -> {"none", "active", "suspended"}]
    /\ {unanswered, stopped, failed, gone, goaway} \subseteq BOOLEAN
    /\ submitted \subseteq Streams /\ ending \subseteq Streams
    /\ late \subseteq Streams
    /\ out \subseteq Frame
    /\ replies \in 0 .. MaxReplies
    /\ queued \subseteq Streams /\ open \subseteq Streams
    /\ localEnd \subseteq Streams /\ remoteEnd \subseteq Streams
    /\ term \in {"no", "queued", "sent"}
    /\ produced \in Nat
    /\ wire \in Seq(Nat)

\* run() has set the nghttp2 session up and submitted its SETTINGS.
Init ==
    /\ role_ \in {"client", "server"}
    /\ unanswered \in BOOLEAN
    /\ streams_ = {} /\ closed = {}
    /\ write_ready_ = NewEvent
    /\ send = "pull" /\ pending = <<>> /\ used = 0 /\ data = <<>>
    /\ recv = "reading"
    /\ run = "running"
    /\ user = [s \in Streams |-> "none"]
    /\ submitted = {} /\ ending = {} /\ late = {}
    /\ stopped = FALSE /\ failed = FALSE /\ gone = FALSE
    /\ out = {Reply} /\ replies = 0
    /\ queued = {} /\ open = {} /\ localEnd = {} /\ remoteEnd = {}
    /\ term = "no" /\ goaway = FALSE
    /\ produced = 0 /\ wire = <<>>

Free == send # "pull"

\* nghttp2_session_want_read(), nghttp2_session_want_write()
WantRead(t, opened, ga) == t # "sent" /\ (opened # {} \/ ~ga)
WantWrite(t, frames) == t # "sent" /\ frames # {}

StartWrite == write_ready_' = SetEvent(write_ready_)

-----------------------------------------------------------------------------
(* Streams.                                                                *)

Fresh(s) == s \notin streams_ \cup closed

Woken(S) == [s \in Streams |-> IF s \in S /\ user[s] = "suspended"
                               THEN "active" ELSE user[s]]

\* Mutation: the stream is dropped and nobody told.
Told_Nobody(S) == {}

\* The waiters on_close() wakes.
Told(S) == S \cap streams_

\* Mutation: the stream is told and stays in the map.
Left_All(S) == streams_

Left(S) == streams_ \ S

\* close_stream() for every stream of S, from on_stream_close_callback() or at
\* the end of run().  The streams in also have their waiters woken by another
\* callback.
CloseStreams(S, also) ==
    /\ closed' = closed \cup (S \cap streams_)
    /\ user' = Woken(Told(S) \cup also)
    /\ streams_' = Left(S)

-----------------------------------------------------------------------------
(* send_loop()                                                             *)

\* A frame of a stream has to wait for the HEADERS that open it.
Ready(f) == ~(f.kind = "end" /\ [f EXCEPT !.kind = "headers"] \in out)

\* nghttp2 refuses frames of streams it does not have (any more), every frame of
\* a stream when terminating, and requests after a GOAWAY of the peer.  There are
\* fewer Streams than the 100 that may be open at a time.
Sendable(f) ==
    CASE f.kind \in {"reply", "goaway"} -> TRUE
      [] f.kind = "headers" /\ role_ = "client" ->
             f.stream \in queued /\ term = "no" /\ ~goaway
      [] OTHER -> f.stream \in open /\ term = "no"

\* When terminating it may leave out its replies, too.
Refusable(f) == ~Sendable(f) \/ (f.kind = "reply" /\ term # "no")

\* nghttp2 drops a frame; a request that cannot be sent is closed.
Drop(f) ==
    /\ send = "pull"
    /\ f \in out /\ Ready(f) /\ Refusable(f)
    /\ out' = out \ {f}
    /\ LET dead == {s \in queued : f.kind = "headers" /\ f.stream = s}
       IN  queued' = queued \ dead /\ CloseStreams(dead, {})
    /\ UNCHANGED <<fixed, write_ready_, run, stopped, sendVars, recvVars, appVars,
                   replies, open, localEnd, remoteEnd, term, goaway>>

\* Mutation: the accumulator grows over its capacity.
Fits_Always(size) == TRUE

Fits(size) == size <= Capacity - used

\* nghttp2_session_mem_send2() returns a frame.  It is buffered if it fits, and
\* written together with what is buffered otherwise.
Pull(f, size) ==
    /\ send = "pull"
    /\ f \in out /\ Ready(f) /\ Sendable(f)
    /\ out' = out \ {f}
    /\ produced' = produced + 1
    /\ IF Fits(size)
       THEN /\ pending' = Append(pending, produced + 1)
            /\ used' = used + size
            /\ UNCHANGED <<send, data>>
       ELSE /\ data' = <<produced + 1>>
            /\ send' = "writing"
            /\ UNCHANGED <<pending, used>>
    /\ LET opened == {s \in queued : f.kind = "headers" /\ f.stream = s}
           ended  == {s \in open : f.kind = "end" /\ f.stream = s}
           dead   == (ended \cap remoteEnd)
                     \cup {s \in open : f.kind = "rst" /\ f.stream = s}
       IN  /\ queued' = queued \ opened
           /\ open' = (open \cup opened) \ dead
           /\ localEnd' = localEnd \cup ended
           /\ CloseStreams(dead, ended)
    /\ term' = IF f.kind = "goaway" THEN "sent" ELSE term
    /\ UNCHANGED <<fixed, write_ready_, run, stopped, failed, wire, recvVars,
                   appVars, replies, remoteEnd, goaway>>

\* Mutation: what is buffered waits for more.
Flushed_Ignored == TRUE

Flushed == pending = <<>>

\* nghttp2 has nothing more, the accumulator has.
Flush ==
    /\ send = "pull" /\ out = {} /\ pending # <<>>
    /\ send' = "writing"
    /\ UNCHANGED <<fixed, mapVars, write_ready_, run, stopped, pending, used, data,
                   failed, produced, wire, recvVars, appVars, h2Vars>>

\* Mutation: the accumulator is not cleared after the write.
ClearPending_Never == UNCHANGED <<pending, used>>

ClearPending == pending' = <<>> /\ used' = 0

WriteDone ==
    /\ send = "writing"
    /\ wire' = wire \o pending \o data
    /\ ClearPending
    /\ data' = <<>>
    /\ send' = "pull"
    /\ UNCHANGED <<fixed, mapVars, write_ready_, run, stopped, failed, produced,
                   recvVars, appVars, h2Vars>>

\* The write fails or is cancelled, or nghttp2_session_mem_send2() fails.
SendFails ==
    /\ send \in {"pull", "writing"}
    /\ IF send = "writing" THEN ClearPending ELSE UNCHANGED <<pending, used>>
    /\ data' = <<>>
    /\ send' = "done"
    /\ failed' = TRUE
    /\ UNCHANGED <<fixed, mapVars, write_ready_, run, stopped, produced, wire,
                   recvVars, appVars, h2Vars>>

SendLoopOver == ~WantRead(term, open, goaway) /\ ~WantWrite(term, out)

\* The wait of send_loop(); a stop request that has come before cancels it.
Await(e) == IF stopped THEN CancelWait(AwaitEvent(e)) ELSE AwaitEvent(e)

\* Nothing buffered, nothing new.
Idle ==
    /\ send = "pull" /\ out = {} /\ Flushed
    /\ IF SendLoopOver
       THEN send' = "done" /\ UNCHANGED write_ready_
       ELSE send' = "waiting" /\ write_ready_' = Await(ClearEvent(write_ready_))
    /\ UNCHANGED <<fixed, mapVars, run, stopped, pending, used, data, failed,
                   produced, wire, recvVars, appVars, h2Vars>>

Wake ==
    /\ send = "waiting" /\ Resumable(write_ready_)
    /\ send' = IF write_ready_.waiter = "canceled" THEN "done" ELSE "pull"
    /\ write_ready_' = EndWait(write_ready_)
    /\ UNCHANGED <<fixed, mapVars, run, stopped, pending, used, data, failed,
                   produced, wire, recvVars, appVars, h2Vars>>

-----------------------------------------------------------------------------
(* recv_loop(): one action for each thing nghttp2 may find in what was     *)
(* read.  Several frames of one read are several actions in a row.         *)

Reading == Free /\ recv = "reading"

\* Mutation: recv_loop() ends without waking send_loop().
WakeForGoaway_Never == UNCHANGED write_ready_

WakeForGoaway == StartWrite

\* The end of recv_loop(): nghttp2_session_terminate_session() queues GOAWAY
\* unless one is queued, start_write() has send_loop() flush it.
Terminate(frames) ==
    /\ recv' = "done"
    /\ out' = IF term = "no" THEN frames \cup {Goaway} ELSE frames
    /\ term' = IF term = "no" THEN "queued" ELSE term
    /\ WakeForGoaway

\* What follows nghttp2_session_mem_recv2(): start_write(), and the loop ends if
\* nghttp2 wants nothing more.
Continue(frames, opened, ga) ==
    /\ IF WantRead(term, opened, ga) \/ WantWrite(term, frames)
       THEN out' = frames /\ StartWrite /\ UNCHANGED <<recv, term>>
       ELSE Terminate(frames)
    /\ open' = opened
    /\ goaway' = ga
    /\ UNCHANGED <<fixed, run, stopped, sendVars, gone, appVars, queued, localEnd>>

\* A request: its stream is made, its handler spawned.
RecvRequest(s) ==
    /\ Reading /\ term = "no"
    /\ role_ = "server" /\ Fresh(s)
    /\ streams_' = streams_ \cup {s}
    /\ user' = [user EXCEPT ![s] = "active"]
    /\ Continue(out, open \cup {s}, goaway)
    /\ UNCHANGED <<closed, replies, remoteEnd>>

\* A response head or a DATA frame.
RecvMore(s) ==
    /\ Reading /\ term = "no"
    /\ s \in open \ remoteEnd
    /\ CloseStreams({}, {s})
    /\ Continue(out, open, goaway)
    /\ UNCHANGED <<replies, remoteEnd>>

\* END_STREAM closes the stream if ours has been sent.
RecvEnd(s) ==
    /\ Reading /\ term = "no"
    /\ s \in open \ remoteEnd
    /\ remoteEnd' = remoteEnd \cup {s}
    /\ LET dead == {s} \cap localEnd
       IN  CloseStreams(dead, {s}) /\ Continue(out, open \ dead, goaway)
    /\ UNCHANGED replies

RecvRst(s) ==
    /\ Reading /\ term = "no"
    /\ s \in open
    /\ CloseStreams({s}, {})
    /\ Continue(out, open \ {s}, goaway)
    /\ UNCHANGED <<replies, remoteEnd>>

\* A frame nghttp2 answers: SETTINGS, PING, or an error on a stream.
RecvAnswered(f) ==
    /\ Reading /\ term = "no"
    /\ f = Reply \/ (f.kind = "rst" /\ f.stream \in open)
    /\ replies < MaxReplies
    /\ replies' = replies + 1
    /\ CloseStreams({}, {})
    /\ Continue(out \cup {f}, open, goaway)
    /\ UNCHANGED remoteEnd

\* GOAWAY closes the requests the peer says it has not seen.
RecvGoaway(unseen) ==
    /\ Reading /\ term = "no"
    /\ ~goaway
    /\ unseen \subseteq open /\ (role_ = "server" => unseen = {})
    /\ CloseStreams(unseen, {})
    /\ Continue(out, open \ unseen, TRUE)
    /\ UNCHANGED <<replies, remoteEnd>>

\* A connection error that nghttp2 answers with a GOAWAY of its own.
RecvConnectionError ==
    /\ Reading /\ term = "no"
    /\ term' = "queued"
    /\ out' = out \cup {Goaway}
    /\ StartWrite
    /\ UNCHANGED <<fixed, mapVars, run, stopped, sendVars, recvVars, appVars,
                   replies, queued, open, localEnd, remoteEnd, goaway>>

\* After its GOAWAY nghttp2 takes no notice of what it is fed.
RecvIgnored ==
    /\ Reading /\ term # "no"
    /\ CloseStreams({}, {})
    /\ Continue(out, open, goaway)
    /\ UNCHANGED <<replies, remoteEnd>>

\* The read fails, ends or is cancelled, or nghttp2_session_mem_recv2() fails.
RecvFails ==
    /\ Reading
    /\ gone' = TRUE
    /\ Terminate(out)
    /\ UNCHANGED <<fixed, mapVars, run, stopped, sendVars, appVars, replies,
                   queued, open, localEnd, remoteEnd, goaway>>

\* Both loops have ended: run() closes the streams that are left.
RunEnds ==
    /\ run = "running" /\ send = "done" /\ recv = "done"
    /\ run' = "ended"
    /\ CloseStreams(streams_, {})
    /\ UNCHANGED <<fixed, write_ready_, stopped, sendVars, recvVars, appVars,
                   h2Vars>>

-----------------------------------------------------------------------------
(* The application.                                                        *)

SubmitRequest(s) ==
    /\ Free
    /\ role_ = "client" /\ Fresh(s)
    /\ queued' = queued \cup {s}
    /\ out' = out \cup {[kind |-> "headers", stream |-> s]}
    /\ streams_' = streams_ \cup {s}
    /\ StartWrite
    /\ user' = [user EXCEPT ![s] = "active"]
    /\ submitted' = submitted \cup {s}
    /\ late' = IF run = "ended" THEN late \cup {s} ELSE late
    /\ UNCHANGED <<fixed, closed, run, stopped, sendVars, recvVars, ending,
                   replies, open, localEnd, remoteEnd, term, goaway>>

\* nghttp2 takes the response of a stream it has closed and drops it later.
SubmitResponse(s) ==
    /\ Free
    /\ role_ = "server" /\ user[s] = "active" /\ s \notin submitted
    /\ out' = out \cup {[kind |-> "headers", stream |-> s]}
    /\ StartWrite
    /\ submitted' = submitted \cup {s}
    /\ UNCHANGED <<fixed, mapVars, run, stopped, sendVars, recvVars, ending, late,
                   replies, queued, open, localEnd, remoteEnd, term, goaway>>

\* write_eof() on an open stream: the data provider has its last frame.
WriteEof(s) ==
    /\ Free
    /\ user[s] = "active" /\ s \in submitted \ (ending \cup closed)
    /\ out' = out \cup {[kind |-> "end", stream |-> s]}
    /\ StartWrite
    /\ user' = [user EXCEPT ![s] = "suspended"]
    /\ ending' = ending \cup {s}
    /\ UNCHANGED <<fixed, streams_, closed, run, stopped, sendVars, recvVars,
                   submitted, late, replies, queued, open, localEnd, remoteEnd,
                   term, goaway>>

\* Mutation: the freed window is not announced.
AnnounceWindow_Never == UNCHANGED write_ready_

AnnounceWindow == StartWrite

\* Stream::consume(): nghttp2 may have a WINDOW_UPDATE to send.
Consume(s) ==
    /\ Free
    /\ user[s] = "active" /\ s \in open
    /\ replies < MaxReplies
    /\ replies' = replies + 1
    /\ out' = out \cup {Reply}
    /\ AnnounceWindow
    /\ UNCHANGED <<fixed, mapVars, run, stopped, sendVars, recvVars, appVars,
                   queued, open, localEnd, remoteEnd, term, goaway>>

\* The coroutine waits on a stream that is not closed: in read_some(), in a
\* write, or for the response.
Suspend(s) ==
    /\ Free
    /\ user[s] = "active" /\ s \notin closed
    /\ user' = [user EXCEPT ![s] = "suspended"]
    /\ UNCHANGED <<fixed, streams_, write_ready_, closed, run, stopped, sendVars,
                   recvVars, appVars, h2Vars>>

\* The owner of the session requests its stop.
Stop ==
    /\ Free
    /\ ~stopped
    /\ stopped' = TRUE
    /\ write_ready_' = CancelWait(write_ready_)
    /\ UNCHANGED <<fixed, mapVars, run, sendVars, recvVars, appVars, h2Vars>>

-----------------------------------------------------------------------------
\* A frame fits the empty accumulator, or no accumulator.
SendStep == \/ \E f \in out : Drop(f)
            \/ \E f \in out, size \in {1, Capacity + 1} : Pull(f, size)
            \/ Flush \/ WriteDone \/ SendFails \/ Idle

Recv == \/ \E s \in Streams : \/ RecvRequest(s) \/ RecvMore(s) \/ RecvEnd(s)
                              \/ RecvRst(s)
        \/ \E f \in Frame : RecvAnswered(f)
        \/ \E unseen \in SUBSET Streams : RecvGoaway(unseen)
        \/ RecvConnectionError \/ RecvIgnored \/ RecvFails

Application == \E s \in Streams : \/ SubmitRequest(s) \/ SubmitResponse(s)
                                  \/ WriteEof(s) \/ Consume(s) \/ Suspend(s)

Next == SendStep \/ Wake \/ Recv \/ RunEnds \/ Application \/ Stop

Spec == Init /\ [][Next]_vars

\* The executor runs what is posted to it, a write to the connection completes
\* or fails, and a stop request ends the read.  An executor that may leave a
\* wakeup unanswered (send_loop(), session_impl.hpp) runs it once the stop
\* request has it at work again.
FairSpec == /\ Spec
            /\ WF_vars(SendStep)
            /\ WF_vars((unanswered => stopped) /\ Wake)
            /\ WF_vars(RunEnds)
            /\ WF_vars(stopped /\ RecvFails)

-----------------------------------------------------------------------------
(* Properties.                                                             *)

\* send_loop() never sleeps on output: while it is suspended nghttp2 holds no
\* frame and the accumulator is empty, whatever was submitted, consumed or
\* received during its writes (write_ready_.clear() after nghttp2 has returned
\* nothing, start_write() latches).  Nor does it sleep through the end of the
\* session: not once recv_loop() has ended, nor once the session is stopped.
NoStrandedOutput ==
    write_ready_.waiter = "suspended" =>
        /\ out = {} /\ pending = <<>>
        /\ recv = "reading" /\ ~stopped

\* What nghttp2 returns reaches the connection in order, once each: buffered in
\* the accumulator, written past it, or both in one write.
WireOrder ==
    /\ \A i \in 1 .. Len(wire) : wire[i] = i
    /\ ~failed => wire \o pending \o data = Bytes(0, produced)

\* While the session runs, streams_ is the set of streams that nghttp2 has or
\* has been given, so that no callback misses its stream; a stream that is no
\* longer in it has been told so.  A session that has ended keeps only what was
\* submitted afterwards.
StreamsAgree ==
    /\ run = "running" => streams_ = open \cup queued
    /\ run = "ended" => streams_ \subseteq late
    /\ streams_ \cap closed = {}
    /\ \A s \in Streams : user[s] # "none" => s \in streams_ \cup closed

\* Nobody waits on a stream that is closed, nor on any stream of a session that
\* has ended, submitted while it ran ("gets an eof/canceled error instead of
\* hanging forever", run()).
NobodyLeftWaiting ==
    \A s \in Streams : user[s] = "suspended" =>
        s \notin closed /\ (run = "ended" => s \in late)

\* The session of a connection that worked to the end has written all that
\* nghttp2 returned and its GOAWAY, unless the peer had sent one ("wake
\* send_loop() so it can flush the GOAWAY", recv_loop()).
GoawayFlushed ==
    run = "ended" /\ ~failed /\ ~stopped =>
        Len(wire) = produced /\ (term = "sent" \/ goaway)

\* A session whose connection ends or fails ends, and one that is stopped ends
\* even if the executor leaves wakeups unanswered ("left suspended here
\* indefinitely [...] until something cancels it", send_loop(),
\* session_impl.hpp).
SessionEnds == (stopped \/ (gone /\ ~unanswered)) ~> (run = "ended")

\* The end of run() leaves no stream ("Clearing streams_ also breaks the Stream
\* <-> Session::Impl reference cycle", run()).
EndLeavesNoStream == run = "ended" => streams_ = {}

\* recv_loop() ends once nghttp2 wants neither to read nor to write ("Ends once
\* the stream errors or nghttp2 wants neither to read nor write",
\* session_impl.hpp).
RecvLoopEnds ==
    LET over == ~WantRead(term, open, goaway) /\ ~WantWrite(term, out)
    IN  (over /\ ~failed) ~> (recv = "done" \/ ~over \/ failed)
=============================================================================
