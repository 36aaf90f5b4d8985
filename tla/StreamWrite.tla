---------------------------- MODULE StreamWrite -----------------------------
(***************************************************************************)
(* The write side of a Stream: one coroutine at a time pushes body bytes   *)
(* with write_impl(), which write_some() and write_eof() share; once the   *)
(* message and its data provider have been submitted, send_loop() has      *)
(* nghttp2 pull them, a DATA frame at a time, through producer_callback(). *)
(*                                                                         *)
(* A body byte is identified by its position in the body.  The application *)
(* goes on after a write where that write said it got to: the bytes of a   *)
(* call are the ones after the position `reported'.                        *)
(***************************************************************************)
EXTENDS Integers, Sequences, Body, AsyncEvent

CONSTANTS MaxBody,      \* bound: bytes the application writes
          MaxWrite,     \* bound: size of the buffers of one call
          Window        \* bound: send window the peer grants at most

ASSUME WriteAssumption ==
    /\ MaxBody \in Nat
    /\ MaxWrite \in Nat
    /\ Window \in Nat

VARIABLES
    closed_,
    pending_,               \* size of the buffers of the call
    write_offset_, write_eof_requested_, write_pending_, write_deferred_,
    write_progress_,
    pc,             \* where the write_impl() call is
    result,         \* what the last completed call returned, and its arguments
    write_ready_,   \* the event send_loop() waits on (Session::Impl)
    sending,        \* send_loop() has not ended
    receiving,      \* recv_loop() has not ended
    provider,       \* nghttp2: what it does with the stream's data provider
    window,         \* nghttp2: send window left
    frame,          \* nghttp2: the last DATA frame, its length and END_STREAM
    wire,           \* history: body bytes handed to nghttp2, in order
    reported        \* history: bytes reported to the application as written

memberVars == <<closed_, pending_, write_offset_, write_eof_requested_,
                write_pending_, write_deferred_, write_progress_>>
callVars   == <<pc, result, reported>>
h2Vars     == <<provider, window, frame, wire>>
loopVars   == <<sending, receiving>>
vars == <<memberVars, callVars, h2Vars, write_ready_, loopVars>>

Result == [ec : {"none", "ok", "eof", "canceled"}, n : Nat, size : Nat,
           eof : BOOLEAN]

TypeOK ==
    /\ closed_ \in BOOLEAN
    /\ pending_ \in Nat
    /\ write_offset_ \in Nat
    /\ write_eof_requested_ \in BOOLEAN
    /\ write_pending_ \in BOOLEAN
    /\ write_deferred_ \in BOOLEAN
    /\ write_progress_ \in Event
    /\ pc \in {"idle", "waiting"}
    /\ result \in Result
    /\ write_ready_ \in Event
    /\ sending \in BOOLEAN
    /\ receiving \in BOOLEAN
    /\ provider \in {"none", "ready", "deferred", "done", "gone"}
    /\ window \in Nat
    /\ frame \in [len : Nat, eof : BOOLEAN]
    /\ wire \in Seq(Nat)
    /\ reported \in Nat

\* submit_request() makes the stream with its data provider, a server session
\* makes it without.  start_write() has been called by either.
Init ==
    /\ closed_ = FALSE
    /\ pending_ = 0
    /\ write_offset_ = 0
    /\ write_eof_requested_ = FALSE
    /\ write_pending_ = FALSE
    /\ write_deferred_ = FALSE
    /\ write_progress_ = NewEvent
    /\ pc = "idle"
    /\ result = [ec |-> "none", n |-> 0, size |-> 0, eof |-> FALSE]
    /\ write_ready_ = SetEvent(NewEvent)
    /\ sending = TRUE
    /\ receiving = TRUE
    /\ provider \in {"none", "ready"}
    /\ window \in 0 .. Window
    /\ frame = [len |-> 1, eof |-> FALSE]
    /\ wire = <<>>
    /\ reported = 0

-----------------------------------------------------------------------------
(* The application's calls.                                                *)

\* The application stops writing once write_eof() has succeeded.
MayWrite(size) ==
    /\ pc = "idle"
    /\ ~(result.ec = "ok" /\ result.eof)
    /\ reported + size <= MaxBody

\* Mutation: send_loop() is not woken.
Poke_Never == UNCHANGED write_ready_

\* poke_send_loop()
Poke == write_ready_' = SetEvent(write_ready_)

\* Mutation: a deferred provider is not resumed.
ResumeWrite_Never == UNCHANGED provider

\* nghttp2_session_resume_data() puts a deferred provider back to work.
ResumeWrite == provider' = IF write_deferred_ THEN "ready" ELSE provider

WriteClosed(size, eof) ==
    /\ MayWrite(size)
    /\ closed_
    /\ result' = [ec |-> "eof", n |-> 0, size |-> size, eof |-> eof]
    /\ UNCHANGED <<loopVars, memberVars, pc, reported, h2Vars, write_ready_>>

\* Mutation: the offset of the previous call is kept.
Rewind_Never == UNCHANGED write_offset_

Rewind == write_offset_' = 0

\* Mutation: a latch left over from an earlier wakeup is not cleared.
AwaitProgress_Uncleared == write_progress_' = AwaitEvent(write_progress_)

AwaitProgress == write_progress_' = AwaitEvent(ClearEvent(write_progress_))

WriteImpl(size, eof) ==
    /\ MayWrite(size)
    /\ ~closed_
    /\ pending_' = size
    /\ Rewind
    /\ write_eof_requested_' = eof
    /\ write_pending_' = TRUE
    /\ ResumeWrite
    /\ write_deferred_' = FALSE
    /\ Poke
    /\ AwaitProgress
    /\ pc' = "waiting"
    /\ UNCHANGED <<loopVars, closed_, result, reported, window, frame, wire>>

\* submit_response(), also with a write already waiting: nothing checks that
\* submission comes first.
Submit ==
    /\ provider = "none"
    /\ provider' = "ready"
    /\ Poke
    /\ UNCHANGED <<loopVars, memberVars, callVars, window, frame, wire>>

\* The stop token of the calling coroutine is triggered during the wait.
Cancel ==
    /\ write_progress_.waiter = "suspended"
    /\ write_progress_' = CancelWait(write_progress_)
    /\ UNCHANGED <<closed_, pending_, write_offset_, write_eof_requested_,
                   loopVars, write_pending_, write_deferred_, callVars, h2Vars,
                   write_ready_>>

WaitError == IF write_progress_.waiter = "canceled" THEN "canceled" ELSE "ok"

\* Mutation: a cancelled write reports no progress.
Progress_Dropped == IF WaitError = "ok" THEN write_offset_ ELSE 0

Progress == write_offset_

\* Mutation: the call returns with its buffers still offered.
Retire_Never == UNCHANGED write_pending_

Retire == write_pending_' = FALSE

\* The posted resumption runs and the call returns.
Resume ==
    /\ pc = "waiting"
    /\ Resumable(write_progress_)
    /\ Retire
    /\ write_progress_' = EndWait(write_progress_)
    /\ pc' = "idle"
    /\ result' = [ec |-> WaitError, n |-> Progress, size |-> pending_,
                  eof |-> write_eof_requested_]
    /\ reported' = reported + Progress
    /\ UNCHANGED <<closed_, pending_, write_offset_, write_eof_requested_,
                   loopVars, write_deferred_, h2Vars, write_ready_>>

-----------------------------------------------------------------------------
(* send_loop() and nghttp2.                                                *)

SendLoopRuns == sending /\ write_ready_.waiter = "none"

\* nghttp2 calls the provider back only if it can send at least one byte.
Pullable == provider = "ready" /\ window > 0

\* producer_callback() with nothing to send.
Defer ==
    /\ SendLoopRuns /\ Pullable
    /\ ~write_pending_
    /\ write_deferred_' = TRUE
    /\ provider' = "deferred"
    /\ UNCHANGED <<closed_, pending_, write_offset_, write_eof_requested_,
                   loopVars, write_pending_, write_progress_, callVars, window,
                   frame, wire, write_ready_>>

\* Mutation: write_eof() completes with the first frame, like write_some().
Completes_First(offset) == TRUE

\* Whether the call in progress is complete with the bytes copied so far.
Completes(offset) == offset = pending_ \/ ~write_eof_requested_

\* Mutation: write_pending_ is left to the resumed call to reset.
Finish_Late(done) ==
    /\ UNCHANGED write_pending_
    /\ write_progress_' = IF done THEN SetEvent(write_progress_)
                          ELSE write_progress_

\* What producer_callback() does to the call that is complete.
Finish(done) ==
    /\ write_pending_' = ~done
    /\ write_progress_' = IF done THEN SetEvent(write_progress_)
                          ELSE write_progress_

\* producer_callback() for a DATA frame of at most the given length.
Produce(length) ==
    /\ SendLoopRuns /\ Pullable
    /\ length <= window
    /\ write_pending_
    /\ LET copied == Lesser(length, pending_ - write_offset_)
           offset == write_offset_ + copied
           done   == Completes(offset)
           eof    == done /\ write_eof_requested_
       IN  /\ wire' = wire \o Bytes(reported + write_offset_, reported + offset)
           /\ write_offset_' = offset
           /\ Finish(done)
           /\ frame' = [len |-> copied, eof |-> eof]
           /\ provider' = IF eof THEN "done" ELSE "ready"
           /\ window' = window - copied
    /\ UNCHANGED <<closed_, pending_, write_eof_requested_, write_deferred_,
                   loopVars, callVars, write_ready_>>

\* nghttp2 has nothing to send: send_loop() clears its event and waits.  Once
\* recv_loop() has ended it does not wait, as nghttp2 then wants neither to read
\* nor to write.
SendLoopWait ==
    /\ SendLoopRuns /\ receiving
    /\ ~Pullable
    /\ write_ready_' = AwaitEvent(ClearEvent(write_ready_))
    /\ UNCHANGED <<loopVars, memberVars, callVars, h2Vars>>

\* nghttp2 has nothing to send and wants nothing any more; while recv_loop()
\* goes on, that is nghttp2's own decision to end the session.
SendLoopDone ==
    /\ SendLoopRuns
    /\ ~Pullable
    /\ sending' = FALSE
    /\ UNCHANGED <<receiving, memberVars, callVars, h2Vars, write_ready_>>

\* nghttp2 or the write to the connection fails, or that write is cancelled.
SendLoopFails ==
    /\ SendLoopRuns
    /\ sending' = FALSE
    /\ UNCHANGED <<receiving, memberVars, callVars, h2Vars, write_ready_>>

\* The stop token of the session is triggered while send_loop() waits.
SendLoopCancel ==
    /\ write_ready_.waiter = "suspended"
    /\ write_ready_' = CancelWait(write_ready_)
    /\ UNCHANGED <<loopVars, memberVars, callVars, h2Vars>>

\* The wait returns; an error ends send_loop().
SendLoopWake ==
    /\ Resumable(write_ready_)
    /\ sending' = (write_ready_.waiter = "ready")
    /\ write_ready_' = EndWait(write_ready_)
    /\ UNCHANGED <<receiving, memberVars, callVars, h2Vars>>

\* The connection ends or fails: recv_loop() terminates the nghttp2 session and
\* wakes send_loop().
RecvEnds ==
    /\ receiving
    /\ receiving' = FALSE
    /\ Poke
    /\ UNCHANGED <<sending, memberVars, callVars, h2Vars>>

\* recv_loop() feeds a WINDOW_UPDATE to nghttp2 and wakes send_loop().
WindowUpdate(n) ==
    /\ receiving /\ ~closed_
    /\ window + n <= Window
    /\ window' = window + n
    /\ Poke
    /\ UNCHANGED <<loopVars, memberVars, callVars, provider, frame, wire>>

\* nghttp2 has closed the stream: it drops the provider and calls back.
OnClose ==
    /\ ~closed_
    /\ closed_' = TRUE
    /\ write_progress_' = SetEvent(write_progress_)
    /\ provider' = "gone"
    /\ UNCHANGED <<loopVars, pending_, write_offset_, write_eof_requested_,
                   write_pending_, write_deferred_, callVars, window, frame,
                   wire, write_ready_>>

\* run() closes the stream once both loops have ended.
RunEnds == ~sending /\ ~receiving /\ OnClose

-----------------------------------------------------------------------------
\* write_some() is not called with empty buffers, write_eof() may be.
Write == \E size \in 0 .. MaxWrite, eof \in BOOLEAN :
             /\ size > 0 \/ eof
             /\ WriteImpl(size, eof) \/ WriteClosed(size, eof)

SendLoop == Defer \/ (\E length \in 1 .. Window : Produce(length))
            \/ SendLoopWait \/ SendLoopDone \/ SendLoopWake

Grant == \E n \in 1 .. Window : WindowUpdate(n)

Next == \/ Write \/ Submit \/ Cancel \/ Resume
        \/ SendLoop \/ SendLoopFails \/ SendLoopCancel \/ Grant
        \/ RecvEnds \/ OnClose

Spec == Init /\ [][Next]_vars

\* The executor runs what is posted to it, send_loop() goes on until it waits or
\* ends, run() goes on when both loops have ended, and while the connection is
\* read the peer goes on granting window to a stream it has not closed.
FairSpec == /\ Spec
            /\ WF_vars(Resume)
            /\ WF_vars(SendLoop)
            /\ WF_vars(Grant)
            /\ WF_vars(RunEnds)

-----------------------------------------------------------------------------
(* Properties.                                                             *)

\* The body goes out in order, with no byte lost or repeated, and a call reports
\* exactly the bytes nghttp2 took, also when it is cancelled while nghttp2 takes
\* them: an application that goes on from the reported position sends the body
\* it means (write_offset_ in write_impl() and producer_callback()).
WireExact ==
    /\ \A i \in 1 .. Len(wire) : wire[i] = i
    /\ Len(wire) = reported + (IF pc = "waiting" THEN write_offset_ ELSE 0)

\* nghttp2 copies out of the caller's buffers only while the call that owns them
\* is suspended (write_pending_ = false in write_impl()).
BuffersAlive == write_pending_ => pc = "waiting"

\* END_STREAM goes out with the last byte of the write_eof() call, not before.
EofOnlyWhenDrained ==
    [][frame'.eof /\ ~frame.eof => Len(wire') = reported + pending_]_vars

\* No empty DATA frame goes out other than the one that ends the stream, also
\* when nghttp2 calls back before the completed call has been resumed
\* (producer_callback(), write_pending_ reset synchronously).
NoEmptyFrame == frame.len = 0 => frame.eof

\* Stream and nghttp2 agree on whether the provider is deferred, a waiting write
\* never faces a deferred provider, and send_loop() never sleeps while nghttp2
\* could send (write_deferred_, resume_write(), poke_send_loop()).
NoLostResume ==
    /\ ~closed_ => (write_deferred_ <=> provider = "deferred")
    /\ write_pending_ => provider # "deferred"
    /\ Pullable => write_ready_.waiter # "suspended"

\* A write that succeeds on an open stream has made progress: write_some() has
\* sent something, write_eof() everything and END_STREAM.
SuccessMeansProgress ==
    result.ec = "ok" /\ ~closed_ =>
        IF result.eof THEN frame.eof /\ result.n = result.size
        ELSE result.n > 0

Sink == INSTANCE ByteSink WITH
            sent <- Len(wire), ended <- frame.eof, open <- ~closed_,
            result <- [ec |-> result.ec, n |-> result.n, eof |-> result.eof]

\* The write side is a byte sink: no byte follows END_STREAM, not even by a
\* write_eof() retried after its cancellation, and every call, completed,
\* cancelled or refused, says where the body stands (write_impl()).
ImplementsSink == Sink!SinkSpec

\* A write returns, at the latest when the end of the connection has run() close
\* its stream.  Only while the connection is still read, and the stream open,
\* may it wait for good: because its message is never submitted, END_STREAM has
\* been taken before it began, or send_loop() has ended, whose error ends neither
\* recv_loop() nor run() (write_impl(), producer_callback(), send_loop(), run()).
WriteReturns ==
    pc = "waiting" ~> \/ pc = "idle"
                      \/ /\ receiving /\ ~closed_
                         /\ provider \in {"none", "done"} \/ ~sending

\* A write_eof() that reports success has handed its whole buffer and END_STREAM
\* to nghttp2 ("on success it's the whole buffer for write_eof()",
\* write_impl()).
EofSuccessMeansSent ==
    result.ec = "ok" /\ result.eof => frame.eof /\ result.n = result.size
=============================================================================
