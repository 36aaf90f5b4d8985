----------------------------- MODULE StreamRead -----------------------------
(***************************************************************************)
(* The read side of a Stream: nghttp2's callbacks push body bytes in       *)
(* (on_data, on_read_eof, on_close), one coroutine at a time pulls them    *)
(* out with read_some().                                                   *)
(*                                                                         *)
(* A body byte is identified by its position in the body, 1, 2, 3, ...  A  *)
(* chunk is a run of consecutive bytes, given by the position lo before    *)
(* its first byte and the position hi of its last.                         *)
(*                                                                         *)
(* The io_context is single-threaded, so a coroutine runs undisturbed      *)
(* between two suspension points.  read_some() has one suspension point;   *)
(* up to it the call is a loop over the buffered chunks, one step per      *)
(* iteration here, and no other step is enabled while the loop holds the   *)
(* thread (pc = "draining").                                               *)
(***************************************************************************)
EXTENDS Integers, Sequences, Body, AsyncEvent

CONSTANTS MaxBody,      \* bound: bytes the peer sends on this stream
          MaxBuffer,    \* bound: size of the buffers passed to read_some()
          Window        \* the stream's receive window

ASSUME ReadAssumption ==
    /\ MaxBody \in Nat
    /\ MaxBuffer \in Nat
    /\ Window \in Nat

VARIABLES
    closed_, read_eof_, chunks_, front_offset_, read_sink_, read_ready_,
    pc,             \* where the read_some() call is
    space,          \* room left in the caller's buffers (bp)
    total,          \* bytes taken from chunks_ by this call
    copied,         \* bytes put into the sink of this call
    result,         \* what the last completed call returned
    received,       \* nghttp2: body bytes received so far
    unconsumed,     \* nghttp2: received bytes not yet given back by consume()
    got,            \* history: bytes written into callers' buffers, in order
    returned        \* history: bytes reported to callers as read

\* The members of Stream, the locals of the call, the rest.
memberVars  == <<closed_, read_eof_, chunks_, front_offset_, read_sink_,
                 read_ready_>>
callVars    == <<pc, space, total, copied, result>>
historyVars == <<received, unconsumed, got, returned>>
vars == <<memberVars, callVars, historyVars>>

Chunk == [lo : Nat, hi : Nat]
Result == [ec : {"ok", "eof", "stream_truncated", "canceled", "none"}, n : Nat]

TypeOK ==
    /\ closed_ \in BOOLEAN
    /\ read_eof_ \in BOOLEAN
    /\ chunks_ \in Seq(Chunk)
    /\ front_offset_ \in Nat
    /\ read_sink_ \in BOOLEAN
    /\ read_ready_ \in Event
    /\ pc \in {"idle", "draining", "parked"}
    /\ space \in Nat
    /\ total \in Nat
    /\ copied \in Nat
    /\ result \in Result
    /\ received \in Nat
    /\ unconsumed \in Int
    /\ got \in Seq(Nat)
    /\ returned \in Nat

Init ==
    /\ closed_ = FALSE
    /\ read_eof_ = FALSE
    /\ chunks_ = <<>>
    /\ front_offset_ = 0
    /\ read_sink_ = FALSE
    /\ read_ready_ = NewEvent
    /\ pc = "idle"
    /\ space = 0
    /\ total = 0
    /\ copied = 0
    /\ result = [ec |-> "none", n |-> 0]
    /\ received = 0
    /\ unconsumed = 0
    /\ got = <<>>
    /\ returned = 0

-----------------------------------------------------------------------------
(* nghttp2's callbacks.  nghttp2 delivers no DATA beyond the window, after *)
(* END_STREAM, or on a closed stream.                                      *)

\* Mutation: the sink takes the chunk without looking at the room left.
Put_Unbounded(n) == IF read_sink_ THEN n ELSE 0

\* How much of an n-byte chunk the published sink takes.
Put(n) == IF read_sink_ THEN Lesser(n, space) ELSE 0

\* Mutation: data and len are not advanced past what the sink took.
Queued_Whole(n) == Append(chunks_, [lo |-> received, hi |-> received + n])

\* Mutation: what does not fit into the sink is dropped.
Queued_Never(n) == chunks_

\* The run of bytes an n-byte chunk leaves for chunks_ after the sink took its
\* part.
Queued(n) ==
    IF n > Put(n)
    THEN Append(chunks_, [lo |-> received + Put(n), hi |-> received + n])
    ELSE chunks_

OnData(n) ==
    /\ pc # "draining"
    /\ ~closed_ /\ ~read_eof_
    /\ received + n <= MaxBody
    /\ unconsumed + n <= Window
    /\ got' = got \o Bytes(received, received + Put(n))
    /\ space' = space - Put(n)
    /\ copied' = copied + Put(n)
    /\ chunks_' = Queued(n)
    /\ received' = received + n
    /\ unconsumed' = unconsumed + n
    /\ read_ready_' = SetEvent(read_ready_)
    /\ UNCHANGED <<closed_, read_eof_, front_offset_, read_sink_, pc, total,
                   result, returned>>

OnReadEof ==
    /\ pc # "draining"
    /\ ~closed_ /\ ~read_eof_
    /\ read_eof_' = TRUE
    /\ read_ready_' = SetEvent(read_ready_)
    /\ UNCHANGED <<closed_, chunks_, front_offset_, read_sink_, callVars,
                   historyVars>>

\* Mutation: on_close() does not wake the reader.
OnClose_Silent ==
    /\ pc # "draining"
    /\ ~closed_
    /\ closed_' = TRUE
    /\ UNCHANGED <<read_eof_, chunks_, front_offset_, read_sink_, read_ready_,
                   callVars, historyVars>>

OnClose ==
    /\ pc # "draining"
    /\ ~closed_
    /\ closed_' = TRUE
    /\ read_ready_' = SetEvent(read_ready_)
    /\ UNCHANGED <<read_eof_, chunks_, front_offset_, read_sink_, callVars,
                   historyVars>>

-----------------------------------------------------------------------------
(* read_some().                                                            *)

EofError == IF read_eof_ THEN "eof" ELSE "stream_truncated"

\* Mutation: the bytes are not given back.
Consume_Never(n) == unconsumed' = unconsumed

\* Stream::consume(): nghttp2 ignores it on a stream it has closed.
Consume(n) == unconsumed' = IF closed_ THEN unconsumed ELSE unconsumed - n

Return(ec, n) ==
    /\ pc' = "idle"
    /\ result' = [ec |-> ec, n |-> n]
    /\ returned' = returned + n

\* The call starts with a buffer of the given size.
ReadSome(size) ==
    /\ pc = "idle"
    /\ pc' = "draining"
    /\ space' = size
    /\ total' = 0
    /\ copied' = 0
    /\ UNCHANGED <<memberVars, result, historyVars>>

LoopAgain == chunks_ # <<>> /\ space > 0

\* One iteration of the loop over the buffered chunks.
DrainChunk ==
    /\ pc = "draining"
    /\ LoopAgain
    /\ LET chunk == Head(chunks_)
           from  == chunk.lo + front_offset_
           n     == Lesser(space, chunk.hi - from)
       IN  /\ got' = got \o Bytes(from, from + n)
           /\ space' = space - n
           /\ total' = total + n
           /\ IF from + n = chunk.hi
              THEN chunks_' = Tail(chunks_) /\ front_offset_' = 0
              ELSE chunks_' = chunks_ /\ front_offset_' = front_offset_ + n
    /\ UNCHANGED <<closed_, read_eof_, read_sink_, read_ready_, pc, copied,
                   result, received, unconsumed, returned>>

ReturnDrained ==
    /\ pc = "draining"
    /\ ~LoopAgain
    /\ total > 0
    /\ Consume(total)
    /\ Return("ok", total)
    /\ UNCHANGED <<memberVars, space, total, copied, received, got>>

\* Mutation: the end is reported before looking at the buffered chunks.
ReturnEnded_Early ==
    /\ pc = "draining"
    /\ total = 0
    /\ read_eof_ \/ closed_
    /\ Return(EofError, 0)
    /\ UNCHANGED <<memberVars, space, total, copied, received, unconsumed, got>>

ReturnEnded ==
    /\ pc = "draining"
    /\ ~LoopAgain
    /\ total = 0
    /\ read_eof_ \/ closed_
    /\ Return(EofError, 0)
    /\ UNCHANGED <<memberVars, space, total, copied, received, unconsumed, got>>

\* Mutation: a latch left over from an earlier wakeup is not cleared.
Suspend_Uncleared ==
    /\ read_sink_' = TRUE
    /\ read_ready_' = AwaitEvent(read_ready_)

\* Publish the sink, clear the event, suspend.
Suspend ==
    /\ read_sink_' = TRUE
    /\ read_ready_' = AwaitEvent(ClearEvent(read_ready_))

Park ==
    /\ pc = "draining"
    /\ ~LoopAgain
    /\ total = 0
    /\ ~(read_eof_ \/ closed_)
    /\ Suspend
    /\ pc' = "parked"
    /\ UNCHANGED <<closed_, read_eof_, chunks_, front_offset_, space, total,
                   copied, result, historyVars>>

\* The stop token of the calling coroutine is triggered during the wait.
Cancel ==
    /\ pc = "parked"
    /\ read_ready_.waiter = "suspended"
    /\ read_ready_' = CancelWait(read_ready_)
    /\ UNCHANGED <<closed_, read_eof_, chunks_, front_offset_, read_sink_,
                   callVars, historyVars>>

\* Mutation: an error of the wait wins over bytes in the sink.
Outcome_ErrorFirst ==
    IF read_ready_.waiter = "canceled" THEN [ec |-> "canceled", n |-> 0]
    ELSE IF copied > 0 THEN [ec |-> "ok", n |-> copied]
    ELSE [ec |-> EofError, n |-> 0]

\* What a resumed call returns, "none" if it goes back to sleep.  Bytes in the
\* sink win over an error of the wait.
Outcome ==
    IF copied > 0 THEN [ec |-> "ok", n |-> copied]
    ELSE IF read_ready_.waiter = "canceled" THEN [ec |-> "canceled", n |-> 0]
    ELSE IF read_eof_ \/ closed_ THEN [ec |-> EofError, n |-> 0]
    ELSE [ec |-> "none", n |-> 0]

\* Mutation: the sink stays published after the wait.
Unpublish_Never == UNCHANGED read_sink_

Unpublish == read_sink_' = FALSE

\* The posted resumption runs.
Resume ==
    /\ pc = "parked"
    /\ Resumable(read_ready_)
    /\ IF Outcome.ec = "none"
       THEN /\ Suspend
            /\ UNCHANGED <<pc, result, returned, unconsumed>>
       ELSE /\ Unpublish
            /\ read_ready_' = EndWait(read_ready_)
            /\ Consume(Outcome.n)
            /\ Return(Outcome.ec, Outcome.n)
    /\ UNCHANGED <<closed_, read_eof_, chunks_, front_offset_, space, total,
                   copied, received, got>>

-----------------------------------------------------------------------------
StartRead == \E size \in 1 .. MaxBuffer : ReadSome(size)
Callback  == (\E n \in 1 .. MaxBody : OnData(n)) \/ OnReadEof \/ OnClose
CallStep  == DrainChunk \/ ReturnDrained \/ ReturnEnded \/ Park \/ Resume

Next == StartRead \/ Callback \/ CallStep \/ Cancel

Spec == Init /\ [][Next]_vars

\* The executor runs what is posted to it, and the application keeps reading.
FairSpec == Spec /\ WF_vars(CallStep) /\ WF_vars(StartRead)

-----------------------------------------------------------------------------
(* Properties.                                                             *)

\* Bytes written into the caller's buffers by the call in progress.
InFlight == IF pc = "draining" THEN total
            ELSE IF pc = "parked" THEN copied ELSE 0

\* Readers get the body in order, with no byte lost or repeated, whichever way
\* each byte took: straight into a parked reader's buffers, through chunks_, or
\* split between the two (Stream::on_data, the drain loop of read_some()).
InOrder == \A i \in 1 .. Len(got) : got[i] = i

\* A byte copied into a caller's buffers is reported by the call that owns the
\* buffers, also when a stop request and a DATA frame race for a parked reader
\* (read_some() checks sink.copied before the error of the wait).
NoSilentLoss == Len(got) = returned + InFlight

\* A suspended reader has nothing to deliver and nothing to report, and a woken
\* one has: no wakeup is lost by clear(), and the retry loop of read_some()
\* never has to suspend a second time.
WakeupExact ==
    pc = "parked" =>
        /\ read_ready_.waiter = "suspended" =>
               copied = 0 /\ chunks_ = <<>> /\ ~read_eof_ /\ ~closed_
        /\ read_ready_.waiter = "ready" => Outcome.ec # "none"

\* The end of the body is reported only after all of the body, as eof exactly if
\* the peer ended the stream cleanly (eof_error(), on_close() after
\* on_read_eof()).
EndReportedLast ==
    /\ result.ec = "eof" => read_eof_ /\ returned = received
    /\ result.ec = "stream_truncated" =>
           closed_ /\ ~read_eof_ /\ returned = received

\* Every byte reported to a reader is given back to the stream's window once,
\* on both return paths of read_some(), so what a stream buffers never exceeds
\* its window (consume()).
FlowControl ==
    /\ ~closed_ => unconsumed = received - returned
    /\ received - returned <= Window

\* on_data() writes through read_sink_ only while the frame that owns the sink
\* is suspended (read_sink_ = nullptr after the wait).
SinkAlive == read_sink_ => pc = "parked"

\* Every received byte is eventually read, if the application keeps reading.
EveryByteRead ==
    \A i \in 1 .. MaxBody : (received >= i) ~> (returned >= i)

\* A stream that ends or closes is eventually reported as such, also to a reader
\* that was suspended at the time (on_close(), on_read_eof()).
EndIsReported ==
    (read_eof_ \/ closed_) ~> (result.ec \in {"eof", "stream_truncated"})

\* The read side implements the reliable byte pipe of BytePipe: a byte is taken
\* when read_some() returns it, and END_STREAM decides how a closed stream ended.
PipeEnd == IF read_eof_ THEN "eof"
           ELSE IF closed_ THEN "stream_truncated" ELSE "open"

Pipe == INSTANCE BytePipe WITH sent <- received, taken <- returned,
                               end <- PipeEnd, result <- result

ImplementsPipe == Pipe!PipeSpec
=============================================================================
