-------------------------- MODULE StreamWriteProofs -------------------------
(***************************************************************************)
(* What TLAPS proves of StreamWrite, for every body length, buffer size    *)
(* and window.                                                             *)
(***************************************************************************)
EXTENDS StreamWrite, AsyncEventProofs, TLAPS

\* What the call in progress and its wait agree on.  While its bytes are offered
\* the call still has something to do; once it is woken on an open stream it has
\* done what its success stands for.
CallState ==
    /\ write_offset_ <= pending_
    /\ write_pending_ => pc = "waiting"
    /\ pc = "waiting" <=> write_progress_.waiter # "none"
    /\ write_progress_.waiter = "suspended" => write_pending_ /\ ~closed_
    /\ write_progress_.waiter = "ready" /\ ~closed_ =>
           /\ ~write_pending_
           /\ write_eof_requested_ => frame.eof /\ write_offset_ = pending_
           /\ ~write_eof_requested_ => write_offset_ > 0
    /\ write_pending_ /\ ~write_eof_requested_ =>
           write_offset_ = 0 /\ pending_ > 0
    /\ write_pending_ /\ write_eof_requested_ =>
           write_offset_ = 0 \/ write_offset_ < pending_

\* What the stream, nghttp2 and send_loop() agree on.
ProviderState ==
    /\ closed_ <=> provider = "gone"
    /\ frame.eof => provider \in {"done", "gone"}

IInv ==
    /\ TypeOK
    /\ WireExact
    /\ CallState
    /\ ProviderState
    /\ NoEmptyFrame
    /\ NoLostResume
    /\ SuccessMeansProgress

-----------------------------------------------------------------------------
\* The parts of TypeOK the provers take one at a time.
LEMMA Types ==
    ASSUME TypeOK
    PROVE  /\ pending_ \in Nat /\ write_offset_ \in Nat /\ window \in Nat
           /\ reported \in Nat /\ wire \in Seq(Nat) /\ Len(wire) \in Nat
           /\ write_progress_ \in Event /\ write_ready_ \in Event
<1>1. /\ pending_ \in Nat /\ write_offset_ \in Nat /\ window \in Nat
      /\ reported \in Nat
  BY DEF TypeOK
<1>2. wire \in Seq(Nat)
  BY DEF TypeOK
<1>3. Len(wire) \in Nat
  BY <1>2
<1>4. write_progress_ \in Event /\ write_ready_ \in Event
  BY DEF TypeOK
<1>5. QED BY <1>1, <1>2, <1>3, <1>4

\* The start state satisfies the invariant.
LEMMA InitIInv == Init => IInv
<1> SUFFICES ASSUME Init PROVE IInv
  OBVIOUS
<1>1. TypeOK
  <2>1. /\ closed_ \in BOOLEAN /\ write_eof_requested_ \in BOOLEAN
        /\ write_pending_ \in BOOLEAN /\ write_deferred_ \in BOOLEAN
        /\ sending \in BOOLEAN /\ receiving \in BOOLEAN
    BY DEF Init
  <2>2. write_progress_ \in Event /\ write_ready_ \in Event
    BY EventTypes DEF Init
  <2>3. result \in Result /\ frame \in [len : Nat, eof : BOOLEAN]
    BY DEF Init, Result
  <2>4. window \in Nat
    BY WriteAssumption DEF Init
  <2>5. wire \in Seq(Nat)
    BY DEF Init
  <2>6. QED BY <2>1, <2>2, <2>3, <2>4, <2>5 DEF Init, TypeOK
<1>2. WireExact
  BY DEF Init, WireExact
<1>3. CallState
  BY DEF Init, CallState, NewEvent
<1>4. ProviderState /\ NoEmptyFrame /\ NoLostResume /\ SuccessMeansProgress
  BY DEF Init, ProviderState, NoEmptyFrame, NoLostResume, SuccessMeansProgress,
     NewEvent, SetEvent
<1>5. QED BY <1>1, <1>2, <1>3, <1>4 DEF IInv

\* A new call preserves the invariant.
LEMMA WriteImplIInv ==
    ASSUME IInv, NEW size \in 0 .. MaxWrite, NEW eof \in BOOLEAN,
           size > 0 \/ eof, WriteImpl(size, eof)
    PROVE  IInv'
<1>a. TypeOK /\ WireExact /\ CallState /\ ProviderState /\ NoEmptyFrame
      /\ NoLostResume /\ SuccessMeansProgress
  BY DEF IInv
<1>b. /\ reported \in Nat /\ wire \in Seq(Nat) /\ Len(wire) \in Nat
      /\ write_progress_ \in Event /\ write_ready_ \in Event
      /\ size \in Nat
  BY <1>a, Types, WriteAssumption
<1>c. /\ pc = "idle" /\ ~closed_ /\ pending_' = size /\ write_offset_' = 0
      /\ write_eof_requested_' = eof /\ write_pending_' = TRUE
      /\ write_deferred_' = FALSE /\ pc' = "waiting"
      /\ provider' = IF write_deferred_ THEN "ready" ELSE provider
      /\ UNCHANGED <<closed_, result, reported, window, frame, wire, sending,
                     receiving>>
  BY DEF WriteImpl, MayWrite, ResumeWrite, Rewind, loopVars
<1>d. write_ready_' \in Event /\ write_ready_'.waiter # "suspended"
  BY <1>b, EventTypes, EventWaiters DEF WriteImpl, Poke
<1>e. /\ write_progress_' \in Event /\ write_progress_'.waiter = "suspended"
  BY <1>b, EventTypes, EventWaiters DEF WriteImpl, AwaitProgress
<1>1. TypeOK'
  BY <1>a, <1>b, <1>c, <1>d, <1>e DEF TypeOK
<1>2. WireExact'
  BY <1>a, <1>b, <1>c DEF WireExact
<1>3. CallState'
  BY <1>b, <1>c, <1>e DEF CallState
<1>4. provider' \in {"none", "ready", "done"} /\ (frame.eof => provider' = "done")
  BY <1>a, <1>c DEF TypeOK, ProviderState, NoLostResume
<1>5. ProviderState' /\ NoLostResume'
  BY <1>4, <1>c, <1>d DEF ProviderState, NoLostResume
<1>6. NoEmptyFrame' /\ SuccessMeansProgress'
  BY <1>a, <1>c DEF NoEmptyFrame, SuccessMeansProgress
<1>7. QED BY <1>1, <1>2, <1>3, <1>5, <1>6 DEF IInv

\* A call on a closed stream preserves the invariant.
LEMMA WriteClosedIInv ==
    ASSUME IInv, NEW size \in 0 .. MaxWrite, NEW eof \in BOOLEAN,
           WriteClosed(size, eof)
    PROVE  IInv'
<1>a. TypeOK /\ WireExact /\ CallState /\ ProviderState /\ NoEmptyFrame
      /\ NoLostResume /\ SuccessMeansProgress
  BY DEF IInv
<1>b. /\ result' = [ec |-> "eof", n |-> 0, size |-> size, eof |-> eof]
      /\ UNCHANGED <<closed_, pending_, write_offset_, write_eof_requested_,
                     write_pending_, write_deferred_, write_progress_, pc,
                     reported, provider, window, frame, wire, write_ready_,
                     sending, receiving>>
  BY DEF WriteClosed, memberVars, h2Vars, loopVars
<1>c. size \in Nat
  BY WriteAssumption
<1>1. result' \in Result /\ result'.ec # "ok"
  BY <1>b, <1>c DEF Result
<1>2. TypeOK'
  BY <1>1, <1>a, <1>b DEF TypeOK
<1>3. WireExact' /\ CallState'
  BY <1>a, <1>b DEF WireExact, CallState
<1>4. ProviderState' /\ NoEmptyFrame' /\ NoLostResume'
  BY <1>a, <1>b DEF ProviderState, NoEmptyFrame, NoLostResume, Pullable
<1>5. SuccessMeansProgress'
  BY <1>1 DEF SuccessMeansProgress
<1>6. QED BY <1>2, <1>3, <1>4, <1>5 DEF IInv

\* The submission of the message preserves the invariant.
LEMMA SubmitIInv == ASSUME IInv, Submit PROVE IInv'
<1>a. TypeOK /\ WireExact /\ CallState /\ ProviderState /\ NoEmptyFrame
      /\ NoLostResume /\ SuccessMeansProgress
  BY DEF IInv
<1>b. /\ provider = "none" /\ provider' = "ready"
      /\ write_ready_' = SetEvent(write_ready_)
      /\ UNCHANGED <<closed_, pending_, write_offset_, write_eof_requested_,
                     write_pending_, write_deferred_, write_progress_, pc,
                     result, reported, window, frame, wire, sending, receiving>>
  BY DEF Submit, Poke, memberVars, callVars, loopVars
<1>c. write_ready_' \in Event /\ write_ready_'.waiter # "suspended"
  BY <1>a, <1>b, Types, EventTypes, EventWaiters
<1>1. TypeOK'
  BY <1>a, <1>b, <1>c DEF TypeOK
<1>2. WireExact' /\ CallState'
  BY <1>a, <1>b DEF WireExact, CallState
<1>3. NoEmptyFrame' /\ SuccessMeansProgress'
  BY <1>a, <1>b DEF NoEmptyFrame, SuccessMeansProgress
<1>4. ProviderState' /\ NoLostResume'
  BY <1>a, <1>b, <1>c DEF ProviderState, NoLostResume
<1>5. QED BY <1>1, <1>2, <1>3, <1>4 DEF IInv

\* A stop request preserves the invariant.
LEMMA CancelIInv == ASSUME IInv, Cancel PROVE IInv'
<1>a. TypeOK /\ WireExact /\ CallState /\ ProviderState /\ NoEmptyFrame
      /\ NoLostResume /\ SuccessMeansProgress
  BY DEF IInv
<1>b. /\ write_progress_.waiter = "suspended"
      /\ write_progress_' = CancelWait(write_progress_)
      /\ UNCHANGED <<closed_, pending_, write_offset_, write_eof_requested_,
                     write_pending_, write_deferred_, pc, result, reported,
                     provider, window, frame, wire, write_ready_, sending,
                     receiving>>
  BY DEF Cancel, callVars, h2Vars, loopVars
<1>c. write_progress_' \in Event /\ write_progress_'.waiter = "canceled"
  BY <1>a, <1>b, Types, EventTypes, EventWaiters
<1>1. TypeOK'
  BY <1>a, <1>b, <1>c DEF TypeOK
<1>2. WireExact'
  BY <1>a, <1>b DEF WireExact
<1>3. CallState'
  BY <1>a, <1>b, <1>c DEF CallState
<1>4. ProviderState' /\ NoEmptyFrame' /\ NoLostResume' /\ SuccessMeansProgress'
  BY <1>a, <1>b DEF ProviderState, NoEmptyFrame, NoLostResume, Pullable,
     SuccessMeansProgress
<1>5. QED BY <1>1, <1>2, <1>3, <1>4 DEF IInv

\* The return of a call preserves the invariant.
LEMMA ResumeIInv == ASSUME IInv, Resume PROVE IInv'
<1>a. TypeOK /\ WireExact /\ CallState /\ ProviderState /\ NoEmptyFrame
      /\ NoLostResume /\ SuccessMeansProgress
  BY DEF IInv
<1>b. /\ pc = "waiting" /\ pc' = "idle" /\ write_pending_' = FALSE
      /\ write_progress_' = EndWait(write_progress_)
      /\ write_progress_.waiter \in {"ready", "canceled"}
      /\ result' = [ec |-> WaitError, n |-> write_offset_, size |-> pending_,
                    eof |-> write_eof_requested_]
      /\ reported' = reported + write_offset_
      /\ UNCHANGED <<closed_, pending_, write_offset_, write_eof_requested_,
                     write_deferred_, provider, window, frame, wire,
                     write_ready_, sending, receiving>>
  BY DEF Resume, Resumable, Retire, Progress, h2Vars, loopVars
<1>c. write_progress_' \in Event /\ write_progress_'.waiter = "none"
  BY <1>a, <1>b, Types, EventTypes, EventWaiters
<1>d. /\ pending_ \in Nat /\ write_offset_ \in Nat /\ reported \in Nat
      /\ Len(wire) \in Nat
  BY <1>a, Types
<1>1. TypeOK'
  <2>1. write_eof_requested_ \in BOOLEAN
    BY <1>a DEF TypeOK
  <2>2. result' \in Result
    BY <2>1, <1>b, <1>d DEF Result, WaitError
  <2>3. reported' \in Nat
    BY <1>b, <1>d
  <2>4. QED BY <2>2, <2>3, <1>a, <1>b, <1>c DEF TypeOK
<1>2. WireExact'
  BY <1>a, <1>b, <1>d DEF WireExact
<1>3. CallState'
  BY <1>a, <1>b, <1>c DEF CallState
<1>4. ProviderState' /\ NoEmptyFrame' /\ NoLostResume'
  BY <1>a, <1>b DEF ProviderState, NoEmptyFrame, NoLostResume, Pullable
<1>5. SuccessMeansProgress'
  <2>1. /\ result'.ec = WaitError /\ result'.n = write_offset_
        /\ result'.size = pending_ /\ result'.eof = write_eof_requested_
    BY <1>b
  <2>2. WaitError = "ok" => write_progress_.waiter = "ready"
    BY <1>b DEF WaitError
  <2>3. QED BY <2>1, <2>2, <1>a, <1>b DEF SuccessMeansProgress, CallState
<1>6. QED BY <1>1, <1>2, <1>3, <1>4, <1>5 DEF IInv

\* Deferring the provider preserves the invariant.
LEMMA DeferIInv == ASSUME IInv, Defer PROVE IInv'
<1>a. TypeOK /\ WireExact /\ CallState /\ ProviderState /\ NoEmptyFrame
      /\ NoLostResume /\ SuccessMeansProgress
  BY DEF IInv
<1>b. /\ write_ready_.waiter = "none" /\ provider = "ready" /\ ~write_pending_
      /\ write_deferred_' = TRUE /\ provider' = "deferred"
      /\ UNCHANGED <<closed_, pending_, write_offset_, write_eof_requested_,
                     write_pending_, write_progress_, pc, result, reported,
                     window, frame, wire, write_ready_, sending, receiving>>
  BY DEF Defer, SendLoopRuns, Pullable, callVars, loopVars
<1>1. TypeOK'
  BY <1>a, <1>b DEF TypeOK
<1>2. WireExact' /\ CallState'
  BY <1>a, <1>b DEF WireExact, CallState
<1>3. ProviderState' /\ NoEmptyFrame' /\ NoLostResume' /\ SuccessMeansProgress'
  BY <1>a, <1>b DEF ProviderState, NoEmptyFrame, NoLostResume, Pullable,
     SuccessMeansProgress
<1>4. QED BY <1>1, <1>2, <1>3 DEF IInv

\* The waits, wakeups and ends of the two loops preserve the invariant:
\* send_loop() waits only when nghttp2 has nothing to send.
LEMMA LoopsIInv ==
    ASSUME IInv,
           \/ SendLoopWait \/ SendLoopWake \/ SendLoopDone \/ SendLoopFails
           \/ SendLoopCancel \/ RecvEnds
    PROVE  IInv'
<1>a. TypeOK /\ WireExact /\ CallState /\ ProviderState /\ NoEmptyFrame
      /\ NoLostResume /\ SuccessMeansProgress
  BY DEF IInv
<1>b. UNCHANGED <<closed_, pending_, write_offset_, write_eof_requested_,
                  write_pending_, write_deferred_, write_progress_, pc,
                  result, reported, provider, window, frame, wire>>
  BY DEF SendLoopWait, SendLoopWake, SendLoopDone, SendLoopFails,
     SendLoopCancel, RecvEnds, memberVars, callVars, h2Vars
<1>c. sending' \in BOOLEAN /\ receiving' \in BOOLEAN
  BY <1>a DEF TypeOK, SendLoopWait, SendLoopWake, SendLoopDone, SendLoopFails,
     SendLoopCancel, RecvEnds, loopVars
<1>d. /\ write_ready_' \in Event
      /\ Pullable => write_ready_'.waiter # "suspended"
  <2>1. write_ready_ \in Event
    BY <1>a, Types
  <2>2. CASE SendLoopWait
    <3>1. ~Pullable /\ write_ready_' = AwaitEvent(ClearEvent(write_ready_))
      BY <2>2 DEF SendLoopWait
    <3>2. QED BY <3>1, <2>1, EventTypes, EventWaiters
  <2>3. CASE SendLoopWake
    BY <2>1, <2>3, EventTypes, EventWaiters DEF SendLoopWake
  <2>4. CASE SendLoopDone \/ SendLoopFails
    BY <1>a, <2>1, <2>4 DEF SendLoopDone, SendLoopFails, NoLostResume
  <2>5. CASE SendLoopCancel
    BY <2>1, <2>5, EventTypes, EventWaiters DEF SendLoopCancel
  <2>6. CASE RecvEnds
    BY <2>1, <2>6, EventTypes, EventWaiters DEF RecvEnds, Poke
  <2>7. QED BY <2>2, <2>3, <2>4, <2>5, <2>6
<1>1. TypeOK'
  BY <1>a, <1>b, <1>c, <1>d DEF TypeOK
<1>2. WireExact' /\ CallState'
  BY <1>a, <1>b DEF WireExact, CallState
<1>3. NoEmptyFrame' /\ SuccessMeansProgress'
  BY <1>a, <1>b DEF NoEmptyFrame, SuccessMeansProgress
<1>4. ProviderState' /\ NoLostResume'
  BY <1>a, <1>b, <1>d DEF ProviderState, NoLostResume, Pullable
<1>5. QED BY <1>1, <1>2, <1>3, <1>4 DEF IInv

\* A WINDOW_UPDATE preserves the invariant.
LEMMA WindowUpdateIInv ==
    ASSUME IInv, NEW n \in 1 .. Window, WindowUpdate(n) PROVE IInv'
<1>a. TypeOK /\ WireExact /\ CallState /\ ProviderState /\ NoEmptyFrame
      /\ NoLostResume /\ SuccessMeansProgress
  BY DEF IInv
<1>b. /\ window' = window + n
      /\ write_ready_' = SetEvent(write_ready_)
      /\ UNCHANGED <<closed_, pending_, write_offset_, write_eof_requested_,
                     write_pending_, write_deferred_, write_progress_, pc,
                     result, reported, provider, frame, wire, sending,
                     receiving>>
  BY DEF WindowUpdate, Poke, memberVars, callVars, loopVars
<1>c. write_ready_' \in Event /\ write_ready_'.waiter # "suspended"
  BY <1>a, <1>b, Types, EventTypes, EventWaiters
<1>d. window' \in Nat
  BY <1>a, <1>b, Types, WriteAssumption
<1>1. TypeOK'
  BY <1>a, <1>b, <1>c, <1>d DEF TypeOK
<1>2. WireExact' /\ CallState'
  BY <1>a, <1>b DEF WireExact, CallState
<1>3. NoEmptyFrame' /\ SuccessMeansProgress'
  BY <1>a, <1>b DEF NoEmptyFrame, SuccessMeansProgress
<1>4. ProviderState' /\ NoLostResume'
  BY <1>a, <1>b, <1>c DEF ProviderState, NoLostResume
<1>5. QED BY <1>1, <1>2, <1>3, <1>4 DEF IInv

\* The close of the stream preserves the invariant.
LEMMA OnCloseIInv == ASSUME IInv, OnClose PROVE IInv'
<1>a. TypeOK /\ WireExact /\ CallState /\ ProviderState /\ NoEmptyFrame
      /\ NoLostResume /\ SuccessMeansProgress
  BY DEF IInv
<1>b. /\ closed_' = TRUE /\ provider' = "gone"
      /\ write_progress_' = SetEvent(write_progress_)
      /\ UNCHANGED <<pending_, write_offset_, write_eof_requested_,
                     write_pending_, write_deferred_, pc, result, reported,
                     window, frame, wire, write_ready_, sending, receiving>>
  BY DEF OnClose, callVars, loopVars
<1>c. /\ write_progress_' \in Event
      /\ write_progress_'.waiter # "suspended"
      /\ write_progress_'.waiter = "none" <=> write_progress_.waiter = "none"
  BY <1>a, <1>b, Types, EventTypes, EventWaiters
<1>1. TypeOK'
  BY <1>a, <1>b, <1>c DEF TypeOK
<1>2. WireExact'
  BY <1>a, <1>b DEF WireExact
<1>3. CallState'
  BY <1>a, <1>b, <1>c DEF CallState
<1>4. ProviderState' /\ NoEmptyFrame' /\ NoLostResume' /\ SuccessMeansProgress'
  BY <1>a, <1>b DEF ProviderState, NoEmptyFrame, NoLostResume, Pullable,
     SuccessMeansProgress
<1>5. QED BY <1>1, <1>2, <1>3, <1>4 DEF IInv

\* A DATA frame preserves the invariant.
LEMMA ProduceIInv ==
    ASSUME IInv, NEW length \in 1 .. Window, Produce(length) PROVE IInv'
<1>a. TypeOK /\ WireExact /\ CallState /\ ProviderState /\ NoEmptyFrame
      /\ NoLostResume /\ SuccessMeansProgress
  BY DEF IInv
<1> DEFINE copied == Lesser(length, pending_ - write_offset_)
           offset == write_offset_ + copied
           done   == Completes(offset)
           eof    == done /\ write_eof_requested_
<1>b. /\ write_ready_.waiter = "none" /\ provider = "ready"
      /\ window > 0 /\ length <= window /\ write_pending_
      /\ UNCHANGED <<closed_, pending_, write_eof_requested_, write_deferred_,
                     pc, result, reported, write_ready_, sending, receiving>>
  BY DEF Produce, SendLoopRuns, Pullable, callVars, loopVars
<1>c. /\ wire' = wire \o Bytes(reported + write_offset_, reported + offset)
      /\ write_offset_' = offset
      /\ write_pending_' = ~done
      /\ write_progress_' = IF done THEN SetEvent(write_progress_)
                            ELSE write_progress_
      /\ frame' = [len |-> copied, eof |-> eof]
      /\ provider' = IF eof THEN "done" ELSE "ready"
      /\ window' = window - copied
  BY DEF Produce, Finish
<1>d. /\ pending_ \in Nat /\ write_offset_ \in Nat /\ window \in Nat
      /\ reported \in Nat /\ wire \in Seq(Nat) /\ Len(wire) \in Nat
      /\ write_progress_ \in Event /\ write_ready_ \in Event
  BY <1>a, Types
<1>e. write_offset_ <= pending_ /\ pc = "waiting"
  BY <1>a, <1>b DEF CallState
<1>f. /\ copied \in Nat /\ copied <= window
      /\ offset \in Nat /\ offset <= pending_ /\ write_offset_ <= offset
      /\ copied > 0 \/ offset = pending_
      /\ pending_ > write_offset_ => copied > 0
  <2>1. length \in Nat /\ length > 0
    BY WriteAssumption
  <2>2. QED BY <2>1, <1>b, <1>d, <1>e DEF Lesser
<1>g. /\ write_eof_requested_ \in BOOLEAN /\ done \in BOOLEAN /\ eof \in BOOLEAN
      /\ done <=> offset = pending_ \/ ~write_eof_requested_
  BY <1>a DEF TypeOK, Completes
<1>h. /\ write_progress_' \in Event
      /\ write_progress_'.waiter = "none" <=> write_progress_.waiter = "none"
      /\ write_progress_'.waiter = "suspended" =>
             ~done /\ write_progress_.waiter = "suspended"
      /\ write_progress_'.waiter = "ready" =>
             done \/ write_progress_.waiter = "ready"
  BY <1>c, <1>d, EventTypes, EventWaiters
<1>i. /\ frame'.len = copied /\ frame'.eof = eof
  BY <1>c
<1>j. ~closed_ /\ ~write_deferred_
  BY <1>a, <1>b DEF ProviderState, NoLostResume
<1> HIDE DEF copied, offset, done, eof
<1>1. TypeOK'
  <2>1. /\ write_pending_' \in BOOLEAN
        /\ provider' \in {"none", "ready", "deferred", "done", "gone"}
    BY <1>c, <1>g
  <2>2. window' \in Nat
    BY <1>c, <1>d, <1>f
  <2>3. frame' \in [len : Nat, eof : BOOLEAN]
    BY <1>c, <1>f, <1>g
  <2>4. wire' \in Seq(Nat)
    <3>1. Bytes(reported + write_offset_, reported + offset) \in Seq(Nat)
      BY <1>d, <1>f DEF Bytes
    <3>2. QED BY <3>1, <1>c, <1>d
  <2>5. QED BY <2>1, <2>2, <2>3, <2>4, <1>a, <1>b, <1>c, <1>f, <1>h DEF TypeOK
<1>2. WireExact'
  <2>1. /\ Len(wire) = reported + write_offset_
        /\ \A i \in 1 .. Len(wire) : wire[i] = i
    BY <1>a, <1>e DEF WireExact
  <2>2. /\ reported + write_offset_ \in Nat /\ reported + offset \in Nat
        /\ reported + write_offset_ <= reported + offset
    BY <1>d, <1>f
  <2>3. /\ Len(wire') = reported + offset
        /\ \A i \in 1 .. Len(wire') : wire'[i] = i
    <3>1. wire' = wire \o Bytes(Len(wire), reported + offset)
      BY <2>1, <1>c
    <3>2. Len(wire) <= reported + offset
      BY <2>1, <2>2
    <3>3. QED BY <3>1, <3>2, <2>1, <2>2, <1>d, ExtendPrefix
  <2>4. QED BY <2>3, <1>b, <1>c, <1>e DEF WireExact
<1>3. CallState'
  <2>1. (write_offset_ <= pending_)' /\ (write_pending_ => pc = "waiting")'
    BY <1>b, <1>c, <1>e, <1>f
  <2>2. (pc = "waiting" <=> write_progress_.waiter # "none")'
    BY <1>a, <1>b, <1>h DEF CallState
  <2>3. (write_progress_.waiter = "suspended" => write_pending_ /\ ~closed_)'
    BY <1>b, <1>c, <1>h, <1>j
  <2>4. write_progress_'.waiter = "ready" => done
    BY <1>a, <1>b, <1>h, <1>j DEF CallState
  <2>5. done /\ write_eof_requested_ => eof /\ offset = pending_
    BY <1>g DEF eof
  <2>6. ~write_eof_requested_ => done /\ offset > 0
    <3>1. ~write_eof_requested_ => write_offset_ = 0 /\ pending_ > 0
      BY <1>a, <1>b DEF CallState
    <3>2. ~write_eof_requested_ => pending_ > write_offset_
      BY <3>1
    <3>3. offset = write_offset_ + copied
      BY DEF offset
    <3>4. ~write_eof_requested_ => offset > 0
      BY <3>1, <3>2, <3>3, <1>d, <1>f
    <3>5. QED BY <3>4, <1>g
  <2>7. (write_progress_.waiter = "ready" /\ ~closed_ =>
           /\ ~write_pending_
           /\ write_eof_requested_ => frame.eof /\ write_offset_ = pending_
           /\ ~write_eof_requested_ => write_offset_ > 0)'
    BY <2>4, <2>5, <2>6, <1>b, <1>c, <1>i
  <2>8. (write_pending_ /\ ~write_eof_requested_ =>
           write_offset_ = 0 /\ pending_ > 0)'
    BY <2>6, <1>b, <1>c
  <2>9. (write_pending_ /\ write_eof_requested_ =>
           write_offset_ = 0 \/ write_offset_ < pending_)'
    <3>1. ~done => offset # pending_
      BY <1>g
    <3>2. ~done => offset < pending_
      BY <3>1, <1>d, <1>f
    <3>3. QED BY <3>2, <1>b, <1>c
  <2>10. QED BY <2>1, <2>2, <2>3, <2>7, <2>8, <2>9 DEF CallState
<1>4. ProviderState'
  BY <1>a, <1>b, <1>c, <1>i, <1>j DEF ProviderState
<1>5. NoEmptyFrame'
  <2>1. CASE copied = 0
    <3>1. offset = pending_ /\ write_offset_ = pending_
      <4>1. offset = write_offset_ + copied
        BY DEF offset
      <4>2. QED BY <4>1, <2>1, <1>d, <1>f
    <3>2. write_eof_requested_
      BY <3>1, <1>a, <1>b, <1>d DEF CallState
    <3>3. eof
      BY <3>1, <3>2, <1>g DEF eof
    <3>4. QED BY <3>3, <1>i DEF NoEmptyFrame
  <2>2. CASE copied # 0
    BY <2>2, <1>i DEF NoEmptyFrame
  <2>3. QED BY <2>1, <2>2
<1>6. NoLostResume'
  BY <1>b, <1>c, <1>j DEF NoLostResume
<1>7. SuccessMeansProgress'
  <2>1. ~frame.eof
    BY <1>a, <1>b DEF ProviderState
  <2>2. result.ec = "ok" => ~result.eof /\ result.n > 0
    BY <2>1, <1>a, <1>j DEF SuccessMeansProgress
  <2>3. QED BY <2>2, <1>b DEF SuccessMeansProgress
<1>8. QED
  BY <1>1, <1>2, <1>3, <1>4, <1>5, <1>6, <1>7 DEF IInv

\* Every step preserves the invariant.
LEMMA NextIInv == IInv /\ [Next]_vars => IInv'
<1> SUFFICES ASSUME IInv, [Next]_vars PROVE IInv'
  OBVIOUS
<1>1. CASE Write
  <2>1. PICK size \in 0 .. MaxWrite, eof \in BOOLEAN :
            /\ size > 0 \/ eof
            /\ WriteImpl(size, eof) \/ WriteClosed(size, eof)
    BY <1>1 DEF Write
  <2>2. size \in Nat
    BY WriteAssumption
  <2>3. QED BY <2>1, <2>2, WriteImplIInv, WriteClosedIInv
<1>2. CASE Cancel
  BY <1>2, CancelIInv
<1>3. CASE Resume
  BY <1>3, ResumeIInv
<1>4. CASE SendLoop \/ SendLoopFails \/ SendLoopCancel \/ RecvEnds
  BY <1>4, DeferIInv, ProduceIInv, LoopsIInv DEF SendLoop
<1>5. CASE Grant
  BY <1>5, WindowUpdateIInv DEF Grant
<1>6. CASE OnClose
  BY <1>6, OnCloseIInv
<1>7. CASE UNCHANGED vars
  <2>a. TypeOK /\ WireExact /\ CallState /\ ProviderState /\ NoEmptyFrame
        /\ NoLostResume /\ SuccessMeansProgress
    BY DEF IInv
  <2>b. UNCHANGED <<closed_, pending_, write_offset_, write_eof_requested_,
                    write_pending_, write_deferred_, write_progress_, pc,
                    result, reported, provider, window, frame, wire,
                    write_ready_, sending, receiving>>
    BY <1>7 DEF vars, memberVars, callVars, h2Vars, loopVars
  <2>1. TypeOK' /\ WireExact'
    BY <2>a, <2>b DEF TypeOK, WireExact
  <2>2. CallState' /\ ProviderState' /\ NoEmptyFrame'
    BY <2>a, <2>b DEF CallState, ProviderState, NoEmptyFrame
  <2>3. NoLostResume' /\ SuccessMeansProgress'
    BY <2>a, <2>b DEF NoLostResume, Pullable, SuccessMeansProgress
  <2>4. QED BY <2>1, <2>2, <2>3 DEF IInv
<1>8. CASE Submit
  BY <1>8, SubmitIInv
<1>9. QED
  BY <1>1, <1>2, <1>3, <1>4, <1>5, <1>6, <1>7, <1>8 DEF Next

-----------------------------------------------------------------------------
\* The write side never leaves the inductive invariant.
THEOREM Invariance == Spec => []IInv
<1>1. QED BY InitIInv, NextIInv, PTL DEF Spec

\* The members of the write side keep their types.
THEOREM TypeCorrect == Spec => []TypeOK
<1>1. IInv => TypeOK
  BY DEF IInv
<1>2. QED BY <1>1, Invariance, PTL

\* The body goes out in order, and what write_impl() returns is what nghttp2
\* took from the call, however frames, cancellations and closes interleave.
THEOREM WrittenExactly == Spec => []WireExact
<1>1. IInv => WireExact
  BY DEF IInv
<1>2. QED BY <1>1, Invariance, PTL

\* producer_callback() never copies out of buffers whose write has returned.
THEOREM BuffersSafe == Spec => []BuffersAlive
<1>1. IInv => BuffersAlive
  BY DEF IInv, CallState, BuffersAlive
<1>2. QED BY <1>1, Invariance, PTL

\* producer_callback() never answers with an empty frame that does not end the
\* stream, whenever the resumption of the completed write runs.
THEOREM NoFlood == Spec => []NoEmptyFrame
<1>1. IInv => NoEmptyFrame
  BY DEF IInv
<1>2. QED BY <1>1, Invariance, PTL

\* A write always finds the provider working, and send_loop() awake for it.
THEOREM ResumeKept == Spec => []NoLostResume
<1>1. IInv => NoLostResume
  BY DEF IInv
<1>2. QED BY <1>1, Invariance, PTL

\* A write that succeeds on an open stream has done what it stands for.
THEOREM SuccessSound == Spec => []SuccessMeansProgress
<1>1. IInv => SuccessMeansProgress
  BY DEF IInv
<1>2. QED BY <1>1, Invariance, PTL

\* Only the frame with the last byte of a write_eof() call carries END_STREAM.
LEMMA EofStep ==
    IInv /\ [Next]_vars =>
        [frame'.eof /\ ~frame.eof => Len(wire') = reported + pending_]_vars
<1> SUFFICES ASSUME IInv, [Next]_vars, frame'.eof, ~frame.eof
             PROVE  Len(wire') = reported + pending_
  OBVIOUS
<1>1. frame' # frame
  OBVIOUS
<1>2. PICK length \in 1 .. Window : Produce(length)
  BY <1>1 DEF Next, Write, WriteImpl, WriteClosed, Submit, Cancel, Resume,
     SendLoop, Defer, SendLoopWait, SendLoopWake, SendLoopDone, SendLoopFails,
     SendLoopCancel, RecvEnds, Grant, WindowUpdate, OnClose, vars, h2Vars
<1> DEFINE offset == write_offset_ + Lesser(length, pending_ - write_offset_)
<1>3. /\ frame' = [len |-> Lesser(length, pending_ - write_offset_),
                   eof |-> Completes(offset) /\ write_eof_requested_]
      /\ write_offset_' = offset
      /\ UNCHANGED <<pc, reported, pending_>>
      /\ write_pending_
  BY <1>2 DEF Produce, callVars
<1> HIDE DEF offset
<1>4. offset = pending_
  BY <1>3 DEF Completes
<1>5. pc = "waiting"
  BY <1>3 DEF IInv, CallState
<1>6. WireExact'
  BY NextIInv DEF IInv
<1>7. QED BY <1>3, <1>4, <1>5, <1>6 DEF WireExact

\* END_STREAM never overtakes a byte of the body.
THEOREM EofLast == Spec => EofOnlyWhenDrained
<1>1. QED BY Invariance, EofStep, PTL DEF Spec, EofOnlyWhenDrained

-----------------------------------------------------------------------------
SinkResult == [ec |-> result.ec, n |-> result.n, eof |-> result.eof]

\* A step of the write side is a step of the sink or leaves the sink alone.
LEMMA SinkStep ==
    IInv /\ [Next]_vars => [Sink!SinkNext]_(Sink!sinkVars)
<1> SUFFICES ASSUME IInv, [Next]_vars
             PROVE  \/ Sink!SinkNext
                    \/ UNCHANGED <<Len(wire), frame.eof, reported, ~closed_,
                                   SinkResult>>
  BY DEF Sink!sinkVars, SinkResult
<1>a. /\ reported \in Nat /\ Len(wire) \in Nat /\ write_offset_ \in Nat
      /\ wire \in Seq(Nat) /\ pending_ \in Nat
  BY Types DEF IInv
<1>b. /\ Len(wire) = reported + (IF pc = "waiting" THEN write_offset_ ELSE 0)
  BY DEF IInv, WireExact
<1>1. ASSUME NEW size \in 0 .. MaxWrite, NEW eof \in BOOLEAN,
             WriteClosed(size, eof)
      PROVE  Sink!Report("eof", eof)
  <2>1. /\ pc = "idle" /\ closed_
        /\ result' = [ec |-> "eof", n |-> 0, size |-> size, eof |-> eof]
        /\ UNCHANGED <<reported, wire, frame, closed_>>
    BY <1>1 DEF WriteClosed, MayWrite, memberVars, h2Vars
  <2>2. Len(wire) = reported /\ Len(wire) - reported = 0
    BY <2>1, <1>a, <1>b
  <2>3. QED BY <2>1, <2>2 DEF Sink!Report
<1>2. ASSUME Resume PROVE Sink!Report(WaitError, write_eof_requested_)
  <2>1. /\ pc = "waiting" /\ write_progress_.waiter \in {"ready", "canceled"}
        /\ result' = [ec |-> WaitError, n |-> write_offset_, size |-> pending_,
                      eof |-> write_eof_requested_]
        /\ reported' = reported + write_offset_
        /\ UNCHANGED <<wire, frame, closed_>>
    BY <1>2 DEF Resume, Resumable, Progress, h2Vars
  <2>2. reported' = Len(wire) /\ write_offset_ = Len(wire) - reported
    BY <2>1, <1>a, <1>b
  <2>3. WaitError \in {"ok", "canceled"}
        /\ (WaitError = "ok" => write_progress_.waiter = "ready")
    BY <2>1 DEF WaitError
  <2>4. WaitError = "ok" /\ ~closed_ =>
            IF write_eof_requested_ THEN frame.eof ELSE write_offset_ > 0
    BY <2>3 DEF IInv, CallState
  <2>5. write_offset_ > 0 => Len(wire) > reported
    BY <2>1, <1>a, <1>b
  <2>6. QED BY <2>1, <2>2, <2>3, <2>4, <2>5 DEF Sink!Report
<1>3. ASSUME NEW length \in 1 .. Window, Produce(length) PROVE Sink!Send
  <2> DEFINE offset == write_offset_ + Lesser(length, pending_ - write_offset_)
             tail == Bytes(reported + write_offset_, reported + offset)
  <2>1. /\ provider = "ready"
        /\ frame'.eof = (Completes(offset) /\ write_eof_requested_)
        /\ wire' = wire \o tail
        /\ UNCHANGED <<reported, closed_, result>>
    BY <1>3 DEF Produce, Pullable, callVars
  <2>2. ~closed_ /\ ~frame.eof
    BY <2>1 DEF IInv, ProviderState
  <2>3. frame'.eof \in BOOLEAN
    BY <2>1
  <2>4. Len(wire') >= Len(wire)
    <3>1. write_offset_ <= pending_
      BY DEF IInv, CallState
    <3>2. offset \in Nat /\ write_offset_ <= offset
      BY <3>1, <1>a, WriteAssumption DEF Lesser
    <3> HIDE DEF offset
    <3>3. tail \in Seq(Nat)
      BY <3>2, <1>a DEF Bytes
    <3> HIDE DEF tail
    <3>4. QED BY <3>3, <2>1, <1>a
  <2>5. QED BY <2>1, <2>2, <2>3, <2>4 DEF Sink!Send
<1>4. ASSUME OnClose PROVE Sink!Close
  BY <1>4 DEF OnClose, callVars, Sink!Close
<1>5. ASSUME NEW size \in 0 .. MaxWrite, NEW eof \in BOOLEAN,
             WriteImpl(size, eof)
      PROVE  UNCHANGED <<wire, frame, reported, closed_, result>>
  BY <1>5 DEF WriteImpl
<1>6. ASSUME \/ Submit \/ Cancel \/ Defer \/ SendLoopWait \/ SendLoopWake
             \/ SendLoopDone \/ SendLoopFails \/ SendLoopCancel \/ RecvEnds
             \/ Grant
      PROVE  UNCHANGED <<wire, frame, reported, closed_, result>>
  BY <1>6 DEF Submit, Cancel, Defer, SendLoopWait, SendLoopWake, SendLoopDone,
     SendLoopFails, SendLoopCancel, RecvEnds, Grant, WindowUpdate, memberVars,
     callVars, h2Vars
<1>7. CASE UNCHANGED vars
  BY <1>7 DEF vars, memberVars, callVars, h2Vars, SinkResult
<1>8. UNCHANGED <<wire, frame, reported, closed_, result>> =>
          UNCHANGED <<Len(wire), frame.eof, reported, ~closed_, SinkResult>>
  BY DEF SinkResult
<1>9. WaitError \in {"ok", "canceled"} /\ write_eof_requested_ \in BOOLEAN
  BY DEF WaitError, IInv, TypeOK
<1>10. CASE Write
  <2>1. PICK size \in 0 .. MaxWrite, eof \in BOOLEAN :
            WriteImpl(size, eof) \/ WriteClosed(size, eof)
    BY <1>10 DEF Write
  <2>2. QED BY <2>1, <1>1, <1>5, <1>8 DEF Sink!SinkNext
<1>11. CASE Resume
  BY <1>11, <1>2, <1>9 DEF Sink!SinkNext
<1>12. CASE SendLoop
  BY <1>12, <1>3, <1>6, <1>8 DEF SendLoop, Sink!SinkNext
<1>13. QED
  BY <1>4, <1>6, <1>7, <1>8, <1>10, <1>11, <1>12 DEF Next, Sink!SinkNext

\* The write side of a stream implements a byte sink.
THEOREM SinkRefinement == Spec => ImplementsSink
<1>1. Init => Sink!SinkInit
  BY DEF Init, Sink!SinkInit
<1>2. QED
  BY <1>1, Invariance, SinkStep, PTL DEF Spec, ImplementsSink, Sink!SinkSpec
=============================================================================
