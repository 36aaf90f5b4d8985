---------------------------- MODULE SessionProofs ---------------------------
(***************************************************************************)
(* What TLAPS proves of Session, for every set of streams, every size of   *)
(* the accumulator and every number of frames nghttp2 answers.             *)
(***************************************************************************)
EXTENDS Session, AsyncEventProofs, SequenceTheorems, TLAPS

\* What the two loops and run() agree on.
LoopState ==
    /\ write_ready_.waiter # "none" <=> send = "waiting"
    /\ write_ready_.waiter = "canceled" => stopped
    /\ send # "writing" => data = <<>>
    /\ failed => send = "done"
    /\ send = "done" /\ ~failed /\ ~stopped =>
           pending = <<>> /\ (term = "sent" \/ goaway)
    /\ run = "ended" => send = "done" /\ recv = "done"

\* What the stream map and nghttp2 agree on, also after the end of run().
MapState ==
    /\ open \cap queued = {}
    /\ open \cup queued \subseteq streams_ \cup closed

\* send_loop() sleeps with nothing to send.
SleepsDry == write_ready_.waiter = "suspended" => out = {} /\ pending = <<>>

IInv ==
    /\ TypeOK
    /\ LoopState
    /\ MapState
    /\ SleepsDry
    /\ WireOrder
    /\ StreamsAgree
    /\ NobodyLeftWaiting
-----------------------------------------------------------------------------
\* The parts of TypeOK the provers take one at a time.
LEMMA Types ==
    ASSUME TypeOK
    PROVE  /\ write_ready_ \in Event
           /\ pending \in Seq(Nat) /\ data \in Seq(Nat) /\ wire \in Seq(Nat)
           /\ used \in 0 .. Capacity /\ produced \in Nat
           /\ streams_ \subseteq Streams /\ closed \subseteq Streams
           /\ open \subseteq Streams /\ queued \subseteq Streams
           /\ user \in [Streams -> {"none", "active", "suspended"}]
           /\ out \subseteq Frame /\ replies \in 0 .. MaxReplies
           /\ term \in {"no", "queued", "sent"}
           /\ stopped \in BOOLEAN /\ failed \in BOOLEAN /\ goaway \in BOOLEAN
BY DEF TypeOK

\* nghttp2's two frames without a stream are frames, and so are the others.
LEMMA Frames ==
    /\ Reply \in Frame /\ Goaway \in Frame
    /\ \A s \in Streams : /\ [kind |-> "headers", stream |-> s] \in Frame
                          /\ [kind |-> "end", stream |-> s] \in Frame
BY DEF Frame, Reply, Goaway

\* Concatenation is associative.
LEMMA ChunksAssociate ==
    ASSUME NEW a \in Seq(Nat), NEW b \in Seq(Nat), NEW c \in Seq(Nat)
    PROVE  (a \o b) \o c = a \o (b \o c)
OBVIOUS

\* The next chunk extends what has been returned, buffered or not.
LEMMA NextChunk ==
    ASSUME NEW w \in Seq(Nat), NEW p \in Seq(Nat), NEW n \in Nat,
           w \o p = Bytes(0, n)
    PROVE  /\ (w \o Append(p, n + 1)) = Bytes(0, n + 1)
           /\ (w \o p) \o <<n + 1>> = Bytes(0, n + 1)
<1> DEFINE x == <<n + 1>>
           b == Bytes(0, n)
           c == Bytes(0, n + 1)
<1>1. b \in Seq(Nat) /\ Len(b) = n /\ \A i \in 1 .. n : b[i] = i
  BY DEF Bytes
<1>2. c \in Seq(Nat) /\ Len(c) = n + 1 /\ \A i \in 1 .. n + 1 : c[i] = i
  BY DEF Bytes
<1>3. x \in Seq(Nat) /\ Len(x) = 1 /\ x[1] = n + 1
  OBVIOUS
<1>4. Append(p, n + 1) = p \o x
  BY AppendIsConcat
<1> HIDE DEF x, b, c
<1>5. b \o x = c
  <2>1. /\ b \o x \in Seq(Nat) /\ Len(b \o x) = Len(b) + Len(x)
        /\ \A i \in 1 .. Len(b) + Len(x) :
               (b \o x)[i] = IF i <= Len(b) THEN b[i] ELSE x[i - Len(b)]
    BY <1>1, <1>3, ConcatProperties, Zenon
  <2> DEFINE d == b \o x
  <2> HIDE DEF d
  <2>2. /\ d \in Seq(Nat) /\ Len(d) = n + 1
        /\ \A i \in 1 .. n + 1 : d[i] = IF i <= n THEN b[i] ELSE x[i - n]
    BY <2>1, <1>1, <1>3 DEF d
  <2>3. \A i \in 1 .. n + 1 : d[i] = i
    <3> TAKE i \in 1 .. n + 1
    <3>1. CASE i <= n
      BY <3>1, <2>2, <1>1
    <3>2. CASE i = n + 1
      <4>1. ~(i <= n) /\ i - n = 1 /\ i \in 1 .. n + 1
        BY <3>2
      <4>2. d[i] = x[i - n]
        BY <4>1, <2>2
      <4>3. QED BY <4>1, <4>2, <3>2, <1>3
    <3>3. QED BY <3>1, <3>2
  <2>4. d = c
    BY <2>2, <2>3, <1>2, SeqEqual
  <2>5. QED BY <2>4 DEF d
<1>6. (w \o p) \o x = w \o (p \o x)
  BY <1>3, ChunksAssociate
<1>7. QED BY <1>4, <1>5, <1>6 DEF x, b, c

\* What is on the wire is the beginning of what has been returned.
LEMMA WireBegins ==
    ASSUME NEW w \in Seq(Nat), NEW p \in Seq(Nat), NEW n \in Nat,
           w \o p = Bytes(0, n)
    PROVE  \A i \in 1 .. Len(w) : w[i] = i
<1>1. \A i \in 1 .. n : (w \o p)[i] = i
  BY DEF Bytes
<1>2. Len(w \o p) = n
  BY DEF Bytes
<1>3. QED BY <1>1, <1>2

\* Steps that leave send_loop() alone leave the wire alone.
LEMMA WireKept == ASSUME WireOrder, UNCHANGED sendVars PROVE WireOrder'
BY DEF WireOrder, sendVars

\* What close_stream() does to the map and to the waiters.
LEMMA Closing ==
    ASSUME IInv, NEW S \in SUBSET Streams, NEW also, CloseStreams(S, also)
    PROVE  /\ streams_' = streams_ \ S
           /\ streams_' \subseteq Streams /\ closed' \subseteq Streams
           /\ user' \in [Streams -> {"none", "active", "suspended"}]
           /\ streams_' \cup closed' = streams_ \cup closed
           /\ streams_' \cap closed' = {}
           /\ \A s \in Streams : user'[s] # "none" => s \in streams_' \cup closed'
           /\ \A s \in Streams : user'[s] = "suspended" =>
                  s \notin closed' /\ (run = "ended" => s \in late)
<1>1. /\ streams_' = streams_ \ S /\ closed' = closed \cup (S \cap streams_)
      /\ user' = [s \in Streams |->
                    IF s \in (S \cap streams_) \cup also /\ user[s] = "suspended"
                    THEN "active" ELSE user[s]]
  BY DEF CloseStreams, Told, Left, Woken
<1>2. /\ streams_ \subseteq Streams /\ closed \subseteq Streams
      /\ user \in [Streams -> {"none", "active", "suspended"}]
  BY Types DEF IInv
<1>3. /\ streams_ \cap closed = {}
      /\ \A s \in Streams : user[s] # "none" => s \in streams_ \cup closed
  BY DEF IInv, StreamsAgree
<1>4. \A s \in Streams : user[s] = "suspended" =>
          s \notin closed /\ (run = "ended" => s \in late)
  BY DEF IInv, NobodyLeftWaiting
<1>5. /\ user' \in [Streams -> {"none", "active", "suspended"}]
      /\ \A s \in Streams : user'[s] # "none" => user[s] # "none"
      /\ \A s \in Streams : user'[s] = "suspended" =>
             user[s] = "suspended" /\ s \notin S \cap streams_
  BY <1>1, <1>2
<1>6. streams_' \cup closed' = streams_ \cup closed /\ streams_' \cap closed' = {}
  BY <1>1, <1>3
<1>7. QED BY <1>1, <1>2, <1>3, <1>4, <1>5, <1>6

\* The start state satisfies the invariant.
LEMMA InitIInv == Init => IInv
<1> SUFFICES ASSUME Init PROVE IInv
  OBVIOUS
<1>1. TypeOK
  <2>1. out \subseteq Frame
    BY Frames DEF Init
  <2>2. used \in 0 .. Capacity /\ replies \in 0 .. MaxReplies
    BY SessionAssumption DEF Init
  <2>3. write_ready_ \in Event
    BY EventTypes DEF Init
  <2>4. pending \in Seq(Nat) /\ data \in Seq(Nat) /\ wire \in Seq(Nat)
    BY DEF Init
  <2>5. user \in [Streams -> {"none", "active", "suspended"}]
    BY DEF Init
  <2>6. {unanswered, stopped, failed, gone, goaway} \subseteq BOOLEAN
    BY DEF Init
  <2>7. QED BY <2>1, <2>2, <2>3, <2>4, <2>5, <2>6 DEF Init, TypeOK
<1>2. LoopState
  BY DEF Init, LoopState, NewEvent
<1>3. MapState /\ StreamsAgree /\ NobodyLeftWaiting
  BY DEF Init, MapState, StreamsAgree, NobodyLeftWaiting
<1>4. SleepsDry
  BY DEF Init, SleepsDry, NewEvent
<1>5. WireOrder
  BY DEF Init, WireOrder, Bytes
<1>6. QED BY <1>1, <1>2, <1>3, <1>4, <1>5 DEF IInv
-----------------------------------------------------------------------------
(* Steps that pass start_write() and leave send_loop() alone.              *)

\* start_write() keeps what the loops agree on, whatever else the step does to
\* nghttp2's state.
LEMMA StartWriteKeeps ==
    ASSUME IInv, StartWrite, UNCHANGED <<sendVars, stopped, run>>,
           run = "running" \/ recv' = recv,
           term = "sent" => term' = "sent", goaway => goaway'
    PROVE  LoopState' /\ SleepsDry' /\ WireOrder'
<1>1. write_ready_ \in Event
  BY Types DEF IInv
<1>2. write_ready_' = SetEvent(write_ready_)
  BY DEF StartWrite
<1>3. LoopState /\ WireOrder
  BY DEF IInv
<1>4. /\ write_ready_'.waiter # "suspended"
      /\ write_ready_'.waiter = "canceled" <=> write_ready_.waiter = "canceled"
      /\ write_ready_'.waiter = "none" <=> write_ready_.waiter = "none"
  BY <1>1, <1>2, EventWaiters
<1>5. LoopState'
  BY <1>3, <1>4 DEF LoopState, sendVars
<1>6. SleepsDry'
  BY <1>4 DEF SleepsDry
<1>7. WireOrder'
  BY <1>3, WireKept
<1>8. QED BY <1>5, <1>6, <1>7

\* What a step has to show of the stream map and of nghttp2 for the rest of the
\* invariant.
StreamsKept ==
    /\ streams_ \subseteq Streams /\ closed \subseteq Streams
    /\ open \subseteq Streams /\ queued \subseteq Streams
    /\ remoteEnd \subseteq Streams
    /\ replies \in 0 .. MaxReplies
    /\ user \in [Streams -> {"none", "active", "suspended"}]
    /\ MapState /\ StreamsAgree /\ NobodyLeftWaiting

\* What follows nghttp2_session_mem_recv2().
LEMMA ContinueIInv ==
    ASSUME IInv, Reading, NEW frames \in SUBSET Frame,
           NEW opened \in SUBSET Streams, NEW ga \in BOOLEAN,
           Continue(frames, opened, ga), goaway => ga, StreamsKept'
    PROVE  IInv'
<1>1. TypeOK
  BY DEF IInv
<1>2. /\ StartWrite /\ open' = opened /\ goaway' = ga
      /\ UNCHANGED <<fixed, run, stopped, sendVars, gone, appVars, queued, localEnd>>
      /\ recv' \in {recv, "done"}
      /\ term' \in {"no", "queued", "sent"} /\ (term = "sent" => term' = "sent")
      /\ out' \subseteq Frame
  BY <1>1, Frames DEF Continue, Terminate, WakeForGoaway, TypeOK
<1>3. run = "running"
  BY DEF IInv, TypeOK, LoopState, Reading
<1>4. LoopState' /\ SleepsDry' /\ WireOrder'
  BY <1>2, <1>3, StartWriteKeeps
<1>5. write_ready_' \in Event
  BY <1>1, <1>2, EventTypes DEF StartWrite, TypeOK
<1>6. TypeOK'
  BY <1>1, <1>2, <1>5 DEF TypeOK, StreamsKept, fixed, sendVars, appVars
<1>7. QED BY <1>4, <1>6 DEF IInv, StreamsKept

\* Closing what nghttp2 closes keeps the map and nghttp2 in agreement.
LEMMA ClosingKept ==
    ASSUME IInv, run = "running", UNCHANGED run,
           NEW S \in SUBSET Streams, NEW also, CloseStreams(S, also),
           open' \cup queued' = (open \cup queued) \ S, open' \cap queued' = {},
           remoteEnd' \subseteq Streams, replies' \in 0 .. MaxReplies
    PROVE  StreamsKept'
<1>1. /\ streams_' = streams_ \ S
      /\ streams_' \subseteq Streams /\ closed' \subseteq Streams
      /\ user' \in [Streams -> {"none", "active", "suspended"}]
      /\ streams_' \cup closed' = streams_ \cup closed
      /\ streams_' \cap closed' = {}
      /\ \A s \in Streams : user'[s] # "none" => s \in streams_' \cup closed'
      /\ \A s \in Streams : user'[s] = "suspended" => s \notin closed'
  BY Closing
<1>2. open \subseteq Streams /\ queued \subseteq Streams
  BY Types DEF IInv
<1>3. streams_ = open \cup queued
  BY DEF IInv, StreamsAgree
<1>4. open' \subseteq Streams /\ queued' \subseteq Streams
  BY <1>2
<1>5. MapState'
  BY <1>1, <1>3 DEF MapState
<1>6. StreamsAgree'
  BY <1>1, <1>3 DEF StreamsAgree
<1>7. NobodyLeftWaiting'
  BY <1>1 DEF NobodyLeftWaiting
<1>8. QED BY <1>1, <1>4, <1>5, <1>6, <1>7 DEF StreamsKept

-----------------------------------------------------------------------------
(* recv_loop()                                                             *)

\* recv_loop() reads only while run() does not end.
LEMMA ReadingRuns ==
    ASSUME IInv, Reading
    PROVE  /\ run = "running"
           /\ open \cap queued = {} /\ streams_ = open \cup queued
           /\ streams_ \subseteq Streams /\ open \subseteq Streams
           /\ out \subseteq Frame /\ replies \in 0 .. MaxReplies
           /\ remoteEnd \subseteq Streams /\ goaway \in BOOLEAN
BY DEF IInv, TypeOK, LoopState, MapState, StreamsAgree, Reading

LEMMA RecvRequestIInv ==
    ASSUME IInv, NEW s \in Streams, RecvRequest(s) PROVE IInv'
<1>1. /\ Reading /\ s \notin streams_ \cup closed
      /\ streams_' = streams_ \cup {s} /\ user' = [user EXCEPT ![s] = "active"]
      /\ Continue(out, open \cup {s}, goaway)
      /\ UNCHANGED <<closed, replies, remoteEnd>>
  BY DEF RecvRequest, Fresh
<1>2. open' = open \cup {s} /\ UNCHANGED <<run, queued>>
  BY <1>1 DEF Continue
<1>3. /\ streams_ \cap closed = {} /\ open \cup queued \subseteq streams_ \cup closed
      /\ \A t \in Streams : user[t] # "none" => t \in streams_ \cup closed
      /\ \A t \in Streams : user[t] = "suspended" => t \notin closed
  BY DEF IInv, StreamsAgree, NobodyLeftWaiting, MapState
<1>4. /\ closed \subseteq Streams /\ queued \subseteq Streams
      /\ user \in [Streams -> {"none", "active", "suspended"}]
  BY Types DEF IInv
<1>5. StreamsKept'
  <2>1. MapState'
    BY <1>1, <1>2, <1>3, ReadingRuns DEF MapState
  <2>2. StreamsAgree'
    BY <1>1, <1>2, <1>3, <1>4, ReadingRuns DEF StreamsAgree
  <2>3. NobodyLeftWaiting'
    BY <1>1, <1>2, <1>3, <1>4, ReadingRuns DEF NobodyLeftWaiting
  <2>4. QED BY <1>1, <1>2, <1>4, <2>1, <2>2, <2>3, ReadingRuns DEF StreamsKept
<1>6. open \cup {s} \in SUBSET Streams
  BY <1>1, ReadingRuns
<1>7. QED BY <1>1, <1>5, <1>6, ReadingRuns, ContinueIInv

\* The steps that close streams of nghttp2 and go on.
LEMMA RecvClosingIInv ==
    ASSUME IInv, Reading, NEW S \in SUBSET open, NEW also,
           NEW frames \in SUBSET Frame, NEW ga \in BOOLEAN, goaway => ga,
           CloseStreams(S, also), Continue(frames, open \ S, ga),
           remoteEnd' \subseteq Streams, replies' \in 0 .. MaxReplies
    PROVE  IInv'
<1>1. /\ run = "running" /\ open \subseteq Streams /\ open \cap queued = {}
  BY ReadingRuns
<1>2. open' = open \ S /\ UNCHANGED <<run, queued>>
  BY DEF Continue
<1>3. /\ open' \cup queued' = (open \cup queued) \ S /\ open' \cap queued' = {}
      /\ S \in SUBSET Streams /\ open \ S \in SUBSET Streams
  BY <1>1, <1>2
<1>4. StreamsKept'
  BY <1>1, <1>2, <1>3, ClosingKept
<1>5. QED BY <1>3, <1>4, ContinueIInv

LEMMA RecvMoreIInv == ASSUME IInv, NEW s \in Streams, RecvMore(s) PROVE IInv'
<1>1. /\ Reading /\ CloseStreams({}, {s}) /\ Continue(out, open \ {}, goaway)
      /\ UNCHANGED <<replies, remoteEnd>>
  BY DEF RecvMore
<1>2. QED BY <1>1, ReadingRuns, RecvClosingIInv

LEMMA RecvEndIInv == ASSUME IInv, NEW s \in Streams, RecvEnd(s) PROVE IInv'
<1> DEFINE dead == {s} \cap localEnd
<1>1. /\ Reading /\ s \in open /\ remoteEnd' = remoteEnd \cup {s}
      /\ CloseStreams(dead, {s}) /\ Continue(out, open \ dead, goaway)
      /\ UNCHANGED replies
  BY DEF RecvEnd
<1>2. dead \in SUBSET open /\ remoteEnd' \subseteq Streams
  BY <1>1, ReadingRuns
<1> HIDE DEF dead
<1>3. QED BY <1>1, <1>2, ReadingRuns, RecvClosingIInv

LEMMA RecvRstIInv == ASSUME IInv, NEW s \in Streams, RecvRst(s) PROVE IInv'
<1>1. /\ Reading /\ s \in open /\ CloseStreams({s}, {})
      /\ Continue(out, open \ {s}, goaway) /\ UNCHANGED <<replies, remoteEnd>>
  BY DEF RecvRst
<1>2. {s} \in SUBSET open
  BY <1>1
<1>3. QED BY <1>1, <1>2, ReadingRuns, RecvClosingIInv

LEMMA RecvAnsweredIInv == ASSUME IInv, NEW f \in Frame, RecvAnswered(f) PROVE IInv'
<1>1. /\ Reading /\ replies < MaxReplies /\ replies' = replies + 1
      /\ CloseStreams({}, {}) /\ Continue(out \cup {f}, open \ {}, goaway)
      /\ UNCHANGED remoteEnd
  BY DEF RecvAnswered
<1>2. replies' \in 0 .. MaxReplies /\ out \cup {f} \in SUBSET Frame
  BY <1>1, ReadingRuns, SessionAssumption
<1>3. QED BY <1>1, <1>2, ReadingRuns, RecvClosingIInv

LEMMA RecvGoawayIInv ==
    ASSUME IInv, NEW unseen \in SUBSET Streams, RecvGoaway(unseen) PROVE IInv'
<1>1. /\ Reading /\ unseen \in SUBSET open /\ CloseStreams(unseen, {})
      /\ Continue(out, open \ unseen, TRUE) /\ UNCHANGED <<replies, remoteEnd>>
  BY DEF RecvGoaway
<1>2. QED BY <1>1, ReadingRuns, RecvClosingIInv

LEMMA RecvIgnoredIInv == ASSUME IInv, RecvIgnored PROVE IInv'
<1>1. /\ Reading /\ CloseStreams({}, {}) /\ Continue(out, open \ {}, goaway)
      /\ UNCHANGED <<replies, remoteEnd>>
  BY DEF RecvIgnored
<1>2. QED BY <1>1, ReadingRuns, RecvClosingIInv

\* Steps that leave the streams alone.
LEMMA MapKept ==
    ASSUME IInv, UNCHANGED <<mapVars, run, queued, open, late>>
    PROVE  MapState' /\ StreamsAgree' /\ NobodyLeftWaiting'
<1>1. MapState /\ StreamsAgree /\ NobodyLeftWaiting
  BY DEF IInv
<1>2. MapState'
  BY <1>1 DEF MapState, mapVars
<1>3. StreamsAgree'
  BY <1>1 DEF StreamsAgree, mapVars
<1>4. NobodyLeftWaiting'
  BY <1>1 DEF NobodyLeftWaiting, mapVars
<1>5. QED BY <1>2, <1>3, <1>4

\* start_write() by a step that leaves the streams alone.
LEMMA QuietStartWrite ==
    ASSUME IInv, StartWrite, run = "running" \/ recv' = recv,
           UNCHANGED <<fixed, mapVars, run, stopped, sendVars, ending, late,
                       queued, open, localEnd, remoteEnd, goaway>>,
           recv' \in {"reading", "done"}, gone' \in BOOLEAN,
           submitted' \subseteq Streams, out' \subseteq Frame,
           replies' \in 0 .. MaxReplies, term' \in {"no", "queued", "sent"},
           term = "sent" => term' = "sent"
    PROVE  IInv'
<1>1. TypeOK
  BY DEF IInv
<1>2. LoopState' /\ SleepsDry' /\ WireOrder'
  BY StartWriteKeeps
<1>3. MapState' /\ StreamsAgree' /\ NobodyLeftWaiting'
  BY MapKept
<1>4. write_ready_' \in Event
  BY <1>1, EventTypes DEF StartWrite, TypeOK
<1>5. TypeOK'
  BY <1>1, <1>4 DEF TypeOK, fixed, mapVars, sendVars
<1>6. QED BY <1>2, <1>3, <1>5 DEF IInv

LEMMA RecvConnectionErrorIInv == ASSUME IInv, RecvConnectionError PROVE IInv'
<1>1. TypeOK
  BY DEF IInv
<1>2. /\ StartWrite /\ term = "no" /\ term' = "queued" /\ out' \subseteq Frame
      /\ UNCHANGED <<fixed, mapVars, run, stopped, sendVars, recvVars, appVars,
                     replies, queued, open, localEnd, remoteEnd, goaway>>
  BY <1>1, Frames DEF RecvConnectionError, TypeOK
<1>3. QED BY <1>1, <1>2, QuietStartWrite DEF TypeOK, recvVars, appVars

LEMMA RecvFailsIInv == ASSUME IInv, RecvFails PROVE IInv'
<1>1. TypeOK
  BY DEF IInv
<1>2. /\ Reading /\ StartWrite /\ recv' = "done" /\ gone' = TRUE
      /\ out' \subseteq Frame /\ term' \in {"no", "queued", "sent"}
      /\ term = "sent" => term' = "sent"
      /\ UNCHANGED <<fixed, mapVars, run, stopped, sendVars, appVars, replies,
                     queued, open, localEnd, remoteEnd, goaway>>
  BY <1>1, Frames DEF RecvFails, Terminate, WakeForGoaway, TypeOK
<1>3. run = "running"
  BY <1>2, ReadingRuns
<1>4. QED BY <1>1, <1>2, <1>3, QuietStartWrite DEF TypeOK, appVars

\* run() ends: the two loops have ended, and nobody is left on a stream.
LEMMA RunEndsIInv == ASSUME IInv, RunEnds PROVE IInv'
<1>1. /\ run = "running" /\ send = "done" /\ recv = "done" /\ run' = "ended"
      /\ CloseStreams(streams_, {})
      /\ UNCHANGED <<fixed, write_ready_, stopped, sendVars, recvVars, appVars,
                     h2Vars>>
  BY DEF RunEnds
<1>2. /\ TypeOK /\ LoopState /\ MapState /\ SleepsDry /\ WireOrder
      /\ StreamsAgree
  BY DEF IInv
<1>3. streams_ \in SUBSET Streams
  BY <1>2 DEF TypeOK
<1>4. /\ streams_' = streams_ \ streams_
      /\ streams_' \subseteq Streams /\ closed' \subseteq Streams
      /\ user' \in [Streams -> {"none", "active", "suspended"}]
      /\ streams_' \cup closed' = streams_ \cup closed
      /\ \A s \in Streams : user'[s] # "none" => s \in streams_' \cup closed'
      /\ \A s \in Streams : user'[s] = "suspended" => s \notin closed'
  BY <1>1, <1>3, Closing
<1>5. LoopState' /\ SleepsDry'
  BY <1>1, <1>2 DEF LoopState, SleepsDry, sendVars, recvVars, h2Vars
<1>6. WireOrder'
  BY <1>1, <1>2, WireKept
<1>7. MapState' /\ StreamsAgree'
  BY <1>1, <1>2, <1>4 DEF MapState, StreamsAgree, h2Vars
<1>8. NobodyLeftWaiting'
  BY <1>4 DEF NobodyLeftWaiting
<1>9. TypeOK'
  BY <1>1, <1>2, <1>4 DEF TypeOK, fixed, sendVars, recvVars, appVars, h2Vars
<1>10. QED BY <1>5, <1>6, <1>7, <1>8, <1>9 DEF IInv

-----------------------------------------------------------------------------
(* The application.                                                        *)

LEMMA SubmitResponseIInv ==
    ASSUME IInv, NEW s \in Streams, SubmitResponse(s) PROVE IInv'
<1>1. TypeOK
  BY DEF IInv
<1>2. /\ StartWrite /\ out' \subseteq Frame /\ submitted' \subseteq Streams
      /\ UNCHANGED <<fixed, mapVars, run, stopped, sendVars, recvVars, ending, late,
                     replies, queued, open, localEnd, remoteEnd, term, goaway>>
  BY <1>1, Frames DEF SubmitResponse, TypeOK
<1>3. QED BY <1>1, <1>2, QuietStartWrite DEF TypeOK, recvVars

LEMMA ConsumeIInv == ASSUME IInv, NEW s \in Streams, Consume(s) PROVE IInv'
<1>1. TypeOK
  BY DEF IInv
<1>2. /\ StartWrite /\ out' \subseteq Frame /\ replies' \in 0 .. MaxReplies
      /\ UNCHANGED <<fixed, mapVars, run, stopped, sendVars, recvVars, appVars,
                     queued, open, localEnd, remoteEnd, term, goaway>>
  BY <1>1, Frames, SessionAssumption DEF Consume, AnnounceWindow, TypeOK
<1>3. QED BY <1>1, <1>2, QuietStartWrite DEF TypeOK, recvVars, appVars

\* A request after the end of run() is known to be late.
LEMMA SubmitRequestIInv ==
    ASSUME IInv, NEW s \in Streams, SubmitRequest(s) PROVE IInv'
<1>1. /\ s \notin streams_ \cup closed
      /\ queued' = queued \cup {s} /\ streams_' = streams_ \cup {s} /\ StartWrite
      /\ out' = out \cup {[kind |-> "headers", stream |-> s]}
      /\ user' = [user EXCEPT ![s] = "active"] /\ submitted' = submitted \cup {s}
      /\ late' = IF run = "ended" THEN late \cup {s} ELSE late
      /\ UNCHANGED <<fixed, closed, run, stopped, sendVars, recvVars, ending,
                     replies, open, localEnd, remoteEnd, term, goaway>>
  BY DEF SubmitRequest, Fresh
<1>2. TypeOK /\ MapState /\ StreamsAgree /\ NobodyLeftWaiting
  BY DEF IInv
<1>3. user \in [Streams -> {"none", "active", "suspended"}]
  BY <1>2 DEF TypeOK
<1>4. LoopState' /\ SleepsDry' /\ WireOrder'
  BY <1>1, StartWriteKeeps DEF recvVars
<1>5. MapState'
  BY <1>1, <1>2 DEF MapState
<1>6. StreamsAgree'
  BY <1>1, <1>2, <1>3 DEF StreamsAgree
<1>7. NobodyLeftWaiting'
  BY <1>1, <1>2, <1>3 DEF NobodyLeftWaiting
<1>8. write_ready_' \in Event
  BY <1>1, <1>2, EventTypes DEF StartWrite, TypeOK
<1>9. out' \subseteq Frame
  BY <1>1, <1>2, Frames DEF TypeOK
<1>10. TypeOK'
  BY <1>1, <1>2, <1>8, <1>9 DEF TypeOK, fixed, sendVars, recvVars
<1>11. QED BY <1>4, <1>5, <1>6, <1>7, <1>10 DEF IInv

\* A coroutine that is active may wait on a stream that is not closed: while it
\* runs, or submitted late.
LEMMA SuspendKeeps ==
    ASSUME IInv, NEW s \in Streams, user[s] = "active", s \notin closed,
           user' = [user EXCEPT ![s] = "suspended"],
           UNCHANGED <<streams_, closed, run, late, queued, open>>
    PROVE  MapState' /\ StreamsAgree' /\ NobodyLeftWaiting'
<1>1. MapState /\ StreamsAgree /\ NobodyLeftWaiting
  BY DEF IInv
<1>2. user \in [Streams -> {"none", "active", "suspended"}]
  BY Types DEF IInv
<1>3. MapState'
  BY <1>1 DEF MapState
<1>4. StreamsAgree'
  BY <1>1, <1>2 DEF StreamsAgree
<1>5. run = "ended" => s \in late
  BY <1>1 DEF MapState, StreamsAgree
<1>6. NobodyLeftWaiting'
  BY <1>1, <1>2, <1>5 DEF NobodyLeftWaiting
<1>7. QED BY <1>3, <1>4, <1>6

LEMMA WriteEofIInv == ASSUME IInv, NEW s \in Streams, WriteEof(s) PROVE IInv'
<1>1. /\ user[s] = "active" /\ s \notin closed
      /\ out' = out \cup {[kind |-> "end", stream |-> s]} /\ StartWrite
      /\ user' = [user EXCEPT ![s] = "suspended"] /\ ending' = ending \cup {s}
      /\ UNCHANGED <<fixed, streams_, closed, run, stopped, sendVars, recvVars,
                     submitted, late, replies, queued, open, localEnd, remoteEnd,
                     term, goaway>>
  BY DEF WriteEof
<1>2. TypeOK
  BY DEF IInv
<1>3. LoopState' /\ SleepsDry' /\ WireOrder'
  BY <1>1, StartWriteKeeps DEF recvVars
<1>4. MapState' /\ StreamsAgree' /\ NobodyLeftWaiting'
  BY <1>1, SuspendKeeps
<1>5. write_ready_' \in Event
  BY <1>1, <1>2, EventTypes DEF StartWrite, TypeOK
<1>6. out' \subseteq Frame
  BY <1>1, <1>2, Frames DEF TypeOK
<1>7. TypeOK'
  BY <1>1, <1>2, <1>5, <1>6 DEF TypeOK, fixed, sendVars, recvVars
<1>8. QED BY <1>3, <1>4, <1>7 DEF IInv

LEMMA SuspendIInv == ASSUME IInv, NEW s \in Streams, Suspend(s) PROVE IInv'
<1>1. /\ user[s] = "active" /\ s \notin closed
      /\ user' = [user EXCEPT ![s] = "suspended"]
      /\ UNCHANGED <<fixed, streams_, write_ready_, closed, run, stopped, sendVars,
                     recvVars, appVars, h2Vars>>
  BY DEF Suspend
<1>2. TypeOK /\ LoopState /\ SleepsDry /\ WireOrder
  BY DEF IInv
<1>3. LoopState' /\ SleepsDry'
  BY <1>1, <1>2 DEF LoopState, SleepsDry, sendVars, recvVars, h2Vars
<1>4. WireOrder'
  BY <1>1, <1>2, WireKept
<1>5. MapState' /\ StreamsAgree' /\ NobodyLeftWaiting'
  BY <1>1, SuspendKeeps DEF appVars, h2Vars
<1>6. TypeOK'
  BY <1>1, <1>2 DEF TypeOK, fixed, sendVars, recvVars, appVars, h2Vars
<1>7. QED BY <1>3, <1>4, <1>5, <1>6 DEF IInv

\* The stop request cancels the wait of send_loop(), which then says so.
LEMMA StopIInv == ASSUME IInv, Stop PROVE IInv'
<1>1. /\ stopped' = TRUE /\ write_ready_' = CancelWait(write_ready_)
      /\ UNCHANGED <<fixed, mapVars, run, sendVars, recvVars, appVars, h2Vars>>
  BY DEF Stop
<1>2. TypeOK /\ LoopState /\ SleepsDry /\ WireOrder
  BY DEF IInv
<1>3. write_ready_' \in Event
  BY <1>1, <1>2, EventTypes DEF TypeOK
<1>4. /\ write_ready_'.waiter # "suspended"
      /\ write_ready_'.waiter = "none" <=> write_ready_.waiter = "none"
  BY <1>1 DEF CancelWait
<1>5. LoopState' /\ SleepsDry'
  BY <1>1, <1>2, <1>4 DEF LoopState, SleepsDry, sendVars, recvVars, h2Vars
<1>6. WireOrder'
  BY <1>1, <1>2, WireKept
<1>7. MapState' /\ StreamsAgree' /\ NobodyLeftWaiting'
  BY <1>1, MapKept DEF appVars, h2Vars
<1>8. TypeOK'
  BY <1>1, <1>2, <1>3 DEF TypeOK, fixed, mapVars, sendVars, recvVars, appVars, h2Vars
<1>9. QED BY <1>5, <1>6, <1>7, <1>8 DEF IInv

-----------------------------------------------------------------------------
(* send_loop()                                                             *)

\* While send_loop() pulls or writes, run() goes on and nothing has failed.
LEMMA Sending ==
    ASSUME IInv, send \in {"pull", "writing"}
    PROVE  /\ run = "running" /\ ~failed /\ write_ready_.waiter = "none"
           /\ send = "pull" => data = <<>>
           /\ open \cap queued = {} /\ open \subseteq Streams /\ queued \subseteq Streams
           /\ wire \o pending \o data = Bytes(0, produced)
<1>1. TypeOK /\ LoopState /\ WireOrder /\ MapState
  BY DEF IInv
<1>2. run = "running" /\ ~failed /\ write_ready_.waiter = "none"
  BY <1>1 DEF TypeOK, LoopState
<1>3. QED BY <1>1, <1>2 DEF TypeOK, LoopState, WireOrder, MapState

\* Without the chunk that did not fit there is only the accumulator.
LEMMA NoData == ASSUME NEW a \in Seq(Nat), NEW b \in Seq(Nat) PROVE a \o b \o <<>> = a \o b
OBVIOUS

\* A request that cannot be sent is closed in the map and in nghttp2.
LEMMA DropIInv == ASSUME IInv, NEW f \in out, Drop(f) PROVE IInv'
<1> DEFINE dead == {s \in queued : f.kind = "headers" /\ f.stream = s}
<1>1. /\ send = "pull" /\ out' = out \ {f}
      /\ queued' = queued \ dead /\ CloseStreams(dead, {})
      /\ UNCHANGED <<fixed, write_ready_, run, stopped, sendVars, recvVars, appVars,
                     replies, open, localEnd, remoteEnd, term, goaway>>
  BY DEF Drop
<1>2. TypeOK /\ LoopState /\ SleepsDry /\ WireOrder
  BY DEF IInv
<1>3. dead \subseteq queued
  OBVIOUS
<1> HIDE DEF dead
<1>4. LoopState' /\ SleepsDry'
  BY <1>1, <1>2 DEF LoopState, SleepsDry, sendVars, recvVars
<1>5. WireOrder'
  BY <1>1, <1>2, WireKept
<1>6. /\ open' \cup queued' = (open \cup queued) \ dead /\ open' \cap queued' = {}
      /\ dead \in SUBSET Streams /\ run = "running"
  BY <1>1, <1>3, Sending
<1>7. remoteEnd' \subseteq Streams /\ replies' \in 0 .. MaxReplies
  BY <1>1, <1>2 DEF TypeOK
<1>8. StreamsKept'
  BY <1>1, <1>6, <1>7, ClosingKept
<1>9. TypeOK'
  BY <1>1, <1>2, <1>8 DEF TypeOK, StreamsKept, fixed, sendVars, recvVars, appVars
<1>10. QED BY <1>4, <1>5, <1>8, <1>9 DEF IInv, StreamsKept

\* The frame nghttp2 returns is buffered or kept for the write, next in order.
LEMMA PullIInv ==
    ASSUME IInv, NEW f \in out, NEW size \in {1, Capacity + 1}, Pull(f, size)
    PROVE  IInv'
<1> DEFINE opened == {s \in queued : f.kind = "headers" /\ f.stream = s}
           ended  == {s \in open : f.kind = "end" /\ f.stream = s}
           dead   == (ended \cap remoteEnd)
                     \cup {s \in open : f.kind = "rst" /\ f.stream = s}
<1>1. /\ send = "pull" /\ out' = out \ {f} /\ produced' = produced + 1
      /\ \/ /\ size <= Capacity - used
            /\ pending' = Append(pending, produced + 1) /\ used' = used + size
            /\ UNCHANGED <<send, data>>
         \/ /\ data' = <<produced + 1>> /\ send' = "writing"
            /\ UNCHANGED <<pending, used>>
      /\ queued' = queued \ opened /\ open' = (open \cup opened) \ dead
      /\ localEnd' = localEnd \cup ended /\ CloseStreams(dead, ended)
      /\ term' = IF f.kind = "goaway" THEN "sent" ELSE term
      /\ UNCHANGED <<fixed, write_ready_, run, stopped, failed, wire, recvVars,
                     appVars, replies, remoteEnd, goaway>>
  BY DEF Pull, Fits
<1>2. opened \subseteq queued /\ dead \subseteq open /\ ended \subseteq open
  OBVIOUS
<1> HIDE DEF opened, ended, dead
<1>3. TypeOK /\ LoopState /\ SleepsDry /\ WireOrder
  BY DEF IInv
<1>4. /\ run = "running" /\ ~failed /\ write_ready_.waiter = "none" /\ data = <<>>
      /\ open \cap queued = {} /\ open \subseteq Streams /\ queued \subseteq Streams
      /\ wire \o pending \o data = Bytes(0, produced)
  BY <1>1, Sending
<1>5. /\ pending \in Seq(Nat) /\ wire \in Seq(Nat) /\ produced \in Nat
      /\ used \in 0 .. Capacity
  BY <1>3, Types
<1>6. /\ open' \cup queued' = (open \cup queued) \ dead /\ open' \cap queued' = {}
      /\ dead \in SUBSET Streams
  BY <1>1, <1>2, <1>4
<1>7. remoteEnd' \subseteq Streams /\ replies' \in 0 .. MaxReplies
  BY <1>1, <1>3 DEF TypeOK
<1>8. StreamsKept'
  BY <1>1, <1>4, <1>6, <1>7, ClosingKept
<1>9. LoopState'
  BY <1>1, <1>3, <1>4 DEF LoopState, recvVars
<1>10. SleepsDry'
  BY <1>1, <1>4 DEF SleepsDry
<1>11. wire \o pending = Bytes(0, produced)
  BY <1>4, <1>5, NoData
<1>12. wire' \o pending' \o data' = Bytes(0, produced')
  <2>1. CASE pending' = Append(pending, produced + 1) /\ UNCHANGED data
    <3>1. pending' \in Seq(Nat) /\ data' = <<>>
      BY <2>1, <1>4, <1>5
    <3>2. wire \o pending' = Bytes(0, produced + 1)
      BY <2>1, <1>5, <1>11, NextChunk
    <3>3. wire \o pending' \o <<>> = wire \o pending'
      BY <3>1, <1>5, NoData
    <3>4. QED BY <1>1, <3>1, <3>2, <3>3
  <2>2. CASE data' = <<produced + 1>> /\ UNCHANGED pending
    BY <2>2, <1>1, <1>5, <1>11, NextChunk
  <2>3. QED BY <1>1, <2>1, <2>2
<1>13. WireOrder'
  BY <1>1, <1>3, <1>12 DEF WireOrder
<1>14. pending' \in Seq(Nat) /\ data' \in Seq(Nat) /\ used' \in 0 .. Capacity
  <2>1. <<produced + 1>> \in Seq(Nat) /\ Append(pending, produced + 1) \in Seq(Nat)
    BY <1>5
  <2>2. size <= Capacity - used => used + size \in 0 .. Capacity
    BY <1>5, SessionAssumption
  <2>3. <<>> \in Seq(Nat)
    OBVIOUS
  <2>4. pending' \in Seq(Nat)
    BY <1>1, <1>5, <2>1
  <2>5. data' \in Seq(Nat)
    BY <1>1, <1>4, <2>1, <2>3
  <2>6. used' \in 0 .. Capacity
    BY <1>1, <1>5, <2>2
  <2>7. QED BY <2>4, <2>5, <2>6
<1>15. localEnd' \subseteq Streams /\ term' \in {"no", "queued", "sent"}
  BY <1>1, <1>2, <1>3 DEF TypeOK
<1>16. TypeOK'
  <2>1. /\ role_' \in {"client", "server"} /\ write_ready_' \in Event
        /\ recv' \in {"reading", "done"} /\ run' \in {"running", "ended"}
        /\ {unanswered', stopped', failed', gone', goaway'} \subseteq BOOLEAN
        /\ submitted' \subseteq Streams /\ ending' \subseteq Streams
        /\ late' \subseteq Streams /\ wire' \in Seq(Nat)
    BY <1>1, <1>3 DEF TypeOK, fixed, recvVars, appVars
  <2>2. /\ send' \in {"pull", "writing", "waiting", "done"}
        /\ out' \subseteq Frame /\ produced' \in Nat
    <3>1. send' = send \/ send' = "writing"
      BY <1>1
    <3>2. out' = out \ {f} /\ produced' = produced + 1
      BY <1>1
    <3>3. send \in {"pull", "writing", "waiting", "done"} /\ out \subseteq Frame
      BY <1>3 DEF TypeOK
    <3>4. QED BY <3>1, <3>2, <3>3, <1>5
  <2>3. /\ streams_' \subseteq Streams /\ closed' \subseteq Streams
        /\ open' \subseteq Streams /\ queued' \subseteq Streams
        /\ remoteEnd' \subseteq Streams /\ replies' \in 0 .. MaxReplies
        /\ user' \in [Streams -> {"none", "active", "suspended"}]
    BY <1>8 DEF StreamsKept
  <2>4. QED BY <2>1, <2>2, <2>3, <1>14, <1>15 DEF TypeOK
<1>17. QED BY <1>8, <1>9, <1>10, <1>13, <1>16 DEF IInv, StreamsKept

LEMMA FlushIInv == ASSUME IInv, Flush PROVE IInv'
<1>1. /\ send = "pull" /\ send' = "writing"
      /\ UNCHANGED <<fixed, mapVars, write_ready_, run, stopped, pending, used, data,
                     failed, produced, wire, recvVars, appVars, h2Vars>>
  BY DEF Flush
<1>2. TypeOK /\ LoopState /\ SleepsDry /\ WireOrder
  BY DEF IInv
<1>3. LoopState' /\ SleepsDry'
  BY <1>1, <1>2, Sending DEF LoopState, SleepsDry, recvVars, h2Vars
<1>4. WireOrder'
  BY <1>1, <1>2 DEF WireOrder
<1>5. MapState' /\ StreamsAgree' /\ NobodyLeftWaiting'
  BY <1>1, MapKept DEF appVars, h2Vars
<1>6. TypeOK'
  BY <1>1, <1>2 DEF TypeOK, fixed, mapVars, recvVars, appVars, h2Vars
<1>7. QED BY <1>3, <1>4, <1>5, <1>6 DEF IInv

\* The accumulator and the chunk that did not fit it reach the wire together.
LEMMA WriteDoneIInv == ASSUME IInv, WriteDone PROVE IInv'
<1>1. /\ send = "writing" /\ send' = "pull" /\ data' = <<>>
      /\ wire' = wire \o pending \o data /\ pending' = <<>> /\ used' = 0
      /\ UNCHANGED <<fixed, mapVars, write_ready_, run, stopped, failed, produced,
                     recvVars, appVars, h2Vars>>
  BY DEF WriteDone, ClearPending
<1>2. TypeOK /\ LoopState /\ SleepsDry
  BY DEF IInv
<1>3. LoopState' /\ SleepsDry'
  BY <1>1, <1>2, Sending DEF LoopState, SleepsDry, recvVars, h2Vars
<1>4. wire' = Bytes(0, produced) /\ produced \in Nat
  BY <1>1, <1>2, Sending, Types
<1>5. wire' \in Seq(Nat) /\ Len(wire') = produced /\ \A i \in 1 .. produced : wire'[i] = i
  BY <1>4 DEF Bytes
<1>6. wire' \o pending' \o data' = wire'
  BY <1>1, <1>5
<1>7. WireOrder'
  BY <1>1, <1>4, <1>5, <1>6 DEF WireOrder
<1>8. MapState' /\ StreamsAgree' /\ NobodyLeftWaiting'
  BY <1>1, MapKept DEF appVars, h2Vars
<1>9. pending' \in Seq(Nat) /\ data' \in Seq(Nat) /\ used' \in 0 .. Capacity
  BY <1>1, SessionAssumption
<1>10. TypeOK'
  BY <1>1, <1>2, <1>5, <1>9 DEF TypeOK, fixed, mapVars, recvVars, appVars, h2Vars
<1>11. QED BY <1>3, <1>7, <1>8, <1>10 DEF IInv

LEMMA SendFailsIInv == ASSUME IInv, SendFails PROVE IInv'
<1>1. TypeOK /\ LoopState /\ SleepsDry /\ WireOrder
  BY DEF IInv
<1>2. /\ send \in {"pull", "writing"} /\ data' = <<>> /\ send' = "done"
      /\ failed' = TRUE /\ pending' \in {pending, <<>>} /\ used' \in {used, 0}
      /\ UNCHANGED <<fixed, mapVars, write_ready_, run, stopped, produced, wire,
                     recvVars, appVars, h2Vars>>
  BY DEF SendFails, ClearPending
<1>3. LoopState' /\ SleepsDry'
  BY <1>1, <1>2, Sending DEF LoopState, SleepsDry, recvVars, h2Vars
<1>4. WireOrder'
  BY <1>1, <1>2 DEF WireOrder
<1>5. MapState' /\ StreamsAgree' /\ NobodyLeftWaiting'
  BY <1>2, MapKept DEF appVars, h2Vars
<1>6. pending' \in Seq(Nat) /\ data' \in Seq(Nat) /\ used' \in 0 .. Capacity
  <2>1. <<>> \in Seq(Nat) /\ 0 \in 0 .. Capacity
    BY SessionAssumption
  <2>2. pending \in Seq(Nat) /\ used \in 0 .. Capacity
    BY <1>1, Types
  <2>3. QED BY <1>2, <2>1, <2>2
<1>7. TypeOK'
  BY <1>1, <1>2, <1>6 DEF TypeOK, fixed, mapVars, recvVars, appVars, h2Vars
<1>8. QED BY <1>3, <1>4, <1>5, <1>7 DEF IInv

\* send_loop() waits only with nothing to send, and ends only when nghttp2 is
\* terminated or drained.
LEMMA IdleIInv == ASSUME IInv, Idle PROVE IInv'
<1>1. /\ send = "pull" /\ out = {} /\ pending = <<>>
      /\ \/ SendLoopOver /\ send' = "done" /\ UNCHANGED write_ready_
         \/ send' = "waiting" /\ write_ready_' = Await(ClearEvent(write_ready_))
      /\ UNCHANGED <<fixed, mapVars, run, stopped, pending, used, data, failed,
                     produced, wire, recvVars, appVars, h2Vars>>
  BY DEF Idle, Flushed
<1>2. TypeOK /\ LoopState /\ SleepsDry /\ WireOrder
  BY DEF IInv
<1>3. SendLoopOver => term = "sent" \/ goaway
  BY DEF SendLoopOver, WantRead
<1>4. write_ready_ \in Event
  BY <1>2 DEF TypeOK
<1>5. /\ Await(ClearEvent(write_ready_)) \in Event
      /\ Await(ClearEvent(write_ready_)).waiter \in {"suspended", "canceled"}
      /\ Await(ClearEvent(write_ready_)).waiter = "canceled" => stopped
  BY <1>4 DEF Await, AwaitEvent, ClearEvent, CancelWait, Event, WaiterStates
<1>6. LoopState'
  BY <1>1, <1>2, <1>3, <1>5, Sending DEF LoopState, recvVars, h2Vars
<1>7. SleepsDry'
  BY <1>1 DEF SleepsDry, h2Vars
<1>8. WireOrder'
  BY <1>1, <1>2 DEF WireOrder
<1>9. MapState' /\ StreamsAgree' /\ NobodyLeftWaiting'
  BY <1>1, MapKept DEF appVars, h2Vars
<1>10. TypeOK'
  BY <1>1, <1>2, <1>5 DEF TypeOK, fixed, mapVars, recvVars, appVars, h2Vars
<1>11. QED BY <1>6, <1>7, <1>8, <1>9, <1>10 DEF IInv

LEMMA WakeIInv == ASSUME IInv, Wake PROVE IInv'
<1>1. /\ send = "waiting" /\ write_ready_' = EndWait(write_ready_)
      /\ send' = IF write_ready_.waiter = "canceled" THEN "done" ELSE "pull"
      /\ UNCHANGED <<fixed, mapVars, run, stopped, pending, used, data, failed,
                     produced, wire, recvVars, appVars, h2Vars>>
  BY DEF Wake
<1>2. TypeOK /\ LoopState /\ WireOrder
  BY DEF IInv
<1>3. write_ready_' \in Event /\ write_ready_'.waiter = "none"
  BY <1>1, <1>2, EventTypes, EventWaiters DEF TypeOK
<1>4. LoopState'
  BY <1>1, <1>2, <1>3 DEF LoopState, recvVars, h2Vars
<1>5. SleepsDry'
  BY <1>3 DEF SleepsDry
<1>6. WireOrder'
  BY <1>1, <1>2 DEF WireOrder
<1>7. MapState' /\ StreamsAgree' /\ NobodyLeftWaiting'
  BY <1>1, MapKept DEF appVars, h2Vars
<1>8. TypeOK'
  BY <1>1, <1>2, <1>3 DEF TypeOK, fixed, mapVars, recvVars, appVars, h2Vars
<1>9. QED BY <1>4, <1>5, <1>6, <1>7, <1>8 DEF IInv

-----------------------------------------------------------------------------
\* Every step keeps the invariant.
LEMMA NextIInv == ASSUME IInv, [Next]_vars PROVE IInv'
<1>1. CASE UNCHANGED vars
  <2>1. TypeOK /\ LoopState /\ SleepsDry /\ WireOrder
    BY DEF IInv
  <2>2. /\ UNCHANGED <<role_, unanswered, streams_, closed, user, write_ready_, run>>
        /\ UNCHANGED <<stopped, recv, gone, submitted, ending, late>>
        /\ UNCHANGED <<send, pending, used, data, failed, produced, wire>>
        /\ UNCHANGED <<out, replies, queued, open, localEnd, remoteEnd, term, goaway>>
    BY <1>1 DEF vars, fixed, mapVars, sendVars, recvVars, appVars, h2Vars
  <2>3. MapState' /\ StreamsAgree' /\ NobodyLeftWaiting'
    BY <2>2, MapKept DEF mapVars
  <2>4. TypeOK'
    BY <2>1, <2>2 DEF TypeOK
  <2>5. LoopState' /\ SleepsDry'
    BY <2>1, <2>2 DEF LoopState, SleepsDry
  <2>6. WireOrder'
    BY <2>1, <2>2 DEF WireOrder
  <2>7. QED BY <2>3, <2>4, <2>5, <2>6 DEF IInv
<1>2. CASE SendStep
  BY <1>2, DropIInv, PullIInv, FlushIInv, WriteDoneIInv, SendFailsIInv, IdleIInv
  DEF SendStep
<1>3. CASE Wake
  BY <1>3, WakeIInv
<1>4. CASE Recv
  BY <1>4, RecvRequestIInv, RecvMoreIInv, RecvEndIInv, RecvRstIInv, RecvAnsweredIInv,
     RecvGoawayIInv, RecvConnectionErrorIInv, RecvIgnoredIInv, RecvFailsIInv
  DEF Recv
<1>5. CASE RunEnds
  BY <1>5, RunEndsIInv
<1>6. CASE Application
  BY <1>6, SubmitRequestIInv, SubmitResponseIInv, WriteEofIInv, ConsumeIInv, SuspendIInv
  DEF Application
<1>7. CASE Stop
  BY <1>7, StopIInv
<1>8. QED BY <1>1, <1>2, <1>3, <1>4, <1>5, <1>6, <1>7 DEF Next

\* The inductive invariant holds in every reachable state.
THEOREM Invariance == Spec => []IInv
BY InitIInv, NextIInv, PTL DEF Spec

-----------------------------------------------------------------------------
(* The end of the session.                                                 *)

\* How the session winds down: a GOAWAY that is queued is among the frames, one
\* is queued before recv_loop() ends, and send_loop() waits neither after it has
\* sent it nor after the end of recv_loop() or a stop request.
WindDown ==
    /\ term = "queued" => Goaway \in out
    /\ recv = "done" => term # "no"
    /\ send = "waiting" => term # "sent"
    /\ write_ready_.waiter = "suspended" => recv = "reading" /\ ~stopped

\* start_write() leaves send_loop() awake.
LEMMA AwakeWindDown ==
    ASSUME IInv, WindDown, StartWrite, UNCHANGED send,
           term' = "queued" => Goaway \in out', recv' = "done" => term' # "no",
           term' = "sent" => term = "sent"
    PROVE  WindDown'
<1>1. write_ready_ \in Event
  BY Types DEF IInv
<1>2. write_ready_'.waiter # "suspended"
  BY <1>1, EventWaiters DEF StartWrite
<1>3. QED BY <1>2 DEF WindDown

\* What follows nghttp2_session_mem_recv2() keeps a queued GOAWAY, or queues one
\* at the end of the loop.
LEMMA ContinueWindDown ==
    ASSUME IInv, WindDown, NEW frames, NEW opened, NEW ga,
           Continue(frames, opened, ga), out \subseteq frames
    PROVE  WindDown'
<1>1. StartWrite /\ UNCHANGED send
  BY DEF Continue, Terminate, WakeForGoaway, sendVars
<1>2. CASE out' = frames /\ UNCHANGED <<recv, term>>
  BY <1>1, <1>2, AwakeWindDown DEF WindDown
<1>3. CASE Terminate(frames)
  <2>1. term' = "queued" => Goaway \in out'
    BY <1>3 DEF Terminate, WindDown
  <2>2. term' # "no" /\ (term' = "sent" => term = "sent")
    BY <1>3 DEF Terminate
  <2>3. QED BY <1>1, <2>1, <2>2, AwakeWindDown
<1>4. QED BY <1>2, <1>3 DEF Continue

LEMMA RecvWindDown == ASSUME IInv, WindDown, Recv PROVE WindDown'
<1>1. CASE \E frames, opened, ga : Continue(frames, opened, ga) /\ out \subseteq frames
  BY <1>1, ContinueWindDown
<1>2. CASE RecvConnectionError
  <2>1. /\ StartWrite /\ UNCHANGED <<send, recv>> /\ term' = "queued" /\ Goaway \in out'
    BY <1>2 DEF RecvConnectionError, sendVars, recvVars
  <2>2. QED BY <2>1, AwakeWindDown
<1>3. CASE RecvFails
  <2>1. StartWrite /\ UNCHANGED send
    BY <1>3 DEF RecvFails, Terminate, WakeForGoaway, sendVars
  <2>2. /\ term' = "queued" => Goaway \in out'
        /\ term' # "no" /\ (term' = "sent" => term = "sent")
    BY <1>3 DEF RecvFails, Terminate, WindDown
  <2>3. QED BY <2>1, <2>2, AwakeWindDown
<1>4. ASSUME NEW s \in Streams, RecvRequest(s) \/ RecvMore(s)
      PROVE  \E frames, opened, ga : Continue(frames, opened, ga) /\ out \subseteq frames
  BY <1>4 DEF RecvRequest, RecvMore
<1>5. ASSUME NEW s \in Streams, RecvEnd(s) \/ RecvRst(s)
      PROVE  \E frames, opened, ga : Continue(frames, opened, ga) /\ out \subseteq frames
  <2>1. Continue(out, open \ ({s} \cap localEnd), goaway)
        \/ Continue(out, open \ {s}, goaway)
    BY <1>5 DEF RecvEnd, RecvRst
  <2>2. QED BY <2>1
<1>6. ASSUME NEW f \in Frame, RecvAnswered(f)
      PROVE  \E frames, opened, ga : Continue(frames, opened, ga) /\ out \subseteq frames
  <2>1. Continue(out \cup {f}, open, goaway) /\ out \subseteq out \cup {f}
    BY <1>6 DEF RecvAnswered
  <2>2. QED BY <2>1
<1>7. ASSUME NEW unseen, RecvGoaway(unseen)
      PROVE  \E frames, opened, ga : Continue(frames, opened, ga) /\ out \subseteq frames
  BY <1>7 DEF RecvGoaway
<1>8. ASSUME RecvIgnored
      PROVE  \E frames, opened, ga : Continue(frames, opened, ga) /\ out \subseteq frames
  BY <1>8 DEF RecvIgnored
<1>9. QED BY <1>1, <1>2, <1>3, <1>4, <1>5, <1>6, <1>7, <1>8 DEF Recv

\* Only the GOAWAY itself takes the GOAWAY out of nghttp2.
LEMMA PullWindDown ==
    ASSUME IInv, WindDown, NEW f \in out,
           Drop(f) \/ \E size \in {1, Capacity + 1} : Pull(f, size)
    PROVE  WindDown'
<1>1. /\ send = "pull" /\ out' = out \ {f} /\ send' \in {"pull", "writing"}
      /\ UNCHANGED <<write_ready_, stopped, recv>>
      /\ \/ f.kind # "goaway" /\ term' = term
         \/ f.kind = "goaway" /\ term' = "sent"
  BY DEF Drop, Pull, Sendable, Refusable, sendVars, recvVars
<1>2. f.kind # "goaway" => f # Goaway
  BY DEF Goaway
<1>3. QED BY <1>1, <1>2 DEF WindDown

\* send_loop() waits only in a session that is neither ending nor stopped.
LEMMA IdleWindDown == ASSUME IInv, WindDown, Idle PROVE WindDown'
<1>1. UNCHANGED <<out, term, recv, stopped>> /\ out = {} /\ send = "pull"
  BY DEF Idle, recvVars, h2Vars
<1>2. write_ready_ \in Event /\ write_ready_.waiter = "none"
  BY <1>1, Types, Sending DEF IInv
<1>3. CASE SendLoopOver
  BY <1>1, <1>2, <1>3 DEF Idle, WindDown
<1>4. CASE ~SendLoopOver
  <2>1. send' = "waiting" /\ write_ready_' = Await(ClearEvent(write_ready_))
    BY <1>4 DEF Idle
  <2>2. term # "sent" /\ term # "queued"
    BY <1>1, <1>4 DEF SendLoopOver, WantRead, WantWrite, WindDown
  <2>3. term \in {"no", "queued", "sent"} /\ recv \in {"reading", "done"}
    BY DEF IInv, TypeOK
  <2>4. recv = "reading"
    BY <2>2, <2>3 DEF WindDown
  <2>5. write_ready_'.waiter = "suspended" => ~stopped
    BY <1>2, <2>1 DEF Await, AwaitEvent, ClearEvent, CancelWait
  <2>6. QED BY <1>1, <2>1, <2>2, <2>4, <2>5 DEF WindDown
<1>5. QED BY <1>3, <1>4

\* The steps of send_loop() between two frames.
LEMMA SendWindDown ==
    ASSUME IInv, WindDown, Flush \/ WriteDone \/ SendFails \/ Wake PROVE WindDown'
<1>1. UNCHANGED <<out, term, recv, stopped>> /\ send' # "waiting"
  BY DEF Flush, WriteDone, SendFails, Wake, recvVars, h2Vars
<1>2. write_ready_ \in Event
  BY Types DEF IInv
<1>3. CASE Wake
  <2>1. write_ready_' = EndWait(write_ready_)
    BY <1>3 DEF Wake
  <2>2. write_ready_'.waiter = "none"
    BY <1>2, <2>1, EventWaiters
  <2>3. QED BY <1>1, <2>2 DEF WindDown
<1>4. CASE Flush \/ WriteDone \/ SendFails
  <2>1. UNCHANGED write_ready_
    BY <1>4 DEF Flush, WriteDone, SendFails
  <2>2. QED BY <1>1, <2>1 DEF WindDown
<1>5. QED BY <1>3, <1>4

LEMMA ApplicationWindDown == ASSUME IInv, WindDown, Application PROVE WindDown'
<1>1. UNCHANGED <<send, recv, term, stopped>> /\ out \subseteq out'
  BY DEF Application, SubmitRequest, SubmitResponse, WriteEof, Consume, Suspend,
     sendVars, recvVars, h2Vars
<1>2. StartWrite \/ UNCHANGED write_ready_
  BY DEF Application, SubmitRequest, SubmitResponse, WriteEof, Consume, Suspend,
     AnnounceWindow
<1>3. CASE StartWrite
  BY <1>1, <1>3, AwakeWindDown DEF WindDown
<1>4. CASE UNCHANGED write_ready_
  BY <1>1, <1>4 DEF WindDown
<1>5. QED BY <1>2, <1>3, <1>4

LEMMA NextWindDown == ASSUME IInv, WindDown, [Next]_vars PROVE WindDown'
<1>1. CASE UNCHANGED vars \/ RunEnds
  <2>1. UNCHANGED <<term, out, recv, send, write_ready_, stopped>>
    BY <1>1 DEF RunEnds, vars, sendVars, recvVars, h2Vars
  <2>2. QED BY <2>1 DEF WindDown
<1>2. CASE SendStep
  BY <1>2, PullWindDown, SendWindDown, IdleWindDown DEF SendStep
<1>3. CASE Wake
  BY <1>3, SendWindDown
<1>4. CASE Recv
  BY <1>4, RecvWindDown
<1>5. CASE Application
  BY <1>5, ApplicationWindDown
<1>6. CASE Stop
  <2>1. UNCHANGED <<send, recv, out, term>> /\ write_ready_'.waiter # "suspended"
    BY <1>6 DEF Stop, CancelWait, sendVars, recvVars, h2Vars
  <2>2. QED BY <2>1 DEF WindDown
<1>7. QED BY <1>1, <1>2, <1>3, <1>4, <1>5, <1>6 DEF Next

\* However recv_loop() ends, the GOAWAY is queued first and send_loop() is up.
THEOREM WindsDown == Spec => []WindDown
<1>1. Init => WindDown
  BY DEF Init, WindDown, NewEvent
<1>2. QED BY <1>1, Invariance, NextWindDown, PTL DEF Spec

\* Every variable keeps its type; the accumulator never exceeds its capacity.
THEOREM TypeCorrect == Spec => []TypeOK
<1>1. IInv => TypeOK
  BY DEF IInv
<1>2. QED BY <1>1, Invariance, PTL

-----------------------------------------------------------------------------
\* send_loop() never sleeps while nghttp2 or the accumulator holds output, nor
\* through the end of recv_loop() or a stop request.
THEOREM NothingStranded == Spec => []NoStrandedOutput
<1>1. IInv /\ WindDown => NoStrandedOutput
  BY DEF IInv, SleepsDry, WindDown, NoStrandedOutput
<1>2. QED BY <1>1, Invariance, WindsDown, PTL

\* What nghttp2 returns reaches the connection in order and once.
THEOREM WireInOrder == Spec => []WireOrder
<1>1. IInv => WireOrder
  BY DEF IInv
<1>2. QED BY <1>1, Invariance, PTL

\* The map and nghttp2 have the same streams, whatever closes one.
THEOREM MapFollowsNghttp2 == Spec => []StreamsAgree
<1>1. IInv => StreamsAgree
  BY DEF IInv
<1>2. QED BY <1>1, Invariance, PTL

\* on_close() and the end of run() leave nobody waiting.
THEOREM EveryWaiterTold == Spec => []NobodyLeftWaiting
<1>1. IInv => NobodyLeftWaiting
  BY DEF IInv
<1>2. QED BY <1>1, Invariance, PTL

\* A session that ends undisturbed has flushed everything, its GOAWAY included.
THEOREM EndsFlushed == Spec => []GoawayFlushed
<1>1. ASSUME IInv PROVE GoawayFlushed
  <2> SUFFICES ASSUME run = "ended", ~failed, ~stopped
               PROVE  Len(wire) = produced /\ (term = "sent" \/ goaway)
    BY DEF GoawayFlushed
  <2>1. send = "done" /\ data = <<>> /\ pending = <<>> /\ (term = "sent" \/ goaway)
    BY <1>1 DEF IInv, LoopState
  <2>2. wire \in Seq(Nat) /\ produced \in Nat
    BY <1>1, Types DEF IInv
  <2>3. wire \o pending \o data = Bytes(0, produced)
    BY <1>1 DEF IInv, WireOrder
  <2>4. wire \o pending \o data = wire
    BY <2>1, <2>2
  <2>5. Len(Bytes(0, produced)) = produced
    BY <2>2 DEF Bytes
  <2>6. QED BY <2>1, <2>3, <2>4, <2>5
<1>2. QED BY <1>1, Invariance, PTL
=============================================================================
