-------------------------- MODULE StreamReadProofs --------------------------
(***************************************************************************)
(* What TLAPS proves of StreamRead, for every body length, buffer size and *)
(* window.                                                                 *)
(***************************************************************************)
EXTENDS StreamRead, AsyncEventProofs, TLAPS

\* Where the bytes that are neither read nor lost are: chunks_ holds, without
\* gaps, everything from the next byte to deliver to the last one received.
Contiguous ==
    /\ \A i \in 1 .. Len(chunks_) : /\ chunks_[i].lo < chunks_[i].hi
                                    /\ chunks_[i].hi <= received
    /\ \A i \in 1 .. Len(chunks_) - 1 : chunks_[i].hi = chunks_[i + 1].lo
    /\ chunks_ = <<>> => Len(got) = received /\ front_offset_ = 0
    /\ chunks_ # <<>> =>
           /\ chunks_[Len(chunks_)].hi = received
           /\ chunks_[1].lo + front_offset_ = Len(got)
           /\ chunks_[1].lo + front_offset_ < chunks_[1].hi

\* What the call in progress and its wait agree on.  A sink with room left never
\* stands in front of a buffered chunk.
CallState ==
    /\ read_sink_ <=> pc = "parked"
    /\ pc = "draining" => copied = 0 /\ (total = 0 => space > 0)
    /\ pc = "parked" =>
           /\ space > 0 => chunks_ = <<>>
           /\ copied = 0 => space > 0
           /\ read_ready_.waiter # "none"
           /\ read_ready_.waiter = "suspended" =>
                  copied = 0 /\ ~read_eof_ /\ ~closed_
           /\ read_ready_.waiter = "ready" =>
                  copied > 0 \/ read_eof_ \/ closed_
    /\ pc # "parked" => read_ready_.waiter = "none"

IInv ==
    /\ TypeOK
    /\ Contiguous
    /\ CallState
    /\ InOrder
    /\ NoSilentLoss
    /\ EndReportedLast
    /\ FlowControl

-----------------------------------------------------------------------------
\* The parts of TypeOK the provers take one at a time.
LEMMA Types ==
    ASSUME TypeOK
    PROVE  /\ front_offset_ \in Nat /\ space \in Nat /\ total \in Nat
           /\ copied \in Nat /\ received \in Nat /\ unconsumed \in Int
           /\ returned \in Nat /\ Len(got) \in Nat /\ Len(chunks_) \in Nat
           /\ got \in Seq(Nat) /\ chunks_ \in Seq(Chunk)
           /\ \A i \in 1 .. Len(chunks_) :
                  chunks_[i].lo \in Nat /\ chunks_[i].hi \in Nat
<1>1. /\ front_offset_ \in Nat /\ space \in Nat /\ total \in Nat
      /\ copied \in Nat /\ received \in Nat /\ unconsumed \in Int
      /\ returned \in Nat
  BY DEF TypeOK
<1>2. got \in Seq(Nat) /\ chunks_ \in Seq(Chunk)
  BY DEF TypeOK
<1>3. Len(got) \in Nat /\ Len(chunks_) \in Nat
  BY <1>2
<1>4. ASSUME NEW i \in 1 .. Len(chunks_)
      PROVE  chunks_[i].lo \in Nat /\ chunks_[i].hi \in Nat
  <2>1. chunks_[i] \in Chunk
    BY <1>2
  <2>2. QED BY <2>1 DEF Chunk
<1>5. QED BY <1>1, <1>2, <1>3, <1>4

\* The start state satisfies the invariant.
LEMMA InitIInv == Init => IInv
<1> SUFFICES ASSUME Init PROVE IInv
  OBVIOUS
<1>1. TypeOK
  <2>1. closed_ \in BOOLEAN /\ read_eof_ \in BOOLEAN /\ read_sink_ \in BOOLEAN
    BY DEF Init
  <2>2. chunks_ \in Seq(Chunk) /\ got \in Seq(Nat)
    BY DEF Init
  <2>3. read_ready_ \in Event /\ result \in Result
    BY EventTypes DEF Init, Result
  <2>4. QED BY <2>1, <2>2, <2>3 DEF Init, TypeOK
<1>2. Contiguous /\ InOrder
  BY DEF Init, Contiguous, InOrder
<1>3. CallState
  BY DEF Init, CallState, NewEvent
<1>4. NoSilentLoss
  BY DEF Init, NoSilentLoss, InFlight
<1>5. EndReportedLast /\ FlowControl
  BY ReadAssumption DEF Init, EndReportedLast, FlowControl
<1>6. QED
  BY <1>1, <1>2, <1>3, <1>4, <1>5 DEF IInv

\* on_data() preserves the invariant.
LEMMA OnDataIInv == ASSUME IInv, NEW n \in 1 .. MaxBody, OnData(n) PROVE IInv'
<1> DEFINE p == Put(n)
           c == [lo |-> received + p, hi |-> received + n]
<1>a. TypeOK /\ Contiguous /\ CallState /\ InOrder /\ NoSilentLoss
      /\ EndReportedLast /\ FlowControl
  BY DEF IInv
<1>b. /\ front_offset_ \in Nat /\ space \in Nat /\ total \in Nat
      /\ copied \in Nat /\ received \in Nat /\ unconsumed \in Int
      /\ returned \in Nat /\ Len(got) \in Nat /\ Len(chunks_) \in Nat
      /\ got \in Seq(Nat) /\ chunks_ \in Seq(Chunk)
      /\ \A i \in 1 .. Len(chunks_) :
             chunks_[i].lo \in Nat /\ chunks_[i].hi \in Nat
  BY <1>a, Types
<1>1. n \in Nat /\ n > 0 /\ p \in Nat /\ p <= n /\ space - p \in Nat
  BY <1>b, ReadAssumption DEF Put, Lesser
<1>2. /\ p > 0 => pc = "parked" /\ chunks_ = <<>> /\ Len(got) = received
      /\ pc = "parked" => p = n \/ p = space
  BY <1>a, <1>b DEF Put, Lesser, CallState, Contiguous
<1>c. /\ received' = received + n /\ unconsumed' = unconsumed + n
      /\ space' = space - p /\ copied' = copied + p
      /\ UNCHANGED <<front_offset_, total, returned, pc>>
      /\ pc # "draining" /\ ~closed_ /\ ~read_eof_ /\ unconsumed + n <= Window
  BY DEF OnData
<1>d. UNCHANGED <<closed_, read_eof_, read_sink_, result>>
      /\ read_ready_' = SetEvent(read_ready_)
  BY DEF OnData
<1> HIDE DEF p, c
<1>3. got' \in Seq(Nat) /\ Len(got') = Len(got) + p /\ InOrder'
  <2>1. CASE p = 0
    <3>1. Bytes(received, received + p) = <<>>
      BY <2>1, <1>b DEF Bytes
    <3>2. got' = got BY <3>1, <1>b DEF OnData, p
    <3>3. QED BY <3>2, <2>1, <1>a, <1>b DEF InOrder
  <2>2. CASE p > 0
    <3>1. got' = got \o Bytes(Len(got), Len(got) + p)
      BY <2>2, <1>2 DEF OnData, p
    <3>2. Len(got) + p \in Nat /\ Len(got) <= Len(got) + p
      BY <1>1, <1>b
    <3>3. \A i \in 1 .. Len(got) : got[i] = i
      BY <1>a DEF InOrder
    <3>4. QED
      BY <1>b, <3>1, <3>2, <3>3, ExtendPrefix DEF InOrder
  <2>3. QED BY <1>1, <2>1, <2>2
<1>4. n > p => chunks_' = Append(chunks_, c) /\ c \in Chunk
  <2>1. c \in Chunk
    BY <1>1, <1>b DEF Chunk, c
  <2>2. n > p => chunks_' = Append(chunks_, c)
    BY DEF OnData, Queued, p, c
  <2>3. QED BY <2>1, <2>2
<1>5. n = p => chunks_' = chunks_ /\ chunks_ = <<>>
  BY <1>1, <1>2 DEF OnData, Queued, p
<1>6. TypeOK'
  <2>1. chunks_' \in Seq(Chunk)
    <3>1. CASE n > p
      <4>1. chunks_ \in Seq(Chunk) /\ c \in Chunk /\ chunks_' = Append(chunks_, c)
        BY <3>1, <1>4, <1>b
      <4>2. QED BY <4>1
    <3>2. CASE n = p
      <4>1. chunks_' = chunks_ BY <3>2, <1>5
      <4>2. QED BY <4>1, <1>b
    <3>3. QED BY <3>1, <3>2, <1>1
  <2>2. read_ready_' \in Event
    BY <1>a, <1>d, EventTypes DEF TypeOK
  <2>3. /\ received' \in Nat /\ unconsumed' \in Int /\ space' \in Nat
        /\ copied' \in Nat
    <3>1. /\ received \in Nat /\ unconsumed \in Int /\ copied \in Nat
          /\ received' = received + n /\ unconsumed' = unconsumed + n
          /\ space' = space - p /\ copied' = copied + p
      BY <1>b, <1>c
    <3>2. QED BY <3>1, <1>1
  <2>4. QED BY <2>1, <2>2, <2>3, <1>3, <1>a, <1>c, <1>d DEF TypeOK
<1>7. Contiguous'
  <2>1. CASE n = p
    <3>0. chunks_' = <<>> /\ Len(got) = received
      BY <2>1, <1>1, <1>2, <1>5
    <3>1. Len(got') = received' /\ Len(chunks_') = 0
      BY <3>0, <2>1, <1>1, <1>3, <1>b, <1>c
    <3>2. front_offset_' = 0
      BY <2>1, <1>5, <1>a, <1>c DEF Contiguous
    <3>3. QED BY <3>0, <3>1, <3>2 DEF Contiguous
  <2>2. CASE n > p
    <3>2. /\ Len(chunks_') = Len(chunks_) + 1
          /\ chunks_' # <<>>
          /\ chunks_'[Len(chunks_) + 1] = c
          /\ \A i \in 1 .. Len(chunks_) : chunks_'[i] = chunks_[i]
      BY <2>2, <1>4, <1>b
    <3>3. c.lo = received + p /\ c.hi = received + n
      BY DEF c
    <3>5. CASE chunks_ = <<>>
      <4>1. Len(chunks_) = 0 /\ p + Len(got) = c.lo /\ front_offset_ = 0
        BY <3>3, <3>5, <1>1, <1>a, <1>b DEF Contiguous
      <4>2. QED
        BY <4>1, <3>2, <3>3, <1>b, <1>c, <1>1, <1>3, <2>2 DEF Contiguous
    <3>6. CASE chunks_ # <<>>
      <4>1. Len(chunks_) > 0 /\ p = 0
        BY <3>6, <1>1, <1>2, <1>b
      <4>2. \A i \in 1 .. Len(chunks_') : /\ chunks_'[i].lo < chunks_'[i].hi
                                          /\ chunks_'[i].hi <= received'
        <5>1. \A i \in 1 .. Len(chunks_) : /\ chunks_[i].lo < chunks_[i].hi
                                            /\ chunks_[i].hi <= received
          BY <1>a DEF Contiguous
        <5>2. ASSUME NEW i \in 1 .. Len(chunks_')
              PROVE  chunks_'[i].lo < chunks_'[i].hi /\ chunks_'[i].hi <= received'
          <6>1. CASE i = Len(chunks_) + 1
            BY <6>1, <4>1, <3>2, <3>3, <1>1, <1>b, <1>c, <2>2
          <6>2. CASE i # Len(chunks_) + 1
            <7>1. i \in 1 .. Len(chunks_)
              BY <6>2, <3>2, <1>b
            <7>2. chunks_'[i] = chunks_[i] /\ chunks_[i].hi \in Nat
              BY <7>1, <3>2, <1>b
            <7>3. QED BY <7>1, <7>2, <5>1, <1>1, <1>b, <1>c
          <6>3. QED BY <6>1, <6>2
        <5>3. QED BY <5>2
      <4>3. \A i \in 1 .. Len(chunks_') - 1 :
                chunks_'[i].hi = chunks_'[i + 1].lo
        <5>1. /\ \A i \in 1 .. Len(chunks_) - 1 :
                      chunks_[i].hi = chunks_[i + 1].lo
              /\ chunks_[Len(chunks_)].hi = received
          BY <3>6, <1>a DEF Contiguous
        <5>2. ASSUME NEW i \in 1 .. Len(chunks_') - 1
              PROVE  chunks_'[i].hi = chunks_'[i + 1].lo
          <6>1. i \in 1 .. Len(chunks_) /\ chunks_'[i] = chunks_[i]
            BY <3>2, <1>b
          <6>2. CASE i = Len(chunks_)
            BY <6>1, <6>2, <5>1, <4>1, <3>2, <3>3, <1>b
          <6>3. CASE i # Len(chunks_)
            <7>1. i \in 1 .. Len(chunks_) - 1 /\ i + 1 \in 1 .. Len(chunks_)
              BY <6>1, <6>3, <1>b
            <7>2. QED BY <6>1, <7>1, <5>1, <3>2
          <6>4. QED BY <6>2, <6>3
        <5>3. QED BY <5>2
      <4>4. /\ chunks_'[Len(chunks_')].hi = received'
            /\ chunks_'[1] = chunks_[1]
            /\ Len(got') = Len(got)
        BY <4>1, <3>2, <3>3, <1>3, <1>b, <1>c
      <4>5. /\ chunks_'[1].lo + front_offset_' = Len(got')
            /\ chunks_'[1].lo + front_offset_' < chunks_'[1].hi
        BY <3>6, <4>4, <1>a, <1>c DEF Contiguous
      <4>6. QED
        BY <4>2, <4>3, <4>4, <4>5, <3>2 DEF Contiguous
    <3>7. QED BY <3>5, <3>6
  <2>3. QED BY <1>1, <2>1, <2>2
<1>8. CallState'
  <2>1. read_ready_ \in Event
    BY <1>a DEF TypeOK
  <2>2. CASE pc = "parked"
    <3>1. /\ read_ready_'.waiter # "suspended" /\ read_ready_'.waiter # "none"
      BY <2>1, <2>2, <1>a, <1>d, EventWaiters DEF CallState
    <3>2. copied' > 0
      <4>1. copied = 0 => space > 0
        BY <2>2, <1>a DEF CallState
      <4>2. p = n \/ p = space
        BY <2>2, <1>2
      <4>3. copied \in Nat /\ space \in Nat /\ copied' = copied + p
        BY <1>b, <1>c
      <4>4. QED BY <4>1, <4>2, <4>3, <1>1
    <3>3. space' > 0 => chunks_' = <<>>
      BY <2>2, <1>1, <1>2, <1>5, <1>b, <1>c
    <3>4. read_sink_' <=> pc' = "parked"
      BY <2>2, <1>a, <1>c, <1>d DEF CallState
    <3>5. QED BY <2>2, <3>1, <3>2, <3>3, <3>4, <1>b, <1>c DEF CallState
  <2>3. CASE pc # "parked"
    <3>1. read_ready_'.waiter = "none"
      BY <2>1, <2>3, <1>a, <1>d, EventWaiters DEF CallState
    <3>2. read_sink_' <=> pc' = "parked"
      BY <1>a, <1>c, <1>d DEF CallState
    <3>3. QED BY <2>3, <3>1, <3>2, <1>c DEF CallState
  <2>4. QED BY <2>2, <2>3
<1>9. NoSilentLoss'
  <2>1. InFlight' = InFlight + p /\ InFlight \in Nat
    BY <1>1, <1>2, <1>b, <1>c DEF InFlight
  <2>2. QED BY <2>1, <1>1, <1>3, <1>a, <1>b, <1>c DEF NoSilentLoss
<1>10. EndReportedLast' /\ FlowControl'
  <2>1. EndReportedLast'
    BY <1>a, <1>c, <1>d DEF EndReportedLast
  <2>2. FlowControl'
    <3>1. unconsumed = received - returned
      BY <1>a, <1>c DEF FlowControl
    <3>2. unconsumed' = received' - returned' /\ received' - returned' <= Window
      BY <3>1, <1>1, <1>b, <1>c, ReadAssumption
    <3>3. QED BY <3>2 DEF FlowControl
  <2>3. QED BY <2>1, <2>2
<1>11. QED BY <1>3, <1>6, <1>7, <1>8, <1>9, <1>10 DEF IInv

-----------------------------------------------------------------------------
\* Steps that leave the buffered and the delivered bytes alone.
LEMMA BodyUnchanged ==
    ASSUME Contiguous, InOrder, UNCHANGED <<chunks_, front_offset_, received, got>>
    PROVE  Contiguous' /\ InOrder'
BY DEF Contiguous, InOrder

\* on_read_eof() and on_close() preserve the invariant: they change the state of
\* the stream and wake the reader.
LEMMA EndIInv == ASSUME IInv, OnReadEof \/ OnClose PROVE IInv'
<1>a. TypeOK /\ Contiguous /\ CallState /\ InOrder /\ NoSilentLoss
      /\ EndReportedLast /\ FlowControl
  BY DEF IInv
<1>b. /\ pc # "draining" /\ ~closed_
      /\ UNCHANGED <<chunks_, front_offset_, read_sink_, callVars, historyVars>>
      /\ read_ready_' = SetEvent(read_ready_)
      /\ \/ ~read_eof_ /\ read_eof_' = TRUE /\ closed_' = closed_
         \/ closed_' = TRUE /\ read_eof_' = read_eof_
  BY DEF OnReadEof, OnClose
<1>c. UNCHANGED <<pc, space, total, copied, result, received, unconsumed, got,
                  returned>>
  BY <1>b DEF callVars, historyVars
<1>1. TypeOK'
  <2>1. read_ready_' \in Event
    BY <1>a, <1>b, EventTypes DEF TypeOK
  <2>2. closed_' \in BOOLEAN /\ read_eof_' \in BOOLEAN
    BY <1>a, <1>b DEF TypeOK
  <2>3. QED BY <2>1, <2>2, <1>a, <1>b, <1>c DEF TypeOK
<1>2. Contiguous' /\ InOrder'
  BY <1>a, <1>b, <1>c, BodyUnchanged
<1>3. CallState'
  <2>1. read_ready_ \in Event
    BY <1>a DEF TypeOK
  <2>2. /\ read_ready_'.waiter # "suspended"
        /\ read_ready_'.waiter = "none" <=> read_ready_.waiter = "none"
    BY <2>1, <1>b, EventWaiters
  <2>3. read_eof_' \/ closed_'
    BY <1>b
  <2>4. QED BY <2>2, <2>3, <1>a, <1>b, <1>c DEF CallState
<1>4. NoSilentLoss'
  BY <1>a, <1>c DEF NoSilentLoss, InFlight
<1>5. EndReportedLast'
  <2>1. result.ec # "stream_truncated"
    BY <1>a, <1>b DEF EndReportedLast
  <2>2. QED BY <2>1, <1>a, <1>b, <1>c DEF EndReportedLast
<1>6. FlowControl'
  BY <1>a, <1>b, <1>c DEF FlowControl
<1>7. QED BY <1>1, <1>2, <1>3, <1>4, <1>5, <1>6 DEF IInv

\* A new call of read_some() preserves the invariant.
LEMMA ReadSomeIInv ==
    ASSUME IInv, NEW size \in 1 .. MaxBuffer, ReadSome(size) PROVE IInv'
<1>a. TypeOK /\ Contiguous /\ CallState /\ InOrder /\ NoSilentLoss
      /\ EndReportedLast /\ FlowControl
  BY DEF IInv
<1>b. /\ pc = "idle" /\ pc' = "draining" /\ space' = size /\ total' = 0
      /\ copied' = 0
      /\ UNCHANGED <<closed_, read_eof_, chunks_, front_offset_, read_sink_,
                     read_ready_, result, received, unconsumed, got, returned>>
  BY DEF ReadSome, memberVars, historyVars
<1>c. space' \in Nat /\ space' > 0
  BY <1>b, ReadAssumption
<1>1. TypeOK'
  BY <1>a, <1>b, <1>c DEF TypeOK
<1>2. Contiguous' /\ InOrder'
  BY <1>a, <1>b, BodyUnchanged
<1>3. CallState'
  BY <1>a, <1>b, <1>c DEF CallState
<1>4. NoSilentLoss'
  BY <1>a, <1>b DEF NoSilentLoss, InFlight
<1>5. EndReportedLast' /\ FlowControl'
  BY <1>a, <1>b DEF EndReportedLast, FlowControl
<1>6. QED BY <1>1, <1>2, <1>3, <1>4, <1>5 DEF IInv

\* One iteration of the drain loop preserves the invariant.
LEMMA DrainChunkIInv == ASSUME IInv, DrainChunk PROVE IInv'
<1> DEFINE from == chunks_[1].lo + front_offset_
           top  == chunks_[1].hi
           n    == Lesser(space, top - from)
<1>a. TypeOK /\ Contiguous /\ CallState /\ InOrder /\ NoSilentLoss
      /\ EndReportedLast /\ FlowControl
  BY DEF IInv
<1>b. /\ front_offset_ \in Nat /\ space \in Nat /\ total \in Nat
      /\ copied \in Nat /\ received \in Nat /\ unconsumed \in Int
      /\ returned \in Nat /\ Len(got) \in Nat /\ Len(chunks_) \in Nat
      /\ got \in Seq(Nat) /\ chunks_ \in Seq(Chunk)
      /\ \A i \in 1 .. Len(chunks_) :
             chunks_[i].lo \in Nat /\ chunks_[i].hi \in Nat
  BY <1>a, Types
<1>c. /\ pc = "draining" /\ chunks_ # <<>> /\ space > 0
      /\ UNCHANGED <<closed_, read_eof_, read_sink_, read_ready_, pc, copied,
                     result, received, unconsumed, returned>>
  BY DEF DrainChunk, LoopAgain
<1>d. Len(chunks_) > 0 /\ Head(chunks_) = chunks_[1]
  BY <1>b, <1>c
<1>e. /\ got' = got \o Bytes(from, from + n)
      /\ space' = space - n /\ total' = total + n
      /\ from + n = top => chunks_' = Tail(chunks_) /\ front_offset_' = 0
      /\ from + n # top =>
             chunks_' = chunks_ /\ front_offset_' = front_offset_ + n
  BY <1>d DEF DrainChunk
<1>1. /\ chunks_[1].lo \in Nat /\ top \in Nat /\ from \in Nat
      /\ from = Len(got) /\ from < top /\ top <= received
  <2>1. 1 \in 1 .. Len(chunks_)
    BY <1>b, <1>d
  <2>2. chunks_[1].lo \in Nat /\ chunks_[1].hi \in Nat
    BY <2>1, <1>b
  <2>3. QED BY <2>1, <2>2, <1>a, <1>b, <1>c DEF Contiguous
<1> HIDE DEF from, top
<1>2. n \in Nat /\ n > 0 /\ n <= space /\ from + n <= top
  BY <1>1, <1>b, <1>c DEF Lesser
<1> HIDE DEF n
<1>3. got' \in Seq(Nat) /\ Len(got') = from + n /\ InOrder'
  <2>1. Len(got) + n \in Nat /\ Len(got) <= Len(got) + n
    BY <1>2, <1>b
  <2>2. \A i \in 1 .. Len(got) : got[i] = i
    BY <1>a DEF InOrder
  <2>3. got' = got \o Bytes(Len(got), Len(got) + n)
    BY <1>e, <1>1
  <2>4. QED BY <2>1, <2>2, <2>3, <1>b, <1>1, ExtendPrefix DEF InOrder
<1>4. chunks_' \in Seq(Chunk) /\ front_offset_' \in Nat
  <2>1. CASE from + n = top
    <3>1. chunks_' = Tail(chunks_) /\ front_offset_' = 0
      BY <2>1, <1>e
    <3>2. QED BY <3>1, <1>b, <1>c
  <2>2. CASE from + n # top
    <3>1. chunks_' = chunks_ /\ front_offset_' = front_offset_ + n
      BY <2>2, <1>e
    <3>2. QED BY <3>1, <1>2, <1>b
  <2>3. QED BY <2>1, <2>2
<1>5. space' \in Nat /\ total' \in Nat /\ total' > 0
  BY <1>2, <1>b, <1>e
<1>6. TypeOK'
  BY <1>3, <1>4, <1>5, <1>a, <1>c DEF TypeOK
<1>7. Contiguous'
  <2>1. CASE from + n # top
    <3>1. chunks_' = chunks_ /\ front_offset_' = front_offset_ + n
      BY <2>1, <1>e
    <3>2. /\ chunks_[1].lo + front_offset_' = Len(got')
          /\ chunks_[1].lo + front_offset_' < chunks_[1].hi
      <4>1. chunks_[1].lo + (front_offset_ + n) = from + n
        BY <1>1, <1>2, <1>b DEF from
      <4>2. from + n < top
        BY <2>1, <1>1, <1>2
      <4>3. QED BY <4>1, <4>2, <3>1, <1>3 DEF top
    <3>3. QED BY <3>1, <3>2, <1>a, <1>c DEF Contiguous
  <2>2. CASE from + n = top
    <3>1. /\ chunks_' = Tail(chunks_) /\ front_offset_' = 0
          /\ Len(got') = chunks_[1].hi
      BY <2>2, <1>e, <1>3 DEF top
    <3>2. /\ Len(chunks_') = Len(chunks_) - 1
          /\ \A i \in 1 .. Len(chunks_') : chunks_'[i] = chunks_[i + 1]
      BY <3>1, <1>b, <1>c, <1>d
    <3>3. /\ \A i \in 1 .. Len(chunks_) : /\ chunks_[i].lo < chunks_[i].hi
                                          /\ chunks_[i].hi <= received
          /\ \A i \in 1 .. Len(chunks_) - 1 : chunks_[i].hi = chunks_[i + 1].lo
          /\ chunks_[Len(chunks_)].hi = received
      BY <1>a, <1>c DEF Contiguous
    <3>4. \A i \in 1 .. Len(chunks_') : /\ chunks_'[i].lo < chunks_'[i].hi
                                        /\ chunks_'[i].hi <= received'
      <4>1. received' = received
        BY <1>c
      <4>2. ASSUME NEW i \in 1 .. Len(chunks_')
            PROVE  i + 1 \in 1 .. Len(chunks_)
        BY <3>2, <1>b
      <4>3. QED BY <4>1, <4>2, <3>2, <3>3
    <3>5. \A i \in 1 .. Len(chunks_') - 1 :
              chunks_'[i].hi = chunks_'[i + 1].lo
      <4>1. ASSUME NEW i \in 1 .. Len(chunks_') - 1
            PROVE  /\ i + 1 \in 1 .. Len(chunks_) - 1
                   /\ i \in 1 .. Len(chunks_') /\ i + 1 \in 1 .. Len(chunks_')
        BY <3>2, <1>b
      <4>2. QED BY <4>1, <3>2, <3>3
    <3>6. CASE Len(chunks_) = 1
      <4>1. chunks_' = <<>> /\ Len(got') = received
        BY <3>6, <3>1, <3>2, <3>3, <1>4
      <4>2. QED BY <4>1, <3>1, <3>4, <3>5, <1>c DEF Contiguous
    <3>7. CASE Len(chunks_) > 1
      <4>1. /\ chunks_' # <<>> /\ Len(chunks_') \in Nat /\ Len(chunks_') > 0
            /\ chunks_'[1] = chunks_[2]
            /\ chunks_'[Len(chunks_')] = chunks_[Len(chunks_)]
        BY <3>7, <3>2, <1>b
      <4>2. chunks_[1].hi = chunks_[2].lo /\ chunks_[2].lo < chunks_[2].hi
            /\ chunks_[2].lo \in Nat
        BY <3>7, <3>3, <1>b
      <4>3. /\ chunks_'[Len(chunks_')].hi = received'
            /\ chunks_'[1].lo + front_offset_' = Len(got')
            /\ chunks_'[1].lo + front_offset_' < chunks_'[1].hi
        BY <4>1, <4>2, <3>1, <3>3, <1>c
      <4>4. chunks_' # <<>>
        BY <4>1
      <4>5. QED BY <4>3, <4>4, <3>4, <3>5, Zenon DEF Contiguous
    <3>8. Len(chunks_) = 1 \/ Len(chunks_) > 1
      <4>1. Len(chunks_) \in Nat BY <1>b
      <4>2. Len(chunks_) > 0 BY <1>d
      <4>3. QED BY <4>1, <4>2
    <3>9. QED BY <3>6, <3>7, <3>8
  <2>3. QED BY <2>1, <2>2
<1>8. CallState'
  BY <1>5, <1>a, <1>c DEF CallState
<1>9. NoSilentLoss'
  <2>1. InFlight = total /\ InFlight' = total + n
    BY <1>c, <1>e DEF InFlight
  <2>2. QED BY <2>1, <1>1, <1>2, <1>3, <1>a, <1>b, <1>c DEF NoSilentLoss
<1>10. EndReportedLast' /\ FlowControl'
  BY <1>a, <1>c DEF EndReportedLast, FlowControl
<1>11. QED BY <1>3, <1>6, <1>7, <1>8, <1>9, <1>10 DEF IInv

\* Nothing is delivered that was not received.
LEMMA DeliveredBound == ASSUME IInv PROVE Len(got) <= received
<1>a. TypeOK /\ Contiguous
  BY DEF IInv
<1>b. received \in Nat /\ Len(got) \in Nat
  BY <1>a, Types
<1>1. CASE chunks_ = <<>>
  BY <1>1, <1>a, <1>b DEF Contiguous
<1>2. CASE chunks_ # <<>>
  <2>1. Len(chunks_) > 0 /\ Len(chunks_) \in Nat
    BY <1>2, <1>a, Types
  <2>2. 1 \in 1 .. Len(chunks_)
    BY <2>1
  <2>3. chunks_[1].hi \in Nat /\ chunks_[1].hi <= received
        /\ Len(got) < chunks_[1].hi
    BY <1>2, <2>2, <1>a, Types DEF Contiguous
  <2>4. QED BY <2>3, <1>b
<1>3. QED BY <1>1, <1>2

\* The three ways out of the drain loop preserve the invariant.
LEMMA LeaveLoopIInv ==
    ASSUME IInv, ReturnDrained \/ ReturnEnded \/ Park PROVE IInv'
<1>a. TypeOK /\ Contiguous /\ CallState /\ InOrder /\ NoSilentLoss
      /\ EndReportedLast /\ FlowControl
  BY DEF IInv
<1>b. /\ space \in Nat /\ total \in Nat /\ copied \in Nat /\ received \in Nat
      /\ unconsumed \in Int /\ returned \in Nat /\ Len(got) \in Nat
  BY <1>a, Types
<1>c. /\ pc = "draining" /\ ~LoopAgain
      /\ UNCHANGED <<closed_, read_eof_, chunks_, front_offset_, space, total,
                     copied, received, got>>
  BY DEF ReturnDrained, ReturnEnded, Park, memberVars, historyVars
<1>d. Len(got) = returned + total
  BY <1>a, <1>c DEF NoSilentLoss, InFlight
<1>1. Contiguous' /\ InOrder'
  BY <1>a, <1>c, BodyUnchanged
<1>2. CASE ReturnDrained
  <2>1. /\ total > 0 /\ pc' = "idle" /\ result' = [ec |-> "ok", n |-> total]
        /\ returned' = returned + total
        /\ unconsumed' = IF closed_ THEN unconsumed ELSE unconsumed - total
        /\ UNCHANGED <<read_sink_, read_ready_>>
    BY <1>2 DEF ReturnDrained, Return, Consume, memberVars
  <2>2. returned' \in Nat /\ unconsumed' \in Int /\ result' \in Result
    BY <2>1, <1>b DEF Result
  <2>3. TypeOK'
    BY <2>1, <2>2, <1>a, <1>c DEF TypeOK
  <2>4. CallState'
    BY <2>1, <1>a, <1>c DEF CallState
  <2>5. NoSilentLoss'
    BY <2>1, <1>b, <1>c, <1>d DEF NoSilentLoss, InFlight
  <2>6. EndReportedLast'
    BY <2>1 DEF EndReportedLast
  <2>7. FlowControl'
    <3>1. received - returned <= Window
          /\ (~closed_ => unconsumed = received - returned)
      BY <1>a DEF FlowControl
    <3>2. received' - returned' <= Window
      BY <3>1, <2>1, <1>b, <1>c, ReadAssumption
    <3>3. CASE closed_
      BY <3>2, <3>3, <1>c DEF FlowControl
    <3>4. CASE ~closed_
      <4>1. unconsumed' = unconsumed - total /\ unconsumed = received - returned
        BY <3>1, <3>4, <2>1
      <4>2. unconsumed' = received' - returned'
        BY <4>1, <2>1, <1>b, <1>c
      <4>3. QED BY <4>2, <3>2 DEF FlowControl
    <3>5. QED BY <3>3, <3>4
  <2>8. QED BY <1>1, <2>3, <2>4, <2>5, <2>6, <2>7 DEF IInv
<1>3. CASE ReturnEnded
  <2>1. /\ total = 0 /\ pc' = "idle" /\ result' = [ec |-> EofError, n |-> 0]
        /\ returned' = returned + 0
        /\ UNCHANGED <<read_sink_, read_ready_, unconsumed>>
        /\ read_eof_ \/ closed_
    BY <1>3 DEF ReturnEnded, Return, memberVars
  <2>2. returned' = returned
    BY <2>1, <1>b
  <2>3. returned = received
    <3>1. chunks_ = <<>>
      BY <2>1, <1>a, <1>c DEF CallState, LoopAgain
    <3>2. QED BY <2>1, <3>1, <1>a, <1>b, <1>d DEF Contiguous
  <2>4. TypeOK'
    <3>1. result' \in Result
      BY <2>1 DEF EofError, Result
    <3>2. QED BY <3>1, <2>1, <2>2, <1>a, <1>c DEF TypeOK
  <2>5. CallState'
    BY <2>1, <1>a, <1>c DEF CallState
  <2>6. NoSilentLoss'
    BY <2>1, <2>2, <1>b, <1>c, <1>d DEF NoSilentLoss, InFlight
  <2>7. EndReportedLast'
    BY <2>1, <2>2, <2>3, <1>c DEF EndReportedLast, EofError
  <2>8. FlowControl'
    BY <2>1, <2>2, <1>a, <1>c DEF FlowControl
  <2>9. QED BY <1>1, <2>4, <2>5, <2>6, <2>7, <2>8 DEF IInv
<1>4. CASE Park
  <2>1. /\ total = 0 /\ ~read_eof_ /\ ~closed_ /\ pc' = "parked"
        /\ read_sink_' = TRUE
        /\ read_ready_' = AwaitEvent(ClearEvent(read_ready_))
        /\ UNCHANGED <<result, unconsumed, returned>>
    BY <1>4 DEF Park, Suspend, historyVars
  <2>2. read_ready_' \in Event /\ read_ready_'.waiter = "suspended"
    <3>1. read_ready_ \in Event
      BY <1>a DEF TypeOK
    <3>2. QED BY <3>1, <2>1, EventTypes, EventWaiters
  <2>3. TypeOK'
    BY <2>1, <2>2, <1>a, <1>c DEF TypeOK
  <2>4. space > 0 /\ chunks_ = <<>> /\ copied = 0
    BY <2>1, <1>a, <1>c DEF CallState, LoopAgain
  <2>5. CallState'
    BY <2>1, <2>2, <2>4, <1>c DEF CallState
  <2>6. NoSilentLoss'
    BY <2>1, <2>4, <1>b, <1>c, <1>d DEF NoSilentLoss, InFlight
  <2>7. EndReportedLast' /\ FlowControl'
    BY <2>1, <1>a, <1>c DEF EndReportedLast, FlowControl
  <2>8. QED BY <1>1, <2>3, <2>5, <2>6, <2>7 DEF IInv
<1>5. QED BY <1>2, <1>3, <1>4

\* A stop request preserves the invariant.
LEMMA CancelIInv == ASSUME IInv, Cancel PROVE IInv'
<1>a. TypeOK /\ Contiguous /\ CallState /\ InOrder /\ NoSilentLoss
      /\ EndReportedLast /\ FlowControl
  BY DEF IInv
<1>b. /\ pc = "parked" /\ read_ready_.waiter = "suspended"
      /\ read_ready_' = CancelWait(read_ready_)
      /\ UNCHANGED <<closed_, read_eof_, chunks_, front_offset_, read_sink_, pc,
                     space, total, copied, result, received, unconsumed, got,
                     returned>>
  BY DEF Cancel, callVars, historyVars
<1>c. read_ready_' \in Event /\ read_ready_'.waiter = "canceled"
  <2>1. read_ready_ \in Event
    BY <1>a DEF TypeOK
  <2>2. QED BY <2>1, <1>b, EventTypes, EventWaiters
<1>1. TypeOK'
  BY <1>a, <1>b, <1>c DEF TypeOK
<1>2. Contiguous' /\ InOrder'
  BY <1>a, <1>b, BodyUnchanged
<1>3. CallState'
  BY <1>a, <1>b, <1>c DEF CallState
<1>4. NoSilentLoss'
  BY <1>a, <1>b DEF NoSilentLoss, InFlight
<1>5. EndReportedLast' /\ FlowControl'
  BY <1>a, <1>b DEF EndReportedLast, FlowControl
<1>6. QED BY <1>1, <1>2, <1>3, <1>4, <1>5 DEF IInv

\* A resumed call always returns: the wait never ends with nothing to report.
LEMMA ResumeReturns == ASSUME IInv, Resume PROVE Outcome.ec # "none"
<1>1. read_ready_.waiter = "ready" => copied > 0 \/ read_eof_ \/ closed_
  BY DEF IInv, CallState, Resume
<1>2. read_ready_.waiter = "ready" \/ read_ready_.waiter = "canceled"
  BY DEF Resume, Resumable
<1>3. EofError # "none"
  BY DEF EofError
<1>4. QED BY <1>1, <1>2, <1>3 DEF Outcome

\* The resumption of a parked call preserves the invariant.
LEMMA ResumeIInv == ASSUME IInv, Resume PROVE IInv'
<1> DEFINE ec == Outcome.ec
           n  == Outcome.n
<1>a. TypeOK /\ Contiguous /\ CallState /\ InOrder /\ NoSilentLoss
      /\ EndReportedLast /\ FlowControl
  BY DEF IInv
<1>b. /\ space \in Nat /\ total \in Nat /\ copied \in Nat /\ received \in Nat
      /\ unconsumed \in Int /\ returned \in Nat /\ Len(got) \in Nat
  BY <1>a, Types
<1>c. /\ pc = "parked" /\ pc' = "idle" /\ read_sink_' = FALSE
      /\ read_ready_' = EndWait(read_ready_)
      /\ result' = [ec |-> ec, n |-> n]
      /\ returned' = returned + n
      /\ unconsumed' = IF closed_ THEN unconsumed ELSE unconsumed - n
      /\ UNCHANGED <<closed_, read_eof_, chunks_, front_offset_, space, total,
                     copied, received, got>>
  BY ResumeReturns DEF Resume, Return, Consume, Unpublish
<1>d. /\ n = copied
      /\ ec \in {"ok", "eof", "stream_truncated", "canceled"}
      /\ ec \in {"eof", "stream_truncated"} =>
             copied = 0 /\ ec = EofError /\ (read_eof_ \/ closed_)
  <2>1. read_ready_.waiter = "ready" => copied > 0 \/ read_eof_ \/ closed_
    BY <1>a, <1>c DEF CallState
  <2>2. read_ready_.waiter = "ready" \/ read_ready_.waiter = "canceled"
    BY DEF Resume, Resumable
  <2>3. EofError \in {"eof", "stream_truncated"}
    BY DEF EofError
  <2>4. QED BY <2>1, <2>2, <2>3, <1>b DEF Outcome
<1> HIDE DEF ec, n
<1>e. Len(got) = returned + n
  BY <1>a, <1>c, <1>d DEF NoSilentLoss, InFlight
<1>1. Contiguous' /\ InOrder'
  BY <1>a, <1>c, BodyUnchanged
<1>2. read_ready_' \in Event /\ read_ready_'.waiter = "none"
  <2>1. read_ready_ \in Event
    BY <1>a DEF TypeOK
  <2>2. QED BY <2>1, <1>c, EventTypes, EventWaiters
<1>3. TypeOK'
  <2>1. n \in Nat /\ returned' \in Nat /\ unconsumed' \in Int
    BY <1>b, <1>c, <1>d
  <2>2. result' \in Result
    BY <2>1, <1>c, <1>d DEF Result
  <2>3. QED BY <2>1, <2>2, <1>2, <1>a, <1>c DEF TypeOK
<1>4. CallState'
  BY <1>2, <1>c DEF CallState
<1>5. NoSilentLoss'
  BY <1>b, <1>c, <1>d, <1>e DEF NoSilentLoss, InFlight
<1>6. EndReportedLast'
  <2>1. CASE ec \in {"eof", "stream_truncated"}
    <3>1. copied = 0 /\ ec = EofError /\ (read_eof_ \/ closed_)
      BY <2>1, <1>d
    <3>2. chunks_ = <<>>
      BY <3>1, <1>a, <1>c DEF CallState
    <3>3. Len(got) = received
      BY <3>2, <1>a DEF Contiguous
    <3>4. returned' = received'
      BY <3>1, <3>3, <1>b, <1>c, <1>d, <1>e
    <3>5. result'.ec = EofError
      BY <3>1, <1>c
    <3>6. read_eof_' = read_eof_ /\ closed_' = closed_
      BY <1>c
    <3>7. QED BY <3>1, <3>4, <3>5, <3>6 DEF EndReportedLast, EofError
  <2>2. CASE ec \notin {"eof", "stream_truncated"}
    <3>1. result'.ec = ec
      BY <1>c
    <3>2. QED BY <2>2, <3>1 DEF EndReportedLast
  <2>3. QED BY <2>1, <2>2
<1>7. FlowControl'
  <2>1. received - returned <= Window
        /\ (~closed_ => unconsumed = received - returned)
    BY <1>a DEF FlowControl
  <2>2. received' - returned' <= Window
    BY <2>1, <1>b, <1>c, <1>d, ReadAssumption
  <2>3. CASE closed_
    BY <2>2, <2>3, <1>c DEF FlowControl
  <2>4. CASE ~closed_
    <3>1. unconsumed' = unconsumed - n /\ unconsumed = received - returned
      BY <2>1, <2>4, <1>c
    <3>2. unconsumed' = received' - returned'
      BY <3>1, <1>b, <1>c, <1>d
    <3>3. QED BY <3>2, <2>2 DEF FlowControl
  <2>5. QED BY <2>3, <2>4
<1>8. QED BY <1>1, <1>3, <1>4, <1>5, <1>6, <1>7 DEF IInv

\* Every step preserves the invariant.
LEMMA NextIInv == IInv /\ [Next]_vars => IInv'
<1> SUFFICES ASSUME IInv, [Next]_vars PROVE IInv'
  OBVIOUS
<1>1. CASE StartRead
  BY <1>1, ReadSomeIInv DEF StartRead
<1>2. CASE Callback
  BY <1>2, OnDataIInv, EndIInv DEF Callback
<1>3. CASE CallStep
  BY <1>3, DrainChunkIInv, LeaveLoopIInv, ResumeIInv DEF CallStep
<1>4. CASE Cancel
  BY <1>4, CancelIInv
<1>5. CASE UNCHANGED vars
  <2>1. UNCHANGED <<closed_, read_eof_, chunks_, front_offset_, read_sink_,
                    read_ready_, pc, space, total, copied, result, received,
                    unconsumed, got, returned>>
    BY <1>5 DEF vars, memberVars, callVars, historyVars
  <2>2. TypeOK'
    BY <2>1 DEF IInv, TypeOK
  <2>3. Contiguous' /\ InOrder'
    BY <2>1, BodyUnchanged DEF IInv
  <2>4. CallState' /\ NoSilentLoss' /\ EndReportedLast' /\ FlowControl'
    BY <2>1 DEF IInv, CallState, NoSilentLoss, InFlight, EndReportedLast,
       FlowControl
  <2>5. QED BY <2>2, <2>3, <2>4 DEF IInv
<1>6. QED BY <1>1, <1>2, <1>3, <1>4, <1>5 DEF Next

\* The invariant holds throughout.
THEOREM Invariance == Spec => []IInv
BY InitIInv, NextIInv, PTL DEF Spec

\* Every variable keeps its type.
THEOREM TypeCorrect == Spec => []TypeOK
<1>1. IInv => TypeOK BY DEF IInv
<1>2. QED BY <1>1, Invariance, PTL

\* Readers get the body in order, with no byte lost or repeated, for every split
\* of the body into DATA chunks and every sequence of buffer sizes.
THEOREM Ordered == Spec => []InOrder
<1>1. IInv => InOrder BY DEF IInv
<1>2. QED BY <1>1, Invariance, PTL

\* No byte is copied into a caller's buffers without being reported to it.
THEOREM NothingLost == Spec => []NoSilentLoss
<1>1. IInv => NoSilentLoss BY DEF IInv
<1>2. QED BY <1>1, Invariance, PTL

\* A suspended reader has nothing to do and a woken one has.
THEOREM WakeupsExact == Spec => []WakeupExact
<1>1. IInv => WakeupExact
  <2>1. EofError # "none"
    BY DEF EofError
  <2>2. QED BY <2>1 DEF IInv, CallState, WakeupExact, Outcome
<1>2. QED BY <1>1, Invariance, PTL

\* The end is reported after the whole body, and as what it was.
THEOREM EndLast == Spec => []EndReportedLast
<1>1. IInv => EndReportedLast BY DEF IInv
<1>2. QED BY <1>1, Invariance, PTL

\* The window accounts for every byte, and bounds what is buffered.
THEOREM WindowKept == Spec => []FlowControl
<1>1. IInv => FlowControl BY DEF IInv
<1>2. QED BY <1>1, Invariance, PTL

\* The sink is published only while the frame that owns it is suspended.
THEOREM SinkSafe == Spec => []SinkAlive
<1>1. IInv => SinkAlive BY DEF IInv, CallState, SinkAlive
<1>2. QED BY <1>1, Invariance, PTL

-----------------------------------------------------------------------------
\* A step of the read side is a step of the pipe or leaves the pipe alone.
LEMMA PipeStep ==
    IInv /\ [Next]_vars => [Pipe!PipeNext]_(Pipe!pipeVars)
<1> SUFFICES ASSUME IInv, [Next]_vars
             PROVE  \/ Pipe!PipeNext
                    \/ UNCHANGED <<received, returned, PipeEnd, result>>
  BY DEF Pipe!pipeVars
<1>a. received \in Nat /\ returned \in Nat /\ Len(got) \in Nat
      /\ copied \in Nat /\ total \in Nat
  BY Types DEF IInv
<1>1. ASSUME NEW n \in 1 .. MaxBody, OnData(n) PROVE Pipe!Put
  <2>1. /\ received' = received + n /\ PipeEnd = "open" /\ PipeEnd' = "open"
        /\ UNCHANGED <<returned, result>>
    BY <1>1 DEF OnData, PipeEnd
  <2>2. received' \in Nat /\ received' > received
    BY <2>1, <1>a, ReadAssumption
  <2>3. QED BY <2>1, <2>2 DEF Pipe!Put
<1>2. ASSUME OnReadEof PROVE Pipe!End
  <2>1. PipeEnd = "open" /\ PipeEnd' = "eof"
        /\ UNCHANGED <<received, returned, result>>
    BY <1>2 DEF OnReadEof, PipeEnd, callVars, historyVars
  <2>2. QED BY <2>1 DEF Pipe!End
<1>3. ASSUME OnClose
      PROVE  Pipe!End \/ UNCHANGED <<received, returned, PipeEnd, result>>
  <2>1. /\ PipeEnd = IF read_eof_ THEN "eof" ELSE "open"
        /\ PipeEnd' = IF read_eof_ THEN "eof" ELSE "stream_truncated"
        /\ UNCHANGED <<received, returned, result>>
    BY <1>3 DEF OnClose, PipeEnd, callVars, historyVars
  <2>2. QED BY <2>1 DEF Pipe!End
<1>4. ASSUME StartRead \/ DrainChunk \/ Park \/ Cancel
      PROVE  UNCHANGED <<received, returned, PipeEnd, result>>
  <2>1. UNCHANGED <<received, returned, closed_, read_eof_, result>>
    <3>1. CASE StartRead
      BY <3>1 DEF StartRead, ReadSome, memberVars, callVars, historyVars
    <3>2. CASE DrainChunk
      BY <3>2 DEF DrainChunk, memberVars, callVars, historyVars
    <3>3. CASE Park
      BY <3>3 DEF Park, Suspend, memberVars, callVars, historyVars
    <3>4. CASE Cancel
      BY <3>4 DEF Cancel, memberVars, callVars, historyVars
    <3>5. QED BY <1>4, <3>1, <3>2, <3>3, <3>4
  <2>2. QED BY <2>1 DEF PipeEnd
<1>5. ASSUME NEW n \in Nat, n > 0, Len(got) = returned + n,
             returned' = returned + n, result' = [ec |-> "ok", n |-> n],
             UNCHANGED <<closed_, read_eof_, received>>
      PROVE  Pipe!Take
  <2>1. PipeEnd' = PipeEnd
    BY <1>5 DEF PipeEnd
  <2>2. n = returned' - returned /\ returned' > returned /\ returned' <= received
    BY <1>5, <1>a, DeliveredBound
  <2>3. QED BY <2>1, <2>2, <1>5 DEF Pipe!Take
<1>6. ASSUME read_eof_ \/ closed_, Len(got) = returned, Len(got) = received,
             returned' = returned, result' = [ec |-> EofError, n |-> 0],
             UNCHANGED <<closed_, read_eof_, received>>
      PROVE  Pipe!TakeEnd
  BY <1>6 DEF PipeEnd, EofError, Pipe!TakeEnd
<1>7. ASSUME ReturnDrained PROVE Pipe!Take
  <2>1. /\ total > 0 /\ returned' = returned + total
        /\ result' = [ec |-> "ok", n |-> total]
        /\ UNCHANGED <<closed_, read_eof_, received>>
    BY <1>7 DEF ReturnDrained, Return, memberVars
  <2>2. Len(got) = returned + total
    BY <1>7 DEF IInv, NoSilentLoss, InFlight, ReturnDrained
  <2>3. QED BY <2>1, <2>2, <1>a, <1>5
<1>8. ASSUME ReturnEnded PROVE Pipe!TakeEnd
  <2>1. /\ total = 0 /\ returned' = returned + 0 /\ pc = "draining"
        /\ ~LoopAgain
        /\ result' = [ec |-> EofError, n |-> 0]
        /\ UNCHANGED <<closed_, read_eof_, received>>
        /\ read_eof_ \/ closed_
    BY <1>8 DEF ReturnEnded, Return, memberVars
  <2>2. Len(got) = returned
    BY <2>1, <1>a DEF IInv, NoSilentLoss, InFlight
  <2>3. chunks_ = <<>>
    BY <2>1 DEF IInv, CallState, LoopAgain
  <2>4. Len(got) = received /\ returned' = returned
    BY <2>1, <2>3, <1>a DEF IInv, Contiguous
  <2>5. QED BY <2>1, <2>2, <2>4, <1>6
<1>9. ASSUME Resume PROVE Pipe!Take \/ Pipe!TakeEnd \/ Pipe!TakeNothing
  <2>1. /\ pc = "parked" /\ returned' = returned + Outcome.n
        /\ result' = [ec |-> Outcome.ec, n |-> Outcome.n]
        /\ UNCHANGED <<closed_, read_eof_, received>>
    BY <1>9, ResumeReturns DEF Resume, Return
  <2>2. Len(got) = returned + copied
    BY <2>1 DEF IInv, NoSilentLoss, InFlight
  <2>3. CASE copied > 0
    <3>1. Outcome = [ec |-> "ok", n |-> copied]
      BY <2>3 DEF Outcome
    <3>2. QED BY <2>1, <2>2, <2>3, <3>1, <1>a, <1>5
  <2>4. CASE copied = 0
    <3>1. CASE read_ready_.waiter = "canceled"
      <4>1. Outcome = [ec |-> "canceled", n |-> 0]
        BY <2>4, <3>1, <1>a DEF Outcome
      <4>2. returned' = returned /\ result' = [ec |-> "canceled", n |-> 0]
        BY <4>1, <2>1, <1>a
      <4>3. PipeEnd' = PipeEnd
        BY <2>1 DEF PipeEnd
      <4>4. QED BY <4>2, <4>3, <2>1 DEF Pipe!TakeNothing
    <3>2. CASE read_ready_.waiter # "canceled"
      <4>1. read_eof_ \/ closed_
        BY <2>4, <3>2, <1>9 DEF IInv, CallState, Resume, Resumable
      <4>2. Outcome = [ec |-> EofError, n |-> 0]
        BY <2>4, <3>2, <4>1, <1>a DEF Outcome
      <4>3. chunks_ = <<>>
        BY <2>1, <2>4 DEF IInv, CallState
      <4>4. Len(got) = received
        BY <4>3 DEF IInv, Contiguous
      <4>5. returned' = returned /\ Len(got) = returned
            /\ result' = [ec |-> EofError, n |-> 0]
        BY <4>2, <2>1, <2>2, <2>4, <1>a
      <4>6. QED BY <4>1, <4>4, <4>5, <2>1, <1>6
    <3>3. QED BY <3>1, <3>2
  <2>5. QED BY <2>3, <2>4, <1>a
<1>10. CASE UNCHANGED vars
  BY <1>10 DEF vars, memberVars, callVars, historyVars, PipeEnd
<1>11. QED
  BY <1>1, <1>2, <1>3, <1>4, <1>7, <1>8, <1>9, <1>10
  DEF Next, Callback, CallStep, Pipe!PipeNext

\* The read side of a stream implements a reliable byte pipe.
THEOREM PipeRefinement == Spec => ImplementsPipe
<1>1. Init => Pipe!PipeInit
  BY DEF Init, Pipe!PipeInit, PipeEnd
<1>2. QED
  BY <1>1, PipeStep, Invariance, PTL DEF Spec, ImplementsPipe, Pipe!PipeSpec
=============================================================================
