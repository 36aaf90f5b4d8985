----------------------------- MODULE EchoProofs -----------------------------
(***************************************************************************)
(* What TLAPS proves of Echo, for every window, buffer and body.           *)
(***************************************************************************)
EXTENDS Echo, TLAPS

\* Nobody sends more than the other side has room for.
Flow ==
    /\ upSent <= upAllowed /\ upAllowed <= Window + upRead
    /\ Len(down) <= downAllowed /\ downAllowed <= Window + downRead

\* The handler has written what it has read, up to what is in its buffer.
Bodies ==
    /\ Len(down) = from
    /\ \A i \in 1 .. Len(down) : down[i] = i
    /\ pc \in {"start", "read"} => from = upRead

\* The end of the request body comes after all of it.
UpEnd ==
    /\ writer \in {"eof", "done"} => upSent = size
    /\ upEnd # "no" => writer = "done"
    /\ upEnd = "received" => upRecv = upSent

\* So does the end of the response body, unless the handler was stopped.
Echoed == stopped \/ (upEnd = "received" /\ from = upRecv)

DownEnd ==
    /\ head.at # "no" => pc # "start" /\ head.length = declared
    /\ pc # "start" => content_length_ = declared
    /\ pc = "eof" => sclosed \/ Echoed
    /\ downEnd # "no" => pc = "done" /\ Echoed
    /\ downEnd = "received" =>
           downRecv = Len(down) /\ head.at # "no" /\ ~Mismatch(head.length, downRecv)
    /\ getter = "eof" => downEnd = "received" /\ downRead = downRecv

IInv == TypeOK /\ Flow /\ Bodies /\ UpEnd /\ DownEnd
-----------------------------------------------------------------------------
\* The parts of TypeOK the provers take one at a time.
LEMMA Types ==
    ASSUME TypeOK
    PROVE  /\ size \in Nat /\ upSent \in 0 .. size /\ upRecv \in 0 .. upSent
           /\ upRead \in 0 .. upRecv /\ from \in 0 .. upRead
           /\ upSent \in Nat /\ upRecv \in Nat /\ upRead \in Nat /\ from \in Nat
           /\ down \in Seq(Nat) /\ Len(down) \in Nat
           /\ downRecv \in 0 .. Len(down) /\ downRead \in 0 .. downRecv
           /\ downRecv \in Nat /\ downRead \in Nat
           /\ upAllowed \in Nat /\ downAllowed \in Nat
<1>1. size \in Nat /\ down \in Seq(Nat) /\ Len(down) \in Nat
  BY EchoAssumption DEF TypeOK
<1>2. QED BY <1>1 DEF TypeOK

\* A window is given back no further than it has been read.
LEMMA CreditBounds ==
    ASSUME NEW allowed \in Nat, NEW read \in Nat, allowed <= Window + read
    PROVE  /\ Credit(allowed, read) \in Nat
           /\ allowed <= Credit(allowed, read)
           /\ Credit(allowed, read) <= Window + read
<1>1. Window + read \in Nat
  BY EchoAssumption
<1>2. QED BY <1>1 DEF Credit

\* A bound of a sum stays one when a term grows.
LEMMA BoundGrows ==
    ASSUME NEW w \in Nat, NEW a \in Nat, NEW m \in Nat, NEW n \in Nat, a <= w + m, m <= n
    PROVE  a <= w + n
OBVIOUS

\* A read takes no more than has arrived.
LEMMA ReadBounds ==
    ASSUME NEW read \in Nat, NEW recv \in Nat, read < recv
    PROVE  LET r == read + Lesser(recv - read, BufferSize)
           IN  r \in 0 .. recv /\ r \in Nat /\ read < r
BY EchoAssumption DEF Lesser

\* The start state satisfies the invariant.
LEMMA InitIInv == Init => IInv
<1> SUFFICES ASSUME Init PROVE IInv
  OBVIOUS
<1>1. size \in Sizes /\ size \in Nat /\ declared \in Nat \cup {None} /\ Window \in Nat
  BY EchoAssumption DEF Init, WrongLengths
<1>2. {eager, faulty, stopped, sclosed, cclosed} \subseteq BOOLEAN
  BY DEF Init
<1>3. mode \in {"concurrent", "writeFirst", "responseFirst"}
  BY DEF Init
<1>4. down \in Seq(Nat) /\ Len(down) = 0
  BY DEF Init
<1>5. head \in [at : EndStates, length : Nat \cup {None}]
  BY DEF Init, EndStates
<1>6. /\ upSent \in 0 .. size /\ upRecv \in 0 .. upSent /\ upRead \in 0 .. upRecv
      /\ from \in 0 .. upRead /\ downRecv \in 0 .. Len(down) /\ downRead \in 0 .. downRecv
  BY <1>1, <1>4 DEF Init
<1>7. TypeOK
  BY <1>1, <1>2, <1>3, <1>4, <1>5, <1>6 DEF Init, TypeOK, EndStates
<1>8. Flow /\ Bodies
  BY <1>1, <1>4 DEF Init, Flow, Bodies
<1>9. UpEnd /\ DownEnd
  BY DEF Init, UpEnd, DownEnd
<1>10. QED BY <1>7, <1>8, <1>9 DEF IInv

-----------------------------------------------------------------------------
(* Closing a stream.                                                       *)

\* A step that only closes streams.
LEMMA ClosingIInv ==
    ASSUME IInv, UNCHANGED <<fixed, clientVars, handlerVars, upVars, downVars>>,
           sclosed' \in BOOLEAN, cclosed' \in BOOLEAN, sclosed => sclosed',
           reset' \in {"none", "server", "client"}
    PROVE  IInv'
<1>1. TypeOK /\ Flow /\ Bodies /\ UpEnd /\ DownEnd
  BY DEF IInv
<1>2. TypeOK'
  BY <1>1 DEF TypeOK, fixed, clientVars, handlerVars, upVars, downVars
<1>3. Flow' /\ Bodies'
  BY <1>1 DEF Flow, Bodies, handlerVars, upVars, downVars
<1>4. UpEnd' /\ DownEnd'
  BY <1>1 DEF UpEnd, DownEnd, Echoed, Mismatch, fixed, clientVars, handlerVars, upVars,
     downVars
<1>5. QED BY <1>2, <1>3, <1>4 DEF IInv

\* Giving a stream up closes it and reopens none.
LEMMA ResetByTypes ==
    ASSUME IInv, NEW side \in {"server", "client"}, ResetBy(side)
    PROVE  /\ sclosed' \in BOOLEAN /\ cclosed' \in BOOLEAN /\ (sclosed => sclosed')
           /\ reset' \in {"none", "server", "client"}
<1>1. TypeOK
  BY DEF IInv
<1>2. reset' \in {"none", "server", "client"}
  BY <1>1 DEF ResetBy, TypeOK
<1>3. sclosed' = (sclosed \/ side = "server") /\ cclosed' = (cclosed \/ side = "client")
  BY DEF ResetBy
<1>4. QED BY <1>2, <1>3

LEMMA ResetIInv ==
    ASSUME IInv, NEW side \in {"server", "client"}, Reset(side) PROVE IInv'
<1>1. /\ ResetBy(side)
      /\ UNCHANGED <<fixed, clientVars, handlerVars, upVars, downVars>>
  BY DEF Reset
<1>2. QED BY <1>1, ResetByTypes, ClosingIInv

LEMMA ResetArrivesIInv == ASSUME IInv, ResetArrives PROVE IInv'
<1>1. /\ sclosed' = TRUE /\ cclosed' = TRUE
      /\ UNCHANGED <<fixed, clientVars, handlerVars, upVars, downVars, reset>>
  BY DEF ResetArrives
<1>2. reset' \in {"none", "server", "client"}
  BY <1>1 DEF IInv, TypeOK
<1>3. QED BY <1>1, <1>2, ClosingIInv

-----------------------------------------------------------------------------
(* What nghttp2 receives.                                                  *)

LEMMA ServerRecvIInv == ASSUME IInv, ServerRecv PROVE IInv'
<1>1. TypeOK /\ Flow /\ Bodies /\ UpEnd /\ DownEnd
  BY DEF IInv
<1>2. CASE ResetBy("server") /\ UNCHANGED <<upRecv, upAllowed>>
  <2>1. UNCHANGED <<fixed, clientVars, handlerVars, upVars, downVars>>
    BY <1>2 DEF ServerRecv, upVars
  <2>2. QED BY <1>2, <2>1, ResetByTypes, ClosingIInv
<1>3. CASE upRecv' = upSent /\ upAllowed' = upAllowed /\ UNCHANGED closeVars
  <2>1. /\ upRecv < upSent /\ upRecv' = upSent
        /\ UNCHANGED <<fixed, clientVars, handlerVars, upSent, upRead, upAllowed,
                       upEnd, downVars, closeVars>>
    BY <1>3 DEF ServerRecv
  <2>2. upRead' \in 0 .. upRecv' /\ upRecv' \in 0 .. upSent'
    BY <1>1, <2>1, Types
  <2>3. TypeOK'
    BY <1>1, <2>1, <2>2 DEF TypeOK, fixed, clientVars, handlerVars, downVars, closeVars
  <2>4. Flow' /\ Bodies'
    BY <1>1, <2>1 DEF Flow, Bodies, handlerVars, downVars
  <2>5. upEnd # "received"
    BY <1>1, <2>1, Types DEF UpEnd
  <2>6. UpEnd' /\ DownEnd'
    BY <1>1, <2>1, <2>5 DEF UpEnd, DownEnd, Echoed, Mismatch, fixed, clientVars,
       handlerVars, downVars, closeVars
  <2>7. QED BY <2>3, <2>4, <2>6 DEF IInv
<1>4. QED BY <1>2, <1>3 DEF ServerRecv, Arrived

LEMMA ServerRecvEndIInv == ASSUME IInv, ServerRecvEnd PROVE IInv'
<1>1. TypeOK /\ Flow /\ Bodies /\ UpEnd /\ DownEnd
  BY DEF IInv
<1>2. CASE ResetBy("server") /\ UNCHANGED upEnd
  <2>1. UNCHANGED <<fixed, clientVars, handlerVars, upVars, downVars>>
    BY <1>2 DEF ServerRecvEnd, upVars
  <2>2. QED BY <1>2, <2>1, ResetByTypes, ClosingIInv
<1>3. CASE upEnd' = "received" /\ sclosed' = (downEnd # "no") /\ UNCHANGED <<reset, cclosed>>
  <2>1. /\ ~sclosed /\ upEnd = "sent" /\ upRecv = upSent /\ upEnd' = "received"
        /\ sclosed' \in BOOLEAN
        /\ UNCHANGED <<fixed, clientVars, handlerVars, upSent, upRecv, upRead,
                       upAllowed, downVars, reset, cclosed>>
    BY <1>3 DEF ServerRecvEnd
  <2>2. TypeOK'
    BY <1>1, <2>1 DEF TypeOK, EndStates, fixed, clientVars, handlerVars, downVars
  <2>3. Flow' /\ Bodies'
    BY <1>1, <2>1 DEF Flow, Bodies, handlerVars, downVars
  <2>4. UpEnd' /\ DownEnd'
    BY <1>1, <2>1 DEF UpEnd, DownEnd, Echoed, Mismatch, fixed, clientVars, handlerVars,
       downVars
  <2>5. QED BY <2>2, <2>3, <2>4 DEF IInv
<1>4. QED BY <1>2, <1>3 DEF ServerRecvEnd

LEMMA ClientRecvHeadIInv == ASSUME IInv, ClientRecvHead PROVE IInv'
<1>1. TypeOK /\ Flow /\ Bodies /\ UpEnd /\ DownEnd
  BY DEF IInv
<1>2. /\ head.at = "sent" /\ head' = [head EXCEPT !.at = "received"]
      /\ UNCHANGED <<fixed, clientVars, handlerVars, upVars, down, downRecv, downRead,
                     downAllowed, downEnd, closeVars>>
  BY DEF ClientRecvHead
<1>3. head \in [at : EndStates, length : Nat \cup {None}]
  BY <1>1 DEF TypeOK
<1>4. /\ head' \in [at : EndStates, length : Nat \cup {None}]
      /\ head'.at = "received" /\ head'.length = head.length
  BY <1>2, <1>3 DEF EndStates
<1>5. TypeOK'
  BY <1>1, <1>2, <1>4 DEF TypeOK, fixed, clientVars, handlerVars, upVars, closeVars
<1>6. Flow' /\ Bodies' /\ UpEnd'
  BY <1>1, <1>2 DEF Flow, Bodies, UpEnd, fixed, clientVars, handlerVars, upVars
<1>7. DownEnd'
  BY <1>1, <1>2, <1>4 DEF DownEnd, Echoed, Mismatch, fixed, clientVars, handlerVars,
     upVars, closeVars
<1>8. QED BY <1>5, <1>6, <1>7 DEF IInv

LEMMA ClientRecvIInv == ASSUME IInv, ClientRecv PROVE IInv'
<1>1. TypeOK /\ Flow /\ Bodies /\ UpEnd /\ DownEnd
  BY DEF IInv
<1>2. CASE ResetBy("client") /\ UNCHANGED <<downRecv, downAllowed>>
  <2>1. UNCHANGED <<fixed, clientVars, handlerVars, upVars, downVars>>
    BY <1>2 DEF ClientRecv, downVars
  <2>2. QED BY <1>2, <2>1, ResetByTypes, ClosingIInv
<1>3. CASE downRecv' = Len(down) /\ downAllowed' = downAllowed /\ UNCHANGED closeVars
  <2>1. /\ downRecv < Len(down) /\ downRecv' = Len(down)
        /\ UNCHANGED <<fixed, clientVars, handlerVars, upVars, down, downRead,
                       downAllowed, downEnd, head, closeVars>>
    BY <1>3 DEF ClientRecv
  <2>2. downRead' \in 0 .. downRecv' /\ downRecv' \in 0 .. Len(down')
    BY <1>1, <2>1, Types
  <2>3. TypeOK'
    BY <1>1, <2>1, <2>2 DEF TypeOK, fixed, clientVars, handlerVars, upVars, closeVars
  <2>4. Flow' /\ Bodies' /\ UpEnd'
    BY <1>1, <2>1 DEF Flow, Bodies, UpEnd, fixed, clientVars, handlerVars, upVars
  <2>5. downEnd # "received" /\ getter # "eof"
    BY <1>1, <2>1, Types DEF DownEnd
  <2>6. DownEnd'
    BY <1>1, <2>1, <2>5 DEF DownEnd, Echoed, Mismatch, fixed, clientVars, handlerVars,
       upVars, closeVars
  <2>7. QED BY <2>3, <2>4, <2>6 DEF IInv
<1>4. QED BY <1>2, <1>3 DEF ClientRecv, Arrived

LEMMA ClientRecvEndIInv == ASSUME IInv, ClientRecvEnd PROVE IInv'
<1>1. TypeOK /\ Flow /\ Bodies /\ UpEnd /\ DownEnd
  BY DEF IInv
<1>2. CASE ResetBy("client") /\ UNCHANGED downEnd
  <2>1. UNCHANGED <<fixed, clientVars, handlerVars, upVars, downVars>>
    BY <1>2 DEF ClientRecvEnd, downVars
  <2>2. QED BY <1>2, <2>1, ResetByTypes, ClosingIInv
<1>3. CASE /\ ~Mismatch(head.length, downRecv) /\ downEnd' = "received"
           /\ cclosed' = (upEnd # "no") /\ UNCHANGED <<reset, sclosed>>
  <2>1. /\ head.at = "received" /\ downEnd = "sent" /\ downRecv = Len(down)
        /\ ~Mismatch(head.length, downRecv) /\ downEnd' = "received"
        /\ cclosed' \in BOOLEAN
        /\ UNCHANGED <<fixed, clientVars, handlerVars, upVars, down, downRecv,
                       downRead, downAllowed, head, reset, sclosed>>
    BY <1>3 DEF ClientRecvEnd
  <2>2. TypeOK'
    BY <1>1, <2>1 DEF TypeOK, EndStates, fixed, clientVars, handlerVars, upVars
  <2>3. Flow' /\ Bodies' /\ UpEnd'
    BY <1>1, <2>1 DEF Flow, Bodies, UpEnd, fixed, clientVars, handlerVars, upVars
  <2>4. DownEnd'
    BY <1>1, <2>1 DEF DownEnd, Echoed, Mismatch, fixed, clientVars, handlerVars, upVars
  <2>5. QED BY <2>2, <2>3, <2>4 DEF IInv
<1>4. QED BY <1>2, <1>3 DEF ClientRecvEnd

-----------------------------------------------------------------------------
(* The client.                                                             *)

LEMMA ClientWriteIInv ==
    ASSUME IInv, NEW n \in 1 .. size, ClientWrite(n) PROVE IInv'
<1>1. TypeOK /\ Flow /\ Bodies /\ UpEnd /\ DownEnd
  BY DEF IInv
<1>2. /\ writer = "write" /\ n <= Lesser(size - upSent, upAllowed - upSent)
      /\ upSent' = upSent + n /\ writer' = (IF upSent' = size THEN "eof" ELSE "write")
      /\ UNCHANGED <<fixed, getter, handlerVars, upRecv, upRead, upAllowed, upEnd,
                     downVars, closeVars>>
  BY DEF ClientWrite
<1>3. n \in Nat /\ n <= size - upSent /\ n <= upAllowed - upSent
  <2>1. size \in Nat /\ upSent \in Nat /\ upAllowed \in Nat
    BY <1>1, Types
  <2>2. QED BY <1>2, <2>1 DEF Lesser
<1>4. upSent' \in 0 .. size /\ upRecv \in 0 .. upSent' /\ upSent' <= upAllowed
  <2>1. /\ size \in Nat /\ upSent \in Nat /\ upAllowed \in Nat
        /\ upRecv \in 0 .. upSent
    BY <1>1, Types
  <2>2. QED BY <1>2, <1>3, <2>1
<1>5. TypeOK'
  BY <1>1, <1>2, <1>4 DEF TypeOK, fixed, handlerVars, downVars, closeVars
<1>6. Flow' /\ Bodies'
  BY <1>1, <1>2, <1>4 DEF Flow, Bodies, handlerVars, downVars
<1>7. upEnd = "no"
  BY <1>1, <1>2 DEF UpEnd
<1>8. UpEnd' /\ DownEnd'
  BY <1>1, <1>2, <1>7 DEF UpEnd, DownEnd, Echoed, Mismatch, fixed, handlerVars,
     downVars, closeVars
<1>9. QED BY <1>5, <1>6, <1>8 DEF IInv

LEMMA ClientWriteEofIInv == ASSUME IInv, ClientWriteEof PROVE IInv'
<1>1. TypeOK /\ Flow /\ Bodies /\ UpEnd /\ DownEnd
  BY DEF IInv
<1>2. /\ writer = "eof" /\ upEnd' = "sent" /\ writer' = "done"
      /\ cclosed' \in BOOLEAN
      /\ UNCHANGED <<fixed, getter, handlerVars, upSent, upRecv, upRead, upAllowed,
                     downVars, reset, sclosed>>
  BY DEF ClientWriteEof
<1>3. TypeOK'
  BY <1>1, <1>2 DEF TypeOK, EndStates, fixed, handlerVars, downVars
<1>4. Flow' /\ Bodies'
  BY <1>1, <1>2 DEF Flow, Bodies, handlerVars, downVars
<1>5. UpEnd' /\ DownEnd'
  BY <1>1, <1>2 DEF UpEnd, DownEnd, Echoed, Mismatch, fixed, handlerVars, downVars
<1>6. QED BY <1>3, <1>4, <1>5 DEF IInv

\* A step of the client that writes nothing and reads nothing.
LEMMA ClientOnlyIInv ==
    ASSUME IInv, UNCHANGED <<fixed, handlerVars, upVars, downVars, closeVars>>,
           \/ writer' = writer
           \/ writer \in {"write", "eof"} /\ writer' = "failed"
           \/ writer = "eof" /\ writer' = "done",
           \/ getter' = getter
           \/ getter' \in {"reading", "truncated"}
           \/ getter' = "eof" /\ downEnd = "received" /\ downRead = downRecv
    PROVE  IInv'
<1>1. TypeOK /\ Flow /\ Bodies /\ UpEnd /\ DownEnd
  BY DEF IInv
<1>2. TypeOK'
  BY <1>1 DEF TypeOK, fixed, handlerVars, upVars, downVars, closeVars
<1>3. Flow' /\ Bodies'
  BY <1>1 DEF Flow, Bodies, handlerVars, upVars, downVars
<1>4. UpEnd' /\ DownEnd'
  BY <1>1 DEF UpEnd, DownEnd, Echoed, Mismatch, fixed, handlerVars, upVars, downVars,
     closeVars
<1>5. QED BY <1>2, <1>3, <1>4 DEF IInv

LEMMA ClientOutcomesIInv ==
    ASSUME IInv, ClientWriteClosed \/ GetResponse \/ ClientReadEnd PROVE IInv'
<1>1. CASE ClientWriteClosed
  BY <1>1, ClientOnlyIInv DEF ClientWriteClosed
<1>2. CASE GetResponse
  BY <1>2, ClientOnlyIInv DEF GetResponse
<1>3. CASE ClientReadEnd
  BY <1>3, ClientOnlyIInv DEF ClientReadEnd
<1>4. QED BY <1>1, <1>2, <1>3

LEMMA ClientReadIInv == ASSUME IInv, ClientRead PROVE IInv'
<1>1. TypeOK /\ Flow /\ Bodies /\ UpEnd /\ DownEnd
  BY DEF IInv
<1>2. /\ getter = "reading" /\ downRead < downRecv
      /\ downRead' = downRead + Lesser(downRecv - downRead, BufferSize)
      /\ downAllowed' = Credit(downAllowed, downRead')
      /\ UNCHANGED <<fixed, clientVars, handlerVars, upVars, down, downRecv, downEnd,
                     head, closeVars>>
  BY DEF ClientRead
<1>3. downRead' \in 0 .. downRecv /\ downRead' \in Nat /\ downRead <= downRead'
  BY <1>1, <1>2, Types, ReadBounds
<1>4. downAllowed <= Window + downRead'
  <2>1. /\ Window \in Nat /\ downAllowed \in Nat /\ downRead \in Nat
        /\ downAllowed <= Window + downRead
    BY <1>1, Types, EchoAssumption DEF Flow
  <2>2. downRead' \in Nat /\ downRead <= downRead'
    BY <1>3
  <2>3. QED BY <2>1, <2>2, BoundGrows
<1>5. /\ downAllowed' \in Nat /\ downAllowed <= downAllowed'
      /\ downAllowed' <= Window + downRead'
  BY <1>1, <1>2, <1>3, <1>4, Types, CreditBounds
<1>6. TypeOK'
  BY <1>1, <1>2, <1>3, <1>5 DEF TypeOK, fixed, clientVars, handlerVars, upVars,
     closeVars
<1>7. Flow'
  <2>1. Len(down) \in Nat /\ downAllowed \in Nat /\ Len(down) <= downAllowed
    BY <1>1, Types DEF Flow
  <2>2. Len(down) <= downAllowed'
    BY <1>5, <2>1
  <2>3. QED BY <1>1, <1>2, <1>5, <2>2 DEF Flow, upVars
<1>8. Bodies' /\ UpEnd'
  BY <1>1, <1>2 DEF Bodies, UpEnd, fixed, clientVars, handlerVars, upVars
<1>9. DownEnd'
  BY <1>1, <1>2 DEF DownEnd, Echoed, Mismatch, fixed, clientVars, handlerVars, upVars,
     closeVars
<1>10. QED BY <1>6, <1>7, <1>8, <1>9 DEF IInv

-----------------------------------------------------------------------------
(* The handler.                                                            *)

\* The response is announced with the length of the request, once.
LEMMA SubmitFacts ==
    ASSUME IInv, NEW next, SubmitAndGo(declared, next)
    PROVE  /\ head' \in [at : EndStates, length : Nat \cup {None}]
           /\ head'.at # "no" => head'.length = declared
           /\ head.at # "no" => head' = head
           /\ pc' \in {next, "done"}
<1>1. TypeOK /\ DownEnd
  BY DEF IInv
<1>2. /\ head \in [at : EndStates, length : Nat \cup {None}]
      /\ declared \in Nat \cup {None}
      /\ head.at # "no" => head.length = declared
  BY <1>1 DEF TypeOK, DownEnd
<1>3. CASE UNCHANGED head
  BY <1>2, <1>3 DEF SubmitAndGo
<1>4. CASE head.at = "no" /\ head' = [at |-> "sent", length |-> declared]
  BY <1>2, <1>4 DEF SubmitAndGo, EndStates
<1>5. QED BY <1>3, <1>4 DEF SubmitAndGo, Submitted

LEMMA StartIInv == ASSUME IInv, Start PROVE IInv'
<1>1. TypeOK /\ Flow /\ Bodies /\ UpEnd /\ DownEnd
  BY DEF IInv
<1>2. /\ pc = "start" /\ content_length_' = declared
      /\ UNCHANGED <<fixed, clientVars, from, stopped, upVars, down, downRecv,
                     downRead, downAllowed, downEnd, closeVars>>
  BY DEF Start, CopyLength
<1>3. /\ head' \in [at : EndStates, length : Nat \cup {None}]
      /\ head'.at # "no" => head'.length = declared
      /\ head.at # "no" => head' = head
      /\ pc' \in {"read", "done"}
  <2>1. CASE eager
    BY <1>2, <2>1, SubmitFacts DEF Start
  <2>2. CASE ~eager
    BY <1>1, <2>2 DEF Start, TypeOK, DownEnd
  <2>3. QED BY <2>1, <2>2
<1>4. TypeOK'
  BY <1>1, <1>2, <1>3 DEF TypeOK, fixed, clientVars, upVars, closeVars
<1>5. Flow' /\ Bodies' /\ UpEnd'
  BY <1>1, <1>2 DEF Flow, Bodies, UpEnd, fixed, clientVars, upVars
<1>6. DownEnd'
  BY <1>1, <1>2, <1>3 DEF DownEnd, Echoed, Mismatch, fixed, clientVars, upVars,
     closeVars
<1>7. QED BY <1>4, <1>5, <1>6 DEF IInv

LEMMA ReadIInv == ASSUME IInv, Read PROVE IInv'
<1>1. TypeOK /\ Flow /\ Bodies /\ UpEnd /\ DownEnd
  BY DEF IInv
<1>2. /\ pc = "read" /\ upRead < upRecv
      /\ upRead' = upRead + Lesser(upRecv - upRead, BufferSize)
      /\ upAllowed' = Credit(upAllowed, upRead')
      /\ SubmitAndGo(content_length_, "write")
      /\ UNCHANGED <<fixed, clientVars, content_length_, from, stopped, upSent, upRecv,
                     upEnd, down, downRecv, downRead, downAllowed, downEnd, closeVars>>
  BY DEF Read, ReadSize
<1>3. content_length_ = declared
  BY <1>1, <1>2 DEF DownEnd
<1>4. /\ head' \in [at : EndStates, length : Nat \cup {None}]
      /\ head'.at # "no" => head'.length = declared
      /\ head.at # "no" => head' = head
      /\ pc' \in {"write", "done"}
  BY <1>2, <1>3, SubmitFacts
<1>5. upRead' \in 0 .. upRecv /\ upRead' \in Nat /\ upRead <= upRead'
  BY <1>1, <1>2, Types, ReadBounds
<1>6. upAllowed <= Window + upRead'
  <2>1. /\ Window \in Nat /\ upAllowed \in Nat /\ upRead \in Nat
        /\ upAllowed <= Window + upRead
    BY <1>1, Types, EchoAssumption DEF Flow
  <2>2. upRead' \in Nat /\ upRead <= upRead'
    BY <1>5
  <2>3. QED BY <2>1, <2>2, BoundGrows
<1>7. /\ upAllowed' \in Nat /\ upAllowed <= upAllowed'
      /\ upAllowed' <= Window + upRead'
  BY <1>1, <1>2, <1>5, <1>6, Types, CreditBounds
<1>8. from' \in 0 .. upRead'
  BY <1>1, <1>2, <1>5, Types
<1>9. TypeOK'
  BY <1>1, <1>2, <1>4, <1>5, <1>7, <1>8 DEF TypeOK, fixed, clientVars, closeVars
<1>10. Flow' /\ Bodies' /\ UpEnd'
  BY <1>1, <1>2, <1>4, <1>7, Types DEF Flow, Bodies, UpEnd, fixed, clientVars
<1>11. DownEnd'
  BY <1>1, <1>2, <1>3, <1>4 DEF DownEnd, Echoed, Mismatch, fixed, clientVars, closeVars
<1>12. QED BY <1>9, <1>10, <1>11 DEF IInv

LEMMA ReadFailsIInv == ASSUME IInv, ReadFails PROVE IInv'
<1>1. TypeOK /\ Flow /\ Bodies /\ UpEnd /\ DownEnd
  BY DEF IInv
<1>2. /\ pc = "read" /\ upRead = upRecv /\ (upEnd = "received" \/ sclosed \/ stopped)
      /\ SubmitAndGo(content_length_, "eof")
      /\ UNCHANGED <<fixed, clientVars, content_length_, from, stopped, upVars, down,
                     downRecv, downRead, downAllowed, downEnd, closeVars>>
  BY DEF ReadFails
<1>3. content_length_ = declared /\ from = upRecv
  BY <1>1, <1>2 DEF DownEnd, Bodies
<1>4. /\ head' \in [at : EndStates, length : Nat \cup {None}]
      /\ head'.at # "no" => head'.length = declared
      /\ head.at # "no" => head' = head
      /\ pc' \in {"eof", "done"}
  BY <1>2, <1>3, SubmitFacts
<1>5. TypeOK'
  BY <1>1, <1>2, <1>4 DEF TypeOK, fixed, clientVars, upVars, closeVars
<1>6. Flow' /\ Bodies' /\ UpEnd'
  BY <1>1, <1>2, <1>4 DEF Flow, Bodies, UpEnd, fixed, clientVars, upVars
<1>7. DownEnd'
  BY <1>1, <1>2, <1>3, <1>4 DEF DownEnd, Echoed, Mismatch, fixed, clientVars, upVars,
     closeVars
<1>8. QED BY <1>5, <1>6, <1>7 DEF IInv

LEMMA WriteIInv == ASSUME IInv, NEW n \in 1 .. upRead, Write(n) PROVE IInv'
<1>1. TypeOK /\ Flow /\ Bodies /\ UpEnd /\ DownEnd
  BY DEF IInv
<1>2. /\ pc = "write" /\ n <= Lesser(upRead - from, downAllowed - Len(down))
      /\ down' = down \o Bytes(from, from + n) /\ from' = from + n
      /\ pc' = (IF from' = upRead THEN "read" ELSE "write")
      /\ UNCHANGED <<fixed, clientVars, content_length_, stopped, upVars, downRecv,
                     downRead, downAllowed, downEnd, head, closeVars>>
  BY DEF Write, Written
<1>3. /\ Len(down) = from /\ from \in Nat /\ n \in Nat /\ from + n \in 0 .. upRead
      /\ from + n <= downAllowed
  <2>1. /\ Len(down) = from /\ from \in Nat /\ n \in Nat /\ n >= 1
        /\ upRead \in Nat /\ downAllowed \in Nat
    BY <1>1, Types DEF Bodies
  <2>2. n <= Lesser(upRead - from, downAllowed - from)
    BY <1>2, <2>1
  <2>3. QED BY <2>1, <2>2 DEF Lesser
<1>4. /\ down' \in Seq(Nat) /\ Len(down') = from + n
      /\ \A i \in 1 .. Len(down') : down'[i] = i
  <2>1. /\ down \in Seq(Nat) /\ from + n \in Nat /\ Len(down) <= from + n
        /\ \A i \in 1 .. Len(down) : down[i] = i
    BY <1>1, <1>3, Types DEF Bodies
  <2>2. down' = down \o Bytes(Len(down), from + n)
    BY <1>2, <1>3
  <2>3. QED BY <2>1, <2>2, ExtendPrefix
<1>5. downRecv' \in 0 .. Len(down')
  BY <1>1, <1>2, <1>3, <1>4, Types
<1>6. TypeOK'
  <2>1. from' \in 0 .. upRead' /\ pc' \in {"read", "write"}
    BY <1>2, <1>3 DEF upVars
  <2>2. down' \in Seq(Nat)
    BY <1>4
  <2>3. downRead' \in 0 .. downRecv'
    BY <1>1, <1>2 DEF TypeOK
  <2>4. UNCHANGED <<size, declared, eager, mode, faulty, writer, getter, content_length_,
                    stopped, upSent, upRecv, upRead, upAllowed, upEnd, downAllowed, downEnd,
                    head, reset, sclosed, cclosed>>
    BY <1>2 DEF fixed, clientVars, upVars, closeVars
  <2>5. QED BY <1>1, <1>5, <2>1, <2>2, <2>3, <2>4 DEF TypeOK
<1>7. Flow'
  BY <1>1, <1>2, <1>3, <1>4 DEF Flow, upVars
<1>8. Bodies' /\ UpEnd'
  BY <1>1, <1>2, <1>3, <1>4 DEF Bodies, UpEnd, fixed, clientVars, upVars
<1>9. downEnd = "no" /\ getter # "eof"
  BY <1>1, <1>2 DEF DownEnd
<1>10. DownEnd'
  BY <1>1, <1>2, <1>9 DEF DownEnd, fixed, clientVars, closeVars
<1>11. QED BY <1>6, <1>7, <1>8, <1>10 DEF IInv

LEMMA WriteEofIInv == ASSUME IInv, WriteEof PROVE IInv'
<1>1. TypeOK /\ Flow /\ Bodies /\ UpEnd /\ DownEnd
  BY DEF IInv
<1>2. /\ pc = "eof" /\ ~sclosed /\ downEnd' = "sent" /\ pc' = "done"
      /\ sclosed' \in BOOLEAN
      /\ UNCHANGED <<fixed, clientVars, content_length_, from, stopped, upVars, down,
                     downRecv, downRead, downAllowed, head, reset, cclosed>>
  BY DEF WriteEof
<1>3. TypeOK'
  BY <1>1, <1>2 DEF TypeOK, EndStates, fixed, clientVars, upVars
<1>4. Flow' /\ Bodies' /\ UpEnd'
  BY <1>1, <1>2 DEF Flow, Bodies, UpEnd, fixed, clientVars, upVars
<1>5. DownEnd'
  BY <1>1, <1>2 DEF DownEnd, Echoed, fixed, clientVars, upVars
<1>6. QED BY <1>3, <1>4, <1>5 DEF IInv

\* A write or an end that fails, or a stop request: only control changes.
LEMMA GivingUpIInv ==
    ASSUME IInv, WriteFails \/ WriteEofFails \/ StopHandler PROVE IInv'
<1>1. TypeOK /\ Flow /\ Bodies /\ UpEnd /\ DownEnd
  BY DEF IInv
<1>2. /\ \/ pc = "write" /\ (sclosed \/ stopped) /\ pc' = "eof" /\ stopped' = stopped
         \/ pc = "eof" /\ pc' = "done" /\ stopped' = stopped
         \/ pc' = pc /\ stopped' = TRUE
      /\ UNCHANGED <<fixed, clientVars, content_length_, from, upVars, downVars,
                     closeVars>>
  BY DEF WriteFails, WriteEofFails, StopHandler
<1>3. pc' \in {"start", "read", "write", "eof", "done"} /\ stopped' \in BOOLEAN
  BY <1>1, <1>2 DEF TypeOK
<1>4. TypeOK'
  <2>1. UNCHANGED <<fixed, clientVars, content_length_, from, upVars, downVars, closeVars>>
    BY <1>2
  <2>2. UNCHANGED <<size, declared, eager, mode, faulty, writer, getter, upSent, upRecv,
                    upRead, upAllowed, upEnd, down, downRecv, downRead, downAllowed,
                    downEnd, head, reset, sclosed, cclosed>>
    BY <2>1 DEF fixed, clientVars, upVars, downVars, closeVars
  <2>3. {eager, faulty, stopped, sclosed, cclosed}' \subseteq BOOLEAN
    <3>1. {eager, faulty, sclosed, cclosed} \subseteq BOOLEAN
      BY <1>1 DEF TypeOK
    <3>2. QED BY <1>3, <2>2, <3>1
  <2>4. QED BY <1>1, <1>3, <2>1, <2>2, <2>3 DEF TypeOK
<1>5. Flow' /\ Bodies' /\ UpEnd'
  BY <1>1, <1>2 DEF Flow, Bodies, UpEnd, fixed, clientVars, upVars, downVars
<1>6. DownEnd'
  BY <1>1, <1>2 DEF DownEnd, Echoed, Mismatch, fixed, clientVars, upVars, downVars,
     closeVars
<1>7. QED BY <1>4, <1>5, <1>6 DEF IInv

-----------------------------------------------------------------------------
LEMMA NextIInv == IInv /\ [Next]_vars => IInv'
<1> SUFFICES ASSUME IInv, [Next]_vars PROVE IInv'
  OBVIOUS
<1>1. CASE Nghttp2
  BY <1>1, ResetArrivesIInv, ServerRecvIInv, ServerRecvEndIInv, ClientRecvHeadIInv,
     ClientRecvIInv, ClientRecvEndIInv DEF Nghttp2
<1>2. CASE Client
  BY <1>2, ClientWriteIInv, ClientWriteEofIInv, ClientOutcomesIInv, ClientReadIInv
     DEF Client
<1>3. CASE Handler
  BY <1>3, StartIInv, ReadIInv, ReadFailsIInv, WriteIInv, WriteEofIInv, GivingUpIInv
     DEF Handler
<1>4. CASE \E side \in {"server", "client"} : Reset(side)
  BY <1>4, ResetIInv
<1>5. CASE StopHandler
  BY <1>5, GivingUpIInv
<1>6. CASE UNCHANGED vars
  BY <1>6, ClientOnlyIInv DEF vars, clientVars
<1>7. QED BY <1>1, <1>2, <1>3, <1>4, <1>5, <1>6 DEF Next

\* The inductive invariant holds in every state, for all sizes of windows,
\* buffers and bodies.
THEOREM Invariance == Spec => []IInv
<1>1. QED BY InitIInv, NextIInv, PTL DEF Spec

\* The handler sends back what it has read, byte for byte (echo()).
THEOREM EchoedExactly == Spec => []EchoExact
<1>1. IInv => EchoExact
  <2> SUFFICES ASSUME IInv PROVE EchoExact
    OBVIOUS
  <2>1. TypeOK /\ Bodies
    BY DEF IInv
  <2>2. Len(down) <= upRead
    BY <2>1, Types DEF Bodies
  <2>3. QED BY <2>1, <2>2 DEF Bodies, EchoExact
<1>2. QED BY <1>1, Invariance, PTL

\* Neither stream holds more than one window of unread bytes
\* (on_data_chunk_recv_callback(), Stream::consume()).
THEOREM OneWindowBuffered == Spec => []BacklogBounded
<1>1. IInv => BacklogBounded
  <2> SUFFICES ASSUME IInv PROVE BacklogBounded
    OBVIOUS
  <2>1. TypeOK /\ Flow
    BY DEF IInv
  <2>2. upRecv <= Window + upRead /\ downRecv <= Window + downRead
    BY <2>1, Types, EchoAssumption DEF Flow
  <2>3. QED BY <2>1, <2>2, Types, EchoAssumption DEF BacklogBounded
<1>2. QED BY <1>1, Invariance, PTL

\* A response that ends cleanly has the announced length, and is the whole
\* request body unless the handler was stopped (echo()).
THEOREM CleanEndSound == Spec => []CleanEndIsWhole
<1>1. IInv => CleanEndIsWhole
  <2> SUFFICES ASSUME IInv, getter = "eof"
               PROVE  /\ downRead = Len(down) /\ (declared # None => downRead = declared)
                      /\ (~stopped => downRead = size)
    BY DEF CleanEndIsWhole
  <2>1. TypeOK /\ Bodies /\ UpEnd /\ DownEnd
    BY DEF IInv
  <2>2. /\ downEnd = "received" /\ downRead = Len(down) /\ Echoed
        /\ head.length = declared /\ ~Mismatch(declared, downRead)
    BY <2>1 DEF DownEnd
  <2>3. ~stopped => Len(down) = size
    BY <2>1, <2>2 DEF Echoed, Bodies, UpEnd
  <2>4. QED BY <2>2, <2>3 DEF Mismatch
<1>2. QED BY <1>1, Invariance, PTL

\* Every variable keeps its type; no position overtakes the one before it.
THEOREM TypeCorrect == Spec => []TypeOK
<1>1. IInv => TypeOK
  BY DEF IInv
<1>2. QED BY <1>1, Invariance, PTL

-----------------------------------------------------------------------------
(* An exchange never gets stuck.                                           *)

\* A window is never closed on a reader that has read everything, and nobody is
\* in a write with nothing to write.
Open ==
    /\ upRead < upAllowed
    /\ downRead < downAllowed /\ Window <= downAllowed
    /\ pc = "write" => from < upRead
    /\ writer = "write" => upSent < size

\* Undisturbed, a stream closes only when both ends have been sent, so nothing
\* fails, and the response is submitted before the handler goes on.
Calm ==
    ~faulty =>
        /\ declared \in {None, size} /\ ~stopped /\ reset = "none"
        /\ sclosed => upEnd = "received" /\ downEnd # "no"
        /\ cclosed => upEnd # "no" /\ downEnd = "received"
        /\ writer # "failed" /\ (writer = "done" => upEnd # "no")
        /\ getter # "truncated"
        /\ getter # "waiting" \/ downEnd = "received" => head.at = "received"
        /\ pc \in {"write", "eof", "done"} \/ (pc = "read" /\ eager) => head.at # "no"
        /\ pc = "done" => downEnd # "no"

\* Stream::consume() gives back enough: a window is open once all is read.
LEMMA CreditOpens ==
    ASSUME NEW allowed \in Nat, NEW read \in Nat
    PROVE  read < Credit(allowed, read)
<1>1. Window \in Nat /\ Window >= 1 /\ Window \div 2 <= Window
  BY EchoAssumption
<1>2. QED BY <1>1 DEF Credit

LEMMA InitCalm == Init => Open /\ Calm
<1> SUFFICES ASSUME Init PROVE Open /\ Calm
  OBVIOUS
<1>1. Window \in Nat /\ Window >= 1 /\ size \in Nat
  BY EchoAssumption DEF Init
<1>2. Open
  BY <1>1 DEF Init, Open
<1>3. Calm
  BY DEF Init, Calm
<1>4. QED BY <1>2, <1>3

\* The lengths that are announced are those of the bodies.
LEMMA LengthsRight ==
    ASSUME IInv, Calm, ~faulty
    PROVE  /\ ~Overshoots(declared, upSent)
           /\ upEnd = "sent" /\ upRecv = upSent => ~Mismatch(declared, upRecv)
           /\ head.at # "no" => ~Overshoots(head.length, Len(down))
           /\ head.at # "no" /\ downEnd = "sent" /\ downRecv = Len(down) =>
                  ~Mismatch(head.length, downRecv)
<1>1. TypeOK /\ Bodies /\ UpEnd /\ DownEnd
  BY DEF IInv
<1>2. declared \in {None, size} /\ ~stopped
  BY DEF Calm
<1>3. /\ upSent <= size /\ size \in Nat /\ Len(down) <= size /\ Len(down) \in Nat
      /\ upSent \in Nat
  BY <1>1, Types DEF Bodies
<1>4. head.at # "no" => head.length = declared
  BY <1>1 DEF DownEnd
<1>5. upEnd = "sent" /\ upRecv = upSent => upRecv = size
  BY <1>1 DEF UpEnd
<1>6. downEnd = "sent" => Len(down) = size
  BY <1>1, <1>2 DEF DownEnd, Echoed, UpEnd, Bodies
<1>7. QED BY <1>2, <1>3, <1>4, <1>5, <1>6 DEF Overshoots, Mismatch

\* What nghttp2 delivers.
LEMMA Nghttp2Calm == ASSUME IInv, Open, Calm, Nghttp2 PROVE Open' /\ Calm'
<1>1. Open'
  <2>1. UNCHANGED <<upRead, upAllowed, downRead, downAllowed, pc, from, writer, upSent,
                    size>>
    BY DEF Nghttp2, ResetArrives, ServerRecv, ServerRecvEnd, ClientRecvHead, ClientRecv,
       ClientRecvEnd, Arrived, fixed, clientVars, handlerVars, upVars, downVars
  <2>2. QED BY <2>1 DEF Open
<1>2. CASE faulty
  <2>1. faulty' = faulty
    BY DEF Nghttp2, ResetArrives, ServerRecv, ServerRecvEnd, ClientRecvHead, ClientRecv,
       ClientRecvEnd, fixed
  <2>2. QED BY <1>1, <1>2, <2>1 DEF Calm
<1>3. CASE ~faulty
  <2>1. ~ResetArrives
    BY <1>3 DEF ResetArrives, Calm
  <2>2. CASE ServerRecv
    <3>1. UNCHANGED <<fixed, clientVars, handlerVars, upEnd, downVars, closeVars>>
      BY <1>3, <2>2, LengthsRight DEF ServerRecv
    <3>2. QED BY <1>1, <3>1 DEF Calm, fixed, clientVars, handlerVars, downVars, closeVars
  <2>3. CASE ServerRecvEnd
    <3>1. /\ upEnd' = "received" /\ sclosed' = (downEnd # "no")
          /\ UNCHANGED <<fixed, clientVars, handlerVars, downVars, reset, cclosed>>
      BY <1>3, <2>3, LengthsRight DEF ServerRecvEnd
    <3>2. QED BY <1>1, <3>1 DEF Calm, fixed, clientVars, handlerVars, downVars
  <2>4. CASE ClientRecvHead
    <3>1. head'.at = "received"
      BY <2>4 DEF ClientRecvHead, IInv, TypeOK
    <3>2. UNCHANGED <<fixed, clientVars, handlerVars, upVars, downEnd, closeVars>>
      BY <2>4 DEF ClientRecvHead
    <3>3. QED BY <1>1, <3>1, <3>2 DEF Calm, fixed, clientVars, handlerVars, upVars,
             closeVars
  <2>5. CASE ClientRecv
    <3>1. UNCHANGED <<fixed, clientVars, handlerVars, upVars, downEnd, head, closeVars>>
      BY <1>3, <2>5, LengthsRight DEF ClientRecv
    <3>2. QED BY <1>1, <3>1 DEF Calm, fixed, clientVars, handlerVars, upVars, closeVars
  <2>6. CASE ClientRecvEnd
    <3>1. /\ head.at = "received" /\ downEnd' = "received" /\ cclosed' = (upEnd # "no")
          /\ UNCHANGED <<fixed, clientVars, handlerVars, upVars, head, reset, sclosed>>
      BY <1>3, <2>6, LengthsRight DEF ClientRecvEnd
    <3>2. QED BY <1>1, <3>1 DEF Calm, fixed, clientVars, handlerVars, upVars
  <2>7. QED BY <2>1, <2>2, <2>3, <2>4, <2>5, <2>6 DEF Nghttp2
<1>4. QED BY <1>2, <1>3

\* What the client does.
LEMMA ClientCalm == ASSUME IInv, Open, Calm, Client PROVE Open' /\ Calm'
<1>1. TypeOK /\ Flow /\ UpEnd /\ DownEnd
  BY DEF IInv
<1>2. ASSUME NEW n \in 1 .. size, ClientWrite(n) PROVE Open' /\ Calm'
  <2>1. /\ writer = "write" /\ n <= Lesser(size - upSent, upAllowed - upSent)
        /\ upSent' = upSent + n /\ writer' = (IF upSent' = size THEN "eof" ELSE "write")
        /\ UNCHANGED <<fixed, getter, handlerVars, upRead, upAllowed, upEnd, downVars,
                       closeVars>>
    BY <1>2 DEF ClientWrite
  <2>2. writer' = "write" => upSent' < size
    BY <1>1, <2>1, Types DEF Lesser
  <2>3. Open'
    BY <2>1, <2>2 DEF Open, fixed, handlerVars, downVars
  <2>4. Calm'
    BY <2>1 DEF Calm, fixed, handlerVars, downVars, closeVars
  <2>5. QED BY <2>3, <2>4
<1>3. CASE ClientWriteEof
  <2>1. /\ upEnd' = "sent" /\ writer' = "done" /\ cclosed' = (downEnd = "received")
        /\ writer = "eof"
        /\ UNCHANGED <<fixed, getter, handlerVars, upSent, upRead, upAllowed, downVars,
                       reset, sclosed>>
    BY <1>3 DEF ClientWriteEof
  <2>2. Open'
    BY <2>1 DEF Open, fixed, handlerVars, downVars
  <2>3. upEnd = "no"
    BY <1>1, <2>1 DEF UpEnd
  <2>4. Calm'
    BY <2>1, <2>3 DEF Calm, fixed, handlerVars, downVars
  <2>5. QED BY <2>2, <2>4
<1>4. CASE ClientWriteClosed
  <2>1. /\ writer \in {"write", "eof"} /\ cclosed /\ writer' \in {"done", "failed"}
        /\ UNCHANGED <<fixed, getter, handlerVars, upVars, downVars, closeVars>>
    BY <1>4 DEF ClientWriteClosed
  <2>2. faulty
    BY <1>1, <2>1 DEF Calm, UpEnd
  <2>3. Open'
    BY <2>1 DEF Open, fixed, handlerVars, upVars, downVars
  <2>4. QED BY <2>1, <2>2, <2>3 DEF Calm, fixed
<1>5. CASE GetResponse \/ ClientReadEnd
  <2>1. /\ ~faulty => head.at = "received"
        /\ getter' = "truncated" => cclosed /\ (head.at # "received" \/ downEnd # "received")
        /\ UNCHANGED <<fixed, writer, handlerVars, upVars, downVars, closeVars>>
    <3>1. CASE GetResponse
      BY <3>1 DEF GetResponse, Calm
    <3>2. CASE ClientReadEnd
      BY <3>2 DEF ClientReadEnd, Calm
    <3>3. QED BY <1>5, <3>1, <3>2
  <2>2. Open'
    BY <2>1 DEF Open, fixed, handlerVars, upVars, downVars
  <2>3. Calm'
    BY <2>1 DEF Calm, fixed, handlerVars, upVars, downVars, closeVars
  <2>4. QED BY <2>2, <2>3
<1>6. CASE ClientRead
  <2>1. /\ downRead < downRecv
        /\ downRead' = downRead + Lesser(downRecv - downRead, BufferSize)
        /\ downAllowed' = Credit(downAllowed, downRead')
        /\ UNCHANGED <<fixed, clientVars, handlerVars, upVars, down, downRecv, downEnd,
                       head, closeVars>>
    BY <1>6 DEF ClientRead
  <2>2. downRead' \in Nat /\ downRead <= downRead'
    BY <1>1, <2>1, Types, ReadBounds
  <2>3. downRead' < downAllowed'
    BY <1>1, <2>1, <2>2, Types, CreditOpens
  <2>4. downAllowed <= Window + downRead'
    BY <1>1, <2>2, Types, EchoAssumption DEF Flow
  <2>5. downAllowed <= downAllowed' /\ downAllowed' \in Nat
    BY <1>1, <2>1, <2>2, <2>4, Types, CreditBounds
  <2>6. Window <= downAllowed'
    BY <1>1, <2>5, Types, EchoAssumption DEF Open
  <2>7. Open'
    BY <2>1, <2>3, <2>6 DEF Open, fixed, clientVars, handlerVars, upVars
  <2>8. Calm'
    BY <2>1 DEF Calm, fixed, clientVars, handlerVars, upVars, closeVars
  <2>9. QED BY <2>7, <2>8
<1>7. QED BY <1>2, <1>3, <1>4, <1>5, <1>6 DEF Client

\* Undisturbed, response.submit() succeeds.
LEMMA SubmitCalm ==
    ASSUME IInv, NEW length, NEW next, SubmitAndGo(length, next)
    PROVE  /\ ~faulty => head'.at # "no" /\ pc' = next
           /\ head.at # "no" => head' = head
           /\ pc' \in {next, "done"}
<1>1. CASE faulty /\ ~Submitted /\ pc' = "done" /\ UNCHANGED head
  BY <1>1 DEF Submitted
<1>2. CASE /\ head' = IF Submitted THEN head ELSE [at |-> "sent", length |-> length]
           /\ pc' = next
  BY <1>2 DEF Submitted
<1>3. QED BY <1>1, <1>2 DEF SubmitAndGo

\* The handler.
LEMMA HandlerReadsCalm ==
    ASSUME IInv, Open, Calm, Start \/ Read \/ ReadFails PROVE Open' /\ Calm'
<1>1. TypeOK /\ Flow /\ Bodies /\ DownEnd
  BY DEF IInv
<1>2. CASE Start
  <2>1. /\ pc = "start" /\ pc' \in {"read", "done"}
        /\ ~faulty => pc' = "read" /\ (eager => head'.at # "no")
        /\ head.at # "no" => head' = head
        /\ UNCHANGED <<fixed, clientVars, from, stopped, upVars, down, downRead,
                       downAllowed, downEnd, closeVars>>
    <3>1. CASE eager
      BY <1>2, <3>1, SubmitCalm DEF Start
    <3>2. CASE ~eager
      BY <1>2, <3>2 DEF Start
    <3>3. QED BY <3>1, <3>2
  <2>2. Open'
    BY <2>1 DEF Open, fixed, clientVars, upVars
  <2>3. Calm'
    BY <2>1 DEF Calm, fixed, clientVars, upVars, closeVars
  <2>4. QED BY <2>2, <2>3
<1>3. CASE Read
  <2>1. /\ pc = "read" /\ upRead < upRecv
        /\ upRead' = upRead + Lesser(upRecv - upRead, BufferSize)
        /\ upAllowed' = Credit(upAllowed, upRead')
        /\ pc' \in {"write", "done"} /\ (~faulty => pc' = "write" /\ head'.at # "no")
        /\ head.at # "no" => head' = head
        /\ UNCHANGED <<fixed, clientVars, from, stopped, upSent, upEnd, down, downRead,
                       downAllowed, downEnd, closeVars>>
    BY <1>3, SubmitCalm DEF Read, ReadSize
  <2>2. upRead' \in Nat /\ upRead < upRead'
    BY <1>1, <2>1, Types, EchoAssumption DEF Lesser
  <2>3. upRead' < upAllowed'
    BY <1>1, <2>1, <2>2, Types, CreditOpens
  <2>4. from' < upRead'
    BY <1>1, <2>1, <2>2, Types
  <2>5. Open'
    BY <2>1, <2>3, <2>4 DEF Open, fixed, clientVars
  <2>6. Calm'
    BY <2>1 DEF Calm, fixed, clientVars, closeVars
  <2>7. QED BY <2>5, <2>6
<1>4. CASE ReadFails
  <2>1. /\ pc = "read"
        /\ pc' \in {"eof", "done"} /\ (~faulty => pc' = "eof" /\ head'.at # "no")
        /\ head.at # "no" => head' = head
        /\ UNCHANGED <<fixed, clientVars, from, stopped, upVars, down, downRead,
                       downAllowed, downEnd, closeVars>>
    BY <1>4, SubmitCalm DEF ReadFails
  <2>2. Open'
    BY <2>1 DEF Open, fixed, clientVars, upVars
  <2>3. Calm'
    BY <2>1 DEF Calm, fixed, clientVars, upVars, closeVars
  <2>4. QED BY <2>2, <2>3
<1>5. QED BY <1>2, <1>3, <1>4

LEMMA HandlerWritesCalm ==
    ASSUME IInv, Open, Calm,
           \/ \E n \in 1 .. upRead : Write(n)
           \/ WriteFails \/ WriteEof \/ WriteEofFails
    PROVE  Open' /\ Calm'
<1>1. TypeOK /\ Bodies /\ UpEnd /\ DownEnd
  BY DEF IInv
<1>2. ASSUME NEW n \in 1 .. upRead, Write(n) PROVE Open' /\ Calm'
  <2>1. /\ pc = "write" /\ n <= Lesser(upRead - from, downAllowed - Len(down))
        /\ from' = from + n /\ pc' = (IF from' = upRead THEN "read" ELSE "write")
        /\ UNCHANGED <<fixed, clientVars, stopped, upVars, downRead, downAllowed,
                       downEnd, head, closeVars>>
    BY <1>2 DEF Write, Written
  <2>2. pc' = "write" => from' < upRead
    <3>1. from \in Nat /\ upRead \in Nat /\ n \in Nat /\ Len(down) \in Nat
          /\ downAllowed \in Nat
      BY <1>1, Types
    <3>2. QED BY <2>1, <3>1 DEF Lesser
  <2>3. Open'
    BY <2>1, <2>2 DEF Open, fixed, clientVars, upVars
  <2>4. Calm'
    BY <2>1 DEF Calm, fixed, clientVars, upVars, closeVars
  <2>5. QED BY <2>3, <2>4
<1>3. CASE WriteEof
  <2>1. /\ pc = "eof" /\ ~sclosed /\ downEnd' = "sent" /\ pc' = "done"
        /\ sclosed' = (upEnd = "received")
        /\ UNCHANGED <<fixed, clientVars, from, stopped, upVars, down, downRead,
                       downAllowed, head, reset, cclosed>>
    BY <1>3 DEF WriteEof
  <2>2. Open'
    BY <2>1 DEF Open, fixed, clientVars, upVars
  <2>3. downEnd = "no"
    BY <1>1, <2>1 DEF DownEnd
  <2>4. Calm'
    BY <2>1, <2>3 DEF Calm, fixed, clientVars, upVars
  <2>5. QED BY <2>2, <2>4
<1>4. CASE WriteFails \/ WriteEofFails
  <2>1. /\ pc \in {"write", "eof"} /\ pc' \in {"eof", "done"} /\ (sclosed \/ stopped)
        /\ UNCHANGED <<fixed, clientVars, from, stopped, upVars, downVars, closeVars>>
    BY <1>4 DEF WriteFails, WriteEofFails
  <2>2. faulty
    BY <1>1, <2>1 DEF Calm, DownEnd
  <2>3. Open'
    BY <2>1 DEF Open, fixed, clientVars, upVars, downVars
  <2>4. QED BY <2>1, <2>2, <2>3 DEF Calm, fixed
<1>5. QED BY <1>2, <1>3, <1>4

LEMMA NextCalm == IInv /\ Open /\ Calm /\ [Next]_vars => Open' /\ Calm'
<1> SUFFICES ASSUME IInv, Open, Calm, [Next]_vars PROVE Open' /\ Calm'
  OBVIOUS
<1>1. CASE Nghttp2
  BY <1>1, Nghttp2Calm
<1>2. CASE Client
  BY <1>2, ClientCalm
<1>3. CASE Handler
  BY <1>3, HandlerReadsCalm, HandlerWritesCalm DEF Handler
<1>4. CASE StopHandler \/ \E side \in {"server", "client"} : Reset(side)
  <2>1. /\ faulty
        /\ UNCHANGED <<fixed, clientVars, pc, from, upVars, downVars>>
    BY <1>4 DEF StopHandler, Reset, handlerVars
  <2>2. QED BY <2>1 DEF Open, Calm, fixed, clientVars, upVars, downVars
<1>5. CASE UNCHANGED vars
  BY <1>5 DEF Open, Calm, vars, fixed, clientVars, handlerVars, upVars, downVars,
     closeVars
<1>6. QED BY <1>1, <1>2, <1>3, <1>4, <1>5 DEF Next

\* Windows open again, and an undisturbed exchange closes no stream early.
THEOREM StaysCalm == Spec => [](Open /\ Calm)
<1>1. QED BY InitCalm, NextCalm, Invariance, PTL DEF Spec

\* A handler that waits to read has a client that can still write.
LEMMA ReaderServed ==
    ASSUME IInv, Open, Calm, ~faulty, Suits, WriterWaits, GetterWaits, NothingOnItsWay
    PROVE  ~(pc = "read" /\ upRead = upRecv /\ upEnd # "received")
<1> SUFFICES ASSUME pc = "read", upRead = upRecv, upEnd # "received" PROVE FALSE
  OBVIOUS
<1>1. TypeOK /\ UpEnd
  BY DEF IInv
<1>2. ~sclosed /\ (cclosed => upEnd = "sent")
  BY <1>1 DEF Calm, TypeOK, EndStates
<1>3. upRecv = upSent /\ upEnd = "no" /\ ~cclosed
  BY <1>1, <1>2 DEF NothingOnItsWay, Calm, TypeOK, EndStates
<1>4. writer \notin {"done", "failed"} /\ upSent # upAllowed
  BY <1>1, <1>3, Types DEF Calm, Open
<1>5. ~MayWrite
  BY <1>4 DEF WriterWaits
<1>6. mode = "responseFirst" /\ getter = "waiting" /\ eager
  BY <1>5 DEF MayWrite, Suits
<1>7. head.at = "received"
  BY <1>3, <1>6 DEF Calm, NothingOnItsWay
<1>8. QED BY <1>6, <1>7 DEF GetterWaits, MayRead

\* A handler that waits to write has a client that can still read.
LEMMA WriterServed ==
    ASSUME IInv, Open, Calm, ~faulty, Suits, GetterWaits, NothingOnItsWay, ~sclosed
    PROVE  ~(pc \in {"write", "eof"} /\ Len(down) = downAllowed)
<1> SUFFICES ASSUME pc \in {"write", "eof"}, Len(down) = downAllowed PROVE FALSE
  OBVIOUS
<1>1. TypeOK /\ Bodies /\ UpEnd /\ DownEnd
  BY DEF IInv
<1>2. downEnd = "no" /\ ~cclosed /\ head.at # "no"
  BY <1>1 DEF DownEnd, Calm
<1>3. head.at = "received" /\ downRecv = Len(down)
  BY <1>2 DEF NothingOnItsWay
<1>4. downRead # downRecv
  BY <1>1, <1>3, Types DEF Open
<1>5. getter \notin {"eof", "truncated"}
  BY <1>1, <1>2 DEF DownEnd, Calm
<1>6. ~MayRead
  BY <1>3, <1>4, <1>5 DEF GetterWaits
<1>7. mode = "writeFirst" /\ size <= Window /\ writer # "done"
  BY <1>6 DEF MayRead, Suits
<1>8. from >= size
  BY <1>1, <1>7, Types, EchoAssumption DEF Bodies, Open
<1>9. CASE pc = "write"
  BY <1>1, <1>8, <1>9, Types DEF Open
<1>10. CASE pc = "eof"
  BY <1>1, <1>7, <1>10 DEF DownEnd, UpEnd, Echoed, Calm
<1>11. QED BY <1>9, <1>10

\* An undisturbed exchange that can do nothing more is complete, whatever the
\* sizes of windows, buffers and bodies (echo(), ClientRequest::get_response()).
THEOREM ExchangeNeverStuck == Spec => []NeverStuck
<1>1. ASSUME IInv, Open, Calm PROVE NeverStuck
  <2> SUFFICES ASSUME ~faulty, Suits, WriterWaits, GetterWaits, HandlerWaits,
                      NothingOnItsWay
               PROVE  Completed
    BY DEF NeverStuck
  <2>1. TypeOK /\ UpEnd /\ DownEnd
    BY <1>1 DEF IInv
  <2>2. pc = "done"
    BY <1>1, ReaderServed, WriterServed DEF HandlerWaits
  <2>3. downEnd # "no" /\ upEnd = "received" /\ writer = "done" /\ head.at # "no"
    BY <1>1, <2>1, <2>2 DEF Calm, DownEnd, UpEnd, Echoed
  <2>4. downEnd = "received"
    BY <1>1, <2>1, <2>3 DEF NothingOnItsWay, Calm, TypeOK, EndStates
  <2>5. head.at = "received" /\ MayRead
    BY <1>1, <2>3, <2>4 DEF Calm, MayRead
  <2>6. getter = "eof"
    BY <1>1, <2>1, <2>4, <2>5 DEF GetterWaits, Calm, TypeOK
  <2>7. QED BY <2>2, <2>3, <2>6 DEF Completed
<1>2. QED BY <1>1, Invariance, StaysCalm, PTL

-----------------------------------------------------------------------------
(* An exchange comes to an end.                                            *)

\* How far an exchange has come: the bytes that have been moved, and the stages
\* that the coroutines, the ends of the bodies and the closing have reached.
WriterStage == IF writer = "write" THEN 0 ELSE IF writer = "eof" THEN 1 ELSE 2
GetterStage == IF getter = "waiting" THEN 0 ELSE IF getter = "reading" THEN 1 ELSE 2
HandlerStage == IF pc = "start" THEN 0 ELSE IF pc \in {"read", "write"} THEN 1
                ELSE IF pc = "eof" THEN 2 ELSE 3
Stage(at) == IF at = "no" THEN 0 ELSE IF at = "sent" THEN 1 ELSE 2
One(b) == IF b THEN 1 ELSE 0

Moved == (upSent + upRecv + upRead) + (Len(down) + downRecv + downRead)
Users == WriterStage + GetterStage + HandlerStage + One(stopped)
Wire == Stage(upEnd) + Stage(downEnd) + Stage(head.at)
Closing == One(sclosed) + One(cclosed) + One(reset # "none")

Work == Moved + Users + Wire + Closing

\* Every step of an exchange, disturbed or not, takes it further: nobody is woken
\* for nothing, and no two coroutines can keep each other busy (write(),
\* read_some() and echo() loop only over bytes).
EveryStepCounts == [][Work < Work']_vars

\* The number of steps is bounded by the size of the body.
WorkBounded == Work <= 6 * size + 17

\* The stages are numbers, and bytes are moved no further than the body.
Measured ==
    /\ Moved \in Nat /\ Moved <= 6 * size /\ size \in Nat
    /\ Users \in 0 .. 8 /\ Wire \in 0 .. 6 /\ Closing \in 0 .. 3

LEMMA WorkTypes == IInv => Measured
<1> SUFFICES ASSUME IInv PROVE Measured
  OBVIOUS
<1>1. /\ size \in Nat /\ upSent \in 0 .. size /\ upRecv \in 0 .. size
      /\ upRead \in 0 .. size /\ Len(down) \in 0 .. size /\ downRecv \in 0 .. size
      /\ downRead \in 0 .. size
  BY Types DEF IInv, Bodies
<1>2. WriterStage \in 0 .. 2 /\ GetterStage \in 0 .. 2 /\ HandlerStage \in 0 .. 3
  BY DEF WriterStage, GetterStage, HandlerStage
<1>3. Stage(upEnd) \in 0 .. 2 /\ Stage(downEnd) \in 0 .. 2 /\ Stage(head.at) \in 0 .. 2
  BY DEF Stage
<1>4. /\ One(stopped) \in 0 .. 1 /\ One(sclosed) \in 0 .. 1 /\ One(cclosed) \in 0 .. 1
      /\ One(reset # "none") \in 0 .. 1
  BY DEF One
<1>5. Users \in 0 .. 8 /\ Wire \in 0 .. 6 /\ Closing \in 0 .. 3
  BY <1>2, <1>3, <1>4 DEF Users, Wire, Closing
<1>6. Moved \in Nat /\ Moved <= 6 * size
  BY <1>1 DEF Moved
<1>7. QED BY <1>1, <1>5, <1>6 DEF Measured

\* A step that takes one part further and none back.
LEMMA WorkGrows ==
    ASSUME IInv, IInv', Moved <= Moved', Users <= Users', Wire <= Wire',
           Closing <= Closing',
           Moved < Moved' \/ Users < Users' \/ Wire < Wire' \/ Closing < Closing'
    PROVE  Work < Work'
<1>1. Measured /\ Measured'
  BY WorkTypes, PTL
<1>2. Moved \in Nat /\ Users \in Nat /\ Wire \in Nat /\ Closing \in Nat
  BY <1>1 DEF Measured
<1>3. Moved' \in Nat /\ Users' \in Nat /\ Wire' \in Nat /\ Closing' \in Nat
  BY <1>1 DEF Measured
<1> DEFINE m == Moved u == Users w == Wire c == Closing
           mm == Moved' uu == Users' ww == Wire' cc == Closing'
<1>4. Work = m + u + w + c /\ Work' = mm + uu + ww + cc
  BY DEF Work
<1> HIDE DEF m, u, w, c, mm, uu, ww, cc
<1>5. /\ m \in Nat /\ u \in Nat /\ w \in Nat /\ c \in Nat
      /\ mm \in Nat /\ uu \in Nat /\ ww \in Nat /\ cc \in Nat
      /\ m <= mm /\ u <= uu /\ w <= ww /\ c <= cc
      /\ m < mm \/ u < uu \/ w < ww \/ c < cc
  BY <1>2, <1>3 DEF m, u, w, c, mm, uu, ww, cc
<1>6. QED BY <1>4, <1>5

\* What is kept or grows is not taken back.
LEMMA KeptOrMore == ASSUME NEW m \in Nat, NEW n \in Nat, n = m \/ m < n PROVE m <= n
OBVIOUS

\* A sum grows with any of its terms.
LEMMA SumGrows ==
    ASSUME NEW a \in Nat, NEW b \in Nat, NEW c \in Nat,
           NEW x \in Nat, NEW y \in Nat, NEW z \in Nat, a <= x, b <= y, c <= z
    PROVE  /\ a + b + c \in Nat /\ x + y + z \in Nat /\ a + b + c <= x + y + z
           /\ a < x \/ b < y \/ c < z => a + b + c < x + y + z
OBVIOUS

\* Giving a stream up takes the closing further, unless it was given up before
\* and the side's own stream is closed.
LEMMA ResetWork ==
    ASSUME IInv, NEW side \in {"server", "client"}, ResetBy(side)
    PROVE  /\ Closing <= Closing'
           /\ reset = "none" \/ (side = "server" /\ ~sclosed)
              \/ (side = "client" /\ ~cclosed) => Closing < Closing'
<1>1. /\ One(sclosed) \in 0 .. 1 /\ One(cclosed) \in 0 .. 1 /\ One(reset # "none") \in 0 .. 1
      /\ One(sclosed') \in 0 .. 1 /\ One(cclosed') \in 0 .. 1
      /\ One(reset' # "none") \in 0 .. 1
  BY DEF One
<1>2. /\ (sclosed => sclosed') /\ (cclosed => cclosed')
      /\ (side = "server" => sclosed') /\ (side = "client" => cclosed')
  BY DEF ResetBy
<1>3. /\ One(sclosed) <= One(sclosed') /\ One(cclosed) <= One(cclosed')
      /\ side = "server" /\ ~sclosed => One(sclosed) < One(sclosed')
      /\ side = "client" /\ ~cclosed => One(cclosed) < One(cclosed')
  BY <1>2 DEF One
<1>4. /\ One(reset # "none") <= One(reset' # "none")
      /\ reset = "none" => One(reset # "none") < One(reset' # "none")
  BY DEF ResetBy, One
<1>5. /\ One(sclosed) \in Nat /\ One(cclosed) \in Nat /\ One(reset # "none") \in Nat
      /\ One(sclosed') \in Nat /\ One(cclosed') \in Nat /\ One(reset' # "none") \in Nat
  BY <1>1
<1>6. /\ Closing <= Closing'
      /\ \/ One(sclosed) < One(sclosed') \/ One(cclosed) < One(cclosed')
         \/ One(reset # "none") < One(reset' # "none")
         => Closing < Closing'
  <2> DEFINE a == One(sclosed)   b == One(cclosed)   c == One(reset # "none")
             x == One(sclosed')  y == One(cclosed')  z == One(reset' # "none")
  <2>1. /\ a \in Nat /\ b \in Nat /\ c \in Nat /\ x \in Nat /\ y \in Nat /\ z \in Nat
        /\ a <= x /\ b <= y /\ c <= z
    BY <1>3, <1>4, <1>5
  <2>2. Closing = a + b + c /\ Closing' = x + y + z
    BY DEF Closing
  <2> HIDE DEF a, b, c, x, y, z
  <2>3. Closing <= Closing' /\ (a < x \/ b < y \/ c < z => Closing < Closing')
    BY <2>1, <2>2, SumGrows
  <2>4. QED BY <2>3 DEF a, b, c, x, y, z
<1>7. QED BY <1>3, <1>4, <1>6

Positions == <<upSent, upRecv, upRead, down, downRecv, downRead>>
Ends == <<upEnd, downEnd, head>>

\* The parts of the work that a step leaves alone.
LEMMA WorkKept ==
    ASSUME IInv
    PROVE  /\ UNCHANGED Positions => Moved <= Moved'
           /\ UNCHANGED <<clientVars, pc, stopped>> => Users <= Users'
           /\ UNCHANGED Ends => Wire <= Wire'
           /\ UNCHANGED closeVars => Closing <= Closing'
<1>1. Moved <= Moved /\ Wire <= Wire /\ Users <= Users /\ Closing <= Closing
  BY WorkTypes DEF Measured
<1>2. UNCHANGED Positions => Moved' = Moved
  BY DEF Moved, Positions
<1>3. UNCHANGED Ends => Wire' = Wire
  BY DEF Wire, Stage, Ends
<1>4. UNCHANGED <<clientVars, pc, stopped>> => Users' = Users
  BY DEF Users, WriterStage, GetterStage, HandlerStage, One, clientVars
<1>5. UNCHANGED closeVars => Closing' = Closing
  BY DEF Closing, One, closeVars
<1>6. QED BY <1>1, <1>2, <1>3, <1>4, <1>5

\* A step that only closes.
LEMMA ClosingWork ==
    ASSUME IInv, IInv', Closing < Closing',
           UNCHANGED <<clientVars, handlerVars, upVars, downVars>>
    PROVE  Work < Work'
<1>1. UNCHANGED Positions /\ UNCHANGED Ends /\ UNCHANGED <<clientVars, pc, stopped>>
  BY DEF Positions, Ends, handlerVars, upVars, downVars
<1>2. Measured /\ Measured'
  BY WorkTypes, PTL
<1>3. Closing <= Closing'
  BY <1>2 DEF Measured
<1>4. QED BY <1>1, <1>3, WorkKept, WorkGrows

\* Bytes are moved when one position goes on and none goes back.
Numbers ==
    /\ upSent \in Nat /\ upRecv \in Nat /\ upRead \in Nat
    /\ Len(down) \in Nat /\ downRecv \in Nat /\ downRead \in Nat

LEMMA NumbersNat == TypeOK => Numbers
BY Types DEF Numbers

LEMMA MovedGrows ==
    ASSUME TypeOK, TypeOK',
           upSent' = upSent \/ upSent < upSent', upRecv' = upRecv \/ upRecv < upRecv',
           upRead' = upRead \/ upRead < upRead',
           Len(down') = Len(down) \/ Len(down) < Len(down'),
           downRecv' = downRecv \/ downRecv < downRecv',
           downRead' = downRead \/ downRead < downRead',
           \/ upSent < upSent' \/ upRecv < upRecv' \/ upRead < upRead'
           \/ Len(down) < Len(down') \/ downRecv < downRecv' \/ downRead < downRead'
    PROVE  Moved < Moved' /\ Moved <= Moved'
<1> DEFINE u == upSent + upRecv + upRead       d == Len(down) + downRecv + downRead
           uu == upSent' + upRecv' + upRead'   dd == Len(down') + downRecv' + downRead'
<1>1. Numbers /\ Numbers'
  BY NumbersNat, PTL
<1>2. upSent <= upSent' /\ upRecv <= upRecv' /\ upRead <= upRead'
  BY <1>1 DEF Numbers
<1>3. Len(down) <= Len(down') /\ downRecv <= downRecv' /\ downRead <= downRead'
  BY <1>1 DEF Numbers
<1>4. /\ u \in Nat /\ uu \in Nat /\ u <= uu
      /\ upSent < upSent' \/ upRecv < upRecv' \/ upRead < upRead' => u < uu
  BY <1>1, <1>2, SumGrows DEF Numbers
<1>5. /\ d \in Nat /\ dd \in Nat /\ d <= dd
      /\ Len(down) < Len(down') \/ downRecv < downRecv' \/ downRead < downRead' => d < dd
  BY <1>1, <1>3, SumGrows DEF Numbers
<1>6. Moved = u + d /\ Moved' = uu + dd
  BY DEF Moved
<1>7. u < uu \/ d < dd
  BY <1>4, <1>5
<1> HIDE DEF u, d, uu, dd
<1>8. QED BY <1>4, <1>5, <1>6, <1>7

\* The ends move when one stage is passed and none is taken back.
LEMMA WireGrows ==
    ASSUME upEnd' = upEnd \/ Stage(upEnd) < Stage(upEnd'),
           downEnd' = downEnd \/ Stage(downEnd) < Stage(downEnd'),
           head' = head \/ Stage(head.at) <= Stage(head'.at)
    PROVE  /\ Wire <= Wire'
           /\ \/ Stage(upEnd) < Stage(upEnd') \/ Stage(downEnd) < Stage(downEnd')
              \/ Stage(head.at) < Stage(head'.at)
              => Wire < Wire'
<1>1. /\ Stage(upEnd) \in Nat /\ Stage(downEnd) \in Nat /\ Stage(head.at) \in Nat
      /\ Stage(upEnd') \in Nat /\ Stage(downEnd') \in Nat /\ Stage(head'.at) \in Nat
  BY DEF Stage
<1>2. Stage(upEnd) <= Stage(upEnd')
  BY <1>1, KeptOrMore
<1>3. Stage(downEnd) <= Stage(downEnd')
  BY <1>1, KeptOrMore
<1>4. Stage(head.at) <= Stage(head'.at)
  BY <1>1, KeptOrMore
<1>5. QED BY <1>1, <1>2, <1>3, <1>4, SumGrows DEF Wire

\* The stages in the order in which they are passed.
LEMMA Stages == Stage("no") < Stage("sent") /\ Stage("sent") < Stage("received")
BY DEF Stage

\* What reaches the server moves bytes or an end, or closes the stream.
LEMMA ServerWork ==
    ASSUME IInv, IInv', ResetArrives \/ ServerRecv \/ ServerRecvEnd PROVE Work < Work'
<1>1. TypeOK /\ TypeOK'
  BY DEF IInv
<1>2. CASE ResetArrives
  <2>1. Closing < Closing'
    BY <1>1, <1>2 DEF ResetArrives, Closing, One
  <2>2. QED BY <1>2, <2>1, ClosingWork DEF ResetArrives
<1>3. CASE /\ ~sclosed /\ ResetBy("server")
           /\ UNCHANGED <<clientVars, handlerVars, upVars, downVars>>
  BY <1>3, ResetWork, ClosingWork
<1>4. CASE ServerRecv /\ ~Overshoots(declared, upSent)
  <2>1. /\ upRecv < upSent /\ upRecv' = upSent
        /\ UNCHANGED <<clientVars, handlerVars, upSent, upRead, upEnd, downVars, closeVars>>
    BY <1>4 DEF ServerRecv
  <2>2. Len(down') = Len(down) /\ UNCHANGED <<downRecv, downRead>>
    BY <2>1 DEF downVars
  <2>3. Moved < Moved' /\ Moved <= Moved'
    BY <1>1, <2>1, <2>2, MovedGrows
  <2>4. UNCHANGED Ends /\ UNCHANGED <<clientVars, pc, stopped>>
    BY <2>1 DEF Ends, handlerVars, downVars
  <2>5. QED BY <2>1, <2>3, <2>4, WorkKept, WorkGrows
<1>5. CASE ServerRecvEnd /\ ~Mismatch(declared, upRecv)
  <2>1. /\ ~sclosed /\ upEnd = "sent" /\ upEnd' = "received"
        /\ UNCHANGED <<clientVars, handlerVars, upSent, upRecv, upRead, downVars, reset,
                       cclosed>>
    BY <1>5 DEF ServerRecvEnd
  <2>2. Wire < Wire' /\ Wire <= Wire'
    BY <2>1, WireGrows, Stages DEF downVars
  <2>3. Closing <= Closing'
    BY <2>1 DEF Closing, One
  <2>4. UNCHANGED Positions /\ UNCHANGED <<clientVars, pc, stopped>>
    BY <2>1 DEF Positions, handlerVars, downVars
  <2>5. QED BY <2>2, <2>3, <2>4, WorkKept, WorkGrows
<1>6. QED BY <1>2, <1>3, <1>4, <1>5 DEF ServerRecv, ServerRecvEnd, upVars

\* So does what reaches the client.
LEMMA ClientSideWork ==
    ASSUME IInv, IInv', ClientRecvHead \/ ClientRecv \/ ClientRecvEnd PROVE Work < Work'
<1>1. TypeOK /\ TypeOK'
  BY DEF IInv
<1>2. CASE ClientRecvHead
  <2>1. /\ head.at = "sent" /\ head'.at = "received"
        /\ UNCHANGED <<clientVars, handlerVars, upVars, down, downRecv, downRead, downEnd,
                       closeVars>>
    BY <1>1, <1>2 DEF ClientRecvHead, TypeOK
  <2>2. Wire < Wire' /\ Wire <= Wire'
    <3>1. UNCHANGED <<upEnd, downEnd>>
      BY <2>1 DEF upVars
    <3>2. Stage(head.at) < Stage(head'.at) /\ Stage(head.at) <= Stage(head'.at)
      BY <2>1 DEF Stage
    <3>3. QED BY <3>1, <3>2, WireGrows
  <2>3. UNCHANGED Positions /\ UNCHANGED <<clientVars, pc, stopped>>
    BY <2>1 DEF Positions, handlerVars, upVars
  <2>4. QED BY <2>1, <2>2, <2>3, WorkKept, WorkGrows
<1>3. CASE /\ ~cclosed /\ ResetBy("client")
           /\ UNCHANGED <<clientVars, handlerVars, upVars, downVars>>
  BY <1>3, ResetWork, ClosingWork
<1>4. CASE ClientRecv /\ ~Overshoots(head.length, Len(down))
  <2>1. /\ downRecv < Len(down) /\ downRecv' = Len(down)
        /\ UNCHANGED <<clientVars, handlerVars, upVars, down, downRead, downEnd, head,
                       closeVars>>
    BY <1>4 DEF ClientRecv
  <2>2. Len(down') = Len(down) /\ UNCHANGED <<upSent, upRecv, upRead>>
    BY <2>1 DEF upVars
  <2>3. Moved < Moved' /\ Moved <= Moved'
    BY <1>1, <2>1, <2>2, MovedGrows
  <2>4. UNCHANGED Ends /\ UNCHANGED <<clientVars, pc, stopped>>
    BY <2>1 DEF Ends, handlerVars, upVars
  <2>5. QED BY <2>1, <2>3, <2>4, WorkKept, WorkGrows
<1>5. CASE ClientRecvEnd /\ ~Mismatch(head.length, downRecv)
  <2>1. /\ ~cclosed /\ downEnd = "sent" /\ downEnd' = "received"
        /\ UNCHANGED <<clientVars, handlerVars, upVars, down, downRecv, downRead, head,
                       reset, sclosed>>
    BY <1>5 DEF ClientRecvEnd
  <2>2. Wire < Wire' /\ Wire <= Wire'
    BY <2>1, WireGrows, Stages DEF upVars
  <2>3. Closing <= Closing'
    BY <2>1 DEF Closing, One
  <2>4. UNCHANGED Positions /\ UNCHANGED <<clientVars, pc, stopped>>
    BY <2>1 DEF Positions, handlerVars, upVars
  <2>5. QED BY <2>2, <2>3, <2>4, WorkKept, WorkGrows
<1>6. QED BY <1>2, <1>3, <1>4, <1>5 DEF ClientRecv, ClientRecvEnd, downVars

\* Users grow with the stage of any of the three.
LEMMA UsersGrow ==
    ASSUME WriterStage <= WriterStage', GetterStage <= GetterStage',
           HandlerStage <= HandlerStage', UNCHANGED stopped
    PROVE  /\ Users <= Users'
           /\ \/ WriterStage < WriterStage' \/ GetterStage < GetterStage'
              \/ HandlerStage < HandlerStage'
              => Users < Users'
<1>1. /\ WriterStage \in Nat /\ GetterStage \in Nat /\ HandlerStage \in Nat
      /\ WriterStage' \in Nat /\ GetterStage' \in Nat /\ HandlerStage' \in Nat
  <2>1. WriterStage \in Nat /\ WriterStage' \in Nat
    BY DEF WriterStage
  <2>2. GetterStage \in Nat /\ GetterStage' \in Nat
    BY DEF GetterStage
  <2>3. HandlerStage \in Nat /\ HandlerStage' \in Nat
    BY DEF HandlerStage
  <2>4. QED BY <2>1, <2>2, <2>3
<1>2. One(stopped) \in 0 .. 1 /\ One(stopped') = One(stopped)
  BY DEF One
<1>3. QED BY <1>1, <1>2 DEF Users

\* The client's write() moves bytes, its write_eof() an end, and each call that
\* fails or completes is over.
LEMMA ClientWritesWork ==
    ASSUME IInv, IInv',
           \/ \E n \in 1 .. size : ClientWrite(n)
           \/ ClientWriteEof \/ ClientWriteClosed
    PROVE  Work < Work'
<1>1. TypeOK /\ TypeOK'
  BY DEF IInv
<1>2. GetterStage' = GetterStage /\ HandlerStage' = HandlerStage /\ UNCHANGED stopped
  BY DEF ClientWrite, ClientWriteEof, ClientWriteClosed, handlerVars, GetterStage,
         HandlerStage
<1>3. GetterStage <= GetterStage' /\ HandlerStage <= HandlerStage'
  BY <1>2 DEF GetterStage, HandlerStage
<1>4. CASE \E n \in 1 .. size : ClientWrite(n)
  <2>1. PICK n \in 1 .. size : ClientWrite(n)
    BY <1>4
  <2>2. /\ upSent' = upSent + n
        /\ UNCHANGED <<upRecv, upRead, down, downRecv, downRead>>
        /\ UNCHANGED Ends /\ UNCHANGED closeVars
    BY <2>1 DEF ClientWrite, downVars, Ends
  <2>3. Moved < Moved' /\ Moved <= Moved'
    <3>1. upSent \in Nat /\ size \in Nat
      BY <1>1, Types
    <3>2. upSent < upSent'
      BY <2>2, <3>1
    <3>3. QED BY <1>1, <2>2, <3>2, MovedGrows
  <2>4. WriterStage <= WriterStage'
    <3>1. writer = "write" /\ writer' \in {"write", "eof"}
      BY <2>1 DEF ClientWrite
    <3>2. QED BY <3>1 DEF WriterStage
  <2>5. Users <= Users'
    BY <1>2, <1>3, <2>4, UsersGrow
  <2>6. QED BY <2>2, <2>3, <2>5, WorkKept, WorkGrows
<1>5. CASE ClientWriteEof
  <2>1. UNCHANGED Positions /\ UNCHANGED <<downEnd, head>> /\ UNCHANGED <<reset, sclosed>>
    BY <1>5 DEF ClientWriteEof, downVars, Positions
  <2>2. WriterStage < WriterStage' /\ WriterStage <= WriterStage'
    <3>1. writer = "eof" /\ writer' = "done"
      BY <1>5 DEF ClientWriteEof
    <3>2. QED BY <3>1 DEF WriterStage
  <2>3. Users < Users' /\ Users <= Users'
    BY <1>2, <1>3, <2>2, UsersGrow
  <2>4. upEnd = "no" /\ upEnd' = "sent"
    BY <1>5 DEF ClientWriteEof, IInv, UpEnd
  <2>5. Wire <= Wire'
    BY <2>1, <2>4, WireGrows, Stages
  <2>6. ~cclosed
    BY <1>5 DEF ClientWriteEof
  <2>7. Closing <= Closing'
    BY <2>1, <2>6 DEF Closing, One
  <2>8. QED BY <2>1, <2>3, <2>5, <2>7, WorkKept, WorkGrows
<1>6. CASE ClientWriteClosed
  <2>1. UNCHANGED Positions /\ UNCHANGED Ends /\ UNCHANGED closeVars
    BY <1>6 DEF ClientWriteClosed, upVars, downVars, Positions, Ends
  <2>2. WriterStage < WriterStage' /\ WriterStage <= WriterStage'
    BY <1>6 DEF ClientWriteClosed, WriterStage
  <2>3. Users < Users' /\ Users <= Users'
    BY <1>2, <1>3, <2>2, UsersGrow
  <2>4. QED BY <2>1, <2>3, WorkKept, WorkGrows
<1>7. QED BY <1>4, <1>5, <1>6

\* So it is with get_response() and read_some().
LEMMA ClientReadsWork ==
    ASSUME IInv, IInv', GetResponse \/ ClientRead \/ ClientReadEnd PROVE Work < Work'
<1>1. TypeOK /\ TypeOK'
  BY DEF IInv
<1>2. CASE GetResponse \/ ClientReadEnd
  <2>1. /\ UNCHANGED Positions /\ UNCHANGED Ends /\ UNCHANGED closeVars
        /\ UNCHANGED <<writer, pc, stopped>>
    BY <1>2 DEF GetResponse, ClientReadEnd, handlerVars, upVars, downVars, Positions, Ends
  <2>2. WriterStage <= WriterStage' /\ HandlerStage <= HandlerStage'
    BY <2>1 DEF WriterStage, HandlerStage
  <2>3. GetterStage < GetterStage' /\ GetterStage <= GetterStage'
    <3>1. \/ getter = "waiting" /\ getter' \in {"reading", "truncated"}
          \/ getter = "reading" /\ getter' \in {"eof", "truncated"}
      BY <1>2 DEF GetResponse, ClientReadEnd
    <3>2. QED BY <3>1 DEF GetterStage
  <2>4. Users < Users' /\ Users <= Users'
    BY <2>1, <2>2, <2>3, UsersGrow
  <2>5. QED BY <2>1, <2>4, WorkKept, WorkGrows
<1>3. CASE ClientRead
  <2>1. /\ UNCHANGED <<clientVars, pc, stopped>> /\ UNCHANGED Ends /\ UNCHANGED closeVars
        /\ UNCHANGED <<upSent, upRecv, upRead, down, downRecv>>
    BY <1>3 DEF ClientRead, handlerVars, upVars, Ends
  <2>2. downRead < downRead' /\ downRead' \in Nat
    BY <1>1, <1>3, Types, ReadBounds DEF ClientRead
  <2>3. Moved < Moved' /\ Moved <= Moved'
    BY <1>1, <2>1, <2>2, MovedGrows
  <2>4. QED BY <2>1, <2>3, WorkKept, WorkGrows
<1>4. QED BY <1>2, <1>3

\* submit() takes the head further, and the handler nowhere else than told.
LEMMA SubmitWork ==
    ASSUME IInv, NEW length, NEW next, SubmitAndGo(length, next)
    PROVE  Stage(head.at) <= Stage(head'.at) /\ pc' \in {next, "done"}
<1>1. CASE Submitted /\ head' = head
  BY <1>1, SubmitCalm DEF Stage
<1>2. CASE ~Submitted
  BY <1>2, SubmitCalm DEF Stage, Submitted
<1>3. QED BY <1>1, <1>2, SubmitCalm DEF Submitted

\* The handler's reading.
LEMMA HandlerReadsWork ==
    ASSUME IInv, IInv', Start \/ Read \/ ReadFails PROVE Work < Work'
<1>1. TypeOK /\ TypeOK'
  BY DEF IInv
<1>2. /\ UNCHANGED <<clientVars, stopped, upEnd, downEnd>> /\ UNCHANGED closeVars
      /\ UNCHANGED <<upSent, upRecv, down, downRecv, downRead>>
  BY DEF Start, Read, ReadFails, upVars
<1>3. WriterStage <= WriterStage' /\ GetterStage <= GetterStage'
  BY <1>2 DEF WriterStage, GetterStage, clientVars
<1>4. Stage(head.at) <= Stage(head'.at)
  <2>1. CASE UNCHANGED head
    BY <2>1 DEF Stage
  <2>2. CASE \E length, next : SubmitAndGo(length, next)
    BY <2>2, SubmitWork
  <2>3. QED BY <2>1, <2>2 DEF Start, Read, ReadFails
<1>5. Wire <= Wire'
  BY <1>2, <1>4, WireGrows
<1>6. CASE Start \/ ReadFails
  <2>1. \/ pc = "start" /\ pc' \in {"read", "done"}
        \/ pc = "read" /\ pc' \in {"eof", "done"}
    BY <1>6, SubmitWork DEF Start, ReadFails
  <2>2. HandlerStage < HandlerStage' /\ HandlerStage <= HandlerStage'
    BY <2>1 DEF HandlerStage
  <2>3. Users < Users' /\ Users <= Users'
    BY <1>2, <1>3, <2>2, UsersGrow
  <2>4. UNCHANGED Positions
    BY <1>2, <1>6 DEF Start, ReadFails, upVars, Positions
  <2>5. QED BY <1>2, <1>5, <2>3, <2>4, WorkKept, WorkGrows
<1>7. CASE Read
  <2>1. pc = "read" /\ pc' \in {"write", "done"}
    BY <1>7, SubmitWork DEF Read
  <2>2. HandlerStage <= HandlerStage'
    BY <2>1 DEF HandlerStage
  <2>3. Users <= Users'
    BY <1>2, <1>3, <2>2, UsersGrow
  <2>4. upRead < upRead' /\ upRead' \in Nat
    BY <1>1, <1>7, Types, ReadBounds DEF Read, ReadSize
  <2>5. Moved < Moved' /\ Moved <= Moved'
    BY <1>1, <1>2, <2>4, MovedGrows
  <2>6. QED BY <1>2, <1>5, <2>3, <2>5, WorkKept, WorkGrows
<1>8. QED BY <1>6, <1>7

\* Its writing, and giving up.
LEMMA HandlerWritesWork ==
    ASSUME IInv, IInv',
           \/ \E n \in 1 .. upRead : Write(n)
           \/ WriteFails \/ WriteEof \/ WriteEofFails
    PROVE  Work < Work'
<1>1. TypeOK /\ TypeOK'
  BY DEF IInv
<1>2. UNCHANGED <<clientVars, stopped, upEnd, head>>
  BY DEF Write, WriteFails, WriteEof, WriteEofFails, upVars, downVars
<1>3. WriterStage <= WriterStage' /\ GetterStage <= GetterStage'
  BY <1>2 DEF WriterStage, GetterStage, clientVars
<1>4. CASE \E n \in 1 .. upRead : Write(n)
  <2>1. PICK n \in 1 .. upRead : Write(n)
    BY <1>4
  <2>2. /\ UNCHANGED <<upSent, upRecv, upRead, downRecv, downRead>>
        /\ UNCHANGED Ends /\ UNCHANGED closeVars
    BY <1>2, <2>1 DEF Write, upVars, Ends
  <2>3. HandlerStage <= HandlerStage'
    <3>1. pc = "write" /\ pc' \in {"read", "write"}
      BY <2>1 DEF Write
    <3>2. QED BY <3>1 DEF HandlerStage
  <2>4. Users <= Users'
    BY <1>2, <1>3, <2>3, UsersGrow
  <2>5. Len(down) < Len(down') /\ Len(down') \in Nat
    <3>1. Len(down) = from /\ Len(down)' = from'
      BY DEF IInv, Bodies
    <3>2. from < from' /\ from' \in Nat
      <4>1. from' = from + n /\ from \in Nat /\ upRead \in Nat
        BY <1>1, <2>1, Types DEF Write, Written
      <4>2. QED BY <4>1
    <3>3. QED BY <3>1, <3>2
  <2>6. Moved < Moved' /\ Moved <= Moved'
    BY <1>1, <2>2, <2>5, MovedGrows
  <2>7. QED BY <2>2, <2>4, <2>6, WorkKept, WorkGrows
<1>5. CASE WriteFails \/ WriteEofFails
  <2>1. UNCHANGED Positions /\ UNCHANGED Ends /\ UNCHANGED closeVars
    BY <1>5 DEF WriteFails, WriteEofFails, upVars, downVars, Positions, Ends
  <2>2. HandlerStage < HandlerStage' /\ HandlerStage <= HandlerStage'
    <3>1. (pc = "write" /\ pc' = "eof") \/ (pc = "eof" /\ pc' = "done")
      BY <1>5 DEF WriteFails, WriteEofFails
    <3>2. QED BY <3>1 DEF HandlerStage
  <2>3. Users < Users' /\ Users <= Users'
    BY <1>2, <1>3, <2>2, UsersGrow
  <2>4. QED BY <2>1, <2>3, WorkKept, WorkGrows
<1>6. CASE WriteEof
  <2>1. UNCHANGED Positions /\ UNCHANGED <<reset, cclosed>>
    BY <1>6 DEF WriteEof, upVars, Positions
  <2>2. HandlerStage < HandlerStage' /\ HandlerStage <= HandlerStage'
    <3>1. pc = "eof" /\ pc' = "done"
      BY <1>6 DEF WriteEof
    <3>2. QED BY <3>1 DEF HandlerStage
  <2>3. Users < Users' /\ Users <= Users'
    BY <1>2, <1>3, <2>2, UsersGrow
  <2>4. downEnd = "no" /\ downEnd' = "sent" /\ ~sclosed
    BY <1>6 DEF WriteEof, IInv, DownEnd
  <2>5. Wire <= Wire'
    BY <1>2, <2>4, WireGrows, Stages
  <2>6. Closing <= Closing'
    BY <2>1, <2>4 DEF Closing, One
  <2>7. QED BY <2>1, <2>3, <2>5, <2>6, WorkKept, WorkGrows
<1>7. QED BY <1>4, <1>5, <1>6

\* What disturbs an exchange happens once.
LEMMA FaultsWork ==
    ASSUME IInv, IInv', StopHandler \/ \E side \in {"server", "client"} : Reset(side)
    PROVE  Work < Work'
<1>1. CASE StopHandler
  <2>1. /\ UNCHANGED Positions /\ UNCHANGED Ends /\ UNCHANGED closeVars
        /\ UNCHANGED <<writer, getter, pc>>
    BY <1>1 DEF StopHandler, clientVars, upVars, downVars, Positions, Ends
  <2>2. /\ WriterStage' = WriterStage /\ GetterStage' = GetterStage
        /\ HandlerStage' = HandlerStage
    BY <2>1 DEF WriterStage, GetterStage, HandlerStage
  <2>3. WriterStage \in 0 .. 2 /\ GetterStage \in 0 .. 2 /\ HandlerStage \in 0 .. 3
    BY DEF WriterStage, GetterStage, HandlerStage
  <2>4. One(stopped) = 0 /\ One(stopped') = 1
    BY <1>1 DEF StopHandler, One
  <2>5. Users < Users' /\ Users <= Users'
    BY <2>2, <2>3, <2>4 DEF Users
  <2>6. QED BY <2>1, <2>5, WorkKept, WorkGrows
<1>2. CASE \E side \in {"server", "client"} : Reset(side)
  BY <1>2, ResetWork, ClosingWork DEF Reset
<1>3. QED BY <1>1, <1>2

\* Every step, of the two halves of the client, of the handler, of nghttp2 or of
\* what disturbs them, takes the exchange further.
THEOREM StepsCount == Spec => EveryStepCounts
<1>1. IInv /\ IInv' /\ [Next]_vars => [Work < Work']_vars
  <2> SUFFICES ASSUME IInv, IInv', Next PROVE Work < Work'
    OBVIOUS
  <2>1. CASE Nghttp2
    BY <2>1, ServerWork, ClientSideWork DEF Nghttp2
  <2>2. CASE Client
    BY <2>2, ClientWritesWork, ClientReadsWork DEF Client
  <2>3. CASE Handler
    BY <2>3, HandlerReadsWork, HandlerWritesWork DEF Handler
  <2>4. CASE StopHandler \/ \E side \in {"server", "client"} : Reset(side)
    BY <2>4, FaultsWork
  <2>5. QED BY <2>1, <2>2, <2>3, <2>4 DEF Next
<1>2. QED BY <1>1, Invariance, PTL DEF Spec, EveryStepCounts

\* There are at most six steps for a byte of the body, and seventeen more: with
\* the theorem before, no schedule of them goes on for ever.
THEOREM StepsBounded == Spec => []WorkBounded
<1>1. Measured => WorkBounded
  <2> SUFFICES ASSUME Measured PROVE WorkBounded
    OBVIOUS
  <2> DEFINE m == Moved u == Users w == Wire c == Closing
  <2>1. Work = m + u + w + c
    BY DEF Work
  <2> HIDE DEF m, u, w, c
  <2>2. /\ m \in Nat /\ m <= 6 * size /\ size \in Nat
        /\ u \in 0 .. 8 /\ w \in 0 .. 6 /\ c \in 0 .. 3
    BY DEF m, u, w, c, Measured
  <2>3. QED BY <2>1, <2>2 DEF WorkBounded
<1>2. QED BY <1>1, WorkTypes, Invariance, PTL
=============================================================================
