-------------------------- MODULE StreamHeadProofs --------------------------
(***************************************************************************)
(* What TLAPS proves of StreamHead, for every number of fields and all the *)
(* values they may have.                                                   *)
(***************************************************************************)
EXTENDS StreamHead, AsyncEventProofs, TLAPS

\* The members of the stream hold what has arrived.
Decoded ==
    /\ headers_ = arrived
    /\ GivesLength(arrived, content_length_)
    /\ status_ # None => status_ \in statuses
    /\ \A b \in Blocks : upTo[b] <= Len(arrived)

\* What the progress of the header blocks says about the members.
BlockState ==
    /\ block \notin done
    /\ role_ = "client" => "request" \notin done /\ block # "request"
    /\ handler # "none" => path_ # None /\ "request" \in done
    /\ block = "request" /\ ":path" \in pseudo => path_ # None
    /\ block \in {"info", "final"} /\ ":status" \in pseudo => status_ # None
    /\ role_ = "client" /\ (block = "trailers" \/ "final" \in done \/ read_eof_) =>
           status_ # None

\* Where get_response() waits, and what it has returned.
WaitState ==
    /\ status_ready_.waiter # "none" <=> pc = "waiting"
    /\ pc = "waiting" => role_ = "client"
    /\ status_ready_.waiter = "ready" => closed_ \/ status_ # None
    /\ response.ec = "ok" => pc = "idle" /\ status_ # None

IInv ==
    /\ TypeOK
    /\ Decoded
    /\ BlockState
    /\ WaitState
    /\ RequestComplete
    /\ ResponseFaithful
    /\ FailureIsTruncation
-----------------------------------------------------------------------------
\* The parts of TypeOK the provers take one at a time.
LEMMA Types ==
    ASSUME TypeOK
    PROVE  /\ role_ \in {"client", "server"}
           /\ headers_ \in Seq(Field) /\ arrived \in Seq(Field)
           /\ content_length_ \in {None} \cup Nat /\ status_ \in {None} \cup Nat
           /\ status_ready_ \in Event /\ path_ \in Int
           /\ upTo \in [Blocks -> Nat] /\ statuses \subseteq Nat
           /\ block \in Blocks \cup {"none"} /\ done \subseteq Blocks
           /\ response \in Message /\ request \in RequestHead
           /\ closed_ \in BOOLEAN /\ read_eof_ \in BOOLEAN
BY DEF TypeOK

\* The fields a peer sends are fields, with a sensible status and path.
LEMMA FieldTypes ==
    ASSUME NEW f \in Fields
    PROVE  /\ f \in Field
           /\ f.name \in {":status", ":path"} => f.value \in Nat
           /\ IsLength(f) => f.value \in Nat
           /\ f.name = "content-length" => IsLength(f) \/ f.value = Malformed
           /\ f.name \in Pseudo <=> f.name \in {":status", ":path", ":method"}
<1>1. /\ f \in [name : Pseudo \cup {"content-length", "x"}, value : Int]
      /\ f.name \in {":status", ":path"} => f.value \in Nat
      /\ f.name = "content-length" => f.value \in Nat \cup {Malformed}
  <2>1. CASE f \in [name : {":status"}, value : {100, 200}]
    BY <2>1 DEF Pseudo
  <2>2. CASE f \in [name : {":path", ":method", "x"}, value : Values]
    <3>1. /\ f = [name |-> f.name, value |-> f.value]
          /\ f.name \in {":path", ":method", "x"} /\ f.value \in Values
      BY <2>2
    <3>2. f.value \in Nat /\ f.value \in Int /\ f.name # "content-length"
      BY <3>1, HeadAssumption
    <3>3. QED BY <3>1, <3>2 DEF Pseudo
  <2>3. CASE f \in [name : {"content-length"}, value : Values \cup {Malformed}]
    <3>1. /\ f = [name |-> f.name, value |-> f.value]
          /\ f.name = "content-length" /\ f.value \in Values \cup {Malformed}
      BY <2>3
    <3>2. f.value \in Nat \cup {Malformed} /\ f.value \in Int
      BY <3>1, HeadAssumption DEF Malformed
    <3>3. QED BY <3>1, <3>2
  <2>4. QED BY <2>1, <2>2, <2>3 DEF Fields
<1>2. QED BY <1>1 DEF Field, IsLength, Pseudo

LEMMA StatusTypes == ASSUME TypeOK PROVE (status_ >= 0 <=> status_ # None)
                                         /\ (status_ < 0 <=> status_ = None)
BY DEF TypeOK, None

\* A step that decodes nothing.
LEMMA DecodedKept ==
    ASSUME Decoded, UNCHANGED <<headers_, content_length_, status_, arrived, upTo,
                                statuses>>
    PROVE  Decoded'
BY DEF Decoded, GivesLength

\* A step that neither decodes nor makes a message leaves the messages right.
LEMMA MessagesKept ==
    ASSUME RequestComplete, ResponseFaithful,
           UNCHANGED <<handler, request, response, arrived, upTo, statuses>>
    PROVE  RequestComplete' /\ ResponseFaithful'
BY DEF RequestComplete, ResponseFaithful, Beginning, GivesLength

\* The start state satisfies the invariant.
LEMMA InitIInv == Init => IInv
<1> SUFFICES ASSUME Init PROVE IInv
  OBVIOUS
<1>1. <<>> \in Seq(Field) /\ NewEvent \in Event
  BY EventTypes
<1>2. response \in Message /\ request \in RequestHead
  BY <1>1 DEF Init, Message, RequestHead, None
<1>3. TypeOK
  <2>1. exists \in BOOLEAN
    BY DEF Init
  <2>2. upTo \in [Blocks -> Nat]
    BY DEF Init
  <2>3. path_ \in Int
    BY DEF Init, None
  <2>4. QED BY <1>1, <1>2, <2>1, <2>2, <2>3 DEF Init, TypeOK
<1>4. Decoded
  BY <1>1 DEF Init, Decoded, GivesLength
<1>5. BlockState /\ WaitState
  BY DEF Init, BlockState, WaitState, NewEvent
<1>6. RequestComplete /\ ResponseFaithful /\ FailureIsTruncation
  BY DEF Init, RequestComplete, ResponseFaithful, FailureIsTruncation
<1>7. QED BY <1>3, <1>4, <1>5, <1>6 DEF IInv

-----------------------------------------------------------------------------
(* nghttp2's callbacks.                                                    *)

\* The beginning and the end of nghttp2_session_mem_recv2().
LEMMA ReadingIInv ==
    ASSUME IInv, reading' \in BOOLEAN,
           UNCHANGED <<role_, exists, memberVars, block, done, pseudo, arrived, upTo,
                       statuses, userVars>>
    PROVE  IInv'
<1>1. /\ TypeOK /\ Decoded /\ BlockState /\ WaitState
      /\ RequestComplete /\ ResponseFaithful /\ FailureIsTruncation
  BY DEF IInv
<1>2. TypeOK'
  BY <1>1 DEF TypeOK, memberVars, userVars
<1>3. Decoded'
  BY <1>1, DecodedKept DEF memberVars
<1>4. BlockState' /\ WaitState' /\ FailureIsTruncation'
  BY <1>1 DEF BlockState, WaitState, FailureIsTruncation, memberVars, userVars
<1>5. RequestComplete' /\ ResponseFaithful'
  BY <1>1, MessagesKept DEF userVars
<1>6. QED BY <1>2, <1>3, <1>4, <1>5 DEF IInv

LEMMA OnBeginHeadersIInv ==
    ASSUME IInv, NEW b \in Blocks, OnBeginHeaders(b) PROVE IInv'
<1>1. /\ MayBegin(b) /\ block' = b /\ pseudo' = {} /\ exists' = TRUE
      /\ UNCHANGED <<role_, memberVars, reading, done, arrived, upTo, statuses,
                     userVars>>
  BY DEF OnBeginHeaders
<1>2. /\ TypeOK /\ Decoded /\ BlockState /\ WaitState
      /\ RequestComplete /\ ResponseFaithful /\ FailureIsTruncation
  BY DEF IInv
<1>3. TypeOK'
  BY <1>1, <1>2 DEF TypeOK, memberVars, userVars
<1>4. Decoded'
  BY <1>1, <1>2, DecodedKept DEF memberVars
<1>5. /\ b \notin done /\ ~read_eof_ /\ (b = "request" => role_ = "server")
      /\ b = "trailers" => "request" \in done \/ "final" \in done
  BY <1>1 DEF MayBegin, Blocks
<1>6. BlockState'
  BY <1>1, <1>2, <1>5 DEF BlockState, memberVars, userVars
<1>7. WaitState' /\ FailureIsTruncation'
  BY <1>1, <1>2 DEF WaitState, FailureIsTruncation, memberVars, userVars
<1>8. RequestComplete' /\ ResponseFaithful'
  BY <1>1, <1>2, MessagesKept DEF userVars
<1>9. QED BY <1>3, <1>4, <1>6, <1>7, <1>8 DEF IInv

\* What is appended to the fields keeps what was made of the earlier ones.
LEMMA Appended ==
    ASSUME NEW f \in Field, arrived \in Seq(Field), arrived' = Append(arrived, f)
    PROVE  /\ arrived' \in Seq(Field) /\ Len(arrived') = Len(arrived) + 1
           /\ arrived'[Len(arrived) + 1] = f
           /\ \A i \in 1 .. Len(arrived) : arrived'[i] = arrived[i]
           /\ \A s \in Seq(Field) : Beginning(s) => Beginning(s)'
<1>1. /\ arrived' \in Seq(Field) /\ Len(arrived') = Len(arrived) + 1
      /\ arrived'[Len(arrived) + 1] = f
      /\ \A i \in 1 .. Len(arrived) : arrived'[i] = arrived[i]
  OBVIOUS
<1>2. ASSUME NEW s \in Seq(Field), Beginning(s) PROVE Beginning(s)'
  BY <1>1, <1>2 DEF Beginning
<1>3. QED BY <1>1, <1>2

\* A field is decoded into its member, and the fields keep their order.
LEMMA OnHeaderDecodes ==
    ASSUME IInv, NEW f \in Fields, OnHeader(f)
    PROVE  /\ Decoded'
           /\ arrived' \in Seq(Field) /\ headers_' \in Seq(Field)
           /\ content_length_' \in {None} \cup Nat
           /\ \A s \in Seq(Field) : Beginning(s) => Beginning(s)'
<1>1. /\ \/ /\ f.name = ":status" /\ status_' = f.value
            /\ statuses' = statuses \cup {f.value}
         \/ UNCHANGED <<status_, statuses>>
      /\ \/ /\ IsRegular(f) /\ SetContentLength(f)
            /\ headers_' = Append(headers_, f) /\ arrived' = Append(arrived, f)
         \/ UNCHANGED <<content_length_, headers_, arrived>>
      /\ UNCHANGED upTo
  BY DEF OnHeader, SetStatus, AddHeader
<1>2. Decoded /\ TypeOK
  BY DEF IInv
<1>3. headers_ = arrived /\ arrived \in Seq(Field) /\ upTo \in [Blocks -> Nat]
  BY <1>2, Types DEF Decoded
<1>4. status_' # None => status_' \in statuses'
  BY <1>1, <1>2 DEF Decoded
<1>5. CASE UNCHANGED <<content_length_, headers_, arrived>>
  <2>1. \A s \in Seq(Field) : Beginning(s) => Beginning(s)'
    BY <1>5 DEF Beginning
  <2>2. Decoded'
    BY <1>1, <1>2, <1>4, <1>5 DEF Decoded, GivesLength
  <2>3. QED BY <1>2, <1>5, <2>1, <2>2, Types
<1>6. CASE /\ SetContentLength(f) /\ headers_' = Append(headers_, f)
           /\ arrived' = Append(arrived, f)
  <2>1. f \in Field /\ (IsLength(f) => f.value \in Nat)
    BY FieldTypes
  <2>2. /\ arrived' \in Seq(Field) /\ Len(arrived') = Len(arrived) + 1
        /\ arrived'[Len(arrived) + 1] = f /\ Len(arrived) \in Nat
        /\ \A i \in 1 .. Len(arrived) : arrived'[i] = arrived[i]
        /\ \A s \in Seq(Field) : Beginning(s) => Beginning(s)'
    BY <1>3, <1>6, <2>1, Appended
  <2>3. content_length_' = IF IsLength(f) THEN f.value ELSE content_length_
    BY <1>6 DEF SetContentLength, IsLength
  <2>4. GivesLength(arrived', content_length_')
    <3>1. CASE IsLength(f)
      <4>1. Len(arrived) + 1 \in 1 .. Len(arrived')
        BY <2>2
      <4>2. QED BY <3>1, <4>1, <2>2, <2>3 DEF GivesLength
    <3>2. CASE ~IsLength(f)
      <4>1. GivesLength(arrived, content_length_)
        BY <1>2 DEF Decoded
      <4>2. \A i \in 1 .. Len(arrived') :
                i \in 1 .. Len(arrived) \/ i = Len(arrived) + 1
        BY <2>2
      <4>3. \A i \in 1 .. Len(arrived) : i \in 1 .. Len(arrived')
        BY <2>2
      <4>4. QED BY <3>2, <4>1, <4>2, <4>3, <2>2, <2>3 DEF GivesLength
    <3>3. QED BY <3>1, <3>2
  <2>5. \A b \in Blocks : upTo'[b] <= Len(arrived')
    BY <1>1, <1>2, <1>3, <2>2 DEF Decoded
  <2>6. Decoded'
    BY <1>3, <1>4, <1>6, <2>4, <2>5 DEF Decoded
  <2>7. content_length_' \in {None} \cup Nat
    BY <1>2, <2>1, <2>3, Types
  <2>8. QED BY <1>3, <1>6, <2>2, <2>6, <2>7
<1>7. QED BY <1>1, <1>5, <1>6

LEMMA OnHeaderIInv == ASSUME IInv, NEW f \in Fields, OnHeader(f) PROVE IInv'
<1>1. /\ ~closed_
      /\ path_' = IF f.name = ":path" THEN f.value ELSE path_
      /\ \/ /\ f.name = ":status" /\ status_' = f.value
            /\ statuses' = statuses \cup {f.value}
            /\ status_ready_' = SetEvent(status_ready_)
         \/ f.name # ":status" /\ UNCHANGED <<status_, status_ready_, statuses>>
      /\ pseudo' \in {pseudo, pseudo \cup {f.name}}
      /\ f.name \notin Pseudo => pseudo' = pseudo
      /\ UNCHANGED <<role_, exists, closed_, read_eof_, reading, block, done, upTo,
                     userVars>>
  BY DEF OnHeader, MaySend, SetStatus, IsRegular
<1>2. /\ TypeOK /\ Decoded /\ BlockState /\ WaitState
      /\ RequestComplete /\ ResponseFaithful /\ FailureIsTruncation
  BY DEF IInv
<1>3. /\ arrived' \in Seq(Field) /\ headers_' \in Seq(Field)
      /\ content_length_' \in {None} \cup Nat /\ Decoded'
      /\ \A s \in Seq(Field) : Beginning(s) => Beginning(s)'
  BY OnHeaderDecodes
<1>4. /\ f.name \in {":status", ":path"} => f.value \in Nat /\ f.value # None
      /\ f.name \in Pseudo <=> f.name \in {":status", ":path", ":method"}
  BY FieldTypes DEF None
<1>5. /\ status_ready_ \in Event /\ status_' \in {None} \cup Nat
      /\ statuses' \subseteq Nat /\ path_' \in Int
      /\ status_ # None => status_' # None
      /\ path_ # None => path_' # None
  BY <1>1, <1>2, <1>4, Types
<1>6. status_ready_' \in Event
  BY <1>1, <1>5, EventTypes
<1>7. pseudo' \subseteq Pseudo
  BY <1>1, <1>2 DEF TypeOK
<1>8. TypeOK'
  BY <1>1, <1>2, <1>3, <1>5, <1>6, <1>7 DEF TypeOK, userVars
<1>9. /\ ":path" \in pseudo' => ":path" \in pseudo \/ f.name = ":path"
      /\ ":status" \in pseudo' => ":status" \in pseudo \/ f.name = ":status"
  BY <1>1
<1>10. BlockState'
  BY <1>1, <1>2, <1>4, <1>5, <1>9 DEF BlockState, userVars
<1>11. WaitState'
  <2>1. CASE UNCHANGED <<status_, status_ready_>>
    BY <2>1, <1>1, <1>2 DEF WaitState, userVars
  <2>2. CASE status_' # None /\ status_ready_' = SetEvent(status_ready_)
    BY <2>2, <1>1, <1>2, <1>5, EventWaiters DEF WaitState, userVars
  <2>3. QED BY <1>1, <1>4, <2>1, <2>2
<1>12. FailureIsTruncation'
  BY <1>1, <1>2 DEF FailureIsTruncation, userVars
<1>13. request.headers \in Seq(Field) /\ response.headers \in Seq(Field)
  BY <1>2, Types DEF Message, RequestHead
<1>14. RequestComplete'
  BY <1>1, <1>2, <1>3, <1>13 DEF RequestComplete, GivesLength, userVars
<1>15. statuses \subseteq statuses'
  BY <1>1
<1>16. ResponseFaithful'
  BY <1>1, <1>2, <1>3, <1>13, <1>15 DEF ResponseFaithful, GivesLength, userVars
<1>17. QED BY <1>3, <1>8, <1>10, <1>11, <1>12, <1>14, <1>16 DEF IInv

\* The end of a header block: a request is dispatched with its path known, and a
\* stream of a client ends only after its status.
LEMMA OnFrameRecvIInv ==
    ASSUME IInv, NEW end_stream \in BOOLEAN, OnFrameRecv(end_stream) PROVE IInv'
<1>1. /\ block # "none" /\ Required(block) \subseteq pseudo
      /\ block = "info" => ~end_stream
      /\ block' = "none" /\ done' = done \cup {block}
      /\ upTo' = [upTo EXCEPT ![block] = Len(arrived)]
      /\ handler' = IF block = "request" THEN "spawned" ELSE handler
      /\ read_eof_' = (read_eof_ \/ end_stream)
      /\ UNCHANGED <<role_, exists, closed_, path_, content_length_, headers_,
                     status_, status_ready_, reading, pseudo, arrived, statuses, pc,
                     response, request>>
  BY DEF OnFrameRecv
<1>2. /\ TypeOK /\ Decoded /\ BlockState /\ WaitState
      /\ RequestComplete /\ ResponseFaithful /\ FailureIsTruncation
  BY DEF IInv
<1>3. /\ block \in Blocks /\ done \subseteq Blocks /\ upTo \in [Blocks -> Nat]
      /\ arrived \in Seq(Field) /\ Len(arrived) \in Nat
  BY <1>1, <1>2, Types
<1>4. TypeOK'
  <2>1. upTo' \in [Blocks -> Nat] /\ done' \subseteq Blocks /\ read_eof_' \in BOOLEAN
    BY <1>1, <1>3, <1>2, Types
  <2>2. QED BY <1>1, <1>2, <2>1 DEF TypeOK
<1>5. Decoded'
  BY <1>1, <1>2, <1>3 DEF Decoded, GivesLength
<1>6. /\ block = "request" => ":path" \in pseudo
      /\ block \in {"info", "final"} => ":status" \in pseudo
  BY <1>1 DEF Required
<1>7. "none" \notin Blocks
  BY DEF Blocks
<1>8. BlockState'
  <2>1. block' \notin done'
    BY <1>1, <1>3, <1>7
  <2>2. handler' # "none" => path_' # None /\ "request" \in done'
    BY <1>1, <1>2, <1>6 DEF BlockState
  <2>3. role_' = "client" => "request" \notin done' /\ block' # "request"
    BY <1>1, <1>2 DEF BlockState
  <2>4. role_' = "client" /\ ("final" \in done' \/ read_eof_') => status_' # None
    BY <1>1, <1>2, <1>3, <1>6 DEF BlockState, Blocks
  <2>5. QED BY <1>1, <2>1, <2>2, <2>3, <2>4 DEF BlockState
<1>9. WaitState' /\ FailureIsTruncation'
  BY <1>1, <1>2 DEF WaitState, FailureIsTruncation
<1>10. RequestComplete'
  <2>1. SUFFICES ASSUME handler' = "running" PROVE RequestComplete'
    BY DEF RequestComplete
  <2>2. handler = "running" /\ block # "request"
    BY <1>1, <2>1
  <2>3. upTo'["request"] = upTo["request"]
    BY <1>1, <1>3, <2>2 DEF Blocks
  <2>4. QED
    BY <1>1, <1>2, <2>2, <2>3 DEF RequestComplete, Beginning, GivesLength
<1>11. ResponseFaithful'
  BY <1>1, <1>2 DEF ResponseFaithful, Beginning, GivesLength
<1>12. QED BY <1>4, <1>5, <1>8, <1>9, <1>10, <1>11 DEF IInv

LEMMA OnDataEndIInv == ASSUME IInv, OnDataEnd PROVE IInv'
<1>1. /\ done \cap {"request", "final"} # {} /\ read_eof_' = TRUE
      /\ UNCHANGED <<role_, exists, closed_, path_, content_length_, headers_,
                     status_, status_ready_, wireVars, userVars>>
  BY DEF OnDataEnd
<1>2. /\ TypeOK /\ Decoded /\ BlockState /\ WaitState
      /\ RequestComplete /\ ResponseFaithful /\ FailureIsTruncation
  BY DEF IInv
<1>3. TypeOK'
  BY <1>1, <1>2 DEF TypeOK, wireVars, userVars
<1>4. Decoded'
  BY <1>1, <1>2, DecodedKept DEF wireVars
<1>5. BlockState'
  BY <1>1, <1>2 DEF BlockState, wireVars, userVars
<1>6. WaitState' /\ FailureIsTruncation'
  BY <1>1, <1>2 DEF WaitState, FailureIsTruncation, userVars
<1>7. RequestComplete' /\ ResponseFaithful'
  BY <1>1, <1>2, MessagesKept DEF wireVars, userVars
<1>8. QED BY <1>3, <1>4, <1>5, <1>6, <1>7 DEF IInv

LEMMA OnCloseIInv == ASSUME IInv, OnClose PROVE IInv'
<1>1. /\ closed_' = TRUE /\ status_ready_' = SetEvent(status_ready_)
      /\ UNCHANGED <<role_, exists, read_eof_, path_, content_length_, headers_,
                     status_, wireVars, userVars>>
  BY DEF OnClose, WakeStatus
<1>2. /\ TypeOK /\ Decoded /\ BlockState /\ WaitState
      /\ RequestComplete /\ ResponseFaithful /\ FailureIsTruncation
  BY DEF IInv
<1>3. status_ready_ \in Event
  BY <1>2, Types
<1>4. status_ready_' \in Event
  BY <1>1, <1>3, EventTypes
<1>5. TypeOK'
  BY <1>1, <1>2, <1>4 DEF TypeOK, wireVars, userVars
<1>6. Decoded'
  BY <1>1, <1>2, DecodedKept DEF wireVars
<1>7. BlockState' /\ FailureIsTruncation'
  BY <1>1, <1>2 DEF BlockState, FailureIsTruncation, wireVars, userVars
<1>8. WaitState'
  BY <1>1, <1>2, <1>3, EventWaiters DEF WaitState, userVars
<1>9. RequestComplete' /\ ResponseFaithful'
  BY <1>1, <1>2, MessagesKept DEF wireVars, userVars
<1>10. QED BY <1>5, <1>6, <1>7, <1>8, <1>9 DEF IInv

-----------------------------------------------------------------------------
(* The coroutines.                                                         *)

\* A response made of the members is one the peer has sent, if there is a status.
LEMMA ReturnFaithful ==
    ASSUME IInv, NEW ec, NEW n, Return(ec, n), ec = "ok" => n = status_ /\ n # None,
           UNCHANGED <<arrived, upTo, statuses, handler, request>>
    PROVE  RequestComplete' /\ ResponseFaithful'
<1>1. /\ response'.ec = ec /\ response'.status = n
      /\ response'.content_length = content_length_ /\ response'.headers = arrived
  BY DEF Return, IInv, Decoded
<1>2. Decoded /\ RequestComplete /\ arrived \in Seq(Field)
  BY Types DEF IInv
<1>3. RequestComplete'
  BY <1>2 DEF RequestComplete, Beginning, GivesLength
<1>4. GivesLength(response'.headers, response'.content_length)
  BY <1>1, <1>2 DEF Decoded
<1>5. Len(arrived) <= Len(arrived)
  BY <1>2
<1>6. ResponseFaithful'
  <2> SUFFICES ASSUME response'.ec = "ok" PROVE ResponseFaithful'
    BY DEF ResponseFaithful
  <2>1. response'.status \in statuses'
    BY <1>1, <1>2 DEF Decoded
  <2>2. Beginning(response.headers)'
    BY <1>1, <1>5 DEF Beginning
  <2>3. GivesLength(response.headers, response.content_length)'
    BY <1>4 DEF GivesLength
  <2>4. QED BY <2>1, <2>2, <2>3 DEF ResponseFaithful
<1>7. QED BY <1>3, <1>6

LEMMA ReturnTypes ==
    ASSUME IInv, NEW ec \in {"none", "ok", "eof", "stream_truncated", "canceled"},
           NEW n \in Int, Return(ec, n)
    PROVE  response' \in Message
<1>1. content_length_ \in Int /\ headers_ \in Seq(Field)
  BY Types DEF IInv, None
<1>2. QED BY <1>1 DEF Return, Message

LEMMA GetResponseIInv == ASSUME IInv, GetResponse PROVE IInv'
<1>1. /\ role_ = "client" /\ pc = "idle"
      /\ UNCHANGED <<role_, exists, closed_, read_eof_, path_, content_length_,
                     headers_, status_, wireVars, handler, request>>
  BY DEF GetResponse
<1>2. /\ TypeOK /\ Decoded /\ BlockState /\ WaitState
      /\ RequestComplete /\ ResponseFaithful /\ FailureIsTruncation
  BY DEF IInv
<1>3. BlockState'
  BY <1>1, <1>2 DEF BlockState, wireVars
<1>4. Decoded'
  BY <1>1, <1>2, DecodedKept DEF wireVars
<1>5. CASE StatusKnown /\ Return("ok", status_) /\ UNCHANGED status_ready_
  <2>1. status_ # None /\ status_ \in Int
    BY <1>2, <1>5, StatusTypes, Types DEF StatusKnown, None
  <2>2. response' \in Message /\ pc' = "idle" /\ response'.ec = "ok"
    BY <1>5, <2>1, ReturnTypes DEF Return
  <2>3. TypeOK'
    BY <1>1, <1>2, <1>5, <2>2 DEF TypeOK, wireVars
  <2>4. WaitState' /\ FailureIsTruncation'
    BY <1>1, <1>2, <1>5, <2>1, <2>2 DEF WaitState, FailureIsTruncation
  <2>5. RequestComplete' /\ ResponseFaithful'
    BY <1>1, <1>5, <2>1, ReturnFaithful DEF wireVars
  <2>6. QED BY <1>3, <1>4, <2>3, <2>4, <2>5 DEF IInv
<1>6. CASE /\ ~StatusKnown /\ pc' = "waiting" /\ UNCHANGED response
           /\ status_ready_' = AwaitEvent(ClearEvent(status_ready_))
  <2>1. status_ready_' \in Event /\ status_ready_'.waiter = "suspended"
    BY <1>2, <1>6, EventTypes, EventWaiters DEF TypeOK
  <2>2. status_ = None
    BY <1>2, <1>6, StatusTypes DEF StatusKnown
  <2>3. TypeOK'
    BY <1>1, <1>2, <1>6, <2>1 DEF TypeOK, wireVars
  <2>4. WaitState' /\ FailureIsTruncation'
    BY <1>1, <1>2, <1>6, <2>1, <2>2 DEF WaitState, FailureIsTruncation
  <2>5. RequestComplete' /\ ResponseFaithful'
    BY <1>1, <1>2, <1>6, MessagesKept DEF wireVars
  <2>6. QED BY <1>3, <1>4, <2>3, <2>4, <2>5 DEF IInv
<1>7. QED BY <1>5, <1>6 DEF GetResponse

LEMMA CancelIInv == ASSUME IInv, Cancel PROVE IInv'
<1>1. /\ status_ready_.waiter = "suspended"
      /\ status_ready_' = CancelWait(status_ready_)
      /\ UNCHANGED <<role_, exists, closed_, read_eof_, path_, content_length_,
                     headers_, status_, wireVars, userVars>>
  BY DEF Cancel
<1>2. /\ TypeOK /\ Decoded /\ BlockState /\ WaitState
      /\ RequestComplete /\ ResponseFaithful /\ FailureIsTruncation
  BY DEF IInv
<1>3. status_ready_' \in Event /\ status_ready_'.waiter = "canceled"
  BY <1>1, <1>2, EventTypes, EventWaiters DEF TypeOK
<1>4. TypeOK'
  BY <1>1, <1>2, <1>3 DEF TypeOK, wireVars, userVars
<1>5. Decoded'
  BY <1>1, <1>2, DecodedKept DEF wireVars
<1>6. BlockState' /\ WaitState' /\ FailureIsTruncation'
  BY <1>1, <1>2, <1>3 DEF BlockState, WaitState, FailureIsTruncation, wireVars, userVars
<1>7. RequestComplete' /\ ResponseFaithful'
  BY <1>1, <1>2, MessagesKept DEF wireVars, userVars
<1>8. QED BY <1>4, <1>5, <1>6, <1>7 DEF IInv

\* A woken get_response() without a status has met the end of the stream, and
\* the peer has not ended it cleanly.
LEMMA ResumeIInv == ASSUME IInv, Resume PROVE IInv'
<1> DEFINE n == IF WakeError = "ok" THEN status_ ELSE 0
<1>1. /\ pc = "waiting" /\ Resumable(status_ready_)
      /\ status_ready_' = EndWait(status_ready_) /\ Return(WakeError, n)
      /\ UNCHANGED <<role_, exists, closed_, read_eof_, path_, content_length_,
                     headers_, status_, wireVars, handler, request>>
  BY DEF Resume
<1>2. /\ TypeOK /\ Decoded /\ BlockState /\ WaitState
      /\ RequestComplete /\ ResponseFaithful /\ FailureIsTruncation
  BY DEF IInv
<1>3. /\ WakeError \in {"ok", "stream_truncated", "canceled"}
      /\ WakeError = "ok" => status_ # None
      /\ WakeError = "stream_truncated" => closed_ /\ status_ = None
  <2>1. role_ = "client" /\ (status_ = None => ~read_eof_)
    BY <1>1, <1>2 DEF WaitState, BlockState
  <2>2. status_ready_.waiter \in {"ready", "canceled"}
    BY <1>1 DEF Resumable
  <2>3. status_ready_.waiter = "ready" => closed_ \/ status_ # None
    BY <1>2 DEF WaitState
  <2>4. QED BY <1>2, <2>1, <2>2, <2>3, StatusTypes DEF WakeError, EofError
<1>4. n \in Int /\ (WakeError = "ok" => n = status_ /\ n # None)
  BY <1>2, <1>3, Types DEF None
<1> HIDE DEF n
<1>5. response' \in Message /\ pc' = "idle" /\ response'.ec = WakeError
  <2>1. response' \in Message
    BY <1>1, <1>3, <1>4, ReturnTypes
  <2>2. QED BY <1>1, <2>1 DEF Return
<1>6. status_ready_' \in Event /\ status_ready_'.waiter = "none"
  BY <1>1, <1>2, EventTypes, EventWaiters DEF TypeOK
<1>7. TypeOK'
  BY <1>1, <1>2, <1>5, <1>6 DEF TypeOK, wireVars
<1>8. Decoded'
  BY <1>1, <1>2, DecodedKept DEF wireVars
<1>9. BlockState'
  BY <1>1, <1>2 DEF BlockState, wireVars
<1>10. WaitState'
  BY <1>1, <1>3, <1>5, <1>6 DEF WaitState
<1>11. FailureIsTruncation'
  BY <1>1, <1>2, <1>3, <1>5, StatusTypes DEF FailureIsTruncation
<1>12. RequestComplete' /\ ResponseFaithful'
  BY <1>1, <1>4, ReturnFaithful DEF wireVars
<1>13. QED BY <1>7, <1>8, <1>9, <1>10, <1>11, <1>12 DEF IInv

LEMMA HandleRequestIInv == ASSUME IInv, HandleRequest PROVE IInv'
<1>1. /\ handler = "spawned" /\ handler' = "running"
      /\ request' = [path |-> path_, content_length |-> content_length_,
                     headers |-> headers_]
      /\ UNCHANGED <<role_, exists, memberVars, wireVars, pc, response>>
  BY DEF HandleRequest
<1>2. /\ TypeOK /\ Decoded /\ BlockState /\ WaitState
      /\ ResponseFaithful /\ FailureIsTruncation
  BY DEF IInv
<1>3. /\ path_ \in Int /\ content_length_ \in Int /\ headers_ \in Seq(Field)
      /\ arrived \in Seq(Field)
  BY <1>2, Types DEF None
<1>4. request' \in RequestHead
  BY <1>1, <1>3 DEF RequestHead
<1>5. TypeOK'
  BY <1>1, <1>2, <1>4 DEF TypeOK, memberVars, wireVars
<1>6. Decoded'
  BY <1>1, <1>2, DecodedKept DEF memberVars, wireVars
<1>7. BlockState' /\ WaitState' /\ FailureIsTruncation'
  BY <1>1, <1>2 DEF BlockState, WaitState, FailureIsTruncation, memberVars, wireVars
<1>8. ResponseFaithful'
  BY <1>1, <1>2 DEF ResponseFaithful, Beginning, GivesLength, wireVars
<1>9. RequestComplete'
  <2>1. /\ request'.headers = arrived' /\ request'.content_length = content_length_'
        /\ request'.path # None /\ Len(arrived') \in Nat /\ "request" \in Blocks
    BY <1>1, <1>2, <1>3 DEF Decoded, BlockState, wireVars, memberVars, Blocks
  <2>2. Beginning(request.headers)'
    BY <2>1 DEF Beginning
  <2>3. GivesLength(request.headers, request.content_length)'
    BY <1>6, <2>1 DEF Decoded, GivesLength
  <2>4. upTo'["request"] <= Len(request'.headers)
    BY <1>6, <2>1 DEF Decoded
  <2>5. QED BY <2>1, <2>2, <2>3, <2>4 DEF RequestComplete
<1>10. QED BY <1>5, <1>6, <1>7, <1>8, <1>9 DEF IInv

-----------------------------------------------------------------------------
\* Every step keeps the invariant.
LEMMA NextIInv == ASSUME IInv, [Next]_vars PROVE IInv'
<1>1. CASE UNCHANGED vars \/ StartRecv \/ EndRecv
  <2>1. reading' \in BOOLEAN
    BY <1>1 DEF IInv, TypeOK, StartRecv, EndRecv, vars, wireVars
  <2>2. UNCHANGED <<role_, exists, memberVars, block, done, pseudo, arrived, upTo,
                    statuses, userVars>>
    BY <1>1 DEF StartRecv, EndRecv, vars, wireVars
  <2>3. QED BY <2>1, <2>2, ReadingIInv
<1>2. CASE Callback
  BY <1>2, OnBeginHeadersIInv, OnHeaderIInv, OnFrameRecvIInv, OnDataEndIInv DEF Callback
<1>3. CASE OnClose \/ GetResponse \/ Cancel \/ Resume \/ HandleRequest
  BY <1>3, OnCloseIInv, GetResponseIInv, CancelIInv, ResumeIInv, HandleRequestIInv
<1>4. QED BY <1>1, <1>2, <1>3 DEF Next

\* The inductive invariant holds in every reachable state.
THEOREM Invariance == Spec => []IInv
BY InitIInv, NextIInv, PTL DEF Spec

\* A handler starts with the whole request head.
THEOREM HandlerHasWholeHead == Spec => []RequestComplete
<1>1. IInv => RequestComplete
  BY DEF IInv
<1>2. QED BY <1>1, Invariance, PTL

\* A successful get_response() returns what the peer sent.
THEOREM ResponseAsSent == Spec => []ResponseFaithful
<1>1. IInv => ResponseFaithful
  BY DEF IInv
<1>2. QED BY <1>1, Invariance, PTL

\* A get_response() without a status is never a clean end.
THEOREM NoCleanFailure == Spec => []FailureIsTruncation
<1>1. IInv => FailureIsTruncation
  BY DEF IInv
<1>2. QED BY <1>1, Invariance, PTL

\* get_response() may be repeated: after a success it succeeds at once.
THEOREM SuccessStays == Spec => ResponseStays
<1>1. ASSUME IInv, [Next]_vars, response.ec = "ok"
      PROVE  response'.ec = "ok" /\ pc' = "idle"
  <2>1. pc = "idle" /\ StatusKnown
    BY <1>1, StatusTypes DEF IInv, WaitState, StatusKnown
  <2>2. CASE UNCHANGED <<pc, response>>
    BY <2>1, <2>2, <1>1
  <2>3. CASE GetResponse
    BY <2>1, <2>3 DEF GetResponse, Return
  <2>4. CASE Resume
    BY <2>1, <2>4 DEF Resume
  <2>5. QED
    BY <1>1, <2>2, <2>3, <2>4
    DEF Next, Callback, StartRecv, EndRecv, OnBeginHeaders, OnHeader, OnFrameRecv,
        OnDataEnd, OnClose, Cancel, HandleRequest, vars, userVars
<1>2. IInv /\ [Next]_vars =>
          [response.ec = "ok" => response'.ec = "ok" /\ pc' = "idle"]_vars
  BY <1>1
<1>3. QED BY <1>2, Invariance, PTL DEF Spec, ResponseStays

\* Every variable keeps its type, whatever fields arrive.
THEOREM TypeCorrect == Spec => []TypeOK
<1>1. IInv => TypeOK
  BY DEF IInv
<1>2. QED BY <1>1, Invariance, PTL

-----------------------------------------------------------------------------
(* The wakeups of get_response().                                          *)

\* get_response() is suspended only without a status.
Unanswered == status_ready_.waiter = "suspended" => status_ = None

\* set_status() and on_close() leave no waiter suspended; only a call that finds
\* no status suspends; no other step suspends one or takes the status away.
LEMMA WaiterSteps ==
    ASSUME IInv, [Next]_vars
    PROVE  \/ status_ready_'.waiter # "suspended"
           \/ status_ = None /\ UNCHANGED <<status_, closed_>>
           \/ UNCHANGED <<status_, closed_, status_ready_>>
<1>1. TypeOK
  BY DEF IInv
<1>2. status_ready_ \in Event /\ SetEvent(status_ready_).waiter # "suspended"
  BY <1>1, EventWaiters DEF TypeOK
<1>3. CASE OnClose
  BY <1>2, <1>3 DEF OnClose, WakeStatus
<1>4. ASSUME NEW f \in Fields, OnHeader(f)
      PROVE  \/ status_ready_'.waiter # "suspended"
             \/ UNCHANGED <<status_, closed_, status_ready_>>
  BY <1>2, <1>4 DEF OnHeader, SetStatus
<1>5. CASE GetResponse
  <2>1. CASE StatusKnown
    BY <1>5, <2>1 DEF GetResponse
  <2>2. CASE ~StatusKnown
    BY <1>1, <1>5, <2>2, StatusTypes DEF GetResponse, StatusKnown
  <2>3. QED BY <2>1, <2>2
<1>6. CASE Cancel \/ Resume
  BY <1>6 DEF Cancel, Resume, CancelWait, EndWait
<1>7. CASE StartRecv \/ EndRecv \/ HandleRequest \/ UNCHANGED vars
  BY <1>7 DEF StartRecv, EndRecv, HandleRequest, vars, memberVars
<1>8. CASE OnDataEnd \/ \E end_stream \in BOOLEAN : OnFrameRecv(end_stream)
  BY <1>8 DEF OnDataEnd, OnFrameRecv
<1>9. CASE \E b \in Blocks : OnBeginHeaders(b)
  BY <1>9 DEF OnBeginHeaders, memberVars
<1>10. QED BY <1>3, <1>4, <1>5, <1>6, <1>7, <1>8, <1>9 DEF Next, Callback

\* get_response() never sleeps on a status, nor through the close of the stream.
THEOREM NoMissedStatus == Spec => StatusNeverMissed
<1>1. Init => Unanswered
  BY DEF Init, Unanswered, NewEvent
<1>2. IInv /\ Unanswered /\ [Next]_vars => Unanswered'
  BY WaiterSteps DEF Unanswered
<1>3. ASSUME IInv, Unanswered, [Next]_vars, status_ready_'.waiter = "suspended"
      PROVE  status_' < 0 /\ (closed_' => closed_)
  <2>1. status_' = None /\ closed_' = closed_
    BY <1>3, WaiterSteps DEF Unanswered
  <2>2. QED BY <2>1 DEF None
<1>4. IInv /\ Unanswered /\ [Next]_vars =>
          [status_ready_'.waiter = "suspended" => status_' < 0 /\ (closed_' => closed_)]_vars
  BY <1>3
<1>5. QED BY <1>1, <1>2, <1>4, Invariance, PTL DEF Spec, StatusNeverMissed

-----------------------------------------------------------------------------
(* The final response.                                                     *)

\* The status of the final response is the last one that is set.
FinalState ==
    /\ "final" \in done => status_ = 200 /\ block # "info"
    /\ block = "final" /\ ":status" \in pseudo => status_ = 200

\* A header block is decoded from its pseudo-header fields on, and no status
\* comes after the final one.
LEMMA FinalStep == IInv /\ FinalState /\ [Next]_vars => FinalState'
<1> SUFFICES ASSUME IInv, FinalState, [Next]_vars PROVE FinalState'
  OBVIOUS
<1>1. block \notin done
  BY DEF IInv, BlockState
<1>2. CASE \E b \in Blocks : OnBeginHeaders(b)
  <2>1. PICK b \in Blocks : OnBeginHeaders(b)
    BY <1>2
  <2>2. /\ block' = b /\ pseudo' = {} /\ done' = done /\ status_' = status_
        /\ b \in {"info", "final"} => "final" \notin done
    BY <2>1 DEF OnBeginHeaders, MayBegin, memberVars
  <2>3. QED BY <2>2 DEF FinalState
<1>3. CASE \E f \in Fields : OnHeader(f)
  <2>1. PICK f \in Fields : OnHeader(f)
    BY <1>3
  <2>2. block' = block /\ done' = done
    BY <2>1 DEF OnHeader
  <2>3. CASE f.name = ":status"
    <3>1. ~IsRegular(f)
      BY <2>3 DEF IsRegular, Pseudo
    <3>2. /\ block \in {"info", "final"} /\ status_' = f.value
          /\ f.value = IF block = "info" THEN 100 ELSE 200
      BY <2>1, <2>3, <3>1 DEF OnHeader, MaySend, Required, SetStatus
    <3>3. "final" \notin done
      BY <1>1, <3>2 DEF FinalState
    <3>4. QED BY <2>2, <3>2, <3>3 DEF FinalState
  <2>4. CASE f.name # ":status"
    <3>1. status_' = status_ /\ (":status" \in pseudo' => ":status" \in pseudo)
      BY <2>1, <2>4 DEF OnHeader
    <3>2. QED BY <2>2, <3>1 DEF FinalState
  <2>5. QED BY <2>3, <2>4
<1>4. CASE \E end_stream \in BOOLEAN : OnFrameRecv(end_stream)
  <2>1. /\ block' = "none" /\ done' = done \cup {block} /\ status_' = status_
        /\ Required(block) \subseteq pseudo
    BY <1>4 DEF OnFrameRecv
  <2>2. block = "final" => ":status" \in pseudo
    BY <2>1 DEF Required
  <2>3. QED BY <2>1, <2>2 DEF FinalState
<1>5. CASE \/ StartRecv \/ EndRecv \/ OnDataEnd \/ OnClose \/ GetResponse
           \/ Cancel \/ Resume \/ HandleRequest \/ UNCHANGED vars
  <2>1. UNCHANGED <<block, done, pseudo, status_>>
    BY <1>5 DEF StartRecv, EndRecv, OnDataEnd, OnClose, GetResponse, Cancel, Resume,
       HandleRequest, vars, memberVars, wireVars
  <2>2. QED BY <2>1 DEF FinalState
<1>6. QED BY <1>2, <1>3, <1>4, <1>5 DEF Next, Callback

\* get_response() called once the head is complete has all of it, and its status
\* (ClientResponse::headers(), status()).
THEOREM LaterResponseFinal == Spec => LaterIsFinal
<1>1. Init => FinalState
  BY DEF Init, FinalState
<1>2. ASSUME IInv, FinalState, [Next]_vars, response' # response,
             response'.ec = "ok", "final" \in done
      PROVE  response'.status = 200 /\ upTo["final"] <= Len(response'.headers)
  <2>1. upTo["final"] <= Len(headers_)
    BY <1>2 DEF IInv, Decoded, Blocks
  <2>2. status_ = 200
    BY <1>2 DEF FinalState
  <2>3. GetResponse \/ Resume
    BY <1>2 DEF Next, Callback, StartRecv, EndRecv, OnBeginHeaders, OnHeader,
       OnFrameRecv, OnDataEnd, OnClose, Cancel, HandleRequest, vars, userVars
  <2>4. CASE GetResponse
    <3>1. Return("ok", status_)
      BY <2>4, <1>2 DEF GetResponse
    <3>2. QED BY <3>1, <2>1, <2>2 DEF Return
  <2>5. CASE Resume
    <3>1. Return(WakeError, IF WakeError = "ok" THEN status_ ELSE 0)
      BY <2>5 DEF Resume
    <3>2. WakeError = "ok"
      BY <3>1, <1>2 DEF Return
    <3>3. QED BY <3>1, <3>2, <2>1, <2>2 DEF Return
  <2>6. QED BY <2>3, <2>4, <2>5
<1>3. IInv /\ FinalState /\ [Next]_vars =>
          [response' # response /\ response'.ec = "ok" /\ "final" \in done =>
               response'.status = 200
               /\ upTo["final"] <= Len(response'.headers)]_vars
  BY <1>2
<1>4. QED BY <1>1, <1>3, FinalStep, Invariance, PTL DEF Spec, LaterIsFinal
=============================================================================
