----------------------------- MODULE StreamHead -----------------------------
(***************************************************************************)
(* The message head of a Stream: the fields nghttp2 decodes from HEADERS   *)
(* frames, the request a server session makes of them and the response a   *)
(* client session does.                                                    *)
(*                                                                         *)
(* nghttp2 decodes a header block as it arrives, so a block may be spread  *)
(* over several reads of recv_loop(); coroutines run between two of them.  *)
(* While nghttp2_session_mem_recv2() holds the thread (reading) its        *)
(* callbacks run and no coroutine does.                                    *)
(***************************************************************************)
EXTENDS Integers, Sequences, AsyncEvent

CONSTANTS MaxHeaders,   \* bound: regular fields the peer sends on this stream
          Values        \* bound: what a field may say

ASSUME HeadAssumption == MaxHeaders \in Nat /\ Values \subseteq Nat

VARIABLES
    role_,
    exists,         \* the Stream has been made and entered into streams_
    closed_, read_eof_, path_, content_length_, headers_, status_,
    status_ready_,
    reading,        \* recv_loop() is inside nghttp2_session_mem_recv2()
    block,          \* the header block nghttp2 is decoding, "none" between two
    done,           \* the blocks it has decoded completely
    pseudo,         \* the pseudo-header fields of the block decoded so far
    arrived,        \* history: the other fields decoded, of all blocks
    upTo,           \* history: how many of them had arrived at the end of a block
    statuses,       \* history: the :status values decoded
    pc,             \* where the get_response() call is
    response,       \* what the last completed get_response() returned
    handler,        \* the coroutine of handle_request()
    request         \* the Request it was given

memberVars == <<closed_, read_eof_, path_, content_length_, headers_, status_,
                status_ready_>>
wireVars == <<reading, block, done, pseudo, arrived, upTo, statuses>>
userVars == <<pc, response, handler, request>>
vars == <<role_, exists, memberVars, wireVars, userVars>>

\* A :status is 100 for an informational response and 200 for a final one.  The
\* value of a content-length field is the number it parses to, or Malformed if
\* from_chars() does not take all of it.
Pseudo == {":status", ":path", ":method"}
Field == [name : Pseudo \cup {"content-length", "x"}, value : Int]
Malformed == -2
None == -1

Blocks == {"request", "info", "final", "trailers"}

Message == [ec : {"none", "ok", "eof", "stream_truncated", "canceled"},
            status : Int, content_length : Int, headers : Seq(Field)]

\* What a Request keeps of the head of its stream.
RequestHead == [path : Int, content_length : Int, headers : Seq(Field)]

TypeOK ==
    /\ role_ \in {"client", "server"}
    /\ exists \in BOOLEAN
    /\ closed_ \in BOOLEAN
    /\ read_eof_ \in BOOLEAN
    /\ path_ \in Int
    /\ content_length_ \in {None} \cup Nat
    /\ headers_ \in Seq(Field)
    /\ status_ \in {None} \cup Nat
    /\ status_ready_ \in Event
    /\ reading \in BOOLEAN
    /\ block \in Blocks \cup {"none"}
    /\ done \subseteq Blocks
    /\ pseudo \subseteq Pseudo
    /\ arrived \in Seq(Field)
    /\ upTo \in [Blocks -> Nat]
    /\ statuses \subseteq Nat
    /\ pc \in {"idle", "waiting"}
    /\ response \in Message
    /\ handler \in {"none", "spawned", "running"}
    /\ request \in RequestHead

\* A client session has submitted the request; a server session has no stream.
Init ==
    /\ role_ \in {"client", "server"}
    /\ exists = (role_ = "client")
    /\ closed_ = FALSE
    /\ read_eof_ = FALSE
    /\ path_ = None
    /\ content_length_ = None
    /\ headers_ = <<>>
    /\ status_ = None
    /\ status_ready_ = NewEvent
    /\ reading = FALSE
    /\ block = "none"
    /\ done = {}
    /\ pseudo = {}
    /\ arrived = <<>>
    /\ upTo = [b \in Blocks |-> 0]
    /\ statuses = {}
    /\ pc = "idle"
    /\ response = [ec |-> "none", status |-> 0, content_length |-> None,
                   headers |-> <<>>]
    /\ handler = "none"
    /\ request = [path |-> None, content_length |-> None, headers |-> <<>>]

-----------------------------------------------------------------------------
(* What the peer may send: nghttp2 rejects everything else before it calls *)
(* back.                                                                   *)

IsRegular(f) == f.name \notin Pseudo

\* The pseudo-header fields a block must have.  A CONNECT, the one request without
\* a :path, is left out.
Required(b) == CASE b = "request" -> {":path", ":method"}
                 [] b \in {"info", "final"} -> {":status"}
                 [] OTHER -> {}

MayBegin(b) ==
    /\ block = "none"
    /\ b \notin done
    /\ ~closed_ /\ ~read_eof_
    /\ CASE b = "request"            -> role_ = "server" /\ ~exists
         [] b \in {"info", "final"}  -> role_ = "client" /\ "final" \notin done
         [] OTHER                    -> done \cap {"request", "final"} # {}

\* Pseudo-header fields come first, each once; content-length comes once.
MaySend(f) ==
    /\ block # "none" /\ exists /\ ~closed_
    /\ IF IsRegular(f)
       THEN /\ Required(block) \subseteq pseudo
            /\ Len(arrived) < MaxHeaders
            /\ f.name = "content-length" =>
                   \A i \in 1 .. Len(arrived) : arrived[i].name # f.name
       ELSE /\ f.name \in Required(block) \ pseudo
            /\ f.name = ":status" => f.value = IF block = "info" THEN 100
                                               ELSE 200

-----------------------------------------------------------------------------
(* nghttp2's callbacks.                                                    *)

StartRecv ==
    /\ ~reading
    /\ reading' = TRUE
    /\ UNCHANGED <<role_, exists, memberVars, block, done, pseudo, arrived, upTo,
                   statuses, userVars>>

EndRecv ==
    /\ reading
    /\ reading' = FALSE
    /\ UNCHANGED <<role_, exists, memberVars, block, done, pseudo, arrived, upTo,
                   statuses, userVars>>

\* Mutation: the request is dispatched when its header block begins.
OnBeginHeaders_Dispatch(b) ==
    /\ reading /\ MayBegin(b)
    /\ block' = b /\ pseudo' = {}
    /\ exists' = TRUE
    /\ handler' = IF b = "request" THEN "spawned" ELSE handler
    /\ UNCHANGED <<role_, memberVars, reading, done, arrived, upTo, statuses, pc,
                   response, request>>

\* on_begin_headers_callback(): a request makes its stream.
OnBeginHeaders(b) ==
    /\ reading /\ MayBegin(b)
    /\ block' = b /\ pseudo' = {}
    /\ exists' = TRUE
    /\ UNCHANGED <<role_, memberVars, reading, done, arrived, upTo, statuses,
                   userVars>>

\* Mutation: the status is stored and the waiter left alone.
SetStatus_Quiet(n) == status_' = n /\ UNCHANGED status_ready_

\* Mutation: the first status stays.
SetStatus_First(n) ==
    /\ status_' = IF status_ < 0 THEN n ELSE status_
    /\ status_ready_' = SetEvent(status_ready_)

SetStatus(n) == status_' = n /\ status_ready_' = SetEvent(status_ready_)

\* Mutation: content-length is left to its own accessor.
AddHeader_NoLength(f) ==
    headers_' = IF f.name = "content-length" THEN headers_
                ELSE Append(headers_, f)

AddHeader(f) == headers_' = Append(headers_, f)

SetContentLength(f) ==
    content_length_' = IF f.name = "content-length" /\ f.value # Malformed
                       THEN f.value ELSE content_length_

\* on_header_callback()
OnHeader(f) ==
    /\ reading /\ MaySend(f)
    /\ path_' = IF f.name = ":path" THEN f.value ELSE path_
    /\ IF f.name = ":status"
       THEN SetStatus(f.value) /\ statuses' = statuses \cup {f.value}
       ELSE UNCHANGED <<status_, status_ready_, statuses>>
    /\ IF IsRegular(f)
       THEN /\ SetContentLength(f) /\ AddHeader(f)
            /\ arrived' = Append(arrived, f)
            /\ UNCHANGED pseudo
       ELSE /\ pseudo' = pseudo \cup {f.name}
            /\ UNCHANGED <<content_length_, headers_, arrived>>
    /\ UNCHANGED <<role_, exists, closed_, read_eof_, reading, block, done, upTo,
                   userVars>>

\* on_frame_recv_callback() for HEADERS.  An informational response does not end
\* the stream, trailers do.
OnFrameRecv(end_stream) ==
    /\ reading
    /\ block # "none" /\ ~closed_
    /\ Required(block) \subseteq pseudo
    /\ block = "info" => ~end_stream
    /\ block = "trailers" => end_stream
    /\ block' = "none"
    /\ done' = done \cup {block}
    /\ upTo' = [upTo EXCEPT ![block] = Len(arrived)]
    /\ handler' = IF block = "request" THEN "spawned" ELSE handler
    /\ read_eof_' = (read_eof_ \/ end_stream)
    /\ UNCHANGED <<role_, exists, closed_, path_, content_length_, headers_,
                   status_, status_ready_, reading, pseudo, arrived, statuses, pc,
                   response, request>>

\* on_frame_recv_callback() for the DATA frame that ends the stream.
OnDataEnd ==
    /\ reading
    /\ block = "none" /\ ~closed_ /\ ~read_eof_
    /\ done \cap {"request", "final"} # {}
    /\ read_eof_' = TRUE
    /\ UNCHANGED <<role_, exists, closed_, path_, content_length_, headers_,
                   status_, status_ready_, wireVars, userVars>>

\* Mutation: on_close() does not wake a waiting get_response().
WakeStatus_Never == UNCHANGED status_ready_

WakeStatus == status_ready_' = SetEvent(status_ready_)

\* The stream closes: in a callback between two frames, or, with send_loop() or
\* at the end of the session, between two reads.
OnClose ==
    /\ exists /\ ~closed_
    /\ reading => block = "none"
    /\ closed_' = TRUE
    /\ WakeStatus
    /\ UNCHANGED <<role_, exists, read_eof_, path_, content_length_, headers_,
                   status_, wireVars, userVars>>

-----------------------------------------------------------------------------
(* The coroutines.                                                         *)

\* Mutation: every end is a clean one.
EofError_Clean == "eof"

EofError == IF read_eof_ THEN "eof" ELSE "stream_truncated"

\* Make a ClientResponse of what the stream has at this moment.
Return(ec, status) ==
    /\ pc' = "idle"
    /\ response' = [ec |-> ec, status |-> status,
                    content_length |-> content_length_, headers |-> headers_]

\* Mutation: the status is awaited also if it is there.
StatusKnown_Never == FALSE

StatusKnown == status_ >= 0

\* get_response(), status() up to its suspension point.
GetResponse ==
    /\ ~reading
    /\ role_ = "client" /\ pc = "idle"
    /\ IF StatusKnown
       THEN Return("ok", status_) /\ UNCHANGED status_ready_
       ELSE /\ status_ready_' = AwaitEvent(ClearEvent(status_ready_))
            /\ pc' = "waiting"
            /\ UNCHANGED response
    /\ UNCHANGED <<role_, exists, closed_, read_eof_, path_, content_length_,
                   headers_, status_, wireVars, handler, request>>

\* The stop token of the calling coroutine is triggered during the wait.
Cancel ==
    /\ ~reading
    /\ status_ready_.waiter = "suspended"
    /\ status_ready_' = CancelWait(status_ready_)
    /\ UNCHANGED <<role_, exists, closed_, read_eof_, path_, content_length_,
                   headers_, status_, wireVars, userVars>>

\* What a woken status() returns.
WakeError ==
    IF status_ready_.waiter = "canceled" THEN "canceled"
    ELSE IF status_ < 0 THEN EofError ELSE "ok"

\* The posted resumption runs and get_response() returns.
Resume ==
    /\ ~reading
    /\ pc = "waiting" /\ Resumable(status_ready_)
    /\ status_ready_' = EndWait(status_ready_)
    /\ Return(WakeError, IF WakeError = "ok" THEN status_ ELSE 0)
    /\ UNCHANGED <<role_, exists, closed_, read_eof_, path_, content_length_,
                   headers_, status_, wireVars, handler, request>>

\* handle_request() starts.  Whether the executor starts a spawned task at once,
\* inside the callback, or later, is left open.
HandleRequest ==
    /\ handler = "spawned"
    /\ handler' = "running"
    /\ request' = [path |-> path_, content_length |-> content_length_,
                   headers |-> headers_]
    /\ UNCHANGED <<role_, exists, memberVars, wireVars, pc, response>>

-----------------------------------------------------------------------------
Fields == [name : {":status"}, value : {100, 200}]
          \cup [name : {":path", ":method", "x"}, value : Values]
          \cup [name : {"content-length"}, value : Values \cup {Malformed}]

Callback == \/ \E b \in Blocks : OnBeginHeaders(b)
            \/ \E f \in Fields : OnHeader(f)
            \/ \E end_stream \in BOOLEAN : OnFrameRecv(end_stream)
            \/ OnDataEnd

Next == StartRecv \/ Callback \/ EndRecv \/ OnClose
        \/ GetResponse \/ Cancel \/ Resume \/ HandleRequest

Spec == Init /\ [][Next]_vars

\* nghttp2_session_mem_recv2() returns, and the executor runs what is posted, in
\* turn with the reads (hence strong fairness).  Callbacks come from bytes the
\* peer has sent: none is owed.
FairSpec == /\ Spec
            /\ WF_vars(EndRecv)
            /\ SF_vars(Resume)

-----------------------------------------------------------------------------
(* Properties.                                                             *)

\* The first fields that arrived, all that have up to now or up to an earlier
\* moment.
Beginning(s) ==
    /\ Len(s) <= Len(arrived)
    /\ \A i \in 1 .. Len(s) : s[i] = arrived[i]

IsLength(f) == f.name = "content-length" /\ f.value # Malformed

\* n is the length the fields s give.
GivesLength(s, n) ==
    \/ n = None /\ \A i \in 1 .. Len(s) : ~IsLength(s[i])
    \/ \E i \in 1 .. Len(s) : IsLength(s[i]) /\ n = s[i].value

\* A handler gets the whole request head, however many reads it arrived in:
\* path, every field in order and with duplicates, and the length these fields
\* give (handle_request() is spawned by on_frame_recv_callback()).
RequestComplete ==
    handler = "running" =>
        /\ request.path # None
        /\ Beginning(request.headers)
        /\ upTo["request"] <= Len(request.headers)
        /\ GivesLength(request.headers, request.content_length)

\* A response that get_response() reports as successful was sent by the peer:
\* its status, and fields in the order they arrived in, with the length they
\* give.
ResponseFaithful ==
    response.ec = "ok" =>
        /\ response.status \in statuses
        /\ Beginning(response.headers)
        /\ GivesLength(response.headers, response.content_length)

\* get_response() fails only on a stream that closed before any status, and then
\* always as truncated, never as a clean end ("in practice this is always
\* stream_truncated", status()).
FailureIsTruncation ==
    /\ response.ec # "eof"
    /\ response.ec = "stream_truncated" => closed_ /\ status_ < 0

\* Once get_response() has succeeded it succeeds again, without waiting ("Safe
\* to call more than once", ClientRequest::get_response()).
ResponseStays ==
    [][response.ec = "ok" => response'.ec = "ok" /\ pc' = "idle"]_vars

\* A get_response() that returns after the final response head is complete has
\* its status, not that of an informational response before it, and every field
\* of it.  One that :status wakes earlier may not (on_header_callback(),
\* ClientRequest::get_response()).
LaterIsFinal ==
    [][response' # response /\ response'.ec = "ok" /\ "final" \in done =>
           response'.status = 200 /\ upTo["final"] <= Len(response'.headers)]_vars

\* A get_response() is never left suspended by the step it waits for: while it is,
\* there is no status, and the step that closes the stream leaves none suspended
\* (status() waits only without one, set_status() and on_close() set the event).
StatusNeverMissed ==
    [][status_ready_'.waiter = "suspended" =>
           status_' < 0 /\ (closed_' => closed_)]_vars

\* A get_response() suspended on an open stream returns once the status has
\* arrived or the stream has closed (set_status(), on_close()).
WaiterWoken ==
    [](pc = "waiting" /\ ~closed_ =>
           <>(pc = "idle") \/ [](status_ < 0 /\ ~closed_))

\* get_response() returns once the stream has closed, whenever it was called
\* ("wakes -- with eof_error(), since no status is ever coming -- if the stream
\* closes first", status()).
ClosedMeansReturn == (pc = "waiting" /\ closed_) ~> (pc = "idle")

\* A successful get_response() has every field of the response head ("Every
\* header the peer sent on the response", ClientResponse::headers()).
ResponseComplete ==
    response.ec = "ok" /\ "final" \in done =>
        upTo["final"] <= Len(response.headers)
=============================================================================
