-------------------------------- MODULE Echo --------------------------------
(***************************************************************************)
(* One request to the echo handler, from the client coroutine that writes  *)
(* its body and reads the response, through two flow-controlled streams,   *)
(* to the handler that reads, submits and writes back.                     *)
(*                                                                         *)
(* The stream calls are taken as BytePipe and ByteSink state them; a call  *)
(* that is suspended is a pc at which only the steps that complete it are  *)
(* enabled.  Byte i of the response body is the position in the request    *)
(* body of the byte the handler put there.  A byte that has left one side  *)
(* is on its way until the other side has received it.                     *)
(***************************************************************************)
EXTENDS Integers, Sequences, Body

CONSTANTS Window,       \* the window of a stream, both ways (1 MiB)
          BufferSize,   \* of the handler (64 KiB) and of the client's reads
          Sizes,        \* bound: sizes of request bodies
          FaultySizes   \* bound: those of exchanges with faults

ASSUME EchoAssumption ==
    /\ Window \in Nat \ {0} /\ BufferSize \in Nat \ {0}
    /\ Sizes \subseteq Nat /\ FaultySizes \subseteq Sizes

VARIABLES
    size, declared, \* the request body, and its content-length field
    eager,          \* the request has the field x-eager-submit
    mode,           \* how the client orders writing and get_response()
    faulty,         \* streams may be reset, the handler stopped
    writer, getter, \* where the client writes its body, and reads the response
    pc,             \* where the handler is
    content_length_, \* of the Response
    from,           \* the handler's buffer holds the bytes after from
    stopped,        \* the stop token of the handler is triggered
    upSent, upRecv, upRead, upAllowed, upEnd,   \* the request body
    down, downRecv, downRead, downAllowed, downEnd, \* the response body
    head,           \* the response HEADERS, and the length they announce
    reset,          \* the side that has reset the stream
    sclosed, cclosed \* on_close() has been called on the server's stream, on
                    \* the client's

fixed      == <<size, declared, eager, mode, faulty>>
clientVars == <<writer, getter>>
handlerVars == <<pc, content_length_, from, stopped>>
upVars     == <<upSent, upRecv, upRead, upAllowed, upEnd>>
downVars   == <<down, downRecv, downRead, downAllowed, downEnd, head>>
closeVars  == <<reset, sclosed, cclosed>>
vars == <<fixed, clientVars, handlerVars, upVars, downVars, closeVars>>

None == -1
EndStates == {"no", "sent", "received"}

TypeOK ==
    /\ size \in Sizes /\ declared \in Nat \cup {None}
    /\ {eager, faulty, stopped, sclosed, cclosed} \subseteq BOOLEAN
    /\ mode \in {"concurrent", "writeFirst", "responseFirst"}
    /\ writer \in {"write", "eof", "done", "failed"}
    /\ getter \in {"waiting", "reading", "eof", "truncated"}
    /\ pc \in {"start", "read", "write", "eof", "done"}
    /\ content_length_ \in Nat \cup {None}
    /\ upSent \in 0 .. size /\ upRecv \in 0 .. upSent /\ upRead \in 0 .. upRecv
    /\ from \in 0 .. upRead
    /\ down \in Seq(Nat)
    /\ downRecv \in 0 .. Len(down) /\ downRead \in 0 .. downRecv
    /\ upAllowed \in Nat /\ downAllowed \in Nat
    /\ upEnd \in EndStates /\ downEnd \in EndStates
    /\ head \in [at : EndStates, length : Nat \cup {None}]
    /\ reset \in {"none", "server", "client"}

\* Content-length fields that are too small and too large by one.
WrongLengths(n) == {n - 1, n + 1} \cap Nat

\* A client that announces a wrong length counts as a fault.  With faults the
\* client is concurrent: its steps include those of the other two.
Init ==
    /\ faulty \in BOOLEAN
    /\ size \in IF faulty THEN FaultySizes ELSE Sizes
    /\ declared \in {None, size} \cup (IF faulty THEN WrongLengths(size) ELSE {})
    /\ eager \in BOOLEAN
    /\ mode \in {"concurrent"}
                \cup (IF faulty THEN {} ELSE {"writeFirst", "responseFirst"})
    /\ writer = (IF size = 0 THEN "eof" ELSE "write") /\ getter = "waiting"
    /\ pc = "start" /\ content_length_ = None /\ from = 0 /\ stopped = FALSE
    /\ upSent = 0 /\ upRecv = 0 /\ upRead = 0 /\ upAllowed = Window /\ upEnd = "no"
    /\ down = <<>> /\ downRecv = 0 /\ downRead = 0 /\ downAllowed = Window
    /\ downEnd = "no" /\ head = [at |-> "no", length |-> None]
    /\ reset = "none" /\ sclosed = FALSE /\ cclosed = FALSE

-----------------------------------------------------------------------------
(* nghttp2.                                                                *)

\* Mutation: the bytes that are read are not given back to the window.
Credit_Never(allowed, read) == allowed

\* Mutation: the window is given back only when more than all of it was consumed.
Credit_Late(allowed, read) ==
    IF Window + read - allowed > Window THEN Window + read ELSE allowed

\* Stream::consume(): nghttp2 lets the peer send what has been consumed once
\* that is half a window.
Credit(allowed, read) ==
    IF Window + read - allowed >= Window \div 2 THEN Window + read ELSE allowed

\* Mutation: the bytes that arrive are given back before they are read.
Arrived_Consumed(allowed, recv) == Credit(allowed, recv)

\* on_data_chunk_recv_callback(): only the window of the connection is given
\* back.
Arrived(allowed, recv) == allowed

\* The body can no longer have the length that was announced.
Overshoots(length, n) == length # None /\ n > length
Mismatch(length, n) == length # None /\ n # length

\* Either side gives the stream up, and the other is told.
ResetBy(side) ==
    /\ reset' = IF reset = "none" THEN side ELSE reset
    /\ sclosed' = (sclosed \/ side = "server")
    /\ cclosed' = (cclosed \/ side = "client")

Reset(side) ==
    /\ faulty /\ reset = "none"
    /\ ~(sclosed /\ cclosed)
    /\ ResetBy(side)
    /\ UNCHANGED <<fixed, clientVars, handlerVars, upVars, downVars>>

ResetArrives ==
    /\ reset # "none" /\ ~(sclosed /\ cclosed)
    /\ sclosed' = TRUE /\ cclosed' = TRUE
    /\ UNCHANGED <<fixed, clientVars, handlerVars, upVars, downVars, reset>>

\* DATA reaches the server.
ServerRecv ==
    /\ ~sclosed /\ upRecv < upSent
    /\ IF Overshoots(declared, upSent)
       THEN ResetBy("server") /\ UNCHANGED <<upRecv, upAllowed>>
       ELSE /\ upRecv' = upSent /\ upAllowed' = Arrived(upAllowed, upRecv')
            /\ UNCHANGED closeVars
    /\ UNCHANGED <<fixed, clientVars, handlerVars, upSent, upRead, upEnd, downVars>>

\* END_STREAM reaches the server, whose own may have been sent.
ServerRecvEnd ==
    /\ ~sclosed /\ upEnd = "sent" /\ upRecv = upSent
    /\ IF Mismatch(declared, upRecv)
       THEN ResetBy("server") /\ UNCHANGED upEnd
       ELSE /\ upEnd' = "received" /\ sclosed' = (downEnd # "no")
            /\ UNCHANGED <<reset, cclosed>>
    /\ UNCHANGED <<fixed, clientVars, handlerVars, upSent, upRecv, upRead, upAllowed,
                   downVars>>

\* The response HEADERS reach the client.
ClientRecvHead ==
    /\ ~cclosed /\ head.at = "sent"
    /\ head' = [head EXCEPT !.at = "received"]
    /\ UNCHANGED <<fixed, clientVars, handlerVars, upVars, down, downRecv, downRead,
                   downAllowed, downEnd, closeVars>>

ClientRecv ==
    /\ ~cclosed /\ head.at = "received" /\ downRecv < Len(down)
    /\ IF Overshoots(head.length, Len(down))
       THEN ResetBy("client") /\ UNCHANGED <<downRecv, downAllowed>>
       ELSE /\ downRecv' = Len(down) /\ downAllowed' = Arrived(downAllowed, downRecv')
            /\ UNCHANGED closeVars
    /\ UNCHANGED <<fixed, clientVars, handlerVars, upVars, down, downRead, downEnd,
                   head>>

ClientRecvEnd ==
    /\ ~cclosed /\ head.at = "received"
    /\ downEnd = "sent" /\ downRecv = Len(down)
    /\ IF Mismatch(head.length, downRecv)
       THEN ResetBy("client") /\ UNCHANGED downEnd
       ELSE /\ downEnd' = "received" /\ cclosed' = (upEnd # "no")
            /\ UNCHANGED <<reset, sclosed>>
    /\ UNCHANGED <<fixed, clientVars, handlerVars, upVars, down, downRecv, downRead,
                   downAllowed, head>>

-----------------------------------------------------------------------------
(* The client: ClientRequest and ClientResponse.                           *)

MayWrite == mode = "responseFirst" => getter # "waiting"
MayRead == mode = "writeFirst" => writer \in {"done", "failed"}

\* write(): write_some() until everything is sent.
ClientWrite(n) ==
    /\ writer = "write" /\ MayWrite /\ ~cclosed
    /\ n <= Lesser(size - upSent, upAllowed - upSent)
    /\ upSent' = upSent + n
    /\ writer' = IF upSent' = size THEN "eof" ELSE "write"
    /\ UNCHANGED <<fixed, getter, handlerVars, upRecv, upRead, upAllowed, upEnd,
                   downVars, closeVars>>

\* write_eof(): nghttp2 sends no DATA, not even the empty one that ends the
\* body, into a closed window.
ClientWriteEof ==
    /\ writer = "eof" /\ MayWrite /\ ~cclosed
    /\ upSent < upAllowed
    /\ upEnd' = "sent" /\ writer' = "done"
    /\ cclosed' = (downEnd = "received")
    /\ UNCHANGED <<fixed, getter, handlerVars, upSent, upRecv, upRead, upAllowed,
                   downVars, reset, sclosed>>

\* A write fails on a closed stream, but a write_eof() that the close finds
\* waiting returns success.
ClientWriteClosed ==
    /\ writer \in {"write", "eof"} /\ MayWrite /\ cclosed
    /\ writer' = "failed" \/ (writer = "eof" /\ writer' = "done")
    /\ UNCHANGED <<fixed, getter, handlerVars, upVars, downVars, closeVars>>

\* get_response()
GetResponse ==
    /\ getter = "waiting" /\ MayRead
    /\ head.at = "received" \/ cclosed
    /\ getter' = IF head.at = "received" THEN "reading" ELSE "truncated"
    /\ UNCHANGED <<fixed, writer, handlerVars, upVars, downVars, closeVars>>

\* read_some() until it fails.
ClientRead ==
    /\ getter = "reading" /\ downRead < downRecv
    /\ downRead' = downRead + Lesser(downRecv - downRead, BufferSize)
    /\ downAllowed' = Credit(downAllowed, downRead')
    /\ UNCHANGED <<fixed, clientVars, handlerVars, upVars, down, downRecv, downEnd,
                   head, closeVars>>

ClientReadEnd ==
    /\ getter = "reading" /\ downRead = downRecv
    /\ downEnd = "received" \/ cclosed
    /\ getter' = IF downEnd = "received" THEN "eof" ELSE "truncated"
    /\ UNCHANGED <<fixed, writer, handlerVars, upVars, downVars, closeVars>>

-----------------------------------------------------------------------------
(* echo()                                                                  *)

Submitted == head.at # "no"

\* Mutation: the response does not announce its length.
CopyLength_Never == content_length_' = None

CopyLength == content_length_' = declared

\* response.submit(), if not done, before the handler goes on to next.  A
\* submission that fails ends the handler, without an end of the body.
SubmitAndGo(length, next) ==
    \/ /\ head' = IF Submitted THEN head ELSE [at |-> "sent", length |-> length]
       /\ pc' = next
    \/ faulty /\ ~Submitted /\ pc' = "done" /\ UNCHANGED head

Start ==
    /\ pc = "start"
    /\ CopyLength
    /\ IF eager THEN SubmitAndGo(content_length_', "read")
       ELSE pc' = "read" /\ UNCHANGED head
    /\ UNCHANGED <<fixed, clientVars, from, stopped, upVars, down, downRecv,
                   downRead, downAllowed, downEnd, closeVars>>

ReadSize == Lesser(upRecv - upRead, BufferSize)

\* request.read_some() with data: what is not written yet is now in the buffer.
Read ==
    /\ pc = "read" /\ upRead < upRecv
    /\ upRead' = upRead + ReadSize
    /\ upAllowed' = Credit(upAllowed, upRead')
    /\ SubmitAndGo(content_length_, "write")
    /\ UNCHANGED <<fixed, clientVars, content_length_, from, stopped, upSent, upRecv,
                   upEnd, down, downRecv, downRead, downAllowed, downEnd, closeVars>>

\* request.read_some() at the end of the body, on a closed stream, or cancelled.
ReadFails ==
    /\ pc = "read" /\ upRead = upRecv
    /\ upEnd = "received" \/ sclosed \/ stopped
    /\ SubmitAndGo(content_length_, "eof")
    /\ UNCHANGED <<fixed, clientVars, content_length_, from, stopped, upVars, down,
                   downRecv, downRead, downAllowed, downEnd, closeVars>>

\* Mutation: write_some() in place of write().
Written_Once(n) == upRead

\* response.write() goes on to the bytes after these.
Written(n) == from + n

\* response.write(): write_some() until the buffer is written.
Write(n) ==
    /\ pc = "write" /\ ~sclosed
    /\ n <= Lesser(upRead - from, downAllowed - Len(down))
    /\ down' = down \o Bytes(from, from + n)
    /\ from' = Written(n)
    /\ pc' = IF from' = upRead THEN "read" ELSE "write"
    /\ UNCHANGED <<fixed, clientVars, content_length_, stopped, upVars, downRecv,
                   downRead, downAllowed, downEnd, head, closeVars>>

WriteFails ==
    /\ pc = "write" /\ (sclosed \/ stopped)
    /\ pc' = "eof"
    /\ UNCHANGED <<fixed, clientVars, content_length_, from, stopped, upVars,
                   downVars, closeVars>>

\* response.write_eof().  A stop request that came earlier may still find that
\* nghttp2 has sent END_STREAM when it cancels the wait.
WriteEof ==
    /\ pc = "eof" /\ ~sclosed
    /\ Len(down) < downAllowed
    /\ downEnd' = "sent" /\ pc' = "done"
    /\ sclosed' = (upEnd = "received")
    /\ UNCHANGED <<fixed, clientVars, content_length_, from, stopped, upVars, down,
                   downRecv, downRead, downAllowed, head, reset, cclosed>>

WriteEofFails ==
    /\ pc = "eof" /\ (sclosed \/ stopped)
    /\ pc' = "done"
    /\ UNCHANGED <<fixed, clientVars, content_length_, from, stopped, upVars,
                   downVars, closeVars>>

\* The server is destroyed and its TaskGroup stops the handler.
StopHandler ==
    /\ faulty /\ ~stopped
    /\ stopped' = TRUE
    /\ UNCHANGED <<fixed, clientVars, pc, content_length_, from, upVars, downVars,
                   closeVars>>

-----------------------------------------------------------------------------
Nghttp2 == \/ ResetArrives \/ ServerRecv \/ ServerRecvEnd
           \/ ClientRecvHead \/ ClientRecv \/ ClientRecvEnd

Client == \/ \E n \in 1 .. size : ClientWrite(n)
          \/ ClientWriteEof \/ ClientWriteClosed
          \/ GetResponse \/ ClientRead \/ ClientReadEnd

Handler == \/ Start \/ Read \/ ReadFails
           \/ \E n \in 1 .. upRead : Write(n)
           \/ WriteFails \/ WriteEof \/ WriteEofFails

Next == \/ Nghttp2 \/ Client \/ Handler
        \/ \E side \in {"server", "client"} : Reset(side)
        \/ StopHandler

Spec == Init /\ [][Next]_vars

\* The connection delivers, and the executor runs every coroutine that can go
\* on: none of these steps can be held up for ever by the others.
FairSpec == Spec /\ WF_vars(Nghttp2) /\ WF_vars(Client) /\ WF_vars(Handler)

-----------------------------------------------------------------------------
(* Properties.                                                             *)

\* The response body is the request body, byte for byte, as far as it has been
\* read, whatever the sizes of the frames ("byte-for-byte what was read",
\* echo()).
EchoExact ==
    /\ \A i \in 1 .. Len(down) : down[i] = i
    /\ Len(down) <= upRead

\* A client that sees a clean end of the response has all of it: as many bytes
\* as were announced, if any were, and unless the handler was stopped the whole
\* request body.  A request that is reset or shorter than announced is never
\* echoed as a complete one (echo(), Response::content_length()).
CleanEndIsWhole ==
    getter = "eof" =>
        /\ downRead = Len(down)
        /\ declared # None => downRead = declared
        /\ ~stopped => downRead = size

\* A stream buffers no more than one window, however slow its reader ("per-stream
\* flow control is replenished only once Stream::consume() is called after the
\* user actually reads", on_data_chunk_recv_callback()).
BacklogBounded == upRecv - upRead <= Window /\ downRecv - downRead <= Window

\* How the client may order writing and reading: it reads while it writes, or
\* writes first a body that fits the window, or awaits first a response that is
\* submitted before the body is read.
Suits == \/ mode = "concurrent"
         \/ mode = "writeFirst" /\ size <= Window
         \/ mode = "responseFirst" /\ eager

Completed == writer = "done" /\ getter = "eof" /\ pc = "done"

\* Where the two halves of the client and the handler are suspended, or over.
WriterWaits == \/ writer \in {"done", "failed"}
               \/ ~MayWrite
               \/ upSent = upAllowed /\ ~cclosed
GetterWaits == \/ getter \in {"eof", "truncated"}
               \/ ~MayRead
               \/ getter = "waiting" /\ head.at # "received" /\ ~cclosed
               \/ /\ getter = "reading" /\ downRead = downRecv
                  /\ downEnd # "received" /\ ~cclosed
HandlerWaits == \/ pc = "done"
                \/ /\ pc = "read" /\ upRead = upRecv
                   /\ upEnd # "received" /\ ~sclosed /\ ~stopped
                \/ /\ pc \in {"write", "eof"} /\ Len(down) = downAllowed
                   /\ ~sclosed /\ ~stopped

\* nghttp2 has nothing left to deliver.
NothingOnItsWay ==
    /\ reset # "none" => sclosed /\ cclosed
    /\ sclosed \/ (upRecv = upSent /\ upEnd # "sent")
    /\ \/ cclosed \/ head.at = "no"
       \/ head.at = "received" /\ downRecv = Len(down) /\ downEnd # "sent"

\* The client and the handler never wait for each other, nor both for a window
\* the other would have to open: an undisturbed exchange in which nobody can go
\* on is complete ("necessary whenever the body is larger than the HTTP/2
\* flow-control window", ClientRequest::get_response()).
NeverStuck ==
    ~faulty /\ Suits /\ WriterWaits /\ GetterWaits /\ HandlerWaits
    /\ NothingOnItsWay => Completed

\* An undisturbed exchange with such a client completes, both bodies and their
\* ends (ClientRequest::get_response()).
EchoCompletes == ~faulty /\ Suits ~> Completed
=============================================================================
