------------------------------ MODULE ByteSink ------------------------------
(***************************************************************************)
(* What the write side of a stream promises its writer: bytes leave in     *)
(* order, none after the end of the body; a call returns with exactly the  *)
(* bytes that have left since the one before it, also when it is           *)
(* cancelled; one that succeeds on an open stream has moved the body on,   *)
(* or, if it was to end the body, has ended it.                            *)
(***************************************************************************)
EXTENDS Integers

VARIABLES sent,     \* bytes that have left
          ended,    \* the end of the body has left
          reported, \* bytes reported to the writer as written
          open,     \* the stream is not closed
          result    \* what the last call returned, and whether it was to end

sinkVars == <<sent, ended, reported, open, result>>

SinkInit ==
    /\ sent = 0 /\ reported = 0
    /\ ended = FALSE /\ open = TRUE
    /\ result = [ec |-> "none", n |-> 0, eof |-> FALSE]

Send ==
    /\ open /\ ~ended
    /\ sent' >= sent
    /\ ended' \in BOOLEAN
    /\ UNCHANGED <<reported, open, result>>

Close ==
    /\ open /\ ~open'
    /\ UNCHANGED <<sent, ended, reported, result>>

Report(ec, eof) ==
    /\ ec = "eof" => ~open /\ sent = reported
    /\ ec = "ok" /\ open => IF eof THEN ended ELSE sent > reported
    /\ reported' = sent
    /\ result' = [ec |-> ec, n |-> sent - reported, eof |-> eof]
    /\ UNCHANGED <<sent, ended, open>>

SinkNext == \/ Send \/ Close
            \/ \E ec \in {"ok", "eof", "canceled"}, eof \in BOOLEAN :
                   Report(ec, eof)

SinkSpec == SinkInit /\ [][SinkNext]_sinkVars
=============================================================================
