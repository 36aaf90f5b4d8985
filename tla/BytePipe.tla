------------------------------ MODULE BytePipe ------------------------------
(***************************************************************************)
(* What the read side of a stream promises its reader: a reliable byte     *)
(* pipe.  Every read that succeeds takes the next bytes of the body, at    *)
(* least one; the end of the body is reported only to a reader that has    *)
(* taken all of it, as "eof" after a clean end and as "stream_truncated"   *)
(* after any other; a cancelled read takes nothing.                        *)
(***************************************************************************)
EXTENDS Integers

VARIABLES sent,     \* bytes that entered the pipe
          taken,    \* bytes reported to the reader
          end,      \* "open", or how the pipe ended
          result    \* what the last read returned

pipeVars == <<sent, taken, end, result>>

PipeInit ==
    /\ sent = 0
    /\ taken = 0
    /\ end = "open"
    /\ result = [ec |-> "none", n |-> 0]

Put ==
    /\ end = "open"
    /\ sent' \in {m \in Nat : m > sent}
    /\ UNCHANGED <<taken, end, result>>

End ==
    /\ end = "open"
    /\ end' \in {"eof", "stream_truncated"}
    /\ UNCHANGED <<sent, taken, result>>

Take ==
    /\ taken' > taken
    /\ taken' <= sent
    /\ result' = [ec |-> "ok", n |-> taken' - taken]
    /\ UNCHANGED <<sent, end>>

TakeEnd ==
    /\ end # "open"
    /\ taken = sent
    /\ result' = [ec |-> end, n |-> 0]
    /\ UNCHANGED <<sent, taken, end>>

TakeNothing ==
    /\ result' = [ec |-> "canceled", n |-> 0]
    /\ UNCHANGED <<sent, taken, end>>

PipeNext == Put \/ End \/ Take \/ TakeEnd \/ TakeNothing

PipeSpec == PipeInit /\ [][PipeNext]_pipeVars
=============================================================================
