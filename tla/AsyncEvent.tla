----------------------------- MODULE AsyncEvent -----------------------------
(***************************************************************************)
(* capy::async_event as the streams and the session use it.  The library   *)
(* is external; what is modelled is what the code relies on:               *)
(*   - set() latches the event and hands a suspended waiter over to the    *)
(*     executor.  The waiter is posted, it does not run inside set();      *)
(*   - clear() drops the latch and touches no waiter;                      *)
(*   - co_await wait() goes straight through a latched event and suspends  *)
(*     on an unlatched one;                                                *)
(*   - a stop request completes a suspended wait with error::canceled.  It *)
(*     has no effect on a waiter that set() has already handed over, nor   *)
(*     has set() on one that the stop request has.                         *)
(* No event of this program has two waiters at a time, so an event carries *)
(* the state of one.                                                       *)
(***************************************************************************)
WaiterStates == {"none", "suspended", "ready", "canceled"}

Event == [set : BOOLEAN, waiter : WaiterStates]

NewEvent == [set |-> FALSE, waiter |-> "none"]

SetEvent(e) ==
    [set |-> TRUE,
     waiter |-> IF e.waiter = "suspended" THEN "ready" ELSE e.waiter]

ClearEvent(e) == [set |-> FALSE, waiter |-> e.waiter]

AwaitEvent(e) ==
    [set |-> e.set, waiter |-> IF e.set THEN "ready" ELSE "suspended"]

CancelWait(e) ==
    [set |-> e.set,
     waiter |-> IF e.waiter = "suspended" THEN "canceled" ELSE e.waiter]

\* The posted resumption has run: nobody waits any more.
EndWait(e) == [set |-> e.set, waiter |-> "none"]

Resumable(e) == e.waiter \in {"ready", "canceled"}
=============================================================================
