-------------------------- MODULE AsyncEventProofs --------------------------
(***************************************************************************)
(* Facts about the operations on an event that the invariance proofs cite. *)
(***************************************************************************)
EXTENDS AsyncEvent, TLAPS

\* Every operation on an event yields an event.
LEMMA EventTypes ==
    /\ NewEvent \in Event
    /\ \A e \in Event : /\ SetEvent(e) \in Event
                        /\ ClearEvent(e) \in Event
                        /\ AwaitEvent(e) \in Event
                        /\ CancelWait(e) \in Event
                        /\ EndWait(e) \in Event
BY DEF Event, WaiterStates, NewEvent, SetEvent, ClearEvent, AwaitEvent,
   CancelWait, EndWait

\* set() wakes a suspended waiter and no other; a wait right after clear()
\* suspends; a stop request completes a suspended wait.
LEMMA EventWaiters ==
    ASSUME NEW e \in Event
    PROVE  /\ e.waiter \in WaiterStates
           /\ SetEvent(e).waiter # "suspended"
           /\ SetEvent(e).waiter = "canceled" <=> e.waiter = "canceled"
           /\ SetEvent(e).waiter = "none" <=> e.waiter = "none"
           /\ e.waiter = "suspended" => SetEvent(e).waiter = "ready"
           /\ e.waiter # "suspended" => SetEvent(e).waiter = e.waiter
           /\ AwaitEvent(ClearEvent(e)).waiter = "suspended"
           /\ e.waiter = "suspended" => CancelWait(e).waiter = "canceled"
           /\ EndWait(e).waiter = "none"
BY DEF Event, WaiterStates, SetEvent, ClearEvent, AwaitEvent, CancelWait,
   EndWait
=============================================================================
