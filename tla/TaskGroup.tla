----------------------------- MODULE TaskGroup ------------------------------
(***************************************************************************)
(* detail::TaskGroup, the service of an io_context that counts the         *)
(* coroutines spawned into it and can request their stop.                  *)
(***************************************************************************)
EXTENDS Integers, FiniteSets

CONSTANT Tasks      \* bound: the coroutines spawned into the group

VARIABLES
    count_,
    stop_requested, \* the state of source_
    spawned,        \* history: the tasks spawned so far
    live            \* the tasks that have not completed

groupVars == <<count_, stop_requested, spawned, live>>

GroupTypeOK ==
    /\ count_ \in Nat
    /\ stop_requested \in BOOLEAN
    /\ spawned \subseteq Tasks
    /\ live \subseteq spawned

Spawn(t) ==
    /\ t \in Tasks \ spawned
    /\ count_' = count_ + 1
    /\ spawned' = spawned \cup {t}
    /\ live' = live \cup {t}
    /\ UNCHANGED stop_requested

\* Mutation: only the completion handler counts down, the exception handler does
\* not.
Complete_NotOnThrow(t, throws) ==
    /\ t \in live
    /\ count_' = IF throws THEN count_ ELSE count_ - 1
    /\ live' = live \ {t}
    /\ UNCHANGED <<stop_requested, spawned>>

\* A task returns, or ends with an exception.
Complete(t, throws) ==
    /\ t \in live
    /\ count_' = count_ - 1
    /\ live' = live \ {t}
    /\ UNCHANGED <<stop_requested, spawned>>

RequestStop ==
    /\ stop_requested' = TRUE
    /\ UNCHANGED <<count_, spawned, live>>
=============================================================================
