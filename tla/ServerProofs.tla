---------------------------- MODULE ServerProofs ----------------------------
(***************************************************************************)
(* Proofs about Server, for any set of tasks: the count of the TaskGroup   *)
(* is exact, the destructor destroys nothing while a task is left, and     *)
(* run() does not run out of work while accept_loop() goes on.             *)
(***************************************************************************)
EXTENDS Server, FiniteSetTheorems, TLAPS

\* What the steps of the group preserve: only finitely many tasks are live, so
\* that they can be counted.
Counted == GroupTypeOK /\ IsFiniteSet(live) /\ CountExact

\* accept_loop() is a live task until the stop or an exception ends it, and only
\* the destructor stops the group.
AcceptState ==
    /\ accept \in {"accepting", "handshaking"} <=> acceptTask \in live
    /\ accept = "ended" => stop_requested
    /\ stop_requested => ioc \in {"draining", "destroyed"}

IInv ==
    /\ TypeOK
    /\ Counted
    /\ acceptTask \in spawned
    /\ AcceptState
    /\ SafeDestroy
    /\ RunsUntilStopped

-----------------------------------------------------------------------------
(* The steps of the group.                                                 *)

\* spawn() counts the new task, which was not live before.
LEMMA SpawnCounts ==
    ASSUME Counted, NEW t, Spawn(t)
    PROVE  Counted'
<1>1. /\ t \in Tasks /\ t \notin live
      /\ count_' = count_ + 1
      /\ spawned' = spawned \cup {t} /\ live' = live \cup {t}
      /\ stop_requested' = stop_requested
  BY DEF Counted, GroupTypeOK, Spawn
<1>2. IsFiniteSet(live') /\ Cardinality(live') = Cardinality(live) + 1
  BY <1>1, FS_AddElement DEF Counted
<1>3. GroupTypeOK' BY <1>1 DEF Counted, GroupTypeOK
<1>4. CountExact' BY <1>1, <1>2 DEF Counted, CountExact
<1>5. QED BY <1>2, <1>3, <1>4 DEF Counted

\* The completion of a live task counts it down, also after an exception.
LEMMA CompleteCounts ==
    ASSUME Counted, NEW t, NEW throws, Complete(t, throws)
    PROVE  Counted'
<1>1. /\ t \in live
      /\ count_' = count_ - 1
      /\ spawned' = spawned /\ live' = live \ {t}
      /\ stop_requested' = stop_requested
  BY DEF Complete
<1>2. IsFiniteSet(live') /\ Cardinality(live') = Cardinality(live) - 1
  BY <1>1, FS_RemoveElement DEF Counted
<1>3. CountExact' BY <1>1, <1>2 DEF Counted, CountExact
<1>4. count_' \in Nat BY <1>2, <1>3, FS_CardinalityType DEF CountExact
<1>5. GroupTypeOK' BY <1>1, <1>4 DEF Counted, GroupTypeOK
<1>6. QED BY <1>2, <1>3, <1>5 DEF Counted

LEMMA UnchangedCounts ==
    ASSUME Counted, UNCHANGED groupVars
    PROVE  Counted'
BY DEF Counted, GroupTypeOK, CountExact, groupVars

\* The drain loop ends only when no task is live: the count it looks at is exact.
LEMMA DrainedMeansNone ==
    ASSUME Counted, Drained
    PROVE  live = {}
BY FS_EmptySet DEF Counted, CountExact, Drained

-----------------------------------------------------------------------------
(* The invariant.                                                          *)

\* A server that has just been made satisfies the invariant.
LEMMA InitIInv == Init => IInv
<1> SUFFICES ASSUME Init PROVE IInv
  OBVIOUS
<1>1. IsFiniteSet(live) /\ Cardinality(live) = 1
  BY FS_Singleton DEF Init
<1>2. TypeOK BY DEF Init, TypeOK, GroupTypeOK
<1>3. Counted BY <1>1, <1>2 DEF Init, Counted, CountExact, TypeOK
<1>4. QED BY <1>2, <1>3 DEF Init, IInv, AcceptState, SafeDestroy,
                             RunsUntilStopped

\* Every step preserves it.
LEMMA NextIInv == IInv /\ [Next]_vars => IInv'
<1> SUFFICES ASSUME IInv, [Next]_vars PROVE IInv'
  OBVIOUS
<1>a. TypeOK /\ Counted /\ acceptTask \in spawned /\ AcceptState
      /\ SafeDestroy /\ RunsUntilStopped
  BY DEF IInv
<1> USE DEF IInv
<1>1. CASE Run
  <2>1. UNCHANGED groupVars BY <1>1 DEF Run
  <2>2. Counted' BY <1>a, <2>1, UnchangedCounts
  <2>3. QED BY <1>1, <1>a, <2>1, <2>2 DEF Run, TypeOK, Counted, AcceptState,
                                         SafeDestroy, RunsUntilStopped,
                                         groupVars
<1>2. CASE Stop
  <2>1. UNCHANGED groupVars BY <1>2 DEF Stop
  <2>2. Counted' BY <1>a, <2>1, UnchangedCounts
  <2>3. QED BY <1>2, <1>a, <2>1, <2>2 DEF Stop, TypeOK, Counted, AcceptState,
                                         SafeDestroy, RunsUntilStopped,
                                         groupVars
<1>2a. CASE RunReturns
  <2>1. UNCHANGED groupVars /\ live = {} BY <1>2a DEF RunReturns
  <2>2. Counted' BY <1>a, <2>1, UnchangedCounts
  <2>3. accept = "thrown"
    BY <1>2a, <1>a, <2>1 DEF RunReturns, TypeOK, AcceptState
  <2>4. QED BY <1>2a, <1>a, <2>1, <2>2, <2>3
            DEF RunReturns, TypeOK, Counted, AcceptState, SafeDestroy,
                RunsUntilStopped, groupVars
<1>3. CASE Destroy
  <2>1. Counted'
    BY <1>3, <1>a DEF Destroy, RequestStop, Counted, GroupTypeOK, CountExact
  <2>2. QED BY <1>3, <1>a, <2>1 DEF Destroy, RequestStop, TypeOK, Counted,
                                   AcceptState, SafeDestroy, RunsUntilStopped
<1>4. CASE DrainEnds
  <2>1. UNCHANGED groupVars /\ Drained BY <1>4 DEF DrainEnds
  <2>2. Counted' BY <1>a, <2>1, UnchangedCounts
  <2>3. live' = {} BY <1>a, <2>1, DrainedMeansNone DEF groupVars
  <2>4. QED BY <1>4, <1>a, <2>1, <2>2, <2>3
            DEF DrainEnds, TypeOK, Counted, AcceptState, SafeDestroy,
                RunsUntilStopped,
                groupVars
<1>5. CASE Accepted
  <2>1. UNCHANGED groupVars BY <1>5 DEF Accepted
  <2>2. Counted' BY <1>a, <2>1, UnchangedCounts
  <2>3. QED BY <1>5, <1>a, <2>1, <2>2 DEF Accepted, TypeOK, Counted,
                                         AcceptState, SafeDestroy,
                                         RunsUntilStopped, groupVars
<1>6. CASE HandshakeFailed
  <2>1. UNCHANGED groupVars BY <1>6 DEF HandshakeFailed
  <2>2. Counted' BY <1>a, <2>1, UnchangedCounts
  <2>3. QED BY <1>6, <1>a, <2>1, <2>2 DEF HandshakeFailed, TypeOK, Counted,
                                         AcceptState, SafeDestroy,
                                         RunsUntilStopped, groupVars
<1>7. CASE AcceptThrows
  <2>1. Counted' BY <1>7, <1>a, CompleteCounts DEF AcceptThrows
  <2>2. QED BY <1>7, <1>a, <2>1
            DEF AcceptThrows, Runs, Complete, TypeOK, Counted, AcceptState,
                SafeDestroy, RunsUntilStopped
<1>8. CASE AcceptFailed
  <2>1. CASE EndsOnError
    <3>1. accept' = "ended" /\ Complete(acceptTask, FALSE)
      BY <1>8, <2>1 DEF AcceptFailed
    <3>2. Counted' BY <3>1, <1>a, CompleteCounts
    <3>3. QED BY <1>8, <1>a, <2>1, <3>1, <3>2
              DEF AcceptFailed, EndsOnError, Runs, Complete, TypeOK, Counted,
                  AcceptState, SafeDestroy, RunsUntilStopped
  <2>2. CASE ~EndsOnError
    <3>1. UNCHANGED vars
      BY <1>8, <2>2 DEF AcceptFailed, vars, serverVars
    <3>2. UNCHANGED groupVars BY <3>1 DEF vars
    <3>3. Counted' BY <1>a, <3>2, UnchangedCounts
    <3>4. QED BY <1>a, <3>1, <3>2, <3>3
              DEF TypeOK, Counted, AcceptState, SafeDestroy,
                  RunsUntilStopped, vars,
                  serverVars, groupVars
  <2>3. QED BY <2>1, <2>2
<1>9. ASSUME NEW t \in Tasks, AcceptedPlain(t) \/ HandshakeDone(t) PROVE IInv'
  <2>1. Spawn(t) /\ sessions' = sessions \cup {t} /\ ioc' = ioc
        /\ tls' = tls /\ acceptTask' = acceptTask /\ connect' = connect
        /\ accept' = "accepting" /\ accept \in {"accepting", "handshaking"}
        /\ ioc # "destroyed"
    BY <1>9 DEF AcceptedPlain, HandshakeDone, SpawnSession, Runs
  <2>2. Counted' BY <2>1, <1>a, SpawnCounts
  <2>3. QED BY <1>a, <2>1, <2>2 DEF Spawn, TypeOK, Counted, AcceptState,
                                   SafeDestroy, RunsUntilStopped
<1>10. ASSUME Connect \/ ConnectHandshake \/ ConnectFailed PROVE IInv'
  <2>1. UNCHANGED groupVars
    BY <1>10 DEF Connect, ConnectHandshake, ConnectFailed
  <2>2. Counted' BY <1>a, <2>1, UnchangedCounts
  <2>3. QED BY <1>10, <1>a, <2>1, <2>2
            DEF Connect, ConnectHandshake, ConnectFailed, TypeOK, Counted,
                AcceptState, SafeDestroy, RunsUntilStopped, groupVars
<1>11. ASSUME NEW t \in Tasks, Connected(t) PROVE IInv'
  <2>1. Counted' BY <1>11, <1>a, SpawnCounts DEF Connected
  <2>2. QED BY <1>11, <1>a, <2>1
            DEF Connected, Runs, Spawn, TypeOK, Counted, GroupTypeOK,
                AcceptState, SafeDestroy, RunsUntilStopped
<1>12. ASSUME NEW s \in Tasks, NEW t \in Tasks, DispatchRequest(s, t)
       PROVE  IInv'
  <2>1. Counted' BY <1>12, <1>a, SpawnCounts DEF DispatchRequest
  <2>2. QED BY <1>12, <1>a, <2>1
            DEF DispatchRequest, Runs, Spawn, TypeOK, Counted, GroupTypeOK,
                AcceptState, SafeDestroy, RunsUntilStopped, serverVars
<1>13. ASSUME NEW t \in Tasks, TaskEnds(t) PROVE IInv'
  <2>1. PICK throws \in BOOLEAN : Complete(t, throws) BY <1>13 DEF TaskEnds
  <2>2. Counted' BY <2>1, <1>a, CompleteCounts
  <2>3. QED BY <1>13, <1>a, <2>1, <2>2
            DEF TaskEnds, Runs, Complete, TypeOK, Counted, AcceptState,
                SafeDestroy, RunsUntilStopped, serverVars
<1>14. CASE UNCHANGED vars
  <2>1. UNCHANGED groupVars BY <1>14 DEF vars
  <2>2. Counted' BY <1>a, <2>1, UnchangedCounts
  <2>3. QED BY <1>14, <1>a, <2>1, <2>2
            DEF TypeOK, Counted, AcceptState, SafeDestroy, RunsUntilStopped,
                vars, serverVars,
                groupVars
<1>15. QED
  BY <1>1, <1>2, <1>2a, <1>3, <1>4, <1>5, <1>6, <1>7, <1>8, <1>9, <1>10,
     <1>11, <1>12,
     <1>13, <1>14
     DEF Next, AcceptLoop, Client

-----------------------------------------------------------------------------
(* The theorems.                                                           *)

\* The strengthened invariant holds in every reachable state.
THEOREM Invariance == Spec => []IInv
<1>1. QED BY InitIInv, NextIInv, PTL DEF Spec

\* The state of the server and of its group is well formed.
THEOREM TypeCorrect == Spec => []TypeOK
<1>1. IInv => TypeOK BY DEF IInv
<1>2. QED BY <1>1, Invariance, PTL

\* The count of the TaskGroup is the number of live tasks, for any number of
\* sessions and handlers, whenever spawned and however ended.
THEOREM Counts == Spec => []CountExact
<1>1. IInv => CountExact BY DEF IInv, Counted
<1>2. QED BY <1>1, Invariance, PTL

\* ~Impl() falls through to the destruction of its members only when no task of
\* the group is left.
THEOREM DestroyIsSafe == Spec => []SafeDestroy
<1>1. IInv => SafeDestroy BY DEF IInv
<1>2. QED BY <1>1, Invariance, PTL

\* run() does not return while accept_loop() goes on, and nothing but the stop of
\* the group, which only the destructor requests, or an exception ends that.
THEOREM RunLasts == Spec => []RunsUntilStopped
<1>1. IInv => RunsUntilStopped BY DEF IInv
<1>2. QED BY <1>1, Invariance, PTL
=============================================================================
