------------------------------- MODULE Server -------------------------------
(***************************************************************************)
(* Server::Impl: the accept loop, the sessions it accepts, their request   *)
(* handlers and the sessions of a Client on the same io_context, all       *)
(* spawned into one TaskGroup, and the destructor that stops and drains    *)
(* them.                                                                   *)
(*                                                                         *)
(* The io_context runs on one thread, inside run() or inside the           *)
(* destructor; a step of a coroutine is one action.                        *)
(***************************************************************************)
EXTENDS TaskGroup

VARIABLES
    ioc,            \* what drives the io_context
    tls,            \* the server is configured with TLS
    accept,         \* where accept_loop() is
    acceptTask,     \* the task of accept_loop()
    sessions,       \* the tasks that are accepted sessions
    connect         \* where a Client::connect() of the application is

serverVars == <<ioc, tls, accept, acceptTask, sessions, connect>>
vars == <<groupVars, serverVars>>

TypeOK ==
    /\ GroupTypeOK
    /\ ioc \in {"idle", "running", "stopped", "returned", "draining",
               "destroyed"}
    /\ tls \in BOOLEAN
    /\ accept \in {"accepting", "handshaking", "ended", "thrown"}
    /\ acceptTask \in Tasks
    /\ sessions \subseteq spawned
    /\ connect \in {"none", "connecting", "handshaking", "ended"}

\* The constructor starts accept_loop().
Init ==
    /\ ioc = "idle"
    /\ tls \in BOOLEAN
    /\ accept = "accepting"
    /\ acceptTask \in Tasks
    /\ count_ = 1
    /\ stop_requested = FALSE
    /\ spawned = {acceptTask}
    /\ live = {acceptTask}
    /\ sessions = {}
    /\ connect = "none"

-----------------------------------------------------------------------------
(* The owner of the server.                                                *)

Run ==
    /\ ioc = "idle"
    /\ ioc' = "running"
    /\ UNCHANGED <<groupVars, tls, accept, acceptTask, sessions, connect>>

\* stop() only stops the scheduler.
Stop ==
    /\ ioc \in {"idle", "running"}
    /\ ioc' = "stopped"
    /\ UNCHANGED <<groupVars, tls, accept, acceptTask, sessions, connect>>

\* run() also returns when the io_context has run out of work: no task of the
\* group is left, no connect() under way, and the application has nothing else.
RunReturns ==
    /\ ioc = "running"
    /\ live = {} /\ connect \notin {"connecting", "handshaking"}
    /\ ioc' = "returned"
    /\ UNCHANGED <<groupVars, tls, accept, acceptTask, sessions, connect>>

\* ~Impl() begins, outside of run().
Destroy ==
    /\ ioc \in {"idle", "stopped", "returned"}
    /\ ioc' = "draining"
    /\ RequestStop
    /\ UNCHANGED <<tls, accept, acceptTask, sessions, connect>>

\* Mutation: the drain stops one task short.
Drained_OffByOne == count_ <= 1

Drained == count_ = 0

\* The drain loop finds the count at zero; the members are destroyed.
DrainEnds ==
    /\ ioc = "draining"
    /\ Drained
    /\ ioc' = "destroyed"
    /\ UNCHANGED <<groupVars, tls, accept, acceptTask, sessions, connect>>

Runs == ioc \in {"running", "draining"}

-----------------------------------------------------------------------------
(* accept_loop()                                                           *)

SpawnSession(t) == Spawn(t) /\ sessions' = sessions \cup {t}

\* accept() completes with a connection.
Accepted ==
    /\ Runs
    /\ accept = "accepting" /\ tls
    /\ accept' = "handshaking"
    /\ UNCHANGED <<groupVars, ioc, tls, acceptTask, sessions, connect>>

AcceptedPlain(t) ==
    /\ Runs
    /\ accept = "accepting" /\ ~tls
    /\ SpawnSession(t)
    /\ UNCHANGED <<ioc, tls, accept, acceptTask, connect>>

\* The options of the new connection cannot be set: they are set by a call that
\* reports an error by an exception only, which ends accept_loop().
AcceptThrows ==
    /\ Runs
    /\ accept = "accepting"
    /\ accept' = "thrown"
    /\ Complete(acceptTask, TRUE)
    /\ UNCHANGED <<ioc, tls, acceptTask, sessions, connect>>

\* Mutation: any error of accept() ends the loop.
EndsOnError_Always == TRUE

\* Mutation: no error of accept() ends the loop.
EndsOnError_Never == FALSE

\* An error of accept() ends the loop only if it is to stop.
EndsOnError == stop_requested

\* accept() fails or is cancelled.
AcceptFailed ==
    /\ Runs
    /\ accept = "accepting"
    /\ IF EndsOnError
       THEN accept' = "ended" /\ Complete(acceptTask, FALSE)
       ELSE UNCHANGED <<groupVars, accept>>
    /\ UNCHANGED <<ioc, tls, acceptTask, sessions, connect>>

\* The handshake fails, is cancelled, or does not agree on "h2".
HandshakeFailed ==
    /\ Runs
    /\ accept = "handshaking"
    /\ accept' = "accepting"
    /\ UNCHANGED <<groupVars, ioc, tls, acceptTask, sessions, connect>>

HandshakeDone(t) ==
    /\ Runs
    /\ accept = "handshaking"
    /\ accept' = "accepting"
    /\ SpawnSession(t)
    /\ UNCHANGED <<ioc, tls, acceptTask, connect>>

-----------------------------------------------------------------------------
(* Sessions, handlers and clients.                                         *)

\* A session dispatches a request: its handler is a task of its own.
DispatchRequest(s, t) ==
    /\ Runs
    /\ s \in sessions \cap live
    /\ Spawn(t)
    /\ UNCHANGED serverVars

\* A session or a handler ends, also with an exception.
TaskEnds(t) ==
    /\ Runs
    /\ t # acceptTask
    /\ \E throws \in BOOLEAN : Complete(t, throws)
    /\ UNCHANGED serverVars

\* Client::connect(), called from a coroutine of the application.
Connect ==
    /\ Runs
    /\ connect = "none"
    /\ connect' = "connecting"
    /\ UNCHANGED <<groupVars, ioc, tls, accept, acceptTask, sessions>>

ConnectHandshake ==
    /\ Runs
    /\ connect = "connecting"
    /\ connect' = "handshaking"
    /\ UNCHANGED <<groupVars, ioc, tls, accept, acceptTask, sessions>>

ConnectFailed ==
    /\ Runs
    /\ connect \in {"connecting", "handshaking"}
    /\ connect' = "ended"
    /\ UNCHANGED <<groupVars, ioc, tls, accept, acceptTask, sessions>>

Connected(t) ==
    /\ Runs
    /\ connect \in {"connecting", "handshaking"}
    /\ connect' = "ended"
    /\ Spawn(t)
    /\ UNCHANGED <<ioc, tls, accept, acceptTask, sessions>>

-----------------------------------------------------------------------------
AcceptLoop == \/ Accepted \/ AcceptThrows \/ AcceptFailed \/ HandshakeFailed
              \/ \E t \in Tasks : AcceptedPlain(t) \/ HandshakeDone(t)

Client == \/ Connect \/ ConnectHandshake \/ ConnectFailed
          \/ \E t \in Tasks : Connected(t)

Next == \/ Run \/ Stop \/ RunReturns \/ Destroy \/ DrainEnds
        \/ AcceptLoop \/ Client
        \/ \E s, t \in Tasks : DispatchRequest(s, t)
        \/ \E t \in Tasks : TaskEnds(t)

Spec == Init /\ [][Next]_vars

\* The drain loop goes on as long as the count is not zero.  Everything a task of
\* the group waits for is cancelled by a stop request: sessions and handlers end,
\* a handshake fails, and of the calls of accept() not all succeed.
FairSpec == /\ Spec
            /\ WF_vars(DrainEnds)
            /\ SF_vars(stop_requested /\ AcceptFailed)
            /\ WF_vars(stop_requested /\ HandshakeFailed)
            /\ \A t \in Tasks : WF_vars(stop_requested /\ TaskEnds(t))

-----------------------------------------------------------------------------
(* Properties.                                                             *)

\* The count is the number of tasks that have not completed, whatever they spawn
\* and however they end (spawn() and its two handlers).
CountExact == count_ = Cardinality(live)

\* The members are destroyed only when every task has completed, those spawned
\* during the drain included (~Impl(), "no coroutine frame is left suspended").
SafeDestroy == ioc = "destroyed" => live = {}

\* run() goes on until stop() is called, whatever connections, handshakes and
\* accepts fail and however many tasks end ("Runs the server's io_context until
\* stopped", run()): only the exception that ends accept_loop() lets it run out
\* of work, once the last session has ended.
RunsUntilStopped == ioc = "returned" => accept = "thrown"

\* The destructor returns, whatever is in flight and however stop() was called.
DrainTerminates == (ioc = "draining") ~> (ioc = "destroyed")

\* No coroutine of the library is suspended when the io_context is destroyed,
\* the ones of a Client sharing it included ("Always safe to call, regardless of
\* what's in flight", ~Server()).
NoFrameLeft ==
    ioc = "destroyed" => connect \notin {"connecting", "handshaking"}
=============================================================================
