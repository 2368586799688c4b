--------------------------- MODULE MetricsServer ---------------------------
(***************************************************************************)
(* MetricsServer (src/app/MetricsServer.cpp): a worker thread serves       *)
(* /metrics from one io_uring, with a one-shot poll on the listening       *)
(* socket and one on an eventfd that stop() writes to.  stop() runs on     *)
(* main's thread and reads stop_eventfd_ without synchronisation, while    *)
(* the worker may still be setting up or already be cleaning up.           *)
(***************************************************************************)
EXTENDS Naturals, FiniteSets

CONSTANTS MaxClients,   \* bound: connections made
          Failures      \* which may happen: "setup" (any call before the loop),
                        \* "wait" (wait_cqe), "poll" (the listener's, res < 0)

ASSUME ServerAssumption ==
  /\ MaxClients \in Nat
  /\ Failures \subseteq {"setup", "wait", "poll"}

VARIABLES serverPc,            \* where run() is
          listenFd,       \* listen_fd_: is it open?
          stopFd,         \* stop_eventfd_ as a member: "none" is -1
          eventfdOpen,    \* is the descriptor itself open?
          signalled,      \* the eventfd's counter is non-zero
          armed,          \* one-shot polls the ring holds
          cq,             \* completions, as <<tag, ok>>
          backlog,        \* connections not yet accepted
          connected,      \* connections made so far
          spc,            \* where stop() is
          stopRequested,  \* the jthread's stop token
          strayWrite,     \* stop() wrote to a descriptor that was closed
          failed          \* history: a call has failed

ringVars  == <<armed, cq>>
fdVars    == <<listenFd, stopFd, eventfdOpen>>
callerVars  == <<spc, stopRequested, strayWrite>>
serverVars      == <<serverPc, fdVars, signalled, ringVars, backlog, connected, callerVars, failed>>

ServerInit ==
  /\ serverPc = "socket"
  /\ listenFd = FALSE
  /\ stopFd = "none"
  /\ eventfdOpen = FALSE
  /\ signalled = FALSE
  /\ armed = {}
  /\ cq = {}
  /\ backlog = 0
  /\ connected = 0
  /\ spc = "running"
  /\ stopRequested = FALSE
  /\ strayWrite = FALSE
  /\ failed = FALSE
-----------------------------------------------------------------------------
(***************************************************************************)
(* run(): set up; every failure closes what was opened and returns.        *)
(***************************************************************************)

\* socket(), bind() and listen()
OpenListener ==
  /\ serverPc = "socket"
  /\ \/ listenFd' = TRUE /\ serverPc' = "eventfd" /\ UNCHANGED failed
     \/ "setup" \in Failures /\ listenFd' = FALSE /\ serverPc' = "exited" /\ failed' = TRUE
  /\ UNCHANGED <<stopFd, eventfdOpen, signalled, ringVars, backlog, connected, callerVars>>

OpenEventfd ==
  /\ serverPc = "eventfd"
  /\ \/ /\ stopFd' = "fd" /\ eventfdOpen' = TRUE
        /\ serverPc' = "ring"
        /\ UNCHANGED <<listenFd, failed>>
     \/ /\ "setup" \in Failures
        /\ listenFd' = FALSE
        /\ serverPc' = "exited" /\ failed' = TRUE
        /\ UNCHANGED <<stopFd, eventfdOpen>>
  /\ UNCHANGED <<signalled, ringVars, backlog, connected, callerVars>>

\* submit_poll() for both descriptors
ArmedAtStart == {"listen", "stop"}

InitRing ==
  /\ serverPc = "ring"
  /\ armed' = ArmedAtStart
  /\ serverPc' = "loop"
  /\ UNCHANGED <<fdVars, signalled, cq, backlog, connected, callerVars, failed>>

\* liburing is missing, or io_uring_queue_init() fails.
InitRingFails ==
  /\ "setup" \in Failures
  /\ serverPc = "ring"
  /\ stopFd' = "none" /\ eventfdOpen' = FALSE /\ listenFd' = FALSE
  /\ serverPc' = "exited"
  /\ failed' = TRUE
  /\ UNCHANGED <<signalled, ringVars, backlog, connected, callerVars>>
-----------------------------------------------------------------------------
(***************************************************************************)
(* The event loop.                                                         *)
(***************************************************************************)

\* while (!st.stop_requested())
LoopTest ==
  /\ serverPc = "loop"
  /\ serverPc' = IF stopRequested THEN "cleanup" ELSE "wait"
  /\ UNCHANGED <<fdVars, signalled, ringVars, backlog, connected, callerVars, failed>>

\* wait_cqe() blocks until a completion; -EINTR goes round the loop again.
WaitCqe ==
  /\ serverPc = "wait"
  /\ \E c \in cq :
       /\ cq' = cq \ {c}
       /\ serverPc' = IF c[1] = "stop" \/ stopRequested THEN "cleanup"
                 ELSE IF c[2] THEN "accept" ELSE "loop"
  /\ UNCHANGED <<fdVars, signalled, armed, backlog, connected, callerVars, failed>>

WaitInterrupted ==
  /\ serverPc = "wait"
  /\ serverPc' = "loop"
  /\ UNCHANGED <<fdVars, signalled, ringVars, backlog, connected, callerVars, failed>>

WaitFails ==
  /\ "wait" \in Failures
  /\ serverPc = "wait"
  /\ serverPc' = "cleanup"
  /\ failed' = TRUE
  /\ UNCHANGED <<fdVars, signalled, ringVars, backlog, connected, callerVars>>

\* accept4(), then handle_client(): recv and send time out after 5s each, so
\* it always returns, whatever the client does.  A connection that was reset
\* meanwhile makes accept4() fail.
AcceptAndHandle ==
  /\ serverPc = "accept"
  /\ backlog' = IF backlog > 0 THEN backlog - 1 ELSE 0
  /\ serverPc' = "rearm"
  /\ UNCHANGED <<fdVars, signalled, ringVars, connected, callerVars, failed>>

\* Mutant: the poll is taken for a persistent one.
RearmSkipped ==
  /\ serverPc = "rearm"
  /\ serverPc' = "loop"
  /\ UNCHANGED <<fdVars, signalled, ringVars, backlog, connected, callerVars, failed>>

Rearm ==
  /\ serverPc = "rearm"
  /\ armed' = armed \cup {"listen"}
  /\ serverPc' = "loop"
  /\ UNCHANGED <<fdVars, signalled, cq, backlog, connected, callerVars, failed>>

\* queue_exit(), close(stop_eventfd_) ...
Cleanup ==
  /\ serverPc = "cleanup"
  /\ armed' = {} /\ cq' = {}
  /\ eventfdOpen' = FALSE
  /\ serverPc' = "closed"
  /\ UNCHANGED <<listenFd, stopFd, signalled, backlog, connected, callerVars, failed>>

\* ... stop_eventfd_ = -1, and the listener.
CleanupRest ==
  /\ serverPc = "closed"
  /\ stopFd' = "none"
  /\ listenFd' = FALSE
  /\ serverPc' = "exited"
  /\ UNCHANGED <<eventfdOpen, signalled, ringVars, backlog, connected, callerVars, failed>>
-----------------------------------------------------------------------------
(***************************************************************************)
(* The kernel and the clients.                                             *)
(***************************************************************************)

Connect ==
  /\ listenFd
  /\ connected < MaxClients
  /\ connected' = connected + 1
  /\ backlog' = backlog + 1
  /\ UNCHANGED <<serverPc, fdVars, signalled, ringVars, callerVars, failed>>

\* A client goes away before it is accepted.
Reset ==
  /\ backlog > 0
  /\ backlog' = backlog - 1
  /\ UNCHANGED <<serverPc, fdVars, signalled, ringVars, connected, callerVars, failed>>

\* A one-shot poll completes once its descriptor is readable.
Complete(tag) ==
  /\ tag \in armed
  /\ IF tag = "listen" THEN backlog > 0 ELSE signalled
  /\ armed' = armed \ {tag}
  /\ cq' = cq \cup {<<tag, TRUE>>}
  /\ UNCHANGED <<serverPc, fdVars, signalled, backlog, connected, callerVars, failed>>

\* Such a completion is not re-armed: the endpoint stays deaf from then on.
CompleteWithError ==
  /\ "poll" \in Failures
  /\ "listen" \in armed
  /\ armed' = armed \ {"listen"}
  /\ cq' = cq \cup {<<"listen", FALSE>>}
  /\ failed' = TRUE
  /\ UNCHANGED <<serverPc, fdVars, signalled, backlog, connected, callerVars>>
-----------------------------------------------------------------------------
(***************************************************************************)
(* stop(), on main's thread.                                               *)
(***************************************************************************)

\* Mutant: the stop is requested before the wake-up.
StopReadsFdAfterRequest ==
  /\ spc = "running"
  /\ spc' = IF stopFd = "none" THEN "request" ELSE "write"
  /\ stopRequested' = TRUE
  /\ UNCHANGED <<serverPc, fdVars, signalled, ringVars, backlog, connected, strayWrite, failed>>

StopReadsFd ==
  /\ spc = "running"
  /\ spc' = IF stopFd = "none" THEN "request" ELSE "write"
  /\ UNCHANGED <<serverPc, fdVars, signalled, ringVars, backlog, connected, stopRequested, strayWrite, failed>>

\* The member is read twice without a lock, and the build may keep the first
\* value: the write goes to the descriptor StopReadsFd saw, open or not.
StopWrites ==
  /\ spc = "write"
  /\ spc' = "request"
  /\ signalled' = (signalled \/ eventfdOpen)
  /\ strayWrite' = (strayWrite \/ ~eventfdOpen)
  /\ UNCHANGED <<serverPc, fdVars, ringVars, backlog, connected, stopRequested, failed>>

StopRequests ==
  /\ spc = "request"
  /\ spc' = "join"
  /\ stopRequested' = TRUE
  /\ UNCHANGED <<serverPc, fdVars, signalled, ringVars, backlog, connected, strayWrite, failed>>

StopJoins ==
  /\ spc = "join"
  /\ serverPc = "exited"
  /\ spc' = "joined"
  /\ UNCHANGED <<serverPc, fdVars, signalled, ringVars, backlog, connected, stopRequested, strayWrite, failed>>
-----------------------------------------------------------------------------
ServerStep ==
  \/ OpenListener \/ OpenEventfd \/ InitRing \/ InitRingFails
  \/ LoopTest \/ WaitCqe \/ AcceptAndHandle \/ Rearm \/ Cleanup \/ CleanupRest

StopStep == StopReadsFd \/ StopWrites \/ StopRequests \/ StopJoins

Environment ==
  \/ WaitInterrupted \/ WaitFails
  \/ Connect \/ Reset \/ CompleteWithError
  \/ \E tag \in {"listen", "stop"} : Complete(tag)

ServerNext == ServerStep \/ StopStep \/ Environment

ServerSpec == ServerInit /\ [][ServerNext]_serverVars

(***************************************************************************)
(* The worker runs, the kernel reports readable descriptors, and a stop()  *)
(* that was called goes on.  wait_cqe() is left strongly fair: signals     *)
(* that interrupt it do not starve it.  Nothing is assumed of clients, and *)
(* stop() need never be called.                                            *)
(***************************************************************************)
ServerFairness ==
  /\ WF_serverVars(ServerStep)
  /\ SF_serverVars(WaitCqe)
  /\ \A tag \in {"listen", "stop"} : WF_serverVars(Complete(tag))
  /\ WF_serverVars(StopWrites)
  /\ WF_serverVars(StopRequests)
  /\ WF_serverVars(StopJoins)

ServerFairSpec == ServerSpec /\ ServerFairness
-----------------------------------------------------------------------------
(***************************************************************************)
(* Properties.                                                             *)
(***************************************************************************)

ServerTypeOK ==
  /\ serverPc \in {"socket", "eventfd", "ring", "loop", "wait", "accept", "rearm", "cleanup",
              "closed", "exited"}
  /\ listenFd \in BOOLEAN /\ eventfdOpen \in BOOLEAN /\ signalled \in BOOLEAN
  /\ stopRequested \in BOOLEAN /\ strayWrite \in BOOLEAN /\ failed \in BOOLEAN
  /\ stopFd \in {"none", "fd"}
  /\ armed \subseteq {"listen", "stop"}
  /\ cq \subseteq {"listen", "stop"} \X BOOLEAN
  /\ backlog \in 0..MaxClients /\ connected \in 0..MaxClients
  /\ spc \in {"running", "write", "request", "join", "joined"}

(***************************************************************************)
(* Whatever way run() ends, it has closed both descriptors and forgotten   *)
(* the eventfd.                                                            *)
(***************************************************************************)
ServerLeaksNothing == serverPc = "exited" => ~listenFd /\ ~eventfdOpen /\ stopFd = "none"

(***************************************************************************)
(* stop() writes to the eventfd it read from stop_eventfd_ and not to a    *)
(* number the worker has closed since (and the process may have reused):   *)
(* the worker leaves its loop only once stop() is past its write, as long  *)
(* as neither the set-up nor wait_cqe() fails.                             *)
(***************************************************************************)
WritesOwnEventfd == strayWrite => failed

\* What the server owns: nothing is left open, nothing else is written.
DescriptorsAreOwn == ServerLeaksNothing /\ WritesOwnEventfd

(***************************************************************************)
(* A stop() that finds the eventfd gets the worker out of wait_cqe() and   *)
(* returns.                                                                *)
(***************************************************************************)
WokenStopReturns == spc = "write" ~> spc = "joined"

(***************************************************************************)
(* Every pending connection is accepted while the server runs, although    *)
(* each poll of the listener reports only once and until one reports an    *)
(* error, after which the listener is not polled again.                    *)
(***************************************************************************)
ClientsAreServed == backlog > 0 ~> backlog = 0 \/ failed \/ serverPc \in {"cleanup", "closed", "exited"}

\* Both: what is asked of a running server is answered.
ServerAnswers == WokenStopReturns /\ ClientsAreServed

(***************************************************************************)
(* MetricsServer.cpp:36-38: "The eventfd is best-effort wakeup; a failed   *)
(* write here just means the worker polls for stop_token instead", so that *)
(* every stop() returns, also one that finds no eventfd.                   *)
(***************************************************************************)
StopReturns == spc = "request" ~> spc = "joined"
=============================================================================
