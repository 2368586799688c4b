---------------------------- MODULE RuntimeProofs ----------------------------
(***************************************************************************)
(* Proofs about the threads of the running montauk: the metrics server, the  *)
(* provider mesh and main() with its terminal writer.                        *)
(***************************************************************************)
EXTENDS MetricsServer, Session, Mesh, TraceLog, SetInduction, SequenceTheorems, TLAPS

-----------------------------------------------------------------------------
(* MetricsServer.                                                           *)

Serving == {"ring", "loop", "wait", "accept", "rearm", "cleanup"}

\* Where run() is says which descriptors are open; between close() and the
\* assignment after it stop_eventfd_ names one that is not.
DescriptorsFollow ==
  /\ listenFd => serverPc \notin {"socket", "exited"}
  /\ eventfdOpen <=> serverPc \in Serving
  /\ stopFd = "fd" <=> serverPc \in Serving \cup {"closed"}

\* The worker learns of a stop only from one that is past its write.
StopIsKnown ==
  /\ stopRequested => spc \in {"join", "joined"}
  /\ signalled => spc \in {"request", "join", "joined"}
  /\ \A c \in cq : c[1] = "stop" => signalled

\* While stop() may still write, the worker stays where the eventfd is open.
WorkerWaits ==
  ~failed =>
    /\ serverPc \in {"cleanup", "closed", "exited"} => spc \in {"request", "join", "joined"}
    /\ spc = "write" => serverPc \in Serving

ServerInv ==
  /\ ServerTypeOK /\ backlog <= connected
  /\ DescriptorsFollow /\ StopIsKnown /\ WorkerWaits /\ WritesOwnEventfd

LEMMA ServerStarts == ServerInit => ServerInv
<1> SUFFICES ASSUME ServerInit PROVE ServerInv
  OBVIOUS
<1>1. ServerTypeOK /\ backlog <= connected
  <2>1. armed \subseteq {"listen", "stop"} /\ cq \subseteq {"listen", "stop"} \X BOOLEAN
    BY DEF ServerInit
  <2>2. backlog \in 0..MaxClients /\ connected \in 0..MaxClients /\ backlog <= connected
    BY ServerAssumption DEF ServerInit
  <2>3. /\ listenFd \in BOOLEAN /\ eventfdOpen \in BOOLEAN /\ signalled \in BOOLEAN
        /\ stopRequested \in BOOLEAN /\ strayWrite \in BOOLEAN /\ failed \in BOOLEAN
    BY DEF ServerInit
  <2>4. QED
    BY <2>1, <2>2, <2>3 DEF ServerInit, ServerTypeOK
<1>2. DescriptorsFollow
  BY DEF ServerInit, DescriptorsFollow, Serving
<1>3. StopIsKnown /\ WorkerWaits /\ WritesOwnEventfd
  BY DEF ServerInit, StopIsKnown, WorkerWaits, WritesOwnEventfd
<1>4. QED
  BY <1>1, <1>2, <1>3 DEF ServerInv

\* Every step of the worker, of stop(), of the kernel and of a client keeps it.
LEMMA ServerInductive == ServerInv /\ [ServerNext]_serverVars => ServerInv'
<1> SUFFICES ASSUME ServerInv, [ServerNext]_serverVars PROVE ServerInv'
  OBVIOUS
<1> USE ServerAssumption
    DEF ServerInv, ServerTypeOK, DescriptorsFollow, StopIsKnown, WorkerWaits, WritesOwnEventfd,
        Serving, fdVars, ringVars, callerVars
<1>1. CASE OpenListener
  BY <1>1 DEF OpenListener
<1>2. CASE OpenEventfd
  <2>1. ServerTypeOK'
    BY <1>2 DEF OpenEventfd
  <2>2. (backlog <= connected)'
    BY <1>2 DEF OpenEventfd
  <2>3. DescriptorsFollow'
    BY <1>2 DEF OpenEventfd
  <2>4. StopIsKnown'
    BY <1>2 DEF OpenEventfd
  <2>5. WorkerWaits'
    BY <1>2 DEF OpenEventfd
  <2>6. WritesOwnEventfd'
    BY <1>2 DEF OpenEventfd
  <2>7. QED
    BY <2>1, <2>2, <2>3, <2>4, <2>5, <2>6
<1>3. CASE InitRing
  BY <1>3 DEF InitRing, ArmedAtStart
<1>4. CASE InitRingFails
  BY <1>4 DEF InitRingFails
<1>5. CASE LoopTest
  BY <1>5 DEF LoopTest
<1>6. CASE WaitCqe
  BY <1>6 DEF WaitCqe
<1>7. CASE WaitInterrupted
  BY <1>7 DEF WaitInterrupted
<1>21. CASE WaitFails
  <2>1. ServerTypeOK'
    BY <1>21 DEF WaitFails
  <2>2. (backlog <= connected)'
    BY <1>21 DEF WaitFails
  <2>3. DescriptorsFollow'
    BY <1>21 DEF WaitFails
  <2>4. StopIsKnown'
    BY <1>21 DEF WaitFails
  <2>5. WorkerWaits'
    BY <1>21 DEF WaitFails
  <2>6. WritesOwnEventfd'
    BY <1>21 DEF WaitFails
  <2>7. QED
    BY <2>1, <2>2, <2>3, <2>4, <2>5, <2>6
<1>8. CASE AcceptAndHandle
  BY <1>8 DEF AcceptAndHandle
<1>9. CASE Rearm
  BY <1>9 DEF Rearm
<1>10. CASE Cleanup
  BY <1>10 DEF Cleanup
<1>11. CASE CleanupRest
  BY <1>11 DEF CleanupRest
<1>12. CASE Connect
  BY <1>12 DEF Connect
<1>13. CASE Reset
  BY <1>13 DEF Reset
<1>14. CASE \E tag \in {"listen", "stop"} : Complete(tag)
  <2>0. PICK tag \in {"listen", "stop"} : Complete(tag)
    BY <1>14
  <2>11. cq' \subseteq {"listen", "stop"} \X BOOLEAN
    <3>1. cq' = cq \cup {<<tag, TRUE>>} /\ <<tag, TRUE>> \in {"listen", "stop"} \X BOOLEAN
      BY <2>0 DEF Complete
    <3>2. QED
      BY <3>1
  <2>1. ServerTypeOK'
    BY <2>0, <2>11, ZenonT(30) DEF Complete
  <2>2. (backlog <= connected)'
    BY <1>14 DEF Complete
  <2>3. DescriptorsFollow'
    BY <1>14 DEF Complete
  <2>4. StopIsKnown'
    <3>1. cq' = cq \cup {<<tag, TRUE>>} /\ <<tag, TRUE>>[1] = tag /\ (tag = "stop" => signalled)
      BY <2>0 DEF Complete
    <3>2. UNCHANGED <<signalled, spc, stopRequested>>
      BY <2>0 DEF Complete
    <3>3. QED
      BY <3>1, <3>2, Zenon
  <2>5. WorkerWaits'
    BY <1>14 DEF Complete
  <2>6. WritesOwnEventfd'
    BY <1>14 DEF Complete
  <2>7. QED
    BY <2>1, <2>2, <2>3, <2>4, <2>5, <2>6
<1>15. CASE CompleteWithError
  <2>11. cq' \subseteq {"listen", "stop"} \X BOOLEAN
    <3>1. cq' = cq \cup {<<"listen", FALSE>>} /\ <<"listen", FALSE>> \in {"listen", "stop"} \X BOOLEAN
      BY <1>15 DEF CompleteWithError
    <3>2. QED
      BY <3>1
  <2>1. ServerTypeOK'
    BY <1>15, <2>11 DEF CompleteWithError
  <2>2. (backlog <= connected)'
    BY <1>15 DEF CompleteWithError
  <2>3. DescriptorsFollow'
    BY <1>15 DEF CompleteWithError
  <2>4. StopIsKnown'
    <3>1. cq' = cq \cup {<<"listen", FALSE>>} /\ <<"listen", FALSE>>[1] = "listen"
      BY <1>15 DEF CompleteWithError
    <3>2. UNCHANGED <<signalled, spc, stopRequested>>
      BY <1>15 DEF CompleteWithError
    <3>3. \A c \in cq' : c[1] = "stop" => signalled'
      BY <3>1, <3>2
    <3>4. QED
      BY <3>2, <3>3, Zenon
  <2>5. WorkerWaits'
    BY <1>15 DEF CompleteWithError
  <2>6. WritesOwnEventfd'
    BY <1>15 DEF CompleteWithError
  <2>7. QED
    BY <2>1, <2>2, <2>3, <2>4, <2>5, <2>6
<1>16. CASE StopReadsFd
  BY <1>16 DEF StopReadsFd
<1>17. CASE StopWrites
  BY <1>17 DEF StopWrites
<1>18. CASE StopRequests
  BY <1>18 DEF StopRequests
<1>22. CASE StopJoins
  BY <1>22 DEF StopJoins
<1>19. CASE UNCHANGED serverVars
  BY <1>19 DEF serverVars
<1>20. QED
  BY <1>1, <1>2, <1>3, <1>4, <1>5, <1>6, <1>7, <1>8, <1>9, <1>10, <1>11, <1>12, <1>13, <1>14,
     <1>15, <1>16, <1>17, <1>18, <1>19, <1>21, <1>22 DEF ServerNext, ServerStep, StopStep, Environment

\* Every variable of the server, its ring and its caller keeps its type.
THEOREM ServerTypeCorrect == ServerSpec => []ServerTypeOK
<1>1. ServerInv => ServerTypeOK
  BY DEF ServerInv
<1>2. QED
  BY <1>1, ServerStarts, ServerInductive, PTL DEF ServerSpec

(***************************************************************************)
(* However run() ends it has closed what it opened, and stop() writes to no   *)
(* descriptor the worker has closed unless a call failed.                    *)
(***************************************************************************)
THEOREM ServerOwnsDescriptors == ServerSpec => []DescriptorsAreOwn
<1>1. ServerInv => DescriptorsAreOwn
  BY DEF ServerInv, ServerTypeOK, DescriptorsFollow, Serving, DescriptorsAreOwn,
         ServerLeaksNothing, WritesOwnEventfd
<1>2. QED
  BY <1>1, ServerStarts, ServerInductive, PTL DEF ServerSpec
-----------------------------------------------------------------------------
(* Mesh.                                                                    *)

Chunk == Nat \X Nat

MeshTypeOK ==
  /\ pathTo \in Emitters \cup {NoOne}
  /\ host \in [Emitters -> {"new", "binds", "up", "off", "closed", "gone", "crashed"}]
  /\ server \in [Emitters -> {"none", "poll", "accept", "send", "gone"}]
  /\ tokenSet \subseteq Emitters
  /\ version \in [Emitters -> Nat]
  /\ data \in [Emitters -> [ver : Nat, off : 0 .. Chunks]]
  /\ scrape \in {"idle", "queued", "read", "ok", "failed"}
  /\ peer \in Emitters \cup {NoOne} /\ asked \in Nat
  /\ pipe \in Seq(Chunk) /\ got \in Seq(Chunk)
  /\ ended \in BOOLEAN
  /\ inPoll \in Nat /\ waited \in Nat

\* A scrape has a peer; before the peer accepted it nothing has been sent, and
\* the snapshot can only have become newer.
ConnectionIsFresh ==
  /\ scrape # "idle" => peer \in Emitters
  /\ scrape \in {"idle", "queued"} => got = <<>> /\ pipe = <<>> /\ ~ended
  /\ scrape = "queued" => asked <= version[peer]

\* The connection is open as long as the peer sends on it, and an ended one has
\* carried every chunk unless the peer was killed.
EndIsEarned ==
  /\ scrape = "read" => (server[peer] = "send" <=> ~ended)
  /\ scrape \in {"read", "ok"} /\ ended => Len(got) + Len(pipe) = Chunks \/ host[peer] = "crashed"
  /\ scrape = "ok" => pipe = <<>> /\ ended

\* start() creates the thread once it has bound the path.
ThreadStartsBound == \A e \in Emitters : host[e] \in {"new", "binds"} => server[e] = "none"

\* The chunks read and those under way are the first of snapshot v, in order.
Carries(v) ==
  /\ v >= asked
  /\ scrape = "read" /\ server[peer] = "send" =>
       data[peer].ver = v /\ data[peer].off = Len(got) + Len(pipe)
  /\ \A i \in 1 .. Len(got) : got[i] = <<v, i>>
  /\ \A i \in 1 .. Len(pipe) : pipe[i] = <<v, Len(got) + i>>

OneSnapshot == scrape \in {"read", "ok"} => \E v \in Nat : Carries(v)

MeshInv == MeshTypeOK /\ ThreadStartsBound /\ ConnectionIsFresh /\ EndIsEarned /\ OneSnapshot

LEMMA MeshStarts == MeshInit => MeshInv
<1> SUFFICES ASSUME MeshInit PROVE MeshInv
  OBVIOUS
<1>1. pipe \in Seq(Chunk) /\ got \in Seq(Chunk)
  BY DEF MeshInit
<1>2. data \in [Emitters -> [ver : Nat, off : 0 .. Chunks]]
  BY MeshBounds DEF MeshInit, Nothing
<1>3. MeshTypeOK
  BY <1>1, <1>2 DEF MeshInit, MeshTypeOK
<1>4. QED
  BY <1>3 DEF MeshInit, MeshInv, ThreadStartsBound, ConnectionIsFresh, EndIsEarned, OneSnapshot

LEMMA MeshInductive == MeshInv /\ [MeshNext]_meshVars => MeshInv'
<1> SUFFICES ASSUME MeshTypeOK, ThreadStartsBound, ConnectionIsFresh, EndIsEarned, OneSnapshot,
                    [MeshNext]_meshVars
             PROVE  MeshInv'
  BY DEF MeshInv
<1> USE MeshBounds DEF emitVars, readVars, Queued, Reading, Connected
<1>0. ASSUME UNCHANGED <<peer, asked, got, pipe>>,
             scrape' \in {"read", "ok"} => scrape \in {"read", "ok"},
             scrape' = "read" /\ server'[peer] = "send" =>
               scrape = "read" /\ server[peer] = "send" /\ data'[peer] = data[peer]
      PROVE  OneSnapshot'
  BY <1>0, Zenon DEF OneSnapshot, Carries
<1>1. ASSUME NEW e \in Emitters, StartUnlinks(e) PROVE MeshInv'
  <2>1. MeshTypeOK'
    BY <1>1 DEF StartUnlinks, MeshTypeOK
  <2>6. ThreadStartsBound'
    BY <1>1 DEF StartUnlinks, MeshTypeOK, ThreadStartsBound
  <2>2. ConnectionIsFresh'
    BY <1>1 DEF StartUnlinks, MeshTypeOK, ConnectionIsFresh
  <2>3. EndIsEarned'
    BY <1>1 DEF StartUnlinks, MeshTypeOK, EndIsEarned, ConnectionIsFresh
  <2>4. OneSnapshot'
    BY <1>1, ZenonT(30) DEF StartUnlinks, MeshTypeOK, EndIsEarned, ConnectionIsFresh, OneSnapshot, Carries
  <2>5. QED
    BY <2>1, <2>6, <2>2, <2>3, <2>4 DEF MeshInv
<1>2. ASSUME NEW e \in Emitters, StartBinds(e) PROVE MeshInv'
  <2>1. MeshTypeOK'
    BY <1>2 DEF StartBinds, MeshTypeOK
  <2>6. ThreadStartsBound'
    BY <1>2 DEF StartBinds, MeshTypeOK, ThreadStartsBound
  <2>2. ConnectionIsFresh'
    BY <1>2 DEF StartBinds, MeshTypeOK, ConnectionIsFresh
  <2>3. EndIsEarned'
    BY <1>2 DEF StartBinds, MeshTypeOK, ThreadStartsBound, EndIsEarned, ConnectionIsFresh
  <2>4. OneSnapshot'
    <3>1. server'[peer] = "send" /\ peer \in Emitters => server[peer] = "send"
      BY <1>2 DEF StartBinds, MeshTypeOK
    <3>2. QED
      BY <1>0, <1>2, <3>1 DEF StartBinds, ConnectionIsFresh
  <2>5. QED
    BY <2>1, <2>6, <2>2, <2>3, <2>4 DEF MeshInv
<1>3. ASSUME NEW e \in Emitters, Update(e) PROVE MeshInv'
  <2>1. MeshTypeOK'
    BY <1>3, SMTT(30) DEF Update, MeshTypeOK
  <2>6. ThreadStartsBound'
    BY <1>3 DEF Update, MeshTypeOK, ThreadStartsBound
  <2>2. ConnectionIsFresh'
    BY <1>3 DEF Update, MeshTypeOK, ConnectionIsFresh
  <2>3. EndIsEarned'
    BY <1>3 DEF Update, MeshTypeOK, EndIsEarned, ConnectionIsFresh
  <2>4. OneSnapshot'
    BY <1>3, ZenonT(30) DEF Update, MeshTypeOK, EndIsEarned, ConnectionIsFresh, OneSnapshot, Carries
  <2>5. QED
    BY <2>1, <2>6, <2>2, <2>3, <2>4 DEF MeshInv
<1>4. ASSUME NEW e \in Emitters, ServePolls(e) PROVE MeshInv'
  <2>1. MeshTypeOK'
    BY <1>4 DEF ServePolls, MeshTypeOK
  <2>6. ThreadStartsBound'
    BY <1>4 DEF ServePolls, MeshTypeOK, ThreadStartsBound
  <2>2. ConnectionIsFresh'
    BY <1>4 DEF ServePolls, MeshTypeOK, ConnectionIsFresh
  <2>3. EndIsEarned'
    BY <1>4 DEF ServePolls, MeshTypeOK, EndIsEarned, ConnectionIsFresh
  <2>4. OneSnapshot'
    BY <1>4, ZenonT(30) DEF ServePolls, MeshTypeOK, EndIsEarned, ConnectionIsFresh, OneSnapshot, Carries
  <2>5. QED
    BY <2>1, <2>6, <2>2, <2>3, <2>4 DEF MeshInv
<1>5. ASSUME NEW e \in Emitters, ServeAccepts(e) PROVE MeshInv'
  <2>1. MeshTypeOK'
    <3>1. data' \in [Emitters -> [ver : Nat, off : 0 .. Chunks]]
      <4>1. [ver |-> version[e], off |-> 0] \in [ver : Nat, off : 0 .. Chunks]
        BY DEF MeshTypeOK
      <4>2. data' = [data EXCEPT ![e] = [ver |-> version[e], off |-> 0]] \/ data' = data
        BY <1>5 DEF ServeAccepts
      <4>3. QED
        BY <4>1, <4>2 DEF MeshTypeOK
    <3>2. QED
      BY <1>5, <3>1 DEF ServeAccepts, MeshTypeOK
  <2>6. ThreadStartsBound'
    BY <1>5 DEF ServeAccepts, MeshTypeOK, ThreadStartsBound
  <2>2. ConnectionIsFresh'
    BY <1>5 DEF ServeAccepts, MeshTypeOK, ConnectionIsFresh
  <2>3. EndIsEarned'
    BY <1>5 DEF ServeAccepts, MeshTypeOK, EndIsEarned, ConnectionIsFresh
  <2>4. OneSnapshot'
    <3>1. CASE Queued(e) /\ host[e] = "up"
      <4>1. /\ data'[e].ver = version[e] /\ data'[e].off = 0
            /\ UNCHANGED <<peer, asked, got, pipe>>
        BY <1>5, <3>1 DEF ServeAccepts, MeshTypeOK
      <4>2. peer = e /\ got = <<>> /\ pipe = <<>> /\ asked <= version[e] /\ version[e] \in Nat
        BY <3>1 DEF ConnectionIsFresh, MeshTypeOK
      <4>3. PICK v \in Nat : v = version[e]
        BY <4>2
      <4>4. Carries(v)'
        BY <4>1, <4>2, <4>3 DEF Carries
      <4>5. QED
        BY <4>4 DEF OneSnapshot
    <3>2. CASE ~(Queued(e) /\ host[e] = "up")
      <4>1. server' = [server EXCEPT ![e] = "poll"]
            /\ UNCHANGED <<scrape, data, peer, asked, got, pipe>>
        BY <1>5, <3>2 DEF ServeAccepts
      <4>2. server'[peer] = "send" /\ peer \in Emitters => server[peer] = "send"
        BY <4>1 DEF MeshTypeOK
      <4>3. QED
        BY <1>0, <4>1, <4>2 DEF ConnectionIsFresh
    <3>3. QED
      BY <3>1, <3>2
  <2>5. QED
    BY <2>1, <2>6, <2>2, <2>3, <2>4 DEF MeshInv
<1>6. ASSUME NEW e \in Emitters, ServeSends(e) PROVE MeshInv'
  <2>1. MeshTypeOK'
    <3>0. PICK n \in 0 .. Chunks : data' = [data EXCEPT ![e].off = n]
      <4>1. data[e].off \in 0 .. Chunks /\ data[e].off < Chunks
        BY <1>6 DEF ServeSends, MeshTypeOK
      <4>2. data[e].off + 1 \in 0 .. Chunks /\ Chunks \in 0 .. Chunks
        BY <4>1
      <4>3. CASE Reading(e)
        BY <1>6, <4>2, <4>3 DEF ServeSends
      <4>4. CASE ~Reading(e)
        BY <1>6, <4>2, <4>4 DEF ServeSends
      <4>5. QED
        BY <4>3, <4>4
    <3>1. data' \in [Emitters -> [ver : Nat, off : 0 .. Chunks]]
      BY <3>0 DEF MeshTypeOK
    <3>2. <<data[e].ver, data[e].off + 1>> \in Chunk
      BY SMTT(30) DEF MeshTypeOK, Chunk
    <3>3. pipe' \in Seq(Chunk)
      <4>1. pipe' = pipe \/ pipe' = Append(pipe, <<data[e].ver, data[e].off + 1>>)
        BY <1>6 DEF ServeSends
      <4>2. pipe \in Seq(Chunk)
        BY DEF MeshTypeOK
      <4>3. QED
        BY <3>2, <4>1, <4>2, SMTT(30)
    <3>4. QED
      BY <1>6, <3>1, <3>3 DEF ServeSends, MeshTypeOK
  <2>6. ThreadStartsBound'
    BY <1>6 DEF ServeSends, MeshTypeOK, ThreadStartsBound
  <2>2. ConnectionIsFresh'
    BY <1>6 DEF ServeSends, MeshTypeOK, ConnectionIsFresh
  <2>3. EndIsEarned'
    BY <1>6 DEF ServeSends, MeshTypeOK, EndIsEarned, ConnectionIsFresh
  <2>4. OneSnapshot'
    <3>1. CASE Reading(e)
      <4>1. PICK v \in Nat : Carries(v)
        BY <3>1 DEF OneSnapshot
      <4>2. /\ data[e].ver = v /\ data[e].off = Len(got) + Len(pipe)
            /\ Len(got) \in Nat /\ Len(pipe) \in Nat
        BY <1>6, <3>1, <4>1, SMTT(30) DEF ServeSends, Carries, MeshTypeOK
      <4>0. /\ data' = [data EXCEPT ![e].off = data[e].off + 1]
            /\ pipe' = Append(pipe, <<data[e].ver, data[e].off + 1>>)
            /\ UNCHANGED <<peer, asked, got, scrape, server>>
        BY <1>6, <3>1 DEF ServeSends
      <4>3. /\ data'[e].ver = v /\ data'[e].off = data[e].off + 1
            /\ pipe' = Append(pipe, <<v, data[e].off + 1>>)
            /\ UNCHANGED <<peer, asked, got, scrape, server>>
        BY <4>0, <4>2 DEF MeshTypeOK
      <4>4. <<v, data[e].off + 1>> \in Chunk
        BY <4>2 DEF Chunk
      <4>5. /\ Len(pipe') = Len(pipe) + 1
            /\ \A i \in 1 .. Len(pipe') : pipe'[i] = IF i = Len(pipe') THEN <<v, data[e].off + 1>> ELSE pipe[i]
        BY <4>3, <4>4, SMTT(30) DEF MeshTypeOK
      <4>6. \A i \in 1 .. Len(pipe') : pipe'[i] = <<v, Len(got) + i>>
        <5>1. \A i \in 1 .. Len(pipe) : pipe[i] = <<v, Len(got) + i>>
          BY <4>1 DEF Carries
        <5>2. TAKE i \in 1 .. Len(pipe')
        <5>3. CASE i = Len(pipe')
          BY <4>2, <4>5, <5>3
        <5>4. CASE i # Len(pipe')
          BY <4>2, <4>5, <5>1, <5>4
        <5>5. QED
          BY <5>3, <5>4
      <4>7. Carries(v)'
        BY <3>1, <4>1, <4>2, <4>3, <4>5, <4>6 DEF Carries
      <4>8. QED
        BY <4>7 DEF OneSnapshot
    <3>2. CASE ~Reading(e)
      <4>1. /\ data' = [data EXCEPT ![e].off = Chunks]
            /\ UNCHANGED <<scrape, server, peer, asked, got, pipe>>
        BY <1>6, <3>2 DEF ServeSends
      <4>2. scrape = "read" => data'[peer] = data[peer]
        BY <3>2, <4>1 DEF ConnectionIsFresh, MeshTypeOK
      <4>3. QED
        BY <1>0, <4>1, <4>2
    <3>3. QED
      BY <3>1, <3>2
  <2>5. QED
    BY <2>1, <2>6, <2>2, <2>3, <2>4 DEF MeshInv
<1>7. ASSUME NEW e \in Emitters, ServeCloses(e) PROVE MeshInv'
  <2>1. MeshTypeOK'
    BY <1>7 DEF ServeCloses, MeshTypeOK
  <2>6. ThreadStartsBound'
    BY <1>7 DEF ServeCloses, MeshTypeOK, ThreadStartsBound
  <2>2. ConnectionIsFresh'
    BY <1>7 DEF ServeCloses, MeshTypeOK, ConnectionIsFresh
  <2>3. EndIsEarned'
    BY <1>7 DEF ServeCloses, MeshTypeOK, EndIsEarned, ConnectionIsFresh, OneSnapshot, Carries
  <2>4. OneSnapshot'
    BY <1>7, ZenonT(30) DEF ServeCloses, MeshTypeOK, EndIsEarned, ConnectionIsFresh, OneSnapshot, Carries
  <2>5. QED
    BY <2>1, <2>6, <2>2, <2>3, <2>4 DEF MeshInv
<1>8. ASSUME NEW e \in Emitters, DestroyCloses(e) PROVE MeshInv'
  <2>1. MeshTypeOK'
    BY <1>8 DEF DestroyCloses, MeshTypeOK
  <2>6. ThreadStartsBound'
    BY <1>8 DEF DestroyCloses, MeshTypeOK, ThreadStartsBound
  <2>2. ConnectionIsFresh'
    BY <1>8 DEF DestroyCloses, MeshTypeOK, ConnectionIsFresh
  <2>3. EndIsEarned'
    BY <1>8 DEF DestroyCloses, MeshTypeOK, EndIsEarned, ConnectionIsFresh
  <2>4. OneSnapshot'
    BY <1>8, ZenonT(30) DEF DestroyCloses, MeshTypeOK, EndIsEarned, ConnectionIsFresh, OneSnapshot, Carries
  <2>5. QED
    BY <2>1, <2>6, <2>2, <2>3, <2>4 DEF MeshInv
<1>9. ASSUME NEW e \in Emitters, DestroyUnlinks(e) PROVE MeshInv'
  <2>1. MeshTypeOK'
    BY <1>9 DEF DestroyUnlinks, MeshTypeOK
  <2>6. ThreadStartsBound'
    BY <1>9 DEF DestroyUnlinks, MeshTypeOK, ThreadStartsBound
  <2>2. ConnectionIsFresh'
    BY <1>9 DEF DestroyUnlinks, MeshTypeOK, ConnectionIsFresh
  <2>3. EndIsEarned'
    BY <1>9 DEF DestroyUnlinks, MeshTypeOK, EndIsEarned, ConnectionIsFresh
  <2>4. OneSnapshot'
    BY <1>9, ZenonT(30) DEF DestroyUnlinks, MeshTypeOK, EndIsEarned, ConnectionIsFresh, OneSnapshot, Carries
  <2>5. QED
    BY <2>1, <2>6, <2>2, <2>3, <2>4 DEF MeshInv
<1>10. ASSUME NEW e \in Emitters, Crash(e) PROVE MeshInv'
  <2>1. MeshTypeOK'
    BY <1>10 DEF Crash, MeshTypeOK
  <2>6. ThreadStartsBound'
    BY <1>10 DEF Crash, MeshTypeOK, ThreadStartsBound
  <2>2. ConnectionIsFresh'
    BY <1>10 DEF Crash, MeshTypeOK, ConnectionIsFresh
  <2>3. EndIsEarned'
    BY <1>10 DEF Crash, MeshTypeOK, EndIsEarned, ConnectionIsFresh
  <2>4. OneSnapshot'
    BY <1>10, ZenonT(30) DEF Crash, MeshTypeOK, EndIsEarned, ConnectionIsFresh, OneSnapshot, Carries
  <2>5. QED
    BY <2>1, <2>6, <2>2, <2>3, <2>4 DEF MeshInv
<1>11. CASE ScrapeConnect
  <2>1. MeshTypeOK'
    BY <1>11 DEF ScrapeConnect, MeshTypeOK
  <2>6. ThreadStartsBound'
    BY <1>11 DEF ScrapeConnect, MeshTypeOK, ThreadStartsBound
  <2>2. ConnectionIsFresh'
    BY <1>11 DEF ScrapeConnect, MeshTypeOK, ConnectionIsFresh
  <2>3. EndIsEarned'
    BY <1>11 DEF ScrapeConnect, MeshTypeOK, EndIsEarned, ConnectionIsFresh
  <2>4. OneSnapshot'
    BY <1>11 DEF ScrapeConnect, MeshTypeOK, EndIsEarned, ConnectionIsFresh, OneSnapshot, Carries
  <2>5. QED
    BY <2>1, <2>6, <2>2, <2>3, <2>4 DEF MeshInv
<1>12. CASE ReadChunk
  <2>7. /\ Len(got') = Len(got) + 1 /\ Len(pipe') = Len(pipe) - 1 /\ Len(pipe) > 0
        /\ \A i \in 1 .. Len(got') : got'[i] = IF i = Len(got') THEN pipe[1] ELSE got[i]
        /\ \A i \in 1 .. Len(pipe') : pipe'[i] = pipe[i + 1]
    <3>1. got' = Append(got, Head(pipe)) /\ pipe' = Tail(pipe) /\ pipe # <<>>
      BY <1>12 DEF ReadChunk
    <3>2. Len(pipe) > 0 /\ Head(pipe) = pipe[1] /\ Head(pipe) \in Chunk
      BY <3>1 DEF MeshTypeOK
    <3>3. QED
      BY <3>1, <3>2 DEF MeshTypeOK
  <2>1. MeshTypeOK'
    <3>1. Head(pipe) \in Chunk /\ Tail(pipe) \in Seq(Chunk)
      BY <1>12 DEF ReadChunk, MeshTypeOK
    <3>2. got' \in Seq(Chunk) /\ pipe' \in Seq(Chunk)
      BY <1>12, <3>1 DEF ReadChunk, MeshTypeOK
    <3>3. QED
      BY <1>12, <3>2 DEF ReadChunk, MeshTypeOK
  <2>6. ThreadStartsBound'
    BY <1>12 DEF ReadChunk, MeshTypeOK, ThreadStartsBound
  <2>2. ConnectionIsFresh'
    BY <1>12 DEF ReadChunk, MeshTypeOK, ConnectionIsFresh
  <2>3. EndIsEarned'
    <3>1. Len(got') + Len(pipe') = Len(got) + Len(pipe) /\ scrape = "read"
      BY <1>12, <2>7 DEF ReadChunk, MeshTypeOK, ConnectionIsFresh
    <3>2. UNCHANGED <<scrape, server, peer, host, ended>>
      BY <1>12 DEF ReadChunk
    <3>3. QED
      BY <3>1, <3>2 DEF EndIsEarned
  <2>4. OneSnapshot'
    <3>1. scrape = "read"
      BY <1>12, <2>7 DEF ReadChunk, ConnectionIsFresh
    <3>2. PICK v \in Nat : Carries(v)
      BY <3>1 DEF OneSnapshot
    <3>3. UNCHANGED <<scrape, peer, server, data, asked>>
      BY <1>12 DEF ReadChunk
    <3>4. Len(got') \in Nat /\ Len(pipe') \in Nat /\ Len(got) \in Nat /\ Len(pipe) \in Nat
      BY <2>7 DEF MeshTypeOK
    <3>5. \A i \in 1 .. Len(got') : got'[i] = <<v, i>>
      BY <2>7, <3>2, <3>4 DEF Carries
    <3>6. \A i \in 1 .. Len(pipe') : pipe'[i] = <<v, Len(got') + i>>
      BY <2>7, <3>2, <3>4, SMTT(30) DEF Carries
    <3>7. Len(got') + Len(pipe') = Len(got) + Len(pipe)
      BY <2>7, <3>4
    <3>8. Carries(v)'
      BY <3>2, <3>3, <3>5, <3>6, <3>7 DEF Carries
    <3>9. QED
      BY <3>8 DEF OneSnapshot
  <2>5. QED
    BY <2>1, <2>6, <2>2, <2>3, <2>4 DEF MeshInv
<1>13. CASE ReadEof
  <2>1. MeshTypeOK'
    BY <1>13 DEF ReadEof, MeshTypeOK
  <2>6. ThreadStartsBound'
    BY <1>13 DEF ReadEof, MeshTypeOK, ThreadStartsBound
  <2>2. ConnectionIsFresh'
    BY <1>13 DEF ReadEof, MeshTypeOK, ConnectionIsFresh
  <2>3. EndIsEarned'
    BY <1>13 DEF ReadEof, MeshTypeOK, EndIsEarned, ConnectionIsFresh
  <2>4. OneSnapshot'
    BY <1>13 DEF ReadEof, MeshTypeOK, EndIsEarned, ConnectionIsFresh, OneSnapshot, Carries
  <2>5. QED
    BY <2>1, <2>6, <2>2, <2>3, <2>4 DEF MeshInv
<1>14. CASE ReadWaits
  <2>1. MeshTypeOK'
    BY <1>14 DEF ReadWaits, MeshTypeOK
  <2>6. ThreadStartsBound'
    BY <1>14 DEF ReadWaits, MeshTypeOK, ThreadStartsBound
  <2>2. ConnectionIsFresh'
    BY <1>14 DEF ReadWaits, MeshTypeOK, ConnectionIsFresh
  <2>3. EndIsEarned'
    BY <1>14 DEF ReadWaits, MeshTypeOK, EndIsEarned, ConnectionIsFresh
  <2>4. OneSnapshot'
    BY <1>14 DEF ReadWaits, MeshTypeOK, EndIsEarned, ConnectionIsFresh, OneSnapshot, Carries
  <2>5. QED
    BY <2>1, <2>6, <2>2, <2>3, <2>4 DEF MeshInv
<1>15. CASE UNCHANGED meshVars
  BY <1>15, ZenonT(30) DEF meshVars, MeshTypeOK, ConnectionIsFresh, EndIsEarned, OneSnapshot, Carries, ThreadStartsBound, MeshInv
<1>16. QED
  BY <1>1, <1>2, <1>3, <1>4, <1>5, <1>6, <1>7, <1>8, <1>9, <1>10, <1>11, <1>12, <1>13, <1>14, <1>15 DEF MeshNext, Serve, Scrape, MeshOver

\* Every variable of the emitters and of the scrape keeps its type.
THEOREM MeshTypeCorrect == MeshSpec => []MeshTypeOK
<1>1. MeshInv => MeshTypeOK
  BY DEF MeshInv
<1>2. QED
  BY <1>1, MeshStarts, MeshInductive, PTL DEF MeshSpec

(***************************************************************************)
(* A scrape that succeeds has read one snapshot, whole and no older than its   *)
(* connection, whoever replaced the snapshot meanwhile, closed the emitter or  *)
(* took its path over; only a provider that was killed leaves less.          *)
(***************************************************************************)
THEOREM ScrapesAreWhole == MeshSpec => []ScrapeIsWhole
<1>1. MeshInv => ScrapeIsWhole
  <2> SUFFICES ASSUME MeshInv, scrape = "ok", host[peer] # "crashed"
               PROVE  /\ Len(got) = Chunks /\ got[1][1] >= asked
                      /\ \A i \in 1 .. Chunks : got[i] = <<got[1][1], i>>
    BY DEF ScrapeIsWhole
  <2>1. Len(got) = Chunks
    BY DEF MeshInv, MeshTypeOK, EndIsEarned
  <2>2. PICK v \in Nat : Carries(v)
    BY DEF MeshInv, OneSnapshot
  <2>3. got[1] = <<v, 1>> /\ v >= asked
    BY <2>1, <2>2, MeshBounds DEF Carries
  <2>4. \A i \in 1 .. Chunks : got[i] = <<v, i>>
    BY <2>1, <2>2 DEF Carries
  <2>5. QED
    BY <2>1, <2>3, <2>4
<1>2. QED
  BY <1>1, MeshStarts, MeshInductive, PTL DEF MeshSpec
-----------------------------------------------------------------------------
(* Session.                                                                 *)

Starting == {"args", "producer", "trace", "oneshot", "metrics", "log", "mode", "headless",
             "selftest", "enter"}
Leaving  == {"unwind", "catch", "return", "exited"}

SessionTypeOK ==
  /\ mainPc \in Starting \cup Leaving \cup
       {"loop", "stop_trace", "stop_log", "stop_metrics", "stop_producer", "writer_flag",
        "writer_notify", "writer_join", "return0"}
  /\ rc \in Int
  /\ up \subseteq {"producer", "trace", "metrics", "log"}
  /\ freed \subseteq {"buffers", "trace_buffers"}
  /\ gstop \in BOOLEAN /\ running \in BOOLEAN
  /\ hits \in 0 .. 2 /\ throws \in 0 .. MaxThrows
  /\ screen \in {"plain", "ui"}
  /\ wr \in {"off", "check", "sleep", "wait", "write", "gone"}
  /\ queue \in Seq(Nat) /\ Len(queue) <= MaxQueuedFrames
  /\ shown \in Seq(Nat) /\ lost \subseteq Nat
  /\ chunk \in Nat /\ drawn \in 0 .. MaxFrames

\* Buffers are freed on the way out only, each after the parts that read it.
FreedInOrder ==
  /\ freed # {} => mainPc \in Leaving
  /\ "trace_buffers" \in freed => up \cap {"log", "metrics", "trace"} = {}
  /\ "buffers" \in freed => up = {}

Increasing(s) == \A i, j \in 1 .. Len(s) : i < j => s[i] < s[j]

\* shown, then the frame being written, then the queue, up to the newest frame.
FramesInOrder ==
  /\ \A i \in 1 .. Len(shown) : shown[i] <= chunk /\ (wr = "write" => shown[i] < chunk)
  /\ Increasing(shown)
  /\ \A i \in 1 .. Len(queue) : chunk < queue[i]
  /\ Increasing(queue)
  /\ IF queue = <<>> THEN chunk = drawn ELSE queue[Len(queue)] = drawn

\* A frame the writer took is shown or lost once it is written, and the writer
\* leaves an empty queue behind, to which nothing is added.
WriterFinishes ==
  /\ chunk > 0 => wr = "write" \/ chunk \in Range(shown) \cup lost
  /\ wr = "gone" => ~running /\ queue = <<>>
  /\ mainPc = "loop" => running

\* Frames are drawn by a terminal session only, and one that returns 0 has joined
\* its writer.
DrawnBySession ==
  /\ mainPc \in Starting => drawn = 0
  /\ mainPc \in {"enter", "loop"} \/ drawn > 0 => "headless" \notin opt
  /\ mainPc \notin Leaving => rc = NoStatus
  /\ drawn > 0 /\ (rc = 0 \/ mainPc = "return0") => wr = "gone"

SessionInv == SessionTypeOK /\ FreedInOrder /\ FramesInOrder /\ WriterFinishes /\ DrawnBySession

\* What an append and a removal from the front do to an increasing sequence.
LEMMA AppendIncreases ==
  ASSUME NEW s \in Seq(Nat), NEW n \in Nat, Increasing(s), \A i \in 1 .. Len(s) : s[i] < n
  PROVE  LET t == Append(s, n) IN
           /\ t \in Seq(Nat) /\ Len(t) = Len(s) + 1 /\ t[Len(t)] = n
           /\ \A i \in 1 .. Len(s) : t[i] = s[i]
           /\ Increasing(t)
<1> DEFINE t == Append(s, n)
<1>1. /\ t \in Seq(Nat) /\ Len(t) = Len(s) + 1 /\ t[Len(t)] = n
      /\ \A i \in 1 .. Len(s) : t[i] = s[i]
  OBVIOUS
<1>2. \A i \in 1 .. Len(s) : s[i] \in Nat
  OBVIOUS
<1>3. ASSUME NEW i \in 1 .. Len(t), NEW j \in 1 .. Len(t), i < j PROVE t[i] < t[j]
  <2> HIDE DEF t
  <2>1. i \in 1 .. Len(s) /\ t[i] = s[i]
    BY <1>1, <1>3, SMTT(30)
  <2>2. CASE j = Len(t)
    BY <1>1, <2>1, <2>2
  <2>3. CASE j # Len(t)
    <3>1. j \in 1 .. Len(s) /\ t[j] = s[j]
      BY <1>1, <2>3
    <3>2. s[i] < s[j]
      BY <1>3, <2>1, <3>1 DEF Increasing
    <3>3. QED
      BY <2>1, <3>1, <3>2
  <2>4. QED
    BY <2>2, <2>3
<1>4. QED
  BY <1>1, <1>3 DEF Increasing

LEMMA DropKeepsOrder ==
  ASSUME NEW s \in Seq(Nat), NEW k \in 0 .. Len(s), Increasing(s)
  PROVE  LET t == SubSeq(s, k + 1, Len(s)) IN
           /\ t \in Seq(Nat) /\ Len(t) = Len(s) - k
           /\ \A i \in 1 .. Len(t) : t[i] = s[i + k] /\ i + k \in 1 .. Len(s)
           /\ Increasing(t)
<1> DEFINE t == SubSeq(s, k + 1, Len(s))
<1>1. t \in Seq(Nat) /\ Len(t) = Len(s) - k
  OBVIOUS
<1>2. \A i \in 1 .. Len(t) : t[i] = s[i + k] /\ i + k \in 1 .. Len(s)
  BY <1>1
<1> HIDE DEF t
<1>3. ASSUME NEW i \in 1 .. Len(t), NEW j \in 1 .. Len(t), i < j PROVE t[i] < t[j]
  <2>1. s[i + k] < s[j + k]
    <3>1. i + k \in 1 .. Len(s) /\ j + k \in 1 .. Len(s) /\ i + k < j + k
      BY <1>2, <1>3
    <3>2. QED
      BY <3>1 DEF Increasing
  <2>2. QED
    BY <1>2, <2>1
<1>4. QED
  BY <1>1, <1>2, <1>3 DEF Increasing, t

\* The last frame is the newest, so none waiting or being written is newer.
LEMMA EndsAtDrawn ==
  ASSUME SessionTypeOK, FramesInOrder
  PROVE  chunk <= drawn /\ \A i \in 1 .. Len(queue) : chunk < queue[i] /\ queue[i] <= drawn
<1>1. drawn \in Nat /\ chunk \in Nat /\ queue \in Seq(Nat) /\ \A i \in 1 .. Len(queue) : queue[i] \in Nat
  BY SessionBounds DEF SessionTypeOK
<1>2. CASE queue = <<>>
  BY <1>1, <1>2 DEF FramesInOrder
<1>3. CASE queue # <<>>
  <2>1. Len(queue) \in 1 .. Len(queue) /\ queue[Len(queue)] = drawn
    BY <1>1, <1>3 DEF FramesInOrder
  <2>2. \A i \in 1 .. Len(queue) : i # Len(queue) => queue[i] < drawn
    BY <2>1 DEF FramesInOrder, Increasing
  <2>3. \A i \in 1 .. Len(queue) : chunk < queue[i] /\ queue[i] <= drawn
    BY <1>1, <2>1, <2>2 DEF FramesInOrder
  <2>4. QED
    BY <1>1, <2>1, <2>3
<1>4. QED
  BY <1>2, <1>3

\* enqueue_frame() drops from the front, so what is left keeps its order and
\* ends with the new frame, and the queue never outgrows its limit.
LEMMA EnqueuedKeepsOrder ==
  ASSUME NEW q \in Seq(Nat), NEW low \in Nat, NEW high \in Nat, Len(q) <= MaxQueuedFrames, low <= high,
         \A i \in 1 .. Len(q) : low < q[i] /\ q[i] <= high,
         Increasing(q)
  PROVE  LET r == Enqueued(q, high + 1) IN
           /\ r \in Seq(Nat) /\ r # <<>> /\ Len(r) <= MaxQueuedFrames
           /\ r[Len(r)] = high + 1
           /\ \A i \in 1 .. Len(r) : low < r[i]
           /\ Increasing(r)
<1> DEFINE gap  == IF Len(q) >= MaxQueuedFrames THEN Len(q) - MaxQueuedFrames + 1 ELSE 0
           kept == SubSeq(q, gap + 1, Len(q))
           r    == Append(kept, high + 1)
<1>1. gap \in 0 .. Len(q) /\ Len(q) - gap < MaxQueuedFrames
  BY SessionBounds
<1> HIDE DEF gap
<1>2. /\ kept \in Seq(Nat) /\ Len(kept) = Len(q) - gap /\ Increasing(kept)
      /\ \A i \in 1 .. Len(kept) : kept[i] = q[i + gap] /\ i + gap \in 1 .. Len(q)
  BY <1>1, DropKeepsOrder
<1> HIDE DEF kept
<1>3. \A i \in 1 .. Len(kept) : low < kept[i] /\ kept[i] < high + 1
  <2> TAKE i \in 1 .. Len(kept)
  <2>1. kept[i] \in Nat /\ low < kept[i] /\ kept[i] <= high
    <3>1. kept[i] = q[i + gap] /\ i + gap \in 1 .. Len(q)
      BY <1>2
    <3>2. q[i + gap] \in Nat
      BY <3>1
    <3>3. QED
      BY <3>1, <3>2
  <2>2. QED
    BY <2>1
<1>4. /\ r \in Seq(Nat) /\ Len(r) = Len(kept) + 1 /\ r[Len(r)] = high + 1 /\ Increasing(r)
      /\ \A i \in 1 .. Len(kept) : r[i] = kept[i]
  BY <1>2, <1>3, AppendIncreases
<1> HIDE DEF r
<1>5. \A i \in 1 .. Len(r) : low < r[i]
  <2> TAKE i \in 1 .. Len(r)
  <2>1. CASE i = Len(r)
    BY <1>4, <2>1
  <2>2. CASE i # Len(r)
    <3>1. i \in 1 .. Len(kept)
      BY <1>2, <1>4, <2>2
    <3>2. QED
      BY <1>3, <1>4, <3>1
  <2>3. QED
    BY <2>1, <2>2
<1>6. r # <<>> /\ Len(r) <= MaxQueuedFrames
  <2>1. Len(q) \in Nat /\ gap \in Nat /\ Len(r) = Len(q) - gap + 1 /\ MaxQueuedFrames \in Nat
    BY <1>1, <1>2, <1>4, SessionBounds
  <2>2. Len(r) # 0 /\ Len(r) <= MaxQueuedFrames
    BY <1>1, <2>1
  <2>3. QED
    BY <2>2
<1>7. r = Enqueued(q, high + 1)
  <2>1. CASE Len(q) >= MaxQueuedFrames
    <3>1. gap + 1 = Len(q) - MaxQueuedFrames + 2
      BY <2>1, SessionBounds DEF gap
    <3>2. QED
      BY <2>1, <3>1 DEF kept, Enqueued, r
  <2>2. CASE ~(Len(q) >= MaxQueuedFrames)
    <3>1. kept = q
      BY <2>2 DEF gap, kept
    <3>2. QED
      BY <2>2, <3>1 DEF Enqueued, r
  <2>3. QED
    BY <2>1, <2>2
<1>8. QED
  BY <1>4, <1>5, <1>6, <1>7

\* Every step of main(), of the writer, of an exception and of an interrupt keeps the types.
LEMMA SessionKeepsTypes == SessionInv /\ [SessionNext]_sessionVars => SessionTypeOK'
<1> SUFFICES ASSUME SessionTypeOK, FreedInOrder, FramesInOrder, WriterFinishes, DrawnBySession,
                    [SessionNext]_sessionVars
             PROVE  SessionTypeOK'
  BY DEF SessionInv
<1> USE SessionBounds DEF SessionTypeOK, mainVars, writerVars, Starting, Leaving
<1>1. CASE ParseArgument
  <2>1. \A a \in DOMAIN ExitsWith : ExitsWith[a] \in {0, 1, 2}
    BY DEF ExitsWith
  <2>2. rc' \in Int /\ mainPc' \in {mainPc, "return"}
    BY <1>1, <2>1 DEF ParseArgument
  <2>3. QED
    BY <1>1, <2>2 DEF ParseArgument
<1>2. CASE Guards
  BY <1>2 DEF Guards
<1>3. CASE StartProducer
  BY <1>3 DEF StartProducer, Launch
<1>4. CASE StartTrace
  BY <1>4 DEF StartTrace, Launch
<1>5. CASE RefuseTrace
  BY <1>5 DEF RefuseTrace
<1>6. CASE StartMetrics
  BY <1>6 DEF StartMetrics, Launch
<1>7. CASE StartLog
  BY <1>7 DEF StartLog, Launch
<1>8. CASE RunOneShot
  <2>1. rc' \in {rc, 0, 1}
    BY <1>8 DEF RunOneShot
  <2>2. up' \subseteq up /\ mainPc' \in {"metrics", "unwind"}
    BY <1>8 DEF RunOneShot
  <2>3. QED
    BY <1>8, <2>1, <2>2 DEF RunOneShot
<1>9. CASE ChooseMode
  BY <1>9 DEF ChooseMode
<1>10. CASE TraceFailed
  BY <1>10 DEF TraceFailed
<1>11. CASE HeadlessStops
  BY <1>11 DEF HeadlessStops
<1>12. CASE SelfTest
  BY <1>12 DEF SelfTest
<1>13. CASE EnterScreen
  BY <1>13 DEF EnterScreen
<1>14. CASE Frame
  <2>1. queue' = Enqueued(queue, drawn + 1) /\ drawn' = drawn + 1 /\ drawn < MaxFrames
    BY <1>14 DEF Frame
  <2>2. queue' \in Seq(Nat) /\ Len(queue') <= MaxQueuedFrames
    <3>1. /\ drawn \in Nat /\ chunk \in Nat /\ chunk <= drawn
          /\ queue \in Seq(Nat) /\ Len(queue) <= MaxQueuedFrames /\ Increasing(queue)
          /\ \A i \in 1 .. Len(queue) : chunk < queue[i] /\ queue[i] <= drawn
      BY EndsAtDrawn DEF FramesInOrder
    <3>2. QED
      BY <2>1, <3>1, EnqueuedKeepsOrder
  <2>3. gstop' \in BOOLEAN
    BY <1>14 DEF Frame
  <2>4. wr' \in {"off", "check", "sleep", "wait", "write", "gone"}
    BY <1>14 DEF Frame, Woken
  <2>5. QED
    BY <1>14, <2>1, <2>2, <2>3, <2>4 DEF Frame
<1>15. CASE LoopEnds
  BY <1>15 DEF LoopEnds
<1>16. CASE StopTrace
  BY <1>16 DEF StopTrace, StopPart
<1>17. CASE StopLog
  BY <1>17 DEF StopLog, StopPart
<1>18. CASE StopMetrics
  BY <1>18 DEF StopMetrics, StopPart
<1>19. CASE StopProducer
  BY <1>19 DEF StopProducer, StopPart
<1>20. CASE WriterFlag
  BY <1>20 DEF WriterFlag
<1>21. CASE WriterNotify
  BY <1>21 DEF WriterNotify, Woken
<1>22. CASE WriterJoin
  BY <1>22 DEF WriterJoin
<1>23. CASE ReturnZero
  BY <1>23 DEF ReturnZero
<1>24. CASE Unwind
  BY <1>24 DEF Unwind
<1>25. CASE Exit
  BY <1>25 DEF Exit
<1>26. CASE WriterChecks
  <2>1. CASE queue # <<>>
    <3>1. Head(queue) \in Nat /\ Tail(queue) \in Seq(Nat) /\ Len(Tail(queue)) <= MaxQueuedFrames
      BY <2>1
    <3>2. QED
      BY <1>26, <2>1, <3>1 DEF WriterChecks
  <2>2. CASE queue = <<>>
    <3>1. wr' \in {"sleep", "gone"}
      BY <1>26, <2>2 DEF WriterChecks
    <3>2. QED
      BY <1>26, <2>2, <3>1 DEF WriterChecks
  <2>3. QED
    BY <2>1, <2>2
<1>27. CASE WriterSleeps
  BY <1>27 DEF WriterSleeps
<1>28. CASE WriterWrites
  <2>1. shown' \in Seq(Nat)
    <3>1. shown' = shown \/ shown' = Append(shown, chunk)
      BY <1>28 DEF WriterWrites
    <3>2. shown \in Seq(Nat) /\ chunk \in Nat
      OBVIOUS
    <3>3. Append(shown, chunk) \in Seq(Nat)
      BY <3>2
    <3>4. QED
      BY <3>1, <3>2, <3>3, Zenon
  <2>3. lost' \subseteq Nat
    BY <1>28 DEF WriterWrites
  <2>2. QED
    BY <1>28, <2>1, <2>3 DEF WriterWrites
<1>29. CASE Throw
  BY <1>29 DEF Throw
<1>30. CASE Interrupt
  <2>1. gstop' \in BOOLEAN
    BY <1>30 DEF Interrupt
  <2>2. rc' \in Int /\ mainPc' \in {mainPc, "exited"} /\ hits' \in 0 .. 2
    BY <1>30 DEF Interrupt
  <2>3. QED
    BY <1>30, <2>1, <2>2 DEF Interrupt
<1>31. CASE Ended
  BY <1>31 DEF Ended, sessionVars
<1>32. CASE UNCHANGED sessionVars
  BY <1>32 DEF sessionVars
<1>33. QED
  BY <1>1, <1>2, <1>3, <1>4, <1>5, <1>6, <1>7, <1>8, <1>9, <1>10, <1>11, <1>12, <1>13, <1>14, <1>15, <1>16, <1>17, <1>18, <1>19, <1>20, <1>21, <1>22, <1>23, <1>24, <1>25, <1>26, <1>27, <1>28, <1>29, <1>30, <1>31, <1>32 DEF SessionNext, MainStep, WriterStep

\* The locals are destroyed so that nothing is freed under a part that reads it.
LEMMA PartsGoFirst == SessionInv /\ [SessionNext]_sessionVars => FreedInOrder'
<1> SUFFICES ASSUME SessionTypeOK, FreedInOrder, FramesInOrder, WriterFinishes, DrawnBySession,
                    [SessionNext]_sessionVars
             PROVE  FreedInOrder'
  BY DEF SessionInv
<1> USE SessionBounds DEF SessionTypeOK, FreedInOrder, mainVars, writerVars, Starting, Leaving
<1>1. CASE ParseArgument
  BY <1>1 DEF ParseArgument
<1>2. CASE Guards
  BY <1>2 DEF Guards
<1>3. CASE StartProducer
  BY <1>3 DEF StartProducer, Launch
<1>4. CASE StartTrace
  BY <1>4 DEF StartTrace, Launch
<1>5. CASE RefuseTrace
  BY <1>5 DEF RefuseTrace
<1>6. CASE StartMetrics
  BY <1>6 DEF StartMetrics, Launch
<1>7. CASE StartLog
  BY <1>7 DEF StartLog, Launch
<1>8. CASE RunOneShot
  BY <1>8 DEF RunOneShot
<1>9. CASE ChooseMode
  BY <1>9 DEF ChooseMode
<1>10. CASE TraceFailed
  BY <1>10 DEF TraceFailed
<1>11. CASE HeadlessStops
  BY <1>11 DEF HeadlessStops
<1>12. CASE SelfTest
  BY <1>12 DEF SelfTest
<1>13. CASE EnterScreen
  BY <1>13 DEF EnterScreen
<1>14. CASE Frame
  BY <1>14 DEF Frame
<1>15. CASE LoopEnds
  BY <1>15 DEF LoopEnds
<1>16. CASE StopTrace
  BY <1>16 DEF StopTrace, StopPart
<1>17. CASE StopLog
  BY <1>17 DEF StopLog, StopPart
<1>18. CASE StopMetrics
  BY <1>18 DEF StopMetrics, StopPart
<1>19. CASE StopProducer
  BY <1>19 DEF StopProducer, StopPart
<1>20. CASE WriterFlag
  BY <1>20 DEF WriterFlag
<1>21. CASE WriterNotify
  BY <1>21 DEF WriterNotify
<1>22. CASE WriterJoin
  BY <1>22 DEF WriterJoin
<1>23. CASE ReturnZero
  BY <1>23 DEF ReturnZero
<1>24. CASE Unwind
  <2>1. CASE UNCHANGED <<up, freed>> /\ mainPc' = "return"
    BY <2>1
  <2>2. CASE ~(UNCHANGED <<up, freed>> /\ mainPc' = "return")
    <3>1. DOMAIN Locals = 1 .. 7
      BY DEF Locals
    <3>2. PICK i \in 1 .. 7 :
             /\ \A j \in 1 .. (i - 1) : ~Alive(Locals[j])
             /\ up' = up \ {Locals[i]}
             /\ freed' = freed \cup ({Locals[i]} \cap {"buffers", "trace_buffers"})
      BY <1>24, <2>2, <3>1 DEF Unwind
    <3>3. mainPc' = mainPc /\ mainPc \in {"unwind", "catch"}
      BY <1>24, <2>2 DEF Unwind
    <3>4. /\ Locals[2] = "log" /\ Locals[3] = "metrics" /\ Locals[4] = "trace"
          /\ Locals[5] = "trace_buffers" /\ Locals[6] = "producer" /\ Locals[7] = "buffers"
          /\ Locals[1] = "screen"
      BY DEF Locals
    <3>5. ASSUME i > 4 PROVE up \cap {"log", "metrics", "trace"} = {}
      <4>1. ~Alive("log") /\ ~Alive("metrics") /\ ~Alive("trace")
        BY <3>2, <3>4, <3>5
      <4>2. QED
        BY <4>1 DEF Alive
    <3>6. ASSUME i > 6 PROVE up = {}
      <4>1. ~Alive("producer") /\ up \cap {"log", "metrics", "trace"} = {}
        BY <3>2, <3>4, <3>5, <3>6
      <4>2. QED
        BY <4>1 DEF Alive
    <3>7. ("trace_buffers" \in freed' => "trace_buffers" \in freed \/ i = 5)
          /\ ("buffers" \in freed' => "buffers" \in freed \/ i = 7)
      BY <3>2, <3>4
    <3>8. up' \subseteq up /\ i \in 1 .. 7 /\ (i = 7 => i > 6) /\ (i = 5 => i > 4)
      BY <3>2
    <3>9. "trace_buffers" \in freed' => up' \cap {"log", "metrics", "trace"} = {}
      BY <3>5, <3>7, <3>8
    <3>10. "buffers" \in freed' => up' = {}
      BY <3>6, <3>7, <3>8
    <3>11. QED
      BY <3>3, <3>9, <3>10
  <2>3. QED
    BY <2>1, <2>2
<1>25. CASE Exit
  BY <1>25 DEF Exit
<1>26. CASE WriterChecks
  BY <1>26 DEF WriterChecks
<1>27. CASE WriterSleeps
  BY <1>27 DEF WriterSleeps
<1>28. CASE WriterWrites
  BY <1>28 DEF WriterWrites
<1>29. CASE Throw
  BY <1>29 DEF Throw
<1>30. CASE Interrupt
  BY <1>30 DEF Interrupt
<1>31. CASE Ended
  BY <1>31 DEF Ended, sessionVars
<1>32. CASE UNCHANGED sessionVars
  BY <1>32 DEF sessionVars
<1>33. QED
  BY <1>1, <1>2, <1>3, <1>4, <1>5, <1>6, <1>7, <1>8, <1>9, <1>10, <1>11, <1>12, <1>13, <1>14, <1>15, <1>16, <1>17, <1>18, <1>19, <1>20, <1>21, <1>22, <1>23, <1>24, <1>25, <1>26, <1>27, <1>28, <1>29, <1>30, <1>31, <1>32 DEF SessionNext, MainStep, WriterStep

\* Drawing, dropping and writing keep the frames in order.
LEMMA FramesKeepOrder == SessionInv /\ [SessionNext]_sessionVars => FramesInOrder'
<1> SUFFICES ASSUME SessionTypeOK, FreedInOrder, FramesInOrder, WriterFinishes, DrawnBySession,
                    [SessionNext]_sessionVars
             PROVE  FramesInOrder'
  BY DEF SessionInv
<1> USE SessionBounds DEF SessionTypeOK, FramesInOrder, mainVars, writerVars, Starting, Leaving
<1>1. CASE ParseArgument
  BY <1>1 DEF ParseArgument
<1>2. CASE Guards
  BY <1>2 DEF Guards
<1>3. CASE StartProducer
  BY <1>3 DEF StartProducer, Launch
<1>4. CASE StartTrace
  BY <1>4 DEF StartTrace, Launch
<1>5. CASE RefuseTrace
  BY <1>5 DEF RefuseTrace
<1>6. CASE StartMetrics
  BY <1>6 DEF StartMetrics, Launch
<1>7. CASE StartLog
  BY <1>7 DEF StartLog, Launch
<1>8. CASE RunOneShot
  BY <1>8 DEF RunOneShot
<1>9. CASE ChooseMode
  BY <1>9 DEF ChooseMode
<1>10. CASE TraceFailed
  BY <1>10 DEF TraceFailed
<1>11. CASE HeadlessStops
  BY <1>11 DEF HeadlessStops
<1>12. CASE SelfTest
  BY <1>12 DEF SelfTest
<1>13. CASE EnterScreen
  BY <1>13 DEF EnterScreen
<1>14. CASE Frame
  <2>1. queue' = Enqueued(queue, drawn + 1) /\ drawn' = drawn + 1
    BY <1>14 DEF Frame
  <2>2. UNCHANGED <<shown, chunk>> /\ (wr' = "write" => wr = "write")
    BY <1>14 DEF Frame, Woken
  <2>3. \A i \in 1 .. Len(queue) : chunk < queue[i] /\ queue[i] <= drawn
    BY EndsAtDrawn
  <2>4. chunk <= drawn
    BY EndsAtDrawn
  <2>5. /\ queue' # <<>> /\ queue'[Len(queue')] = drawn + 1
        /\ \A i \in 1 .. Len(queue') : chunk < queue'[i]
        /\ Increasing(queue')
    <3>1. /\ drawn \in Nat /\ chunk \in Nat /\ queue \in Seq(Nat) /\ Len(queue) <= MaxQueuedFrames
          /\ Increasing(queue)
      OBVIOUS
    <3>2. QED
      BY <2>1, <2>3, <2>4, <3>1, EnqueuedKeepsOrder
  <2>6. QED
    BY <2>1, <2>2, <2>5
<1>15. CASE LoopEnds
  BY <1>15 DEF LoopEnds
<1>16. CASE StopTrace
  BY <1>16 DEF StopTrace, StopPart
<1>17. CASE StopLog
  BY <1>17 DEF StopLog, StopPart
<1>18. CASE StopMetrics
  BY <1>18 DEF StopMetrics, StopPart
<1>19. CASE StopProducer
  BY <1>19 DEF StopProducer, StopPart
<1>20. CASE WriterFlag
  BY <1>20 DEF WriterFlag
<1>21. CASE WriterNotify
  BY <1>21 DEF WriterNotify, Woken
<1>22. CASE WriterJoin
  <2>1. queue' = queue
    BY <1>22 DEF WriterJoin, WriterFinishes
  <2>2. QED
    BY <1>22, <2>1 DEF WriterJoin
<1>23. CASE ReturnZero
  BY <1>23 DEF ReturnZero
<1>24. CASE Unwind
  BY <1>24 DEF Unwind
<1>25. CASE Exit
  BY <1>25 DEF Exit
<1>26. CASE WriterChecks
  <2>1. CASE queue # <<>>
    <3>1. chunk' = Head(queue) /\ queue' = Tail(queue) /\ UNCHANGED <<shown, drawn>>
      BY <1>26, <2>1 DEF WriterChecks
    <3>2. /\ Len(queue) \in Nat /\ Len(queue) > 0 /\ 1 \in 0 .. Len(queue) /\ chunk' = queue[1]
          /\ queue' = SubSeq(queue, 1 + 1, Len(queue))
      BY <2>1, <3>1
    <3>3. /\ Len(queue') = Len(queue) - 1 /\ queue' \in Seq(Nat) /\ Increasing(queue')
          /\ \A i \in 1 .. Len(queue') : queue'[i] = queue[i + 1] /\ i + 1 \in 1 .. Len(queue)
      BY <3>2, DropKeepsOrder, ZenonT(30)
    <3>4. /\ chunk < chunk' /\ chunk' \in Nat
          /\ \A i \in 1 .. Len(shown) : shown[i] \in Nat /\ shown[i] <= chunk
      BY <3>2, SMTT(30)
    <3>5. \A i \in 1 .. Len(shown) : shown[i] < chunk'
      BY <3>4
    <3>6. \A i \in 1 .. Len(queue') : chunk' < queue'[i]
      <4> TAKE i \in 1 .. Len(queue')
      <4>1. queue'[i] = queue[i + 1] /\ i + 1 \in 1 .. Len(queue) /\ 1 < i + 1 /\ 1 \in 1 .. Len(queue)
        BY <3>2, <3>3
      <4>2. QED
        BY <3>2, <4>1 DEF Increasing
    <3>7. IF queue' = <<>> THEN chunk' = drawn ELSE queue'[Len(queue')] = drawn
      <4>1. queue[Len(queue)] = drawn
        BY <2>1
      <4>2. CASE queue' = <<>>
        <5>1. Len(queue') = 0
          BY <4>2
        <5>2. Len(queue) = 1
          BY <3>2, <3>3, <5>1
        <5>3. QED
          BY <3>2, <4>1, <4>2, <5>2
      <4>3. CASE queue' # <<>>
        <5>1. Len(queue') \in 1 .. Len(queue')
          BY <3>3, <4>3
        <5>2. queue'[Len(queue')] = queue[Len(queue)]
          BY <3>2, <3>3, <5>1
        <5>3. QED
          BY <4>1, <4>3, <5>2
      <4>4. QED
        BY <4>2, <4>3
    <3>8. QED
      BY <3>1, <3>3, <3>4, <3>5, <3>6, <3>7, SMTT(30)
  <2>2. CASE queue = <<>>
    BY <1>26, <2>2 DEF WriterChecks
  <2>3. QED
    BY <2>1, <2>2
<1>27. CASE WriterSleeps
  BY <1>27 DEF WriterSleeps
<1>28. CASE WriterWrites
  <2>1. UNCHANGED <<queue, chunk, drawn>> /\ wr' # "write" /\ wr = "write"
    BY <1>28 DEF WriterWrites
  <2>2. CASE shown' = shown
    BY <2>1, <2>2
  <2>3. CASE shown' = Append(shown, chunk)
    <3>1. shown \in Seq(Nat) /\ chunk \in Nat /\ \A i \in 1 .. Len(shown) : shown[i] < chunk
      BY <2>1
    <3>2. /\ Len(shown') = Len(shown) + 1 /\ shown'[Len(shown')] = chunk /\ Increasing(shown')
          /\ \A i \in 1 .. Len(shown) : shown'[i] = shown[i]
      BY <2>3, <3>1, AppendIncreases
    <3>3. \A i \in 1 .. Len(shown') : shown'[i] <= chunk
      <4> TAKE i \in 1 .. Len(shown')
      <4>1. CASE i = Len(shown')
        BY <3>1, <3>2, <4>1
      <4>2. CASE i # Len(shown')
        <5>1. i \in 1 .. Len(shown) /\ shown[i] \in Nat
          BY <3>1, <3>2, <4>2
        <5>2. QED
          BY <3>1, <3>2, <5>1
      <4>3. QED
        BY <4>1, <4>2
    <3>4. QED
      BY <2>1, <3>2, <3>3
  <2>4. QED
    BY <1>28, <2>2, <2>3 DEF WriterWrites
<1>29. CASE Throw
  BY <1>29 DEF Throw
<1>30. CASE Interrupt
  BY <1>30 DEF Interrupt
<1>31. CASE Ended
  BY <1>31 DEF Ended, sessionVars
<1>32. CASE UNCHANGED sessionVars
  BY <1>32 DEF sessionVars
<1>33. QED
  BY <1>1, <1>2, <1>3, <1>4, <1>5, <1>6, <1>7, <1>8, <1>9, <1>10, <1>11, <1>12, <1>13, <1>14, <1>15, <1>16, <1>17, <1>18, <1>19, <1>20, <1>21, <1>22, <1>23, <1>24, <1>25, <1>26, <1>27, <1>28, <1>29, <1>30, <1>31, <1>32 DEF SessionNext, MainStep, WriterStep

\* The writer leaves no frame behind.
LEMMA WriterEndsLast == SessionInv /\ [SessionNext]_sessionVars => WriterFinishes'
<1> SUFFICES ASSUME SessionTypeOK, FreedInOrder, FramesInOrder, WriterFinishes, DrawnBySession,
                    [SessionNext]_sessionVars
             PROVE  WriterFinishes'
  BY DEF SessionInv
<1> USE SessionBounds DEF SessionTypeOK, WriterFinishes, mainVars, writerVars, Starting, Leaving
<1>1. CASE ParseArgument
  BY <1>1 DEF ParseArgument
<1>2. CASE Guards
  BY <1>2 DEF Guards
<1>3. CASE StartProducer
  BY <1>3 DEF StartProducer, Launch
<1>4. CASE StartTrace
  BY <1>4 DEF StartTrace, Launch
<1>5. CASE RefuseTrace
  BY <1>5 DEF RefuseTrace
<1>6. CASE StartMetrics
  BY <1>6 DEF StartMetrics, Launch
<1>7. CASE StartLog
  BY <1>7 DEF StartLog, Launch
<1>8. CASE RunOneShot
  BY <1>8 DEF RunOneShot
<1>9. CASE ChooseMode
  BY <1>9 DEF ChooseMode
<1>10. CASE TraceFailed
  BY <1>10 DEF TraceFailed
<1>11. CASE HeadlessStops
  BY <1>11 DEF HeadlessStops
<1>12. CASE SelfTest
  BY <1>12 DEF SelfTest
<1>13. CASE EnterScreen
  <2>1. chunk = 0
    BY <1>13, EndsAtDrawn DEF EnterScreen, DrawnBySession
  <2>2. QED
    BY <1>13, <2>1 DEF EnterScreen
<1>14. CASE Frame
  <2>1. wr # "gone" /\ running
    BY <1>14 DEF Frame
  <2>2. UNCHANGED <<running, chunk, shown, lost, mainPc>> /\ wr' \in {wr, "check"}
        /\ (wr = "write" => wr' = "write")
    BY <1>14 DEF Frame, Woken
  <2>3. QED
    BY <2>1, <2>2
<1>15. CASE LoopEnds
  BY <1>15 DEF LoopEnds
<1>16. CASE StopTrace
  BY <1>16 DEF StopTrace, StopPart
<1>17. CASE StopLog
  BY <1>17 DEF StopLog, StopPart
<1>18. CASE StopMetrics
  BY <1>18 DEF StopMetrics, StopPart
<1>19. CASE StopProducer
  BY <1>19 DEF StopProducer, StopPart
<1>20. CASE WriterFlag
  BY <1>20 DEF WriterFlag
<1>21. CASE WriterNotify
  BY <1>21 DEF WriterNotify, Woken
<1>22. CASE WriterJoin
  BY <1>22 DEF WriterJoin
<1>23. CASE ReturnZero
  BY <1>23 DEF ReturnZero
<1>24. CASE Unwind
  BY <1>24 DEF Unwind
<1>25. CASE Exit
  BY <1>25 DEF Exit
<1>26. CASE WriterChecks
  BY <1>26 DEF WriterChecks
<1>27. CASE WriterSleeps
  BY <1>27 DEF WriterSleeps
<1>28. CASE WriterWrites
  <2>1. chunk \in Range(shown') \cup lost'
    <3>1. CASE shown' = Append(shown, chunk)
      <4>1. Len(shown') \in DOMAIN shown' /\ shown'[Len(shown')] = chunk
        BY <3>1
      <4>2. QED
        BY <4>1 DEF Range
    <3>2. CASE lost' = lost \cup {chunk}
      BY <3>2
    <3>3. QED
      BY <1>28, <3>1, <3>2 DEF WriterWrites
  <2>2. QED
    BY <1>28, <2>1 DEF WriterWrites
<1>29. CASE Throw
  BY <1>29 DEF Throw
<1>30. CASE Interrupt
  BY <1>30 DEF Interrupt
<1>31. CASE Ended
  BY <1>31 DEF Ended, sessionVars
<1>32. CASE UNCHANGED sessionVars
  BY <1>32 DEF sessionVars
<1>33. QED
  BY <1>1, <1>2, <1>3, <1>4, <1>5, <1>6, <1>7, <1>8, <1>9, <1>10, <1>11, <1>12, <1>13, <1>14, <1>15, <1>16, <1>17, <1>18, <1>19, <1>20, <1>21, <1>22, <1>23, <1>24, <1>25, <1>26, <1>27, <1>28, <1>29, <1>30, <1>31, <1>32 DEF SessionNext, MainStep, WriterStep

\* Only a terminal session draws, and its success means a joined writer.
LEMMA SessionsDraw == SessionInv /\ [SessionNext]_sessionVars => DrawnBySession'
<1> SUFFICES ASSUME SessionTypeOK, FreedInOrder, FramesInOrder, WriterFinishes, DrawnBySession,
                    [SessionNext]_sessionVars
             PROVE  DrawnBySession'
  BY DEF SessionInv
<1> USE SessionBounds DEF SessionTypeOK, DrawnBySession, mainVars, writerVars, Starting, Leaving
<1>1. CASE ParseArgument
  BY <1>1 DEF ParseArgument
<1>2. CASE Guards
  BY <1>2 DEF Guards
<1>3. CASE StartProducer
  BY <1>3 DEF StartProducer, Launch
<1>4. CASE StartTrace
  BY <1>4 DEF StartTrace, Launch
<1>5. CASE RefuseTrace
  BY <1>5 DEF RefuseTrace
<1>6. CASE StartMetrics
  BY <1>6 DEF StartMetrics, Launch
<1>7. CASE StartLog
  BY <1>7 DEF StartLog, Launch
<1>8. CASE RunOneShot
  BY <1>8 DEF RunOneShot
<1>9. CASE ChooseMode
  BY <1>9 DEF ChooseMode
<1>10. CASE TraceFailed
  BY <1>10 DEF TraceFailed
<1>11. CASE HeadlessStops
  BY <1>11 DEF HeadlessStops
<1>12. CASE SelfTest
  BY <1>12 DEF SelfTest
<1>13. CASE EnterScreen
  BY <1>13 DEF EnterScreen
<1>14. CASE Frame
  <2>1. mainPc = "loop" /\ mainPc' = "loop" /\ UNCHANGED <<rc, opt>> /\ rc = NoStatus
    BY <1>14 DEF Frame
  <2>2. QED
    BY <2>1 DEF NoStatus
<1>15. CASE LoopEnds
  BY <1>15 DEF LoopEnds
<1>16. CASE StopTrace
  BY <1>16 DEF StopTrace, StopPart
<1>17. CASE StopLog
  BY <1>17 DEF StopLog, StopPart
<1>18. CASE StopMetrics
  BY <1>18 DEF StopMetrics, StopPart
<1>19. CASE StopProducer
  BY <1>19 DEF StopProducer, StopPart
<1>20. CASE WriterFlag
  BY <1>20 DEF WriterFlag
<1>21. CASE WriterNotify
  BY <1>21 DEF WriterNotify, Woken
<1>22. CASE WriterJoin
  BY <1>22 DEF WriterJoin
<1>23. CASE ReturnZero
  BY <1>23 DEF ReturnZero
<1>24. CASE Unwind
  BY <1>24 DEF Unwind
<1>25. CASE Exit
  BY <1>25 DEF Exit
<1>26. CASE WriterChecks
  BY <1>26 DEF WriterChecks
<1>27. CASE WriterSleeps
  BY <1>27 DEF WriterSleeps
<1>28. CASE WriterWrites
  BY <1>28 DEF WriterWrites
<1>29. CASE Throw
  BY <1>29 DEF Throw
<1>30. CASE Interrupt
  BY <1>30 DEF Interrupt
<1>31. CASE Ended
  BY <1>31 DEF Ended, sessionVars
<1>32. CASE UNCHANGED sessionVars
  BY <1>32 DEF sessionVars
<1>33. QED
  BY <1>1, <1>2, <1>3, <1>4, <1>5, <1>6, <1>7, <1>8, <1>9, <1>10, <1>11, <1>12, <1>13, <1>14, <1>15, <1>16, <1>17, <1>18, <1>19, <1>20, <1>21, <1>22, <1>23, <1>24, <1>25, <1>26, <1>27, <1>28, <1>29, <1>30, <1>31, <1>32 DEF SessionNext, MainStep, WriterStep

\* Nothing is up, freed or drawn at the start.
LEMMA SessionStarts == SessionInit => SessionInv
<1> SUFFICES ASSUME SessionInit PROVE SessionInv
  OBVIOUS
<1>1. SessionTypeOK
  <2>1. queue \in Seq(Nat) /\ Len(queue) <= MaxQueuedFrames /\ shown \in Seq(Nat)
    BY SessionBounds DEF SessionInit
  <2>2. gstop \in BOOLEAN /\ running \in BOOLEAN
    BY DEF SessionInit
  <2>3. QED
    BY <2>1, <2>2, SessionBounds DEF SessionInit, SessionTypeOK, Starting, NoStatus
<1>2. FreedInOrder /\ FramesInOrder
  BY DEF SessionInit, FreedInOrder, FramesInOrder, Increasing
<1>3. WriterFinishes /\ DrawnBySession
  BY DEF SessionInit, WriterFinishes, DrawnBySession, Starting, NoStatus
<1>4. QED
  BY <1>1, <1>2, <1>3 DEF SessionInv

LEMMA SessionInductive == SessionInv /\ [SessionNext]_sessionVars => SessionInv'
  BY SessionKeepsTypes, PartsGoFirst, FramesKeepOrder, WriterEndsLast, SessionsDraw DEF SessionInv

\* Every variable of main() and of the writer keeps its type, the queue its limit.
THEOREM SessionTypeCorrect == SessionSpec => []SessionTypeOK
<1>1. SessionInv => SessionTypeOK
  BY DEF SessionInv
<1>2. QED
  BY <1>1, SessionStarts, SessionInductive, PTL DEF SessionSpec

(***************************************************************************)
(* Whatever way main() is left, whichever arguments it got, no part outlives  *)
(* the buffers it reads, and a terminal session that returns 0 has shown its   *)
(* frames in order up to the last, or lost that one to a failed write.        *)
(***************************************************************************)
THEOREM SessionEndsInOrder == SessionSpec => []EndsInOrder
<1>1. SessionInv => NoPartOutlivesBuffers
  BY DEF SessionInv, SessionTypeOK, FreedInOrder, NoPartOutlivesBuffers, Reads
<1>2. SessionInv => LastFrameIsShown
  <2> SUFFICES ASSUME SessionInv, rc = 0, mainPc = "exited", drawn > 0
               PROVE  drawn \in Range(shown) \cup lost
    BY DEF SessionInv, FramesInOrder, Increasing, LastFrameIsShown
  <2>1. wr = "gone" /\ queue = <<>>
    BY DEF SessionInv, DrawnBySession, WriterFinishes
  <2>2. QED
    BY <2>1 DEF SessionInv, FramesInOrder, WriterFinishes
<1>3. QED
  BY <1>1, <1>2, SessionStarts, SessionInductive, PTL DEF SessionSpec, EndsInOrder

-----------------------------------------------------------------------------
(* TraceLog.                                                                *)

LogRecords == [k : {"event", "drops", "storm", "torn"}, v : Nat, w : Nat]
LogStages == {"poll", "flush", "cycle", "nap", "consume", "napflush", "final", "finalflush",
              "join", "done", "killed"}

LogTypeOK ==
  /\ made \in Nat /\ dropped \in Nat /\ kicked \in Nat /\ werr \in Nat /\ nap \in Nat
  /\ ring \in Seq(Nat) /\ consumed \in Seq(Nat)
  /\ buf \in Seq(LogRecords) /\ logFile \in Seq(LogRecords)
  /\ lastDrops \in [n : Nat, w : Nat] /\ lastKicks \in Nat \cup {-1}
  /\ at \in LogStages /\ stopping \in BOOLEAN

\* The records of a kind, torn ones before them or not.
OfKind(d, kind) == {i \in DOMAIN d : d[i].k = kind}
Kicks(d) == SumFunctionOnSet([i \in DOMAIN d |-> d[i].v], OfKind(d, "storm"))

\* Events are numbered as they are made; one is consumed, in the ring or dropped.
EventsInOrder ==
  /\ \A i, j \in DOMAIN consumed : i < j => consumed[i] < consumed[j]
  /\ \A i, j \in DOMAIN ring : i < j => ring[i] < ring[j]
  /\ \A i \in DOMAIN consumed, j \in DOMAIN ring : consumed[i] < ring[j]
  /\ \A i \in DOMAIN consumed : consumed[i] <= made
  /\ \A j \in DOMAIN ring : ring[j] <= made
  /\ Len(consumed) + Len(ring) + dropped = made

\* What is true of a stream of records, after the events c, with at most n
\* dropped and k kicks.
StreamIsTrue(d, c, n, k) ==
  /\ \A i, j \in OfKind(d, "event") : i < j => d[i].v < d[j].v
  /\ \A i \in OfKind(d, "event") : d[i].v \in Range(c)
  /\ \A i \in OfKind(d, "drops") : d[i].v <= n
  /\ Kicks(d) <= k

\* What is in a stream no write of which failed, n drops being the last stated.
StreamIsWhole(d, c, n) ==
  /\ OfKind(d, "torn") = {}
  /\ \A e \in Range(c) : \E i \in OfKind(d, "event") : d[i].v = e
  /\ \A i \in OfKind(d, "drops") : (\A j \in OfKind(d, "drops") : j <= i) => d[i].v = n

\* The kicks sampled so far.
Sampled == IF lastKicks = -1 THEN 0 ELSE lastKicks

\* The file and what is about to be written to it.
Stream == logFile \o buf

LogInv ==
  /\ LogTypeOK /\ EventsInOrder /\ lastKicks <= kicked
  /\ at # "killed" => /\ StreamIsTrue(Stream, consumed, dropped, Sampled)
                      /\ werr = 0 => StreamIsWhole(Stream, consumed, lastDrops.n)
  /\ at \in {"finalflush", "join", "done"} /\ werr = 0 => OfKind(Stream, "drops") # {}
  /\ at = "done" => buf = <<>>
  /\ at = "killed" => PrefixIsTrue

-----------------------------------------------------------------------------
(* Streams of records.                                                      *)

LEMMA KindsAreFinite ==
  ASSUME NEW d \in Seq(LogRecords), NEW kind
  PROVE  /\ OfKind(d, kind) \in SUBSET (1 .. Len(d)) /\ IsFiniteSet(OfKind(d, kind))
         /\ \A i \in OfKind(d, kind) : d[i] \in LogRecords /\ [x \in DOMAIN d |-> d[x].v][i] \in Nat
         /\ Kicks(d) \in Nat
<1>1. Len(d) \in Nat /\ DOMAIN d = 1 .. Len(d) /\ \A i \in DOMAIN d : d[i] \in LogRecords
  BY LenProperties, ElementOfSeq
<1>2. \A S : S \in SUBSET (1 .. Len(d)) => IsFiniteSet(S)
  <2>1. IsFiniteSet(1 .. Len(d))
    BY <1>1, FS_Interval
  <2>2. QED
    BY <2>1, FS_Subset
<1>3. OfKind(d, "storm") \in SUBSET (1 .. Len(d)) /\ OfKind(d, kind) \in SUBSET (1 .. Len(d))
  BY <1>1 DEF OfKind
<1>4. \A i \in DOMAIN d : [x \in DOMAIN d |-> d[x].v][i] \in Nat
  BY <1>1 DEF LogRecords
<1>5. Kicks(d) \in Nat
  BY <1>1, <1>2, <1>3, <1>4, SumIsNat DEF Kicks
<1>6. QED
  BY <1>1, <1>2, <1>3, <1>4, <1>5

\* P is the first m records of D, and perhaps a torn one.
Cuts(P, D, m) ==
  /\ m <= Len(D) /\ m <= Len(P) /\ \A i \in 1 .. m : P[i] = D[i]
  /\ \A i \in DOMAIN P : i > m => P[i].k = "torn"

LEMMA CutKinds ==
  ASSUME NEW P \in Seq(LogRecords), NEW D \in Seq(LogRecords), NEW m \in Nat, Cuts(P, D, m),
         NEW kind, kind # "torn"
  PROVE  /\ \A i \in OfKind(P, kind) : i <= m /\ i \in OfKind(D, kind) /\ P[i] = D[i]
         /\ \A i \in OfKind(D, kind) : i <= m => i \in OfKind(P, kind) /\ P[i] = D[i]
<1>1. DOMAIN P = 1 .. Len(P) /\ DOMAIN D = 1 .. Len(D) /\ Len(P) \in Nat /\ Len(D) \in Nat
  BY LenProperties
<1>2. QED
  BY <1>1 DEF Cuts, OfKind

\* A cut stream is as true as the whole.
LEMMA CutIsTrue ==
  ASSUME NEW P \in Seq(LogRecords), NEW D \in Seq(LogRecords), NEW m \in Nat, Cuts(P, D, m),
         NEW c, NEW n \in Nat, NEW k \in Nat, StreamIsTrue(D, c, n, k)
  PROVE  StreamIsTrue(P, c, n, k)
<1>1. \A kind \in {"event", "drops", "storm"} : \A i \in OfKind(P, kind) : i \in OfKind(D, kind) /\ P[i] = D[i]
  BY CutKinds
<1>2. Kicks(P) <= Kicks(D)
  <2> DEFINE S == OfKind(P, "storm")
             f == [i \in DOMAIN P |-> P[i].v]
             g == [i \in DOMAIN D |-> D[i].v]
  <2>1. S \in SUBSET OfKind(D, "storm") /\ IsFiniteSet(S) /\ IsFiniteSet(OfKind(D, "storm"))
    BY <1>1, KindsAreFinite
  <2>2. \A i \in S : f[i] = g[i]
    BY <1>1 DEF OfKind
  <2>3. \A i \in OfKind(D, "storm") : g[i] \in Nat
    BY KindsAreFinite
  <2> HIDE DEF S, f, g
  <2>4. SumFunctionOnSet(f, S) = SumFunctionOnSet(g, S)
    BY <2>1, <2>2, SumSame
  <2>5. SumFunctionOnSet(g, S) <= SumFunctionOnSet(g, OfKind(D, "storm"))
    BY <2>1, <2>3, SumOfPart
  <2>6. QED
    BY <2>4, <2>5 DEF Kicks, S, f, g
<1>3. Kicks(P) \in Nat /\ Kicks(D) \in Nat
  BY KindsAreFinite
<1>4. QED
  BY <1>1, <1>2, <1>3 DEF StreamIsTrue

\* One more record.
LEMMA KindsOfAppend ==
  ASSUME NEW d \in Seq(LogRecords), NEW r \in LogRecords, NEW kind
  PROVE  /\ Append(d, r) \in Seq(LogRecords) /\ Len(Append(d, r)) = Len(d) + 1
         /\ \A i \in 1 .. Len(d) : Append(d, r)[i] = d[i]
         /\ Append(d, r)[Len(d) + 1] = r
         /\ OfKind(Append(d, r), kind) = OfKind(d, kind) \cup (IF r.k = kind THEN {Len(d) + 1} ELSE {})
         /\ Len(d) + 1 \notin OfKind(d, kind) /\ Len(d) \in Nat
         /\ \A i \in OfKind(d, kind) : i \in 1 .. Len(d)
<1>1. DOMAIN d = 1 .. Len(d) /\ Len(d) \in Nat
  BY LenProperties
<1>2. /\ Append(d, r) \in Seq(LogRecords) /\ Len(Append(d, r)) = Len(d) + 1
      /\ \A i \in 1 .. Len(d) : Append(d, r)[i] = d[i]
      /\ Append(d, r)[Len(d) + 1] = r
  BY <1>1, AppendProperties
<1>3. DOMAIN Append(d, r) = 1 .. Len(d) + 1
  BY <1>2, LenProperties
<1>4. QED
  BY <1>1, <1>2, <1>3 DEF OfKind

LEMMA KicksOfAppend ==
  ASSUME NEW d \in Seq(LogRecords), NEW r \in LogRecords
  PROVE  Kicks(Append(d, r)) = Kicks(d) + (IF r.k = "storm" THEN r.v ELSE 0)
<1> DEFINE e == Append(d, r)
           S == OfKind(d, "storm")
           T == OfKind(e, "storm")
           f == [i \in DOMAIN d |-> d[i].v]
           g == [i \in DOMAIN e |-> e[i].v]
<1>1. /\ e \in Seq(LogRecords) /\ \A i \in 1 .. Len(d) : e[i] = d[i]
      /\ e[Len(d) + 1] = r /\ T = S \cup (IF r.k = "storm" THEN {Len(d) + 1} ELSE {})
      /\ Len(d) + 1 \notin S /\ \A i \in S : i \in 1 .. Len(d)
  BY KindsOfAppend
<1>2. IsFiniteSet(S) /\ IsFiniteSet(T) /\ \A i \in T : g[i] \in Nat
  BY <1>1, KindsAreFinite
<1>3. DOMAIN d = 1 .. Len(d) /\ DOMAIN e = 1 .. Len(d) + 1 /\ Len(d) \in Nat
  BY <1>1, LenProperties, AppendProperties
<1>4. \A i \in S : f[i] = g[i]
  BY <1>1, <1>3
<1>5. g[Len(d) + 1] = r.v
  BY <1>1, <1>3
<1>6. Kicks(d) = SumFunctionOnSet(f, S) /\ Kicks(e) = SumFunctionOnSet(g, T)
  BY DEF Kicks
<1>7. Kicks(d) \in Nat
  BY KindsAreFinite
<1> HIDE DEF e, S, T, f, g
<1>8. SumFunctionOnSet(f, S) = SumFunctionOnSet(g, S)
  BY <1>2, <1>4, SumSame
<1>9. CASE r.k = "storm"
  <2>1. Len(d) + 1 \in T /\ T \ {Len(d) + 1} = S
    BY <1>1, <1>9
  <2>2. SumFunctionOnSet(g, T) = g[Len(d) + 1] + SumFunctionOnSet(g, S)
    BY <1>2, <2>1, SumWithout
  <2>3. r.v \in Nat
    BY DEF LogRecords
  <2>4. QED
    BY <1>5, <1>6, <1>7, <1>8, <1>9, <2>2, <2>3 DEF e
<1>10. CASE r.k # "storm"
  BY <1>1, <1>6, <1>7, <1>8, <1>10 DEF e
<1>11. QED
  BY <1>9, <1>10

LEMMA StreamGrows ==
  ASSUME NEW d \in Seq(LogRecords), NEW r \in LogRecords, NEW c, NEW n \in Nat, NEW k \in Nat,
         StreamIsTrue(d, c, n, k),
         NEW c2, NEW n2 \in Nat, NEW k2 \in Nat, Range(c) \subseteq Range(c2) \cap Nat, n <= n2,
         k + (IF r.k = "storm" THEN r.v ELSE 0) <= k2,
         r.k = "event" => r.v \in Range(c2) /\ \A e \in Range(c) : e < r.v,
         r.k = "drops" => r.v <= n2
  PROVE  StreamIsTrue(Append(d, r), c2, n2, k2)
<1> DEFINE e == Append(d, r)
<1>1. /\ e \in Seq(LogRecords) /\ \A i \in 1 .. Len(d) : e[i] = d[i]
      /\ e[Len(d) + 1] = r /\ Len(d) \in Nat
  BY KindsOfAppend
<1>2. \A kind : \A i \in OfKind(e, kind) : \/ i \in OfKind(d, kind) /\ i \in 1 .. Len(d) /\ e[i] = d[i]
                                           \/ i = Len(d) + 1 /\ e[i] = r /\ r.k = kind
  BY KindsOfAppend
<1>3. \A kind : \A i \in OfKind(d, kind) : d[i].v \in Nat
  BY KindsAreFinite DEF LogRecords
<1>4. r.v \in Nat
  BY DEF LogRecords
<1>5. Kicks(e) <= k2
  <2>1. Kicks(e) = Kicks(d) + (IF r.k = "storm" THEN r.v ELSE 0) /\ Kicks(d) \in Nat
    BY KicksOfAppend, KindsAreFinite
  <2>2. Kicks(d) <= k
    BY DEF StreamIsTrue
  <2>3. QED
    BY <2>1, <2>2, <1>4
<1> HIDE DEF e
<1>6. ASSUME NEW i \in OfKind(e, "event"), NEW j \in OfKind(e, "event"), i < j PROVE e[i].v < e[j].v
  BY <1>1, <1>2, <1>3, <1>4, <1>6 DEF StreamIsTrue
<1>7. \A i \in OfKind(e, "event") : e[i].v \in Range(c2)
  BY <1>2 DEF StreamIsTrue
<1>8. \A i \in OfKind(e, "drops") : e[i].v <= n2
  BY <1>2, <1>3, <1>4 DEF StreamIsTrue
<1>9. QED
  BY <1>5, <1>6, <1>7, <1>8 DEF StreamIsTrue, e

LEMMA WholeGrows ==
  ASSUME NEW d \in Seq(LogRecords), NEW r \in LogRecords, NEW c, NEW n, StreamIsWhole(d, c, n),
         NEW c2, NEW n2, Range(c2) = Range(c) \cup (IF r.k = "event" THEN {r.v} ELSE {}),
         n2 = (IF r.k = "drops" THEN r.v ELSE n), r.k # "torn"
  PROVE  StreamIsWhole(Append(d, r), c2, n2)
<1> DEFINE e == Append(d, r)
<1>1. /\ e \in Seq(LogRecords) /\ \A i \in 1 .. Len(d) : e[i] = d[i]
      /\ e[Len(d) + 1] = r /\ Len(d) \in Nat
  BY KindsOfAppend
<1>2. \A kind : OfKind(e, kind) = OfKind(d, kind) \cup (IF r.k = kind THEN {Len(d) + 1} ELSE {})
  BY KindsOfAppend
<1>3. \A kind : \A i \in OfKind(d, kind) : i \in 1 .. Len(d) /\ e[i] = d[i]
  BY <1>1, KindsOfAppend
<1> HIDE DEF e
<1>4. OfKind(e, "torn") = {}
  BY <1>2 DEF StreamIsWhole
<1>5. \A x \in Range(c2) : \E i \in OfKind(e, "event") : e[i].v = x
  <2> TAKE x \in Range(c2)
  <2>1. CASE x \in Range(c)
    <3>1. PICK i \in OfKind(d, "event") : d[i].v = x
      BY <2>1 DEF StreamIsWhole
    <3>2. QED
      BY <1>2, <1>3, <3>1
  <2>2. CASE x \notin Range(c)
    BY <1>1, <1>2, <2>2
  <2>3. QED
    BY <2>1, <2>2
<1>6. ASSUME NEW i \in OfKind(e, "drops"), \A j \in OfKind(e, "drops") : j <= i PROVE e[i].v = n2
  <2>1. CASE r.k = "drops"
    <3>1. Len(d) + 1 \in OfKind(e, "drops") /\ Len(d) + 1 <= i
      BY <1>2, <1>6, <2>1
    <3>2. i = Len(d) + 1
      BY <1>1, <1>2, <1>3, <3>1
    <3>3. QED
      BY <1>1, <2>1, <3>2
  <2>2. CASE r.k # "drops"
    BY <1>2, <1>3, <1>6, <2>2 DEF StreamIsWhole
  <2>3. QED
    BY <2>1, <2>2
<1>7. QED
  BY <1>4, <1>5, <1>6 DEF StreamIsWhole, e

-----------------------------------------------------------------------------
(* Reading.                                                                 *)

LEMMA LastIsMax ==
  ASSUME NEW n \in Nat, NEW S \in SUBSET (1 .. n), S # {}
  PROVE  Max(S) \in S /\ \A y \in S : y <= Max(S)
<1> DEFINE T == {n - y : y \in S}
<1>0. \A y \in S : n - y \in Nat
  OBVIOUS
<1>1. T \in SUBSET Nat /\ T # {}
  BY <1>0
<1>2. PICK least \in T : \A y \in T : least <= y
  BY <1>1, LeastNatural
<1>3. n - least \in S /\ \A y \in S : n - least >= y
  BY <1>2
<1>4. \E x \in S : \A y \in S : x >= y
  BY <1>3
<1>5. QED
  BY <1>4 DEF Max

\* What a reader finds in the true stream d is true.
LEMMA ReadsTrue ==
  ASSUME NEW d \in Seq(LogRecords), NEW c, NEW n \in Nat, NEW k \in Nat, StreamIsTrue(d, c, n, k)
  PROVE  /\ \A i, j \in Found(d, "event") : i < j => d[i].v < d[j].v
         /\ Events(d) \subseteq Range(c)
         /\ Drops(d) <= n /\ Drops(d) \in Nat \cup {-1}
         /\ StormTotal(d) <= k
<1>1. \A kind : Found(d, kind) \in SUBSET OfKind(d, kind)
  BY DEF Found, for_each, OfKind
<1>2. \A i, j \in Found(d, "event") : i < j => d[i].v < d[j].v
  BY <1>1 DEF StreamIsTrue
<1>3. Events(d) \subseteq Range(c)
  BY <1>1 DEF Events, StreamIsTrue
<1>4. Drops(d) <= n /\ Drops(d) \in Nat \cup {-1}
  <2>1. CASE Found(d, "drops") = {}
    BY <2>1 DEF Drops
  <2>2. CASE Found(d, "drops") # {}
    <3>1. Found(d, "drops") \in SUBSET (1 .. Len(d)) /\ Len(d) \in Nat
      BY <1>1, KindsAreFinite, LenProperties
    <3>2. Max(Found(d, "drops")) \in Found(d, "drops")
      BY <2>2, <3>1, LastIsMax
    <3>3. d[Max(Found(d, "drops"))].v <= n /\ d[Max(Found(d, "drops"))] \in LogRecords
      BY <1>1, <3>2, KindsAreFinite DEF StreamIsTrue
    <3>4. QED
      BY <2>2, <3>3 DEF Drops, LogRecords
  <2>3. QED
    BY <2>1, <2>2
<1>5. StormTotal(d) <= k
  <2> DEFINE f == [i \in DOMAIN d |-> d[i].v]
  <2>1. /\ IsFiniteSet(OfKind(d, "storm")) /\ IsFiniteSet(Found(d, "storm"))
        /\ \A i \in OfKind(d, "storm") : f[i] \in Nat
    BY <1>1, KindsAreFinite, FS_Subset
  <2> HIDE DEF f
  <2>2. SumFunctionOnSet(f, Found(d, "storm")) <= SumFunctionOnSet(f, OfKind(d, "storm"))
    BY <1>1, <2>1, SumOfPart
  <2>3. SumFunctionOnSet(f, Found(d, "storm")) \in Nat /\ SumFunctionOnSet(f, OfKind(d, "storm")) \in Nat
    BY <1>1, <2>1, SumIsNat
  <2>4. QED
    BY <2>2, <2>3 DEF StormTotal, Kicks, StreamIsTrue, f
<1>6. QED
  BY <1>2, <1>3, <1>4, <1>5

\* A reader of a cut of a whole stream misses no event before one it finds.
LEMMA ReadsWhole ==
  ASSUME NEW P \in Seq(LogRecords), NEW D \in Seq(LogRecords), NEW m \in Nat, Cuts(P, D, m),
         NEW c \in Seq(Nat), NEW n \in Nat, NEW k \in Nat, StreamIsTrue(D, c, n, k),
         NEW l \in Nat, StreamIsWhole(D, c, l), \A i, j \in DOMAIN c : i < j => c[i] < c[j],
         NEW i \in DOMAIN c, NEW j \in DOMAIN c, i < j, c[j] \in Events(P)
  PROVE  c[i] \in Events(P)
<1>1. c[i] < c[j] /\ c[i] \in Nat /\ c[j] \in Nat /\ c[i] \in Range(c)
  BY ElementOfSeq, LenProperties DEF Range
<1>2. PICK y \in Found(P, "event") : P[y].v = c[j]
  BY DEF Events
<1>3. y \in OfKind(P, "event") /\ Len(P) \in Nat /\ y \in 1 .. Len(P) /\ \A z \in 1 .. y : P[z].k # "torn"
  BY <1>2, LenProperties DEF Found, for_each, OfKind
<1>9. \A kind \in {"event"} :
        /\ \A z \in OfKind(P, kind) : z <= m /\ z \in OfKind(D, kind) /\ P[z] = D[z]
        /\ \A z \in OfKind(D, kind) : z <= m => z \in OfKind(P, kind) /\ P[z] = D[z]
  BY CutKinds
<1>4. y \in OfKind(D, "event") /\ y <= m /\ D[y].v = c[j]
  BY <1>2, <1>3, <1>9
<1>5. PICK x \in OfKind(D, "event") : D[x].v = c[i]
  BY <1>1 DEF StreamIsWhole
<1>6. x \in 1 .. Len(D) /\ Len(D) \in Nat
  BY KindsAreFinite, LenProperties
<1>7. x < y
  <2>1. ~(y < x)
    BY <1>1, <1>4, <1>5 DEF StreamIsTrue
  <2>2. x # y
    BY <1>1, <1>4, <1>5
  <2>3. QED
    BY <1>3, <1>6, <2>1, <2>2
<1>8. x <= m /\ \A z \in 1 .. x : z \in 1 .. y
  BY <1>3, <1>4, <1>6, <1>7
<1>10. x \in OfKind(P, "event") /\ P[x].v = c[i]
  BY <1>5, <1>8, <1>9
<1>11. QED
  BY <1>3, <1>8, <1>10 DEF Events, Found, for_each, OfKind

-----------------------------------------------------------------------------
(* The steps.                                                               *)

LEMMA RecIsRecord ==
  ASSUME NEW k \in {"event", "drops", "storm", "torn"}, NEW v \in Nat, NEW w \in Nat
  PROVE  Rec(k, v, w) \in LogRecords /\ Rec(k, v, w).k = k /\ Rec(k, v, w).v = v /\ Rec(k, v, w).w = w
BY DEF Rec, LogRecords

LEMMA PartCuts ==
  ASSUME NEW f \in Seq(LogRecords), NEW b \in Seq(LogRecords), NEW n \in 0 .. Len(b),
         NEW t \in Seq(LogRecords), \A i \in 1 .. Len(t) : t[i].k = "torn"
  PROVE  /\ f \o SubSeq(b, 1, n) \o t \in Seq(LogRecords) /\ Cuts(f \o SubSeq(b, 1, n) \o t, f \o b, Len(f) + n)
         /\ n = Len(b) /\ Len(t) = 0 => f \o SubSeq(b, 1, n) \o t = f \o b
<1> DEFINE s == SubSeq(b, 1, n)
           g == f \o s
           D == f \o b
           F == g \o t
<1>1. Len(f) \in Nat /\ Len(b) \in Nat /\ n \in Nat /\ n <= Len(b) /\ Len(t) \in Nat
  BY LenProperties
<1>3. s \in Seq(LogRecords) /\ Len(s) = n /\ \A i \in 1 .. n : s[i] = b[i]
  <2>1. \A i \in 1 .. n : b[i] \in LogRecords
    BY <1>1, ElementOfSeq
  <2>2. QED
    BY <1>1, <2>1, SubSeqProperties
<1>4. /\ D \in Seq(LogRecords) /\ Len(D) = Len(f) + Len(b)
      /\ \A i \in 1 .. Len(f) + Len(b) : D[i] = IF i <= Len(f) THEN f[i] ELSE b[i - Len(f)]
  BY ConcatProperties
<1> HIDE DEF s, D
<1>5. /\ g \in Seq(LogRecords) /\ Len(g) = Len(f) + n
      /\ \A i \in 1 .. Len(f) + n : g[i] = IF i <= Len(f) THEN f[i] ELSE s[i - Len(f)]
  BY <1>3, ConcatProperties
<1> HIDE DEF g
<1>6. /\ F \in Seq(LogRecords) /\ Len(F) = Len(g) + Len(t)
      /\ \A i \in 1 .. Len(g) + Len(t) : F[i] = IF i <= Len(g) THEN g[i] ELSE t[i - Len(g)]
  BY <1>5, ConcatProperties
<1> HIDE DEF F
<1> DEFINE m == Len(f) + n
<1>7. m \in Nat /\ Len(F) = m + Len(t) /\ m <= Len(D) /\ m <= Len(F)
  BY <1>1, <1>4, <1>5, <1>6
<1>8. \A i \in 1 .. m : g[i] = D[i]
  <2> TAKE i \in 1 .. m
  <2>1. CASE i <= Len(f)
    BY <1>1, <1>4, <1>5, <2>1
  <2>2. CASE i > Len(f)
    <3>1. i - Len(f) \in 1 .. n /\ i \in 1 .. Len(f) + Len(b)
      BY <1>1, <2>2
    <3>2. s[i - Len(f)] = b[i - Len(f)]
      BY <1>3, <3>1
    <3>3. QED
      BY <1>1, <1>4, <1>5, <2>2, <3>1, <3>2
  <2>3. QED
    BY <1>1, <2>1, <2>2
<1>9. \A i \in 1 .. m + Len(t) : F[i] = IF i <= m THEN g[i] ELSE t[i - m]
  BY <1>5, <1>6
<1> HIDE DEF m
<1>10. \A i \in 1 .. m : F[i] = D[i]
  BY <1>1, <1>7, <1>8, <1>9
<1>11. ASSUME NEW i \in DOMAIN F, i > m PROVE F[i].k = "torn"
  <2>1. i \in 1 .. m + Len(t)
    BY <1>6, <1>7, LenProperties
  <2>2. F[i] = t[i - m] /\ i - m \in 1 .. Len(t)
    BY <1>1, <1>7, <1>9, <1>11, <2>1
  <2>3. QED
    BY <2>2
<1>12. Cuts(F, D, m)
  BY <1>7, <1>10, <1>11 DEF Cuts
<1>13. ASSUME n = Len(b), Len(t) = 0 PROVE F = D
  <2>1. Len(F) = m /\ Len(D) = m
    BY <1>1, <1>4, <1>7, <1>13 DEF m
  <2>2. QED
    BY <1>4, <1>6, <1>10, <2>1, SeqEqual
<1>14. QED
  BY <1>6, <1>12, <1>13 DEF m, D, F, g, s

\* What a write that fails after n records of b leaves is a cut of all of them.
LEMMA WriteCuts ==
  ASSUME NEW f \in Seq(LogRecords), NEW b \in Seq(LogRecords), NEW n \in 0 .. Len(b), NEW torn \in BOOLEAN,
         NEW F, F = f \o SubSeq(b, 1, n) \o (IF torn THEN <<Rec("torn", 0, 0)>> ELSE <<>>)
  PROVE  /\ F \in Seq(LogRecords) /\ f \o b \in Seq(LogRecords)
         /\ Len(f) + n \in Nat /\ Cuts(F, f \o b, Len(f) + n)
         /\ n = Len(b) /\ ~torn => F = f \o b
<1> DEFINE t == IF torn THEN <<Rec("torn", 0, 0)>> ELSE <<>>
<1>1. t \in Seq(LogRecords) /\ (\A i \in 1 .. Len(t) : t[i].k = "torn") /\ (~torn => Len(t) = 0)
  BY RecIsRecord
<1>2. F = f \o SubSeq(b, 1, n) \o t
  OBVIOUS
<1> HIDE DEF t
<1>3. /\ f \o SubSeq(b, 1, n) \o t \in Seq(LogRecords)
      /\ Cuts(f \o SubSeq(b, 1, n) \o t, f \o b, Len(f) + n)
      /\ n = Len(b) /\ Len(t) = 0 => f \o SubSeq(b, 1, n) \o t = f \o b
  BY <1>1, PartCuts
<1>4. f \o b \in Seq(LogRecords) /\ Len(f) \in Nat /\ Len(b) \in Nat /\ Len(f) + n \in Nat
  BY ConcatProperties, LenProperties
<1>5. QED
  BY <1>1, <1>2, <1>3, <1>4

\* A write keeps what is true of the stream; one that does not fail writes it all.
LEMMA WriteKeeps ==
  ASSUME LogTypeOK, NEW b \in Seq(LogRecords), NEW n, NEW torn \in BOOLEAN, Write(b, n, torn),
         NEW c, NEW l, NEW nd \in Nat, NEW k \in Nat,
         StreamIsTrue(logFile \o b, c, nd, k), werr = 0 => StreamIsWhole(logFile \o b, c, l)
  PROVE  /\ logFile' \in Seq(LogRecords) /\ buf' = <<>> /\ werr' \in Nat
         /\ StreamIsTrue(Stream', c, nd, k)
         /\ werr' = 0 => werr = 0 /\ Stream' = logFile \o b /\ StreamIsWhole(Stream', c, l)
<1>1. /\ n \in 0 .. Len(b) /\ buf' = <<>> /\ (torn => n < Len(b))
      /\ logFile' = logFile \o SubSeq(b, 1, n) \o (IF torn THEN <<Rec("torn", 0, 0)>> ELSE <<>>)
      /\ werr' = IF n < Len(b) THEN werr + 1 ELSE werr
  BY DEF Write
<1>2. /\ logFile' \in Seq(LogRecords) /\ logFile \o b \in Seq(LogRecords)
      /\ Len(logFile) + n \in Nat /\ Cuts(logFile', logFile \o b, Len(logFile) + n)
      /\ n = Len(b) /\ ~torn => logFile' = logFile \o b
  BY <1>1, WriteCuts DEF LogTypeOK
<1>3. Stream' = logFile'
  BY <1>1, <1>2, ConcatEmptySeq DEF Stream
<1>4. StreamIsTrue(Stream', c, nd, k)
  BY <1>2, <1>3, CutIsTrue
<1>5. Len(b) \in Nat /\ werr \in Nat
  BY LenProperties DEF LogTypeOK
<1>6. werr' = 0 => werr = 0 /\ n = Len(b) /\ ~torn
  BY <1>1, <1>5
<1>7. werr' \in Nat
  BY <1>1, <1>5
<1>8. QED
  BY <1>1, <1>2, <1>3, <1>4, <1>6, <1>7

LEMMA TotalsAreNumbers ==
  ASSUME NEW d \in Seq(LogRecords)
  PROVE  Drops(d) \in Nat \cup {-1} /\ StormTotal(d) \in Nat
<1>1. \A kind : Found(d, kind) \in SUBSET OfKind(d, kind)
  BY DEF Found, for_each, OfKind
<1>2. ASSUME Found(d, "drops") # {} PROVE Drops(d) \in Nat
  <2>1. Found(d, "drops") \in SUBSET (1 .. Len(d)) /\ Len(d) \in Nat
    BY <1>1, KindsAreFinite, LenProperties
  <2>2. Max(Found(d, "drops")) \in Found(d, "drops")
    BY <1>2, <2>1, LastIsMax
  <2>3. d[Max(Found(d, "drops"))] \in LogRecords
    BY <1>1, <2>2, KindsAreFinite
  <2>4. QED
    BY <1>2, <2>3 DEF Drops, LogRecords
<1>3. StormTotal(d) \in Nat
  <2>1. /\ IsFiniteSet(OfKind(d, "storm"))
        /\ \A i \in OfKind(d, "storm") : [x \in DOMAIN d |-> d[x].v][i] \in Nat
    BY KindsAreFinite
  <2>2. QED
    BY <1>1, <2>1, FS_Subset, SumIsNat DEF StormTotal
<1>4. QED
  BY <1>2, <1>3 DEF Drops

\* What a reader finds now, when the process has not been killed.
LEMMA PrefixReads ==
  ASSUME LogTypeOK, EventsInOrder, NEW d \in Seq(LogRecords), NEW D \in Seq(LogRecords), NEW m \in Nat,
         Cuts(d, D, m), StreamIsTrue(D, consumed, dropped, Sampled),
         werr = 0 => StreamIsWhole(D, consumed, lastDrops.n), lastKicks <= kicked
  PROVE  /\ \A i, j \in Found(d, "event") : i < j => d[i].v < d[j].v
         /\ Events(d) \subseteq Range(consumed)
         /\ werr = 0 => \A i, j \in DOMAIN consumed :
                          i < j /\ consumed[j] \in Events(d) => consumed[i] \in Events(d)
         /\ Drops(d) <= dropped
         /\ StormTotal(d) <= kicked
<1>1. Sampled \in Nat /\ Sampled <= kicked /\ dropped \in Nat /\ kicked \in Nat /\ consumed \in Seq(Nat)
      /\ lastDrops.n \in Nat
  BY DEF Sampled, LogTypeOK
<1>2. StreamIsTrue(d, consumed, dropped, Sampled)
  BY <1>1, CutIsTrue
<1>3. /\ \A i, j \in Found(d, "event") : i < j => d[i].v < d[j].v
      /\ Events(d) \subseteq Range(consumed)
      /\ Drops(d) <= dropped
      /\ StormTotal(d) <= Sampled
  BY <1>1, <1>2, ReadsTrue
<1>4. StormTotal(d) \in Nat
  BY TotalsAreNumbers
<1>5. ASSUME werr = 0, NEW i \in DOMAIN consumed, NEW j \in DOMAIN consumed, i < j, consumed[j] \in Events(d)
      PROVE  consumed[i] \in Events(d)
  <2>1. StreamIsWhole(D, consumed, lastDrops.n)
    BY <1>5
  <2>2. \A x, y \in DOMAIN consumed : x < y => consumed[x] < consumed[y]
    BY DEF EventsInOrder
  <2>3. QED
    BY <1>1, <1>5, <2>1, <2>2, ReadsWhole
<1>6. QED
  BY <1>1, <1>3, <1>4, <1>5

LEMMA LogReadsTrue == LogInv => PrefixIsTrue
<1> SUFFICES ASSUME LogInv, at # "killed" PROVE PrefixIsTrue
  BY DEF LogInv
<1>1. logFile \in Seq(LogRecords) /\ buf \in Seq(LogRecords) /\ LogTypeOK
  BY DEF LogInv, LogTypeOK
<1>2. Stream \in Seq(LogRecords) /\ Len(logFile) \in Nat /\ Cuts(logFile, Stream, Len(logFile))
  <2>1. /\ Stream \in Seq(LogRecords) /\ Len(Stream) = Len(logFile) + Len(buf)
        /\ \A i \in 1 .. Len(logFile) + Len(buf) : Stream[i] = IF i <= Len(logFile) THEN logFile[i] ELSE buf[i - Len(logFile)]
    BY <1>1, ConcatProperties DEF Stream
  <2>2. Len(logFile) \in Nat /\ Len(buf) \in Nat /\ DOMAIN logFile = 1 .. Len(logFile)
    BY <1>1, LenProperties
  <2>3. QED
    BY <2>1, <2>2 DEF Cuts
<1>3. QED
  BY <1>1, <1>2, PrefixReads DEF LogInv, PrefixIsTrue
-----------------------------------------------------------------------------
(* The steps.                                                               *)

LEMMA AppendRange ==
  ASSUME NEW S, NEW s \in Seq(S), NEW e \in S
  PROVE  Range(Append(s, e)) = Range(s) \cup {e}
<1>1. /\ Len(s) \in Nat /\ DOMAIN s = 1 .. Len(s) /\ DOMAIN Append(s, e) = 1 .. Len(s) + 1
      /\ \A i \in 1 .. Len(s) : Append(s, e)[i] = s[i]
      /\ Append(s, e)[Len(s) + 1] = e
  BY LenProperties, AppendProperties
<1>2. QED
  BY <1>1 DEF Range

\* What is true of a stream stays true as the counters grow.
LEMMA TrueStays ==
  ASSUME NEW d \in Seq(LogRecords), NEW c, NEW n \in Nat, NEW k \in Nat, StreamIsTrue(d, c, n, k),
         NEW n2 \in Nat, NEW k2 \in Nat, n <= n2, k <= k2
  PROVE  StreamIsTrue(d, c, n2, k2)
<1>1. Kicks(d) \in Nat /\ \A i \in OfKind(d, "drops") : d[i].v \in Nat
  BY KindsAreFinite DEF LogRecords
<1>2. QED
  BY <1>1 DEF StreamIsTrue

\* A step that leaves the records and what was consumed alone.
LEMMA RecordsStay ==
  ASSUME LogInv, UNCHANGED <<buf, logFile, werr, lastDrops, lastKicks, consumed>>, LogTypeOK', EventsInOrder',
         dropped' >= dropped, kicked' >= kicked, at' = at
  PROVE  LogInv'
<1>1. lastKicks' <= kicked'
  BY DEF LogInv, LogTypeOK
<1>2. Stream' = Stream /\ Sampled' = Sampled
  BY DEF Stream, Sampled
<1>3. CASE at = "killed"
  <2>1. PrefixIsTrue
    BY <1>3 DEF LogInv
  <2>2. Drops(logFile) \in Nat \cup {-1} /\ StormTotal(logFile) \in Nat
    BY TotalsAreNumbers DEF LogInv, LogTypeOK
  <2>3. Drops(logFile) <= dropped'
    BY <2>1, <2>2 DEF PrefixIsTrue, LogInv, LogTypeOK
  <2>4. StormTotal(logFile) <= kicked'
    BY <2>1, <2>2 DEF PrefixIsTrue, LogInv, LogTypeOK
  <2>5. PrefixIsTrue'
    BY <2>1, <2>3, <2>4 DEF PrefixIsTrue
  <2>6. QED
    BY <1>1, <1>3, <2>5 DEF LogInv
<1>4. CASE at # "killed"
  <2>1. /\ Stream \in Seq(LogRecords) /\ Sampled \in Nat
        /\ dropped \in Nat /\ dropped' \in Nat
    BY ConcatProperties DEF Stream, Sampled, LogInv, LogTypeOK
  <2>2. StreamIsTrue(Stream, consumed, dropped', Sampled)
    BY <1>4, <2>1, TrueStays DEF LogInv
  <2>3. QED
    BY <1>1, <1>2, <1>4, <2>2 DEF LogInv
<1>5. QED
  BY <1>3, <1>4
\* Events are made in order ...
LEMMA ReserveKeeps == LogInv /\ rb_reserve => LogInv'
<1> SUFFICES ASSUME LogInv, rb_reserve PROVE LogInv'
  OBVIOUS
<1>1. LogTypeOK /\ EventsInOrder
  BY DEF LogInv
<1>2. made \in Nat /\ dropped \in Nat /\ ring \in Seq(Nat) /\ consumed \in Seq(Nat)
  BY <1>1 DEF LogTypeOK
<1>3. Len(ring) \in Nat /\ Len(consumed) \in Nat /\ DOMAIN ring = 1 .. Len(ring)
  BY <1>2, LenProperties
<1>4. made' = made + 1 /\ UNCHANGED <<kicked, at, nap, stopping, buf, logFile, werr, lastDrops, lastKicks, consumed>>
  BY DEF rb_reserve
<1>5. CASE ring' = Append(ring, made + 1) /\ dropped' = dropped
  <2>1. /\ ring' \in Seq(Nat) /\ Len(ring') = Len(ring) + 1
        /\ \A i \in 1 .. Len(ring) : ring'[i] = ring[i]
        /\ ring'[Len(ring) + 1] = made + 1
    BY <1>2, <1>3, <1>5, AppendProperties
  <2>2. DOMAIN ring' = 1 .. Len(ring) + 1
    BY <2>1, LenProperties
  <2>3. \A i \in DOMAIN ring' : \/ i \in DOMAIN ring /\ ring'[i] = ring[i]
                                \/ i = Len(ring) + 1 /\ ring'[i] = made + 1
    BY <1>3, <2>1, <2>2
  <2>4. /\ \A i \in DOMAIN ring : ring[i] \in Nat /\ ring[i] <= made
        /\ \A i \in DOMAIN consumed : consumed[i] \in Nat /\ consumed[i] <= made
    BY <1>1, <1>2, ElementOfSeq, LenProperties DEF EventsInOrder
  <2>5. \A i, j \in DOMAIN ring' : i < j => ring'[i] < ring'[j]
    BY <1>1, <1>2, <1>3, <2>3, <2>4 DEF EventsInOrder
  <2>6. \A i \in DOMAIN consumed, j \in DOMAIN ring' : consumed[i] < ring'[j]
    BY <1>1, <1>2, <2>3, <2>4 DEF EventsInOrder
  <2>7. /\ \A i \in DOMAIN consumed : consumed[i] <= made'
        /\ \A j \in DOMAIN ring' : ring'[j] <= made'
    BY <1>2, <1>4, <2>3, <2>4
  <2>8. Len(consumed) + Len(ring') + dropped' = made'
    BY <1>1, <1>2, <1>3, <1>4, <1>5, <2>1 DEF EventsInOrder
  <2>9. EventsInOrder'
    BY <1>1, <1>4, <2>5, <2>6, <2>7, <2>8 DEF EventsInOrder
  <2>10. LogTypeOK'
    BY <1>1, <1>4, <1>5, <2>1 DEF LogTypeOK
  <2>11. dropped' >= dropped /\ kicked' >= kicked
    BY <1>1, <1>4, <1>5 DEF LogTypeOK
  <2>12. QED
    BY <1>4, <2>9, <2>10, <2>11, RecordsStay
<1>6. CASE ring' = ring /\ dropped' = dropped + 1
  <2>1. \A i \in DOMAIN ring : ring[i] \in Nat /\ ring[i] <= made
    BY <1>1, <1>2, ElementOfSeq, LenProperties DEF EventsInOrder
  <2>2. \A i \in DOMAIN consumed : consumed[i] \in Nat /\ consumed[i] <= made
    BY <1>1, <1>2, ElementOfSeq, LenProperties DEF EventsInOrder
  <2>3. /\ \A i \in DOMAIN consumed : consumed[i] <= made'
        /\ \A j \in DOMAIN ring : ring[j] <= made'
    BY <1>2, <1>4, <2>1, <2>2
  <2>4. Len(consumed) + Len(ring') + dropped' = made'
    <3>1. Len(consumed) + Len(ring) + dropped = made
      BY <1>1 DEF EventsInOrder
    <3>2. QED
      BY <1>2, <1>3, <1>4, <1>6, <3>1
  <2>5. EventsInOrder'
    BY <1>1, <1>4, <1>6, <2>3, <2>4 DEF EventsInOrder
  <2>6. LogTypeOK'
    BY <1>1, <1>4, <1>6 DEF LogTypeOK
  <2>7. dropped' >= dropped /\ kicked' >= kicked
    BY <1>1, <1>4, <1>6 DEF LogTypeOK
  <2>8. QED
    BY <1>4, <2>5, <2>6, <2>7, RecordsStay
<1>7. QED
  BY <1>5, <1>6 DEF rb_reserve

LEMMA KickKeeps == LogInv /\ (Kick \/ StopLoop) => LogInv'
<1> SUFFICES ASSUME LogInv, Kick \/ StopLoop PROVE LogInv'
  OBVIOUS
<1>1. UNCHANGED <<made, ring, dropped, at, nap, buf, logFile, werr, lastDrops, lastKicks, consumed>>
  BY DEF Kick, StopLoop
<1>2. kicked' \in Nat /\ kicked' >= kicked /\ stopping' \in BOOLEAN
  <2>1. kicked \in Nat /\ stopping \in BOOLEAN
    BY DEF LogInv, LogTypeOK
  <2>2. CASE Kick
    BY <2>1, <2>2 DEF Kick
  <2>3. CASE StopLoop
    BY <2>1, <2>3 DEF StopLoop
  <2>4. QED
    BY <2>2, <2>3
<1>3. LogTypeOK'
  BY <1>1, <1>2 DEF LogInv, LogTypeOK
<1>4. EventsInOrder'
  BY <1>1 DEF LogInv, EventsInOrder
<1>5. dropped' >= dropped
  BY <1>1 DEF LogInv, LogTypeOK
<1>6. QED
  BY <1>1, <1>2, <1>3, <1>4, <1>5, RecordsStay

\* A step that only changes where the loop is.
LEMMA MovesKeep == LogInv /\ (Drained \/ Nap) => LogInv'
<1> SUFFICES ASSUME LogInv, Drained \/ Nap PROVE LogInv'
  OBVIOUS
<1>1. UNCHANGED <<made, ring, dropped, kicked, stopping, buf, logFile, werr, lastDrops, lastKicks, consumed>>
  BY DEF Drained, Nap
<1>2. at \in {"poll", "consume", "nap"} /\ at' \in {"flush", "napflush", "final", "poll", "consume"} /\ nap' \in Nat
  BY DEF Drained, Nap, LogInv, LogTypeOK
<1>3. LogTypeOK'
  BY <1>1, <1>2 DEF LogInv, LogTypeOK, LogStages
<1>4. EventsInOrder' /\ lastKicks' <= kicked'
  BY <1>1 DEF LogInv, EventsInOrder
<1>5. Stream' = Stream /\ Sampled' = Sampled
  BY <1>1 DEF Stream, Sampled
<1>6. /\ StreamIsTrue(Stream', consumed', dropped', Sampled')
      /\ werr' = 0 => StreamIsWhole(Stream', consumed', lastDrops'.n)
  BY <1>1, <1>2, <1>5 DEF LogInv
<1>7. QED
  BY <1>2, <1>3, <1>4, <1>6 DEF LogInv

LEMMA KillKeeps ==
  ASSUME LogInv, NEW n \in 0 .. FlushAt + 2, NEW torn \in BOOLEAN, Kill(n, torn)
  PROVE  LogInv'
<1>1. /\ at # "killed" /\ at' = "killed" /\ n \in 0 .. Len(buf)
      /\ logFile' = logFile \o SubSeq(buf, 1, n) \o (IF torn THEN <<Rec("torn", 0, 0)>> ELSE <<>>)
      /\ UNCHANGED <<made, ring, dropped, kicked, nap, stopping, buf, werr, lastDrops, lastKicks, consumed>>
  BY DEF Kill
<1>2. LogTypeOK /\ EventsInOrder /\ logFile \in Seq(LogRecords) /\ buf \in Seq(LogRecords) /\ lastKicks <= kicked
  BY DEF LogInv, LogTypeOK
<1>3. /\ logFile' \in Seq(LogRecords) /\ Stream \in Seq(LogRecords)
      /\ Len(logFile) + n \in Nat /\ Cuts(logFile', Stream, Len(logFile) + n)
  BY <1>1, <1>2, WriteCuts DEF Stream
<1>4. /\ StreamIsTrue(Stream, consumed, dropped, Sampled)
      /\ werr = 0 => StreamIsWhole(Stream, consumed, lastDrops.n)
  BY <1>1 DEF LogInv
<1>5. /\ \A i, j \in Found(logFile', "event") : i < j => logFile'[i].v < logFile'[j].v
      /\ Events(logFile') \subseteq Range(consumed)
      /\ werr = 0 => \A i, j \in DOMAIN consumed :
                       i < j /\ consumed[j] \in Events(logFile') => consumed[i] \in Events(logFile')
      /\ Drops(logFile') <= dropped
      /\ StormTotal(logFile') <= kicked
  BY <1>2, <1>3, <1>4, PrefixReads
<1>6. PrefixIsTrue'
  BY <1>1, <1>5 DEF PrefixIsTrue
<1>7. LogTypeOK'
  BY <1>1, <1>2, <1>3 DEF LogTypeOK, LogStages
<1>8. EventsInOrder' /\ lastKicks' <= kicked'
  BY <1>1, <1>2 DEF EventsInOrder
<1>9. QED
  BY <1>1, <1>6, <1>7, <1>8 DEF LogInv
\* ... and consumed in that order, the rest staying in the ring.
LEMMA ConsumeKeepsOrder ==
  ASSUME LogTypeOK, EventsInOrder, ring # <<>>, ring' = Tail(ring), consumed' = Append(consumed, Head(ring)),
         UNCHANGED <<made, dropped>>
  PROVE  /\ EventsInOrder' /\ ring' \in Seq(Nat) /\ consumed' \in Seq(Nat) /\ Head(ring) \in Nat
         /\ Range(consumed') = Range(consumed) \cup {Head(ring)} /\ Range(consumed) \subseteq Nat
         /\ \A x \in Range(consumed) : x < Head(ring)
<1> DEFINE e == Head(ring)
<1>1. ring \in Seq(Nat) /\ consumed \in Seq(Nat) /\ made \in Nat /\ dropped \in Nat
  BY DEF LogTypeOK
<1>2. Len(ring) \in Nat \ {0} /\ Len(consumed) \in Nat /\ DOMAIN ring = 1 .. Len(ring)
      /\ DOMAIN consumed = 1 .. Len(consumed)
  BY <1>1, EmptySeq, LenProperties
<1>3. e = ring[1] /\ e \in Nat /\ 1 \in DOMAIN ring
  BY <1>1, <1>2, ElementOfSeq
<1>4. ring' \in Seq(Nat) /\ Len(ring') = Len(ring) - 1 /\ \A i \in 1 .. Len(ring) - 1 : ring'[i] = ring[i + 1]
  BY <1>1, HeadTailProperties
<1>5. DOMAIN ring' = 1 .. Len(ring) - 1
  BY <1>4, LenProperties
<1>6. \A j \in DOMAIN ring' : ring'[j] = ring[j + 1] /\ j + 1 \in DOMAIN ring /\ j \in Nat /\ 1 < j + 1
  BY <1>2, <1>4, <1>5
<1> HIDE DEF e
<1>7. consumed' = Append(consumed, e)
  BY DEF e
<1>8. /\ consumed' \in Seq(Nat) /\ Len(consumed') = Len(consumed) + 1
      /\ \A i \in 1 .. Len(consumed) : consumed'[i] = consumed[i]
      /\ consumed'[Len(consumed) + 1] = e
  BY <1>1, <1>3, <1>7, AppendProperties
<1>9. DOMAIN consumed' = 1 .. Len(consumed) + 1
  BY <1>8, LenProperties
<1>10. \A i \in DOMAIN consumed' : (i \in DOMAIN consumed /\ consumed'[i] = consumed[i])
                                 \/ (i = Len(consumed) + 1 /\ consumed'[i] = e)
  BY <1>2, <1>8, <1>9
<1>11. /\ \A i, j \in DOMAIN consumed : i < j => consumed[i] < consumed[j]
       /\ \A i, j \in DOMAIN ring : i < j => ring[i] < ring[j]
       /\ \A i \in DOMAIN consumed, j \in DOMAIN ring : consumed[i] < ring[j]
       /\ \A i \in DOMAIN consumed : consumed[i] <= made
       /\ \A j \in DOMAIN ring : ring[j] <= made
       /\ Len(consumed) + Len(ring) + dropped = made
  BY DEF EventsInOrder
<1>12. \A i, j \in DOMAIN ring' : i < j => ring'[i] < ring'[j]
  BY <1>6, <1>11
<1>13. \A i, j \in DOMAIN consumed' : i < j => consumed'[i] < consumed'[j]
  BY <1>2, <1>3, <1>9, <1>10, <1>11
<1>14. \A i \in DOMAIN consumed', j \in DOMAIN ring' : consumed'[i] < ring'[j]
  BY <1>3, <1>6, <1>10, <1>11
<1>15. /\ \A i \in DOMAIN consumed' : consumed'[i] <= made'
       /\ \A j \in DOMAIN ring' : ring'[j] <= made'
  BY <1>3, <1>6, <1>10, <1>11
<1>16. Len(consumed') + Len(ring') + dropped' = made'
  <2>1. /\ Len(consumed') = Len(consumed) + 1 /\ Len(ring') = Len(ring) - 1
        /\ dropped' = dropped /\ made' = made /\ Len(consumed) + Len(ring) + dropped = made
        /\ Len(consumed) \in Nat /\ Len(ring) \in Nat /\ dropped \in Nat
    BY <1>1, <1>2, <1>4, <1>8, <1>11
  <2>2. QED
    BY <2>1
<1>17. EventsInOrder'
  BY <1>12, <1>13, <1>14, <1>15, <1>16 DEF EventsInOrder
<1>18. Range(consumed') = Range(consumed) \cup {e}
  BY <1>1, <1>3, <1>7, AppendRange
<1>19. \A x \in Range(consumed) : x < e /\ x \in Nat
  <2>1. \A i \in DOMAIN consumed : consumed[i] \in Nat /\ consumed[i] < ring[1]
    BY <1>1, <1>2, <1>3, <1>11, ElementOfSeq
  <2>2. QED
    BY <1>3, <2>1 DEF Range
<1>20. QED
  BY <1>3, <1>4, <1>8, <1>17, <1>18, <1>19 DEF e

LEMMA AppendToStream ==
  ASSUME NEW f \in Seq(LogRecords), NEW b \in Seq(LogRecords), NEW r \in LogRecords
  PROVE  f \o Append(b, r) = Append(f \o b, r)
<1>1. Append(b, r) = b \o <<r>> /\ Append(f \o b, r) = (f \o b) \o <<r>> /\ <<r>> \in Seq(LogRecords)
  BY ConcatProperties, AppendIsConcat
<1>2. QED
  BY <1>1, ConcatAssociative

LEMMA ConsumeKeeps ==
  ASSUME LogInv, NEW n \in 0 .. FlushAt, NEW torn \in BOOLEAN, handle_event(n, torn)
  PROVE  LogInv'
<1> DEFINE r == Rec("event", Head(ring), 0)
           b == Append(buf, r)
<1>1. /\ at \in {"poll", "consume"} /\ ring # <<>>
      /\ ring' = Tail(ring) /\ consumed' = Append(consumed, Head(ring))
      /\ UNCHANGED <<made, dropped, kicked, at, nap, stopping, lastDrops, lastKicks>>
      /\ \/ Write(b, n, torn)
         \/ buf' = b /\ UNCHANGED <<logFile, werr>>
  BY DEF handle_event
<1>2. LogTypeOK /\ EventsInOrder /\ logFile \in Seq(LogRecords) /\ buf \in Seq(LogRecords) /\ lastKicks <= kicked
      /\ werr \in Nat /\ dropped \in Nat /\ Sampled \in Nat
  BY DEF LogInv, LogTypeOK, Sampled
<1>3. /\ EventsInOrder' /\ ring' \in Seq(Nat) /\ consumed' \in Seq(Nat) /\ Head(ring) \in Nat
      /\ Range(consumed') = Range(consumed) \cup {Head(ring)} /\ Range(consumed) \subseteq Nat
      /\ \A x \in Range(consumed) : x < Head(ring)
  BY <1>1, <1>2, ConsumeKeepsOrder
<1>4. r \in LogRecords /\ r.k = "event" /\ r.v = Head(ring)
  BY <1>3, RecIsRecord
<1>5. Stream \in Seq(LogRecords)
  BY <1>2, ConcatProperties DEF Stream
<1>6. /\ StreamIsTrue(Stream, consumed, dropped, Sampled)
      /\ werr = 0 => StreamIsWhole(Stream, consumed, lastDrops.n)
  BY <1>1 DEF LogInv
<1> HIDE DEF r
<1>7. b \in Seq(LogRecords) /\ logFile \o b = Append(Stream, r)
  BY <1>2, <1>4, AppendToStream, AppendProperties DEF Stream
<1>8. StreamIsTrue(logFile \o b, consumed', dropped, Sampled)
  <2>1. /\ Range(consumed) \subseteq Range(consumed') \cap Nat
        /\ Sampled + (IF r.k = "storm" THEN r.v ELSE 0) <= Sampled /\ dropped <= dropped
        /\ r.v \in Range(consumed') /\ \A x \in Range(consumed) : x < r.v
    BY <1>2, <1>3, <1>4
  <2>2. StreamIsTrue(Append(Stream, r), consumed', dropped, Sampled)
    BY <1>2, <1>4, <1>5, <1>6, <2>1, StreamGrows
  <2>3. QED
    BY <1>7, <2>2
<1>9. ASSUME werr = 0 PROVE StreamIsWhole(logFile \o b, consumed', lastDrops.n)
  <2>1. StreamIsWhole(Stream, consumed, lastDrops.n)
    BY <1>6, <1>9
  <2>2. Range(consumed') = Range(consumed) \cup (IF r.k = "event" THEN {r.v} ELSE {})
    BY <1>3, <1>4
  <2>3. lastDrops.n = (IF r.k = "drops" THEN r.v ELSE lastDrops.n) /\ r.k # "torn"
    BY <1>4
  <2>4. StreamIsWhole(Append(Stream, r), consumed', lastDrops.n)
    BY <1>4, <1>5, <2>1, <2>2, <2>3, WholeGrows
  <2>5. QED
    BY <1>7, <2>4
<1> HIDE DEF b
<1>10. /\ logFile' \in Seq(LogRecords) /\ buf' \in Seq(LogRecords) /\ werr' \in Nat
       /\ StreamIsTrue(Stream', consumed', dropped, Sampled)
       /\ werr' = 0 => StreamIsWhole(Stream', consumed', lastDrops.n)
  <2>1. CASE Write(b, n, torn)
    BY <1>2, <1>7, <1>8, <1>9, <2>1, WriteKeeps, EmptySeq
  <2>2. CASE buf' = b /\ UNCHANGED <<logFile, werr>>
    BY <1>2, <1>7, <1>8, <1>9, <2>2 DEF Stream
  <2>3. QED
    BY <1>1, <2>1, <2>2
<1>11. LogTypeOK'
  BY <1>1, <1>2, <1>3, <1>10 DEF LogTypeOK
<1>12. Sampled' = Sampled
  BY <1>1 DEF Sampled
<1>13. QED
  BY <1>1, <1>2, <1>3, <1>10, <1>11, <1>12 DEF LogInv

LEMMA FlushKeeps ==
  ASSUME LogInv, NEW n \in 0 .. FlushAt + 2, NEW torn \in BOOLEAN, trace_flush(n, torn)
  PROVE  LogInv'
<1>1. /\ at \in {"flush", "napflush", "finalflush", "join"}
      /\ at' = CASE at = "flush" -> "cycle" [] at = "napflush" -> "nap" [] at = "finalflush" -> "join"
                  [] at = "join" -> "done"
      /\ UNCHANGED <<made, ring, dropped, kicked, nap, stopping, lastDrops, lastKicks, consumed>>
      /\ \/ buf = <<>> /\ UNCHANGED <<buf, logFile, werr>>
         \/ Write(buf, n, torn)
  BY DEF trace_flush
<1>2. LogTypeOK /\ EventsInOrder /\ logFile \in Seq(LogRecords) /\ buf \in Seq(LogRecords) /\ lastKicks <= kicked
      /\ werr \in Nat /\ dropped \in Nat /\ Sampled \in Nat
  BY DEF LogInv, LogTypeOK, Sampled
<1>3. /\ StreamIsTrue(logFile \o buf, consumed, dropped, Sampled)
      /\ werr = 0 => StreamIsWhole(logFile \o buf, consumed, lastDrops.n)
  BY <1>1 DEF LogInv, Stream
<1>4. /\ logFile' \in Seq(LogRecords) /\ buf' \in Seq(LogRecords) /\ werr' \in Nat /\ buf' = <<>>
      /\ StreamIsTrue(Stream', consumed, dropped, Sampled)
      /\ werr' = 0 => werr = 0 /\ Stream' = Stream /\ StreamIsWhole(Stream', consumed, lastDrops.n)
  <2>1. CASE Write(buf, n, torn)
    BY <1>2, <1>3, <2>1, WriteKeeps, EmptySeq DEF Stream
  <2>2. CASE buf = <<>> /\ UNCHANGED <<buf, logFile, werr>>
    BY <1>2, <1>3, <2>2 DEF Stream
  <2>3. QED
    BY <1>1, <2>1, <2>2
<1>5. at' \in {"cycle", "nap", "join", "done"} /\ (at' \in {"join", "done"} => at \in {"finalflush", "join"})
  BY <1>1
<1>6. LogTypeOK'
  BY <1>1, <1>2, <1>4, <1>5 DEF LogTypeOK, LogStages
<1>7. EventsInOrder' /\ Sampled' = Sampled
  BY <1>1, <1>2 DEF EventsInOrder, Sampled
<1>8. at' \in {"finalflush", "join", "done"} /\ werr' = 0 => OfKind(Stream', "drops") # {}
  BY <1>4, <1>5 DEF LogInv
<1>9. QED
  BY <1>1, <1>2, <1>4, <1>5, <1>6, <1>7, <1>8 DEF LogInv
LEMMA OneMore ==
  ASSUME NEW b \in Seq(LogRecords), NEW r \in LogRecords
  PROVE  b \o <<r>> = Append(b, r) /\ b \o <<r>> \in Seq(LogRecords)
BY AppendIsConcat, AppendProperties

\* A drop snapshot states what was dropped up to it.
LEMMA SnapshotKeeps ==
  ASSUME NEW f \in Seq(LogRecords), NEW b \in Seq(LogRecords), NEW k \in Nat, NEW force \in BOOLEAN, LogTypeOK,
         StreamIsTrue(f \o b, consumed, dropped, k), werr = 0 => StreamIsWhole(f \o b, consumed, lastDrops.n)
  PROVE  /\ b \o DropRecords(force) \in Seq(LogRecords)
         /\ StreamIsTrue(f \o (b \o DropRecords(force)), consumed, dropped, k)
         /\ werr = 0 => StreamIsWhole(f \o (b \o DropRecords(force)), consumed, dropped)
         /\ force => OfKind(f \o (b \o DropRecords(force)), "drops") # {}
<1> DEFINE r == Rec("drops", dropped, werr)
           d == f \o b
<1>1. dropped \in Nat /\ werr \in Nat /\ consumed \in Seq(Nat)
  BY DEF LogTypeOK
<1>2. r \in LogRecords /\ r.k = "drops" /\ r.v = dropped
  BY <1>1, RecIsRecord
<1>3. d \in Seq(LogRecords)
  BY ConcatProperties
<1>4. CASE DropRecords(force) = <<>> /\ ~force /\ lastDrops = [n |-> dropped, w |-> werr]
  <2>1. b \o DropRecords(force) = b
    BY <1>4, ConcatEmptySeq
  <2>2. lastDrops.n = dropped
    BY <1>4
  <2>3. QED
    BY <1>4, <2>1, <2>2
<1>5. CASE DropRecords(force) = <<r>>
  <2> HIDE DEF r
  <2>1. b \o DropRecords(force) = Append(b, r) /\ Append(b, r) \in Seq(LogRecords)
    BY <1>2, <1>5, OneMore
  <2>2. f \o (b \o DropRecords(force)) = Append(d, r)
    BY <1>2, <2>1, AppendToStream
  <2> HIDE DEF d
  <2>3. Range(consumed) \subseteq Nat
    BY <1>1, ElementOfSeq, LenProperties DEF Range
  <2>4. StreamIsTrue(d, consumed, dropped, k)
    BY DEF d
  <2>5. StreamIsTrue(Append(d, r), consumed, dropped, k)
    <3>1. /\ Range(consumed) \subseteq Range(consumed) \cap Nat /\ dropped <= dropped
          /\ k + (IF r.k = "storm" THEN r.v ELSE 0) <= k /\ r.k # "event" /\ r.v <= dropped
      BY <1>1, <1>2, <2>3
    <3>2. QED
      BY <1>1, <1>2, <1>3, <2>4, <3>1, StreamGrows
  <2>6. ASSUME werr = 0 PROVE StreamIsWhole(Append(d, r), consumed, dropped)
    <3>1. StreamIsWhole(d, consumed, lastDrops.n)
      BY <2>6 DEF d
    <3>2. /\ Range(consumed) = Range(consumed) \cup (IF r.k = "event" THEN {r.v} ELSE {})
          /\ dropped = (IF r.k = "drops" THEN r.v ELSE lastDrops.n) /\ r.k # "torn"
      BY <1>2
    <3>3. QED
      BY <1>2, <1>3, <3>1, <3>2, WholeGrows
  <2>7. Len(d) + 1 \in OfKind(Append(d, r), "drops")
    BY <1>2, <1>3, KindsOfAppend
  <2>8. QED
    BY <2>1, <2>2, <2>5, <2>6, <2>7
<1>6. QED
  BY <1>4, <1>5 DEF DropRecords

LEMMA StormKeeps ==
  ASSUME LogTypeOK, lastKicks <= kicked,
         StreamIsTrue(Stream, consumed, dropped, Sampled), werr = 0 => StreamIsWhole(Stream, consumed, lastDrops.n)
  PROVE  /\ buf \o StormRecords \in Seq(LogRecords)
         /\ StreamIsTrue(logFile \o (buf \o StormRecords), consumed, dropped, kicked)
         /\ werr = 0 => StreamIsWhole(logFile \o (buf \o StormRecords), consumed, lastDrops.n)
<1> DEFINE r == Rec("storm", kicked - lastKicks, 0)
<1>1. /\ dropped \in Nat /\ kicked \in Nat /\ lastKicks \in Nat \cup {-1} /\ consumed \in Seq(Nat)
      /\ logFile \in Seq(LogRecords) /\ buf \in Seq(LogRecords)
  BY DEF LogTypeOK
<1>2. Stream \in Seq(LogRecords)
  BY <1>1, ConcatProperties DEF Stream
<1>3. CASE lastKicks \in {-1, kicked}
  <2>1. buf \o StormRecords = buf
    BY <1>1, <1>3, ConcatEmptySeq DEF StormRecords
  <2>2. Sampled \in Nat /\ Sampled <= kicked
    BY <1>1 DEF Sampled
  <2>3. StreamIsTrue(Stream, consumed, dropped, kicked)
    BY <1>1, <1>2, <2>2, TrueStays
  <2>4. QED
    BY <1>1, <2>1, <2>3 DEF Stream
<1>4. CASE lastKicks \notin {-1, kicked}
  <2>1. lastKicks \in Nat /\ Sampled = lastKicks /\ kicked - lastKicks \in Nat
    BY <1>1, <1>4 DEF Sampled
  <2>2. r \in LogRecords /\ r.k = "storm" /\ r.v = kicked - lastKicks
    BY <2>1, RecIsRecord
  <2>3. StormRecords = <<r>>
    BY <1>4 DEF StormRecords
  <2> HIDE DEF r
  <2>4. buf \o StormRecords = Append(buf, r) /\ Append(buf, r) \in Seq(LogRecords)
    BY <1>1, <2>2, <2>3, OneMore
  <2>5. logFile \o (buf \o StormRecords) = Append(Stream, r)
    BY <1>1, <2>2, <2>4, AppendToStream DEF Stream
  <2>6. StreamIsTrue(Append(Stream, r), consumed, dropped, kicked)
    <3>1. Range(consumed) \subseteq Nat
      BY <1>1, ElementOfSeq, LenProperties DEF Range
    <3>2. /\ Range(consumed) \subseteq Range(consumed) \cap Nat /\ dropped <= dropped
          /\ Sampled + (IF r.k = "storm" THEN r.v ELSE 0) <= kicked /\ r.k # "event" /\ r.k # "drops"
          /\ Sampled \in Nat
      BY <1>1, <2>1, <2>2, <3>1
    <3>3. QED
      BY <1>1, <1>2, <2>2, <3>2, StreamGrows
  <2>7. ASSUME werr = 0 PROVE StreamIsWhole(Append(Stream, r), consumed, lastDrops.n)
    <3>1. StreamIsWhole(Stream, consumed, lastDrops.n)
      BY <2>7
    <3>2. /\ Range(consumed) = Range(consumed) \cup (IF r.k = "event" THEN {r.v} ELSE {})
          /\ lastDrops.n = (IF r.k = "drops" THEN r.v ELSE lastDrops.n) /\ r.k # "torn"
      BY <2>2
    <3>3. QED
      BY <1>2, <2>2, <3>1, <3>2, WholeGrows
  <2>8. QED
    BY <2>4, <2>5, <2>6, <2>7
<1>5. QED
  BY <1>3, <1>4

LEMMA CycleKeeps == LogInv /\ Cycle => LogInv'
<1> SUFFICES ASSUME LogInv, Cycle PROVE LogInv'
  OBVIOUS
<1> DEFINE b == buf \o StormRecords
<1>1. /\ at = "cycle" /\ at' = "nap" /\ nap' = Naps /\ buf' = b \o DropRecords(FALSE)
      /\ lastKicks' = kicked /\ lastDrops' = [n |-> dropped, w |-> werr]
      /\ UNCHANGED <<made, ring, dropped, kicked, stopping, logFile, werr, consumed>>
  BY DEF Cycle
<1>2. /\ LogTypeOK /\ EventsInOrder /\ lastKicks <= kicked /\ kicked \in Nat /\ logFile \in Seq(LogRecords)
      /\ dropped \in Nat /\ werr \in Nat
  BY DEF LogInv, LogTypeOK
<1>3. /\ b \in Seq(LogRecords) /\ StreamIsTrue(logFile \o b, consumed, dropped, kicked)
      /\ werr = 0 => StreamIsWhole(logFile \o b, consumed, lastDrops.n)
  BY <1>1, <1>2, StormKeeps DEF LogInv
<1> HIDE DEF b
<1>4. /\ b \o DropRecords(FALSE) \in Seq(LogRecords)
      /\ StreamIsTrue(logFile \o (b \o DropRecords(FALSE)), consumed, dropped, kicked)
      /\ werr = 0 => StreamIsWhole(logFile \o (b \o DropRecords(FALSE)), consumed, dropped)
  BY <1>2, <1>3, SnapshotKeeps
<1>5. Stream' = logFile \o (b \o DropRecords(FALSE)) /\ Sampled' = kicked
  BY <1>1, <1>2 DEF Stream, Sampled
<1>6. LogTypeOK'
  BY <1>1, <1>2, <1>4, TraceLogAssumption DEF LogTypeOK, LogStages
<1>7. EventsInOrder' /\ lastKicks' <= kicked' /\ lastDrops'.n = dropped
  BY <1>1, <1>2 DEF EventsInOrder
<1>8. /\ StreamIsTrue(Stream', consumed', dropped', Sampled')
      /\ werr' = 0 => StreamIsWhole(Stream', consumed', lastDrops'.n)
  BY <1>1, <1>4, <1>5, <1>7
<1>9. QED
  BY <1>1, <1>6, <1>7, <1>8 DEF LogInv

LEMMA FinalKeeps == LogInv /\ Final => LogInv'
<1> SUFFICES ASSUME LogInv, Final PROVE LogInv'
  OBVIOUS
<1>1. /\ at = "final" /\ at' = "finalflush" /\ buf' = buf \o DropRecords(TRUE)
      /\ lastDrops' = [n |-> dropped, w |-> werr]
      /\ UNCHANGED <<made, ring, dropped, kicked, nap, stopping, logFile, werr, lastKicks, consumed>>
  BY DEF Final
<1>2. /\ LogTypeOK /\ EventsInOrder /\ lastKicks <= kicked /\ logFile \in Seq(LogRecords) /\ buf \in Seq(LogRecords)
      /\ dropped \in Nat /\ werr \in Nat /\ Sampled \in Nat
  BY DEF LogInv, LogTypeOK, Sampled
<1>3. /\ StreamIsTrue(logFile \o buf, consumed, dropped, Sampled)
      /\ werr = 0 => StreamIsWhole(logFile \o buf, consumed, lastDrops.n)
  BY <1>1 DEF LogInv, Stream
<1>4. /\ buf \o DropRecords(TRUE) \in Seq(LogRecords)
      /\ StreamIsTrue(logFile \o (buf \o DropRecords(TRUE)), consumed, dropped, Sampled)
      /\ werr = 0 => StreamIsWhole(logFile \o (buf \o DropRecords(TRUE)), consumed, dropped)
      /\ OfKind(logFile \o (buf \o DropRecords(TRUE)), "drops") # {}
  BY <1>2, <1>3, SnapshotKeeps
<1>5. Stream' = logFile \o (buf \o DropRecords(TRUE)) /\ Sampled' = Sampled
  BY <1>1 DEF Stream, Sampled
<1>6. LogTypeOK'
  BY <1>1, <1>2, <1>4 DEF LogTypeOK, LogStages
<1>7. EventsInOrder' /\ lastKicks' <= kicked' /\ lastDrops'.n = dropped
  BY <1>1, <1>2 DEF EventsInOrder
<1>8. /\ StreamIsTrue(Stream', consumed', dropped', Sampled')
      /\ werr' = 0 => StreamIsWhole(Stream', consumed', lastDrops'.n)
      /\ OfKind(Stream', "drops") # {}
  BY <1>1, <1>4, <1>5, <1>7
<1>9. QED
  BY <1>1, <1>6, <1>7, <1>8 DEF LogInv
LEMMA EmptyLog == Kicks(<<>>) = 0 /\ \A kind : OfKind(<<>>, kind) = {}
<1>1. \A kind : OfKind(<<>>, kind) = {}
  BY DEF OfKind
<1>2. Kicks(<<>>) = 0
  BY <1>1, SumStep, FS_EmptySet DEF Kicks
<1>3. QED
  BY <1>1, <1>2

LEMMA LogStarts == LogInit => LogInv
<1> SUFFICES ASSUME LogInit PROVE LogInv
  OBVIOUS
<1>1. LogTypeOK
  BY EmptySeq DEF LogInit, LogTypeOK, LogStages
<1>2. EventsInOrder /\ lastKicks <= kicked
  BY DEF LogInit, EventsInOrder
<1>3. Stream = <<>> /\ consumed = <<>> /\ Sampled = 0 /\ dropped = 0 /\ at = "poll"
  BY DEF LogInit, Stream, Sampled
<1>4. StreamIsTrue(Stream, consumed, dropped, Sampled)
  BY <1>3, EmptyLog DEF StreamIsTrue
<1>5. StreamIsWhole(Stream, consumed, lastDrops.n)
  BY <1>3, EmptyLog DEF StreamIsWhole, Range
<1>6. QED
  BY <1>1, <1>2, <1>3, <1>4, <1>5 DEF LogInv

LEMMA LogInductive == LogInv /\ [LogNext]_logVars => LogInv'
<1> SUFFICES ASSUME LogInv, [LogNext]_logVars PROVE LogInv'
  OBVIOUS
<1>1. CASE rb_reserve
  BY <1>1, ReserveKeeps
<1>2. CASE Kick \/ StopLoop
  BY <1>2, KickKeeps
<1>3. ASSUME NEW n \in 0 .. FlushAt, NEW torn \in BOOLEAN, handle_event(n, torn) PROVE LogInv'
  BY <1>3, ConsumeKeeps
<1>4. CASE Drained \/ Nap
  BY <1>4, MovesKeep
<1>5. ASSUME NEW n \in 0 .. FlushAt + 2, NEW torn \in BOOLEAN, trace_flush(n, torn) PROVE LogInv'
  BY <1>5, FlushKeeps
<1>6. CASE Cycle
  BY <1>6, CycleKeeps
<1>7. CASE Final
  BY <1>7, FinalKeeps
<1>8. ASSUME NEW n \in 0 .. FlushAt + 2, NEW torn \in BOOLEAN, Kill(n, torn) PROVE LogInv'
  BY <1>8, KillKeeps
<1>9. CASE UNCHANGED logVars
  <2>1. UNCHANGED <<made, ring, dropped, kicked, at, nap, stopping, buf, logFile, werr, lastDrops, lastKicks,
                    consumed>>
    BY <1>9 DEF logVars
  <2>2. LogTypeOK' /\ EventsInOrder' /\ dropped' >= dropped /\ kicked' >= kicked
    BY <2>1 DEF LogInv, LogTypeOK, EventsInOrder
  <2>3. QED
    BY <2>1, <2>2, RecordsStay
<1>10. QED
  BY <1>1, <1>2, <1>3, <1>4, <1>5, <1>6, <1>7, <1>8, <1>9 DEF LogNext, Loop

LEMMA EndIsWhole == LogInv => OrderlyEndIsWhole
<1> SUFFICES ASSUME LogInv, at = "done", werr = 0
             PROVE  /\ Events(logFile) = Range(consumed) /\ Drops(logFile) = lastDrops.n
                    /\ Len(consumed) + Len(ring) + dropped = made
  BY DEF OrderlyEndIsWhole
<1>1. logFile \in Seq(LogRecords) /\ buf = <<>> /\ Len(consumed) + Len(ring) + dropped = made
  BY DEF LogInv, LogTypeOK, EventsInOrder
<1>2. Stream = logFile
  BY <1>1, ConcatEmptySeq DEF Stream
<1>3. /\ StreamIsTrue(logFile, consumed, dropped, Sampled) /\ StreamIsWhole(logFile, consumed, lastDrops.n)
      /\ OfKind(logFile, "drops") # {}
  BY <1>2 DEF LogInv
<1>4. \A kind : Found(logFile, kind) = OfKind(logFile, kind)
  <2>1. \A i \in DOMAIN logFile : \A j \in 1 .. i : j \in DOMAIN logFile
    BY <1>1, LenProperties
  <2>2. QED
    BY <1>3, <2>1 DEF Found, for_each, OfKind, StreamIsWhole
<1>5. Events(logFile) = Range(consumed)
  BY <1>3, <1>4 DEF Events, StreamIsTrue, StreamIsWhole
<1>6. Drops(logFile) = lastDrops.n
  <2> DEFINE S == OfKind(logFile, "drops")
  <2>1. S \in SUBSET (1 .. Len(logFile)) /\ Len(logFile) \in Nat
    BY <1>1, KindsAreFinite, LenProperties
  <2>2. Max(S) \in S /\ \A y \in S : y <= Max(S)
    BY <1>3, <2>1, LastIsMax
  <2>3. logFile[Max(S)].v = lastDrops.n
    BY <1>3, <2>2 DEF StreamIsWhole
  <2>4. QED
    BY <1>3, <1>4, <2>3 DEF Drops
<1>7. QED
  BY <1>1, <1>5, <1>6

\* A log can be believed wherever it is cut off, and an orderly end leaves it whole.
THEOREM LogTrue == LogSpec => []LogIsTrue
<1>1. LogInit => LogInv
  BY LogStarts
<1>2. LogInv /\ [LogNext]_logVars => LogInv'
  BY LogInductive
<1>3. LogInv => LogIsTrue
  BY LogReadsTrue, EndIsWhole DEF LogIsTrue
<1>4. QED
  BY <1>1, <1>2, <1>3, PTL DEF LogSpec
=============================================================================
