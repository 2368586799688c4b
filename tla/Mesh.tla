-------------------------------- MODULE Mesh ---------------------------------
(***************************************************************************)
(* The provider mesh: processes that serve one snapshot per connection on a   *)
(* unix socket (ProviderEmitter) and the scrape that reads one               *)
(* (read_provider_socket() and sample() of ProviderCollector).  Two emitters   *)
(* share one path, as two instances of montauk do.                           *)
(***************************************************************************)
EXTENDS Integers, Sequences, FiniteSets

CONSTANTS Emitters,      \* processes whose emitter has this name
          NoOne,         \* no process
          Chunks,        \* reads a whole snapshot takes
          PipeRoom,      \* chunks the socket buffers before send() blocks
          ScrapeTimeout, \* kScrapeTimeoutMs, in ticks
          MaxUpdates     \* update() calls per emitter

ASSUME MeshBounds == /\ NoOne \notin Emitters /\ Chunks \in Nat \ {0} /\ PipeRoom \in Nat \ {0}
                     /\ ScrapeTimeout \in Nat \ {0} /\ MaxUpdates \in Nat

VARIABLES pathTo,    \* whose listening socket the file leads to
          host,      \* emitter -> the life of its owner: "new", "binds", "up",
                     \*   "off" (start() failed), "closed", "gone" or "crashed"
          server,    \* emitter -> serve(): "none", "poll", "accept", "send", "gone"
          tokenSet,  \* emitters asked to stop
          version,   \* emitter -> snapshot_, by number
          data,      \* emitter -> the clone being sent, and how many chunks are out
          scrape,    \* the scrape: "idle", "queued", "read", "ok", "failed"
          peer,      \* the emitter it is connected to
          asked,     \* version of peer's snapshot at the connect
          pipe,      \* chunks sent and not yet read
          ended,     \* the peer closed the connection
          got,       \* chunks read
          inPoll,    \* ticks spent in this poll()
          waited     \* ticks spent in this scrape
emitVars == <<pathTo, host, server, tokenSet, version, data>>
readVars == <<scrape, peer, asked, pipe, ended, got, inPoll, waited>>
meshVars == <<emitVars, readVars>>

Nothing == [ver |-> 0, off |-> 0]

MeshInit ==
    /\ pathTo = NoOne /\ host = [e \in Emitters |-> "new"]
    /\ server = [e \in Emitters |-> "none"] /\ tokenSet = {}
    /\ version = [e \in Emitters |-> 0] /\ data = [e \in Emitters |-> Nothing]
    /\ scrape = "idle" /\ peer = NoOne /\ asked = 0 /\ pipe = <<>> /\ ended = FALSE
    /\ got = <<>> /\ inPoll = 0 /\ waited = 0

----------------------------------------------------------------------------
(* ProviderEmitter.                                                         *)

\* start(): whatever socket is there is unlinked, stale or not
StartUnlinks(e) ==
    /\ host[e] = "new" /\ host' = [host EXCEPT ![e] = "binds"] /\ pathTo' = NoOne
    /\ UNCHANGED <<server, tokenSet, version, data, readVars>>

\* bind() fails if another process has bound the path since
StartBinds(e) ==
    /\ host[e] = "binds"
    /\ \/ /\ pathTo = NoOne /\ pathTo' = e
          /\ host' = [host EXCEPT ![e] = "up"] /\ server' = [server EXCEPT ![e] = "poll"]
       \/ /\ pathTo # NoOne /\ host' = [host EXCEPT ![e] = "off"]
          /\ UNCHANGED <<pathTo, server>>
    /\ UNCHANGED <<tokenSet, version, data, readVars>>

Update(e) ==
    /\ host[e] = "up" /\ version[e] < MaxUpdates
    /\ version' = [version EXCEPT ![e] = @ + 1]
    /\ UNCHANGED <<pathTo, host, server, tokenSet, data, readVars>>

Queued(e) == scrape = "queued" /\ peer = e

\* Mutant: the serving loop does not look at its token.
ServePollsBlind(e) ==
    /\ server[e] = "poll"
    /\ server' = [server EXCEPT ![e] = IF Queued(e) THEN "accept" ELSE "poll"]
    /\ UNCHANGED <<pathTo, host, tokenSet, version, data, readVars>>

\* the loop test, then poll(): a connection, or nothing for 200 ms
ServePolls(e) ==
    /\ server[e] = "poll"
    /\ server' = [server EXCEPT ![e] = IF e \in tokenSet THEN "gone"
                                       ELSE IF Queued(e) THEN "accept" ELSE "poll"]
    /\ UNCHANGED <<pathTo, host, tokenSet, version, data, readVars>>

\* accept() and the clone under the lock; it fails if the listener was closed
\* or the reader gave up
ServeAccepts(e) ==
    /\ server[e] = "accept"
    /\ IF Queued(e) /\ host[e] = "up"
       THEN /\ server' = [server EXCEPT ![e] = "send"] /\ scrape' = "read"
            /\ data' = [data EXCEPT ![e] = [ver |-> version[e], off |-> 0]]
       ELSE server' = [server EXCEPT ![e] = "poll"] /\ UNCHANGED <<scrape, data>>
    /\ UNCHANGED <<pathTo, host, tokenSet, version, peer, asked, pipe, ended, got, inPoll, waited>>

Reading(e) == scrape = "read" /\ peer = e

\* Mutant: each chunk is cut from the newest payload instead of the copy.
ServeSendsNewest(e) ==
    /\ server[e] = "send" /\ data[e].off < Chunks
    /\ IF Reading(e)
       THEN /\ Len(pipe) < PipeRoom
            /\ pipe' = Append(pipe, <<version[e], data[e].off + 1>>)
            /\ data' = [data EXCEPT ![e].off = @ + 1]
       ELSE data' = [data EXCEPT ![e].off = Chunks] /\ UNCHANGED pipe
    /\ UNCHANGED <<pathTo, host, server, tokenSet, version, scrape, peer, asked, ended, got,
                   inPoll, waited>>

\* one send(): blocks while the socket is full; a reader that left ends it
ServeSends(e) ==
    /\ server[e] = "send" /\ data[e].off < Chunks
    /\ IF Reading(e)
       THEN /\ Len(pipe) < PipeRoom
            /\ pipe' = Append(pipe, <<data[e].ver, data[e].off + 1>>)
            /\ data' = [data EXCEPT ![e].off = @ + 1]
       ELSE data' = [data EXCEPT ![e].off = Chunks] /\ UNCHANGED pipe
    /\ UNCHANGED <<pathTo, host, server, tokenSet, version, scrape, peer, asked, ended, got,
                   inPoll, waited>>

\* the close is the end of the snapshot
ServeCloses(e) ==
    /\ server[e] = "send" /\ data[e].off = Chunks
    /\ server' = [server EXCEPT ![e] = "poll"]
    /\ ended' = (ended \/ Reading(e))
    /\ UNCHANGED <<pathTo, host, tokenSet, version, data, scrape, peer, asked, pipe, got, inPoll, waited>>

\* the destructor: stop, close the listener (a connection still queued is reset)
DestroyCloses(e) ==
    /\ host[e] \in {"up", "off"} /\ host' = [host EXCEPT ![e] = "closed"]
    /\ tokenSet' = tokenSet \cup {e}
    /\ scrape' = IF Queued(e) THEN "failed" ELSE scrape
    /\ UNCHANGED <<pathTo, server, version, data, peer, asked, pipe, ended, got, inPoll, waited>>

\* ... join, and unlink the path, whoever it leads to by now
DestroyUnlinks(e) ==
    /\ host[e] = "closed" /\ server[e] \in {"none", "gone"}
    /\ host' = [host EXCEPT ![e] = "gone"] /\ pathTo' = NoOne
    /\ UNCHANGED <<server, tokenSet, version, data, readVars>>

\* the process is killed: its connections end, the file stays
Crash(e) ==
    /\ host[e] \in {"up", "closed"} /\ host' = [host EXCEPT ![e] = "crashed"]
    /\ server' = [server EXCEPT ![e] = "gone"]
    /\ scrape' = IF Queued(e) THEN "failed" ELSE scrape
    /\ ended' = (ended \/ (Reading(e) /\ server[e] = "send"))
    /\ UNCHANGED <<pathTo, tokenSet, version, data, peer, asked, pipe, got, inPoll, waited>>

----------------------------------------------------------------------------
(* ProviderCollector.                                                       *)

\* sample() finds the file; connect() is refused by a dead listener
ScrapeConnect ==
    /\ scrape = "idle" /\ pathTo # NoOne
    /\ scrape' = IF host[pathTo] = "up" THEN "queued" ELSE "failed"
    /\ peer' = pathTo /\ asked' = version[pathTo]
    /\ UNCHANGED <<emitVars, pipe, ended, got, inPoll, waited>>

Connected == scrape \in {"queued", "read"}

ReadChunk ==
    /\ Connected /\ pipe # <<>>
    /\ got' = Append(got, Head(pipe)) /\ pipe' = Tail(pipe) /\ inPoll' = 0
    /\ UNCHANGED <<emitVars, scrape, peer, asked, ended, waited>>

ReadEof ==
    /\ Connected /\ pipe = <<>> /\ ended /\ scrape' = "ok"
    /\ UNCHANGED <<emitVars, peer, asked, pipe, ended, got, inPoll, waited>>

\* nothing to read: poll(), with a timeout that starts anew every time
ReadWaits ==
    /\ Connected /\ pipe = <<>> /\ ~ended
    /\ inPoll' = inPoll + 1 /\ waited' = waited + 1
    /\ scrape' = IF inPoll + 1 = ScrapeTimeout THEN "failed" ELSE scrape
    /\ UNCHANGED <<emitVars, peer, asked, pipe, ended, got>>

MeshOver ==
    /\ scrape \in {"ok", "failed"} \/ pathTo = NoOne
    /\ \A e \in Emitters : host[e] \in {"gone", "crashed"}
    /\ UNCHANGED meshVars

Serve(e) == ServePolls(e) \/ ServeAccepts(e) \/ ServeSends(e) \/ ServeCloses(e)
Scrape == ScrapeConnect \/ ReadChunk \/ ReadEof \/ ReadWaits

MeshNext ==
    \/ \E e \in Emitters : \/ StartUnlinks(e) \/ StartBinds(e) \/ Update(e) \/ Serve(e)
                           \/ DestroyCloses(e) \/ DestroyUnlinks(e) \/ Crash(e)
    \/ Scrape \/ MeshOver

\* the threads run; nobody has to start, stop or crash
MeshFairness ==
    /\ \A e \in Emitters : WF_meshVars(Serve(e)) /\ WF_meshVars(DestroyUnlinks(e))
    /\ WF_meshVars(Scrape)
MeshSpec == MeshInit /\ [][MeshNext]_meshVars /\ MeshFairness
-----------------------------------------------------------------------------
(***************************************************************************)
(* A scrape that succeeds has read one snapshot, whole and no older than the  *)
(* connection, though the producer may have replaced it while it was sent.    *)
(* Only a provider that was killed in the middle leaves less: its end of file *)
(* looks like any other.                                                    *)
(***************************************************************************)
ScrapeIsWhole ==
    scrape = "ok" =>
      \/ /\ Len(got) = Chunks /\ got[1][1] >= asked
         /\ \A i \in 1 .. Chunks : got[i] = <<got[1][1], i>>
      \/ host[peer] = "crashed"

(***************************************************************************)
(* The destructor of an emitter returns: the thread it joins is never held by *)
(* a reader for longer than that reader's own timeouts.                      *)
(***************************************************************************)
EmitterStops == \A e \in Emitters : (host[e] = "closed") ~> (host[e] # "closed")

(***************************************************************************)
(* read_provider_socket(): "Connect to a unix socket and read until EOF,      *)
(* bounded by kScrapeTimeoutMs total."                                       *)
(***************************************************************************)
ScrapeIsBounded == waited <= ScrapeTimeout
=============================================================================
