----------------------------- MODULE MCRuntime -----------------------------
(***************************************************************************)
(* One instance for the threads of montauk that must come to an end or make  *)
(* progress: the metrics server, main() with its terminal writer, the        *)
(* provider mesh, the pool of workers, and the trace writer.  They share no   *)
(* state; a behavior is of one of them, chosen at the start, and the others   *)
(* stay as they began.                                                       *)
(***************************************************************************)
EXTENDS MetricsServer, Session, Mesh, DfsPool, TraceLog

VARIABLE subject

MCCommandLines ==
  {<<"unknown", "tty">>, <<"tty", "help", "unknown">>, <<"theme">>, <<"badclass">>, <<"badsuffix">>,
   <<"noclass">>, <<>>, <<"headless">>, <<"tty">>, <<"tty", "metrics", "log">>,
   <<"trace", "metrics", "log">>, <<"trace", "nobpf">>, <<"nobpf", "tty">>, <<"tty", "selftest", "metrics">>,
   <<"headless", "metrics">>, <<"headless", "log">>, <<"json", "trace">>, <<"window", "trace">>,
   <<"regime">>, <<"anomalies", "trace">>, <<"similar">>}

\* a tree two levels deep
MCChildren == [f \in Tree |-> CASE f = "r" -> <<"a", "b">> [] f = "a" -> <<"c", "d">>
                                  [] OTHER -> <<>>]

runtimeVars == <<subject, serverVars, sessionVars, meshVars, poolVars, logVars>>

RuntimeInit ==
  /\ subject \in {"server", "session", "mesh", "pool", "log"}
  /\ args \in IF subject = "session" THEN CommandLines ELSE {<<>>}
  /\ ServerInit /\ SessionInit /\ MeshInit /\ PoolInit /\ LogInit

\* a server nobody calls any more, a finished pool and a closed log may stop,
\* the others may not
AtRest == subject \in {"server", "pool", "log"} /\ UNCHANGED runtimeVars

RuntimeNext ==
  \/ /\ subject = "server" /\ ServerNext
     /\ UNCHANGED <<subject, sessionVars, meshVars, poolVars, logVars>>
  \/ /\ subject = "session" /\ SessionNext
     /\ UNCHANGED <<subject, serverVars, meshVars, poolVars, logVars>>
  \/ /\ subject = "mesh" /\ MeshNext
     /\ UNCHANGED <<subject, serverVars, sessionVars, poolVars, logVars>>
  \/ /\ subject = "pool" /\ PoolNext
     /\ UNCHANGED <<subject, serverVars, sessionVars, meshVars, logVars>>
  \/ /\ subject = "log" /\ LogNext
     /\ UNCHANGED <<subject, serverVars, sessionVars, meshVars, poolVars>>
  \/ AtRest

\* each part's own fairness, while the behavior is its own
ServerIsFair ==
  /\ WF_serverVars(subject = "server" /\ ServerStep)
  /\ SF_serverVars(subject = "server" /\ WaitCqe)
  /\ \A tag \in {"listen", "stop"} : WF_serverVars(subject = "server" /\ Complete(tag))
  /\ WF_serverVars(subject = "server" /\ StopWrites)
  /\ WF_serverVars(subject = "server" /\ StopRequests)
  /\ WF_serverVars(subject = "server" /\ StopJoins)
SessionIsFair == WF_sessionVars(subject = "session" /\ MainStep)
                 /\ WF_sessionVars(subject = "session" /\ WriterStep)
MeshIsFair ==
  /\ \A e \in Emitters : WF_meshVars(subject = "mesh" /\ Serve(e))
                         /\ WF_meshVars(subject = "mesh" /\ DestroyUnlinks(e))
  /\ WF_meshVars(subject = "mesh" /\ Scrape)
PoolIsFair == /\ WF_poolVars(subject = "pool" /\ CallerStep)
              /\ \A w \in Workers : WF_poolVars(subject = "pool" /\ PoolStep(w))
LogIsFair == WF_logVars(subject = "log" /\ Loop)

RuntimeSpec == /\ RuntimeInit /\ [][RuntimeNext]_runtimeVars
               /\ ServerIsFair /\ SessionIsFair /\ MeshIsFair /\ PoolIsFair /\ LogIsFair
=============================================================================
