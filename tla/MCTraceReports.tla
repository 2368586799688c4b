--------------------------- MODULE MCTraceReports ---------------------------
(***************************************************************************)
(* One instance for the ways from the traced programs to the reports of      *)
(* trace_analyze.cpp: the waits, the heap and the scheduler as the BPF        *)
(* programs tell them, and small recordings of five kinds for the reports     *)
(* that look at the shape of a whole trace.  They share no state; a behavior  *)
(* is of one of them, chosen at the start, and the others stay as they began. *)
(***************************************************************************)
EXTENDS SyncTrace, HeapTrace, SchedTrace, ShapeTrace

VARIABLE subject

\* Stand-ins for the two numeric routines of other libraries: a series with a
\* step up counts as persistent, one that falls as mean reverting; the distance
\* of a window is the square of its rate.
MCTopology == [c \in 0 .. 2 |-> <<<<1, 1, 2>>[c + 1], <<1, 1, 1>>[c + 1], 1>>]
MCHurst(s) == IF s[1] < s[Len(s)] THEN "above" ELSE IF s[1] > s[Len(s)] THEN "below" ELSE "level"
MCDistances(s) == [i \in DOMAIN s |-> s[i] * s[i]]

Ev == [type |-> "sched", op |-> "", cpu |-> 0, pid |-> 1, last |-> -1, sub |-> 0,
       score |-> 0, run |-> 0, ts |-> 1, comm |-> "", whole |-> TRUE,
       ms |-> 0, reenq |-> 0, preempt |-> 0]
Sample(m, r, k) == [Ev EXCEPT !.type = "storm", !.ms = m, !.reenq = r, !.preempt = k]

MCAlphabets ==
    [storm |-> {Sample(0, 3, 0)} \cup {Sample(1, r, k) : r \in {0, 1, 2, 11}, k \in {0, 1}},
     gates |-> {[Ev EXCEPT !.op = "FIELD_GATE", !.ts = t, !.score = s, !.sub = s] :
                   t \in 1 .. 3, s \in {0, 1}},
     moves |-> {[Ev EXCEPT !.op = "WAKE2RUN", !.ts = t, !.cpu = c, !.last = l, !.sub = s] :
                   t \in {1, 3}, c \in {0, 3}, l \in {-1, 1, 2}, s \in {0, 1}}
               \cup {[Ev EXCEPT !.op = "PICK", !.sub = 1],
                     [Ev EXCEPT !.type = "provider", !.op = "cache_topology"]},
     strands |-> {[Ev EXCEPT !.type = "kstrand", !.comm = n, !.ts = 7 - r, !.run = r] :
                     n \in KstrandNames, r \in {1, 3}}
                 \cup {[Ev EXCEPT !.op = "CPU_IDLE", !.ts = t, !.sub = s] : t \in 1 .. 4, s \in {0, 1}},
     calls |-> {[Ev EXCEPT !.type = "io", !.op = "pwrite64", !.run = r] : r \in {0, 1, 3}}
               \cup {[Ev EXCEPT !.type = y, !.whole = w] : y \in {"exec", "io", "odd"}, w \in BOOLEAN}
               \cup {[Ev EXCEPT !.op = o, !.pid = p, !.last = 2, !.run = p] :
                        o \in {"SWITCH_IN", "WAKEUP", "WAKE2RUN", "ENQUEUE"}, p \in {1, 2}}]
MCMaxRecords == [storm |-> 3, gates |-> 4, moves |-> 3, strands |-> 4, calls |-> 3]
-----------------------------------------------------------------------------
reportVars == <<subject, syncVars, hvars, schedVars, shapeVars>>

ReportInit ==
    /\ subject \in {"sync", "heap", "sched", "shape"}
    /\ subject # "sync" => kind = "keyed" /\ tracked = TRUE
    /\ subject # "sched" => load = "kicks"
    /\ subject # "shape" => recording = "storm"
    /\ SyncInit /\ HeapInit /\ SchedTraceInit /\ ShapeInit

\* a traced program may do no more, and its trace ends there; a shape's report
\* stays as it is rendered (ShapeNext)
AtRest == subject # "shape" /\ UNCHANGED reportVars

ReportNext ==
    \/ subject = "sync" /\ SyncNext /\ UNCHANGED <<subject, hvars, schedVars, shapeVars>>
    \/ subject = "heap" /\ HeapNext /\ UNCHANGED <<subject, syncVars, schedVars, shapeVars>>
    \/ subject = "sched" /\ SchedTraceNext /\ UNCHANGED <<subject, syncVars, hvars, shapeVars>>
    \/ subject = "shape" /\ ShapeNext /\ UNCHANGED <<subject, syncVars, hvars, schedVars>>
    \/ AtRest

ReportSpec == ReportInit /\ [][ReportNext]_reportVars
=============================================================================
