------------------------------ MODULE TraceLog ------------------------------
(***************************************************************************)
(* The path of a trace event from the ring to the binary log: rb_reserve() *)
(* of src/src/bpf/montauk_trace.bpf.c, the loop, the writer and the        *)
(* teardown of src/src/collectors/BpfTraceCollector.cpp, and the reader of *)
(* src/include/model/TraceReader.hpp.                                      *)
(*                                                                         *)
(* A record of the log is an event, a drop snapshot or a storm sample;     *)
(* "torn" is what a write that failed inside a record leaves.  The process *)
(* may be killed at any step.                                              *)
(***************************************************************************)
EXTENDS Integers, Sequences, Functions, FiniteSetsExt

CONSTANTS RingSize,     \* events the ring holds
          FlushAt,      \* kTraceFlushThreshold, in records
          Naps,         \* drains per cycle (40)
          MaxMade, MaxKicked, MaxWriteErrors

ASSUME TraceLogAssumption == {RingSize, FlushAt, Naps} \subseteq Nat \ {0}

VARIABLES
    made,      \* events the programs tried to emit
    ring,      \* events submitted and not consumed
    dropped,   \* drop_counts: failed reserves
    kicked,    \* scx_storm: kicks so far
    at,        \* where run() is
    nap,       \* drains left in this cycle
    stopping,  \* was a stop requested?
    buf, logFile, \* trace_buf_ and the file, as records
    werr,      \* writer_errors_
    lastDrops, \* drops_last_total_ and drops_last_werr_
    lastKicks, \* scx_kicks_last_, -1 before the first sample
    consumed   \* ghost: events handed to handle_event(), in order

logVars == <<made, ring, dropped, kicked, at, nap, stopping, buf, logFile, werr,
             lastDrops, lastKicks, consumed>>

Rec(k, v, w) == [k |-> k, v |-> v, w |-> w]

LogInit ==
    /\ made = 0 /\ ring = <<>> /\ dropped = 0 /\ kicked = 0
    /\ at = "poll" /\ nap = 0 /\ stopping = FALSE
    /\ buf = <<>> /\ logFile = <<>> /\ werr = 0
    /\ lastDrops = [n |-> 0, w |-> 0] /\ lastKicks = -1
    /\ consumed = <<>>

----------------------------------------------------------------------------
(* The producers.                                                          *)

rb_reserve ==
    /\ made < MaxMade /\ at # "killed"
    /\ made' = made + 1
    /\ IF Len(ring) < RingSize
       THEN ring' = Append(ring, made + 1) /\ UNCHANGED dropped
       ELSE dropped' = dropped + 1 /\ UNCHANGED ring
    /\ UNCHANGED <<kicked, at, nap, stopping, buf, logFile, werr, lastDrops,
                   lastKicks, consumed>>

Kick ==
    /\ kicked < MaxKicked /\ kicked' = kicked + 1
    /\ UNCHANGED <<made, ring, dropped, at, nap, stopping, buf, logFile, werr,
                   lastDrops, lastKicks, consumed>>

----------------------------------------------------------------------------
(* trace_append() and trace_flush().                                       *)

\* Mutant: the buffer is kept when its write fails, and written again.
WriteAgain(b, n, torn) ==
    /\ n \in 0 .. Len(b)
    /\ n < Len(b) => werr < MaxWriteErrors
    /\ torn => n < Len(b)
    /\ werr' = IF n < Len(b) THEN werr + 1 ELSE werr
    /\ logFile' = logFile \o SubSeq(b, 1, n)
                    \o (IF torn THEN <<Rec("torn", 0, 0)>> ELSE <<>>)
    /\ buf' = IF n < Len(b) THEN b ELSE <<>>

\* The first n records of b reach the file; n short of all of them is a
\* failed write, which leaves a torn record or none.
Write(b, n, torn) ==
    /\ n \in 0 .. Len(b)
    /\ n < Len(b) => werr < MaxWriteErrors
    /\ torn => n < Len(b)
    /\ werr' = IF n < Len(b) THEN werr + 1 ELSE werr
    /\ logFile' = logFile \o SubSeq(b, 1, n)
                    \o (IF torn THEN <<Rec("torn", 0, 0)>> ELSE <<>>)
    /\ buf' = <<>>

\* handle_event(): the record is appended first; a full buffer is flushed.
handle_event(n, torn) ==
    LET b == Append(buf, Rec("event", Head(ring), 0))
    IN  /\ at \in {"poll", "consume"} /\ ring # <<>>
        /\ ring' = Tail(ring)
        /\ consumed' = Append(consumed, Head(ring))
        /\ IF Len(b) >= FlushAt THEN Write(b, n, torn)
           ELSE n = 0 /\ ~torn /\ buf' = b /\ UNCHANGED <<logFile, werr>>
        /\ UNCHANGED <<made, dropped, kicked, at, nap, stopping, lastDrops,
                       lastKicks>>

\* Mutant: what a drain took in waits for the next full buffer.
DrainedNoFlush ==
    /\ at \in {"poll", "consume"} /\ ring = <<>>
    /\ at' = IF at = "poll" THEN "cycle" ELSE "nap"
    /\ UNCHANGED <<made, ring, dropped, kicked, nap, stopping, buf, logFile, werr,
                   lastDrops, lastKicks, consumed>>

\* The ring is found empty: ring_buffer__poll() or __consume() returns.
Drained ==
    /\ at \in {"poll", "consume"} /\ ring = <<>>
    /\ at' = IF at = "poll" THEN "flush" ELSE "napflush"
    /\ UNCHANGED <<made, ring, dropped, kicked, nap, stopping, buf, logFile, werr,
                   lastDrops, lastKicks, consumed>>

trace_flush(n, torn) ==
    /\ at \in {"flush", "napflush", "finalflush", "join"}
    /\ IF buf = <<>> THEN n = 0 /\ ~torn /\ UNCHANGED <<buf, logFile, werr>>
       ELSE Write(buf, n, torn)
    /\ at' = CASE at = "flush" -> "cycle"
               [] at = "napflush" -> "nap"
               [] at = "finalflush" -> "join"
               [] at = "join" -> "done"
    /\ UNCHANGED <<made, ring, dropped, kicked, nap, stopping, lastDrops,
                   lastKicks, consumed>>

----------------------------------------------------------------------------
(* The loop of run().                                                      *)

\* append_scx_storm_sample(): the first call only seeds the baseline.  The
\* sample of an interval without a kick is left out: it changes no total.
StormRecords ==
    IF lastKicks \in {-1, kicked} THEN <<>> ELSE <<Rec("storm", kicked - lastKicks, 0)>>

\* append_drop_snapshot(): nothing when nothing moved, unless forced.
DropRecords(force) ==
    IF ~force /\ lastDrops = [n |-> dropped, w |-> werr] THEN <<>>
    ELSE <<Rec("drops", dropped, werr)>>

Cycle ==
    /\ at = "cycle" /\ at' = "nap" /\ nap' = Naps
    /\ buf' = buf \o StormRecords \o DropRecords(FALSE)
    /\ lastKicks' = kicked
    /\ lastDrops' = [n |-> dropped, w |-> werr]
    /\ UNCHANGED <<made, ring, dropped, kicked, stopping, logFile, werr, consumed>>

\* The nap loop and the outer loop both ask for a stop at their head.
Nap ==
    /\ at = "nap"
    /\ IF nap = 0 \/ stopping
       THEN at' = (IF stopping THEN "final" ELSE "poll") /\ UNCHANGED nap
       ELSE at' = "consume" /\ nap' = nap - 1
    /\ UNCHANGED <<made, ring, dropped, kicked, stopping, buf, logFile, werr,
                   lastDrops, lastKicks, consumed>>

Final ==
    /\ at = "final" /\ at' = "finalflush"
    /\ buf' = buf \o DropRecords(TRUE)
    /\ lastDrops' = [n |-> dropped, w |-> werr]
    /\ UNCHANGED <<made, ring, dropped, kicked, nap, stopping, logFile, werr,
                   lastKicks, consumed>>

\* stop(): the request; the join and the last flush follow.
StopLoop ==
    /\ ~stopping /\ stopping' = TRUE
    /\ UNCHANGED <<made, ring, dropped, kicked, at, nap, buf, logFile, werr,
                   lastDrops, lastKicks, consumed>>

\* The process is killed, perhaps in the middle of a write.
Kill(n, torn) ==
    /\ at \notin {"killed", "done"} /\ at' = "killed"
    /\ n \in 0 .. Len(buf)
    /\ n # 0 \/ torn => at \in {"flush", "napflush", "finalflush"}
    /\ torn => n < Len(buf)
    /\ logFile' = logFile \o SubSeq(buf, 1, n)
                    \o (IF torn THEN <<Rec("torn", 0, 0)>> ELSE <<>>)
    /\ UNCHANGED <<made, ring, dropped, kicked, nap, stopping, buf, werr,
                   lastDrops, lastKicks, consumed>>

Loop ==
    \/ \E n \in 0 .. FlushAt, torn \in BOOLEAN : handle_event(n, torn)
    \/ Drained
    \/ \E n \in 0 .. FlushAt + 2, torn \in BOOLEAN : trace_flush(n, torn)
    \/ Cycle \/ Nap \/ Final

LogNext ==
    \/ rb_reserve \/ Kick \/ StopLoop \/ Loop
    \/ \E n \in 0 .. FlushAt + 2, torn \in BOOLEAN : Kill(n, torn)

\* The thread runs; each of its steps is made in bounded time.
LogFairness == WF_logVars(Loop)
LogSpec == LogInit /\ [][LogNext]_logVars /\ LogFairness

----------------------------------------------------------------------------
(* TraceReader and what the driver makes of the records.                   *)

\* The records for_each() gets to: those before the first that is torn.
for_each(d) == {i \in DOMAIN d : \A j \in 1 .. i : d[j].k # "torn"}
Found(d, kind) == {i \in for_each(d) : d[i].k = kind}
Events(d) == {d[i].v : i \in Found(d, "event")}
\* The driver's g_drop: the last snapshot wins.
Drops(d) == IF Found(d, "drops") = {} THEN -1 ELSE d[Max(Found(d, "drops"))].v
\* What the storm report totals.
StormTotal(d) == SumFunctionOnSet([i \in DOMAIN d |-> d[i].v], Found(d, "storm"))

----------------------------------------------------------------------------
(* Properties.                                                             *)

\* What a reader finds is true, whenever the process stops or is killed and
\* whatever writes fail: the events in the order they happened, none twice, and
\* all of them consumed; without a failed write, none missing before one that is
\* there; loss totals that were reached; and storm samples that count no kick twice.
PrefixIsTrue ==
    /\ \A i, j \in Found(logFile, "event") : i < j => logFile[i].v < logFile[j].v
    /\ Events(logFile) \subseteq Range(consumed)
    /\ werr = 0 => \A i, j \in DOMAIN consumed :
                      i < j /\ consumed[j] \in Events(logFile) => consumed[i] \in Events(logFile)
    /\ Drops(logFile) <= dropped
    /\ StormTotal(logFile) <= kicked

\* After an orderly end with no failed write the log holds every event that
\* was consumed, and its last snapshot the drops counted up to it; only what
\* was still in the ring is missing.
OrderlyEndIsWhole ==
    at = "done" /\ werr = 0 =>
        /\ Events(logFile) = Range(consumed)
        /\ Drops(logFile) = lastDrops.n
        /\ Len(consumed) + Len(ring) + dropped = made

\* A log can be believed, cut off at any point, and is whole after an orderly end.
LogIsTrue == PrefixIsTrue /\ OrderlyEndIsWhole

\* An event that is submitted while the collector runs reaches the disk,
\* unless a stop, a kill or a failed write comes first.
EventsReachDisk ==
    \A e \in 1 .. MaxMade :
        e \in Range(ring) ~>
            (e \in Events(logFile) \/ stopping \/ at = "killed" \/ werr > 0)

\* What run() says of its teardown: the last bytes state the whole recording's
\* loss.  Every event made before the stop is in the log or in that total.
FinalSnapshotIsWhole ==
    at = "done" /\ werr = 0 =>
        Cardinality(Events(logFile)) + Drops(logFile) >= made

\* What trace_flush() says of a failed write: the final snapshot of the trace
\* can say so.
WriterLossIsVisible ==
    at = "done" /\ werr > 0 =>
        \E i \in Found(logFile, "drops") : logFile[i].w > 0
=============================================================================
