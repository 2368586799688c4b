------------------------------ MODULE Session -------------------------------
(***************************************************************************)
(* One run of the montauk executable, from its arguments to its exit        *)
(* status: the argument loop of main(), the order in which the parts are    *)
(* started, the loop of the chosen mode, the teardown, the exception path,   *)
(* the interrupt handler, and the thread that writes frames to the terminal. *)
(*                                                                         *)
(* The parts (Producer, BpfTraceCollector, MetricsServer, LogWriter) are     *)
(* modelled by modules of their own; here each is a thread that is running   *)
(* or not and that reads the buffers it was given.                           *)
(***************************************************************************)
EXTENDS Integers, Sequences, FiniteSets, SequencesExt, Functions

CONSTANTS CommandLines,     \* the argument lists tried: sequences of tokens
          MaxFrames,        \* frames a terminal session draws at most
          MaxQueuedFrames,  \* kMaxQueuedFrames
          MaxThrows         \* exceptions the loop of a session meets

ASSUME SessionBounds ==
  /\ MaxFrames \in Nat /\ MaxThrows \in Nat
  /\ MaxQueuedFrames \in Nat \ {0}

VARIABLES args,      \* arguments still to be parsed
          opt,       \* options set so far
          mainPc,        \* where main() is
          rc,        \* the exit status, NoStatus while the process lives
          up,        \* parts whose thread runs
          freed,     \* buffers whose lifetime has ended
          gstop,     \* g_stop
          hits,      \* interrupts taken
          screen,    \* "plain", or "ui" once the alternate screen is entered
          wr,        \* the frame writer: "off","check","sleep","wait","write","gone"
          running,   \* g_writer_running
          queue,     \* g_write_queue, frames by number
          chunk,     \* frame being written
          drawn,     \* frames rendered so far
          shown,     \* frames written, in order
          lost,      \* frames a failed write dropped
          throws     \* exceptions thrown so far
sessionVars == <<args, opt, mainPc, rc, up, freed, gstop, hits, screen, wr, running,
                 queue, chunk, drawn, shown, lost, throws>>
mainVars   == <<args, opt, rc, up, freed>>
writerVars == <<wr, queue, chunk, shown, lost>>

NoStatus == -1
-----------------------------------------------------------------------------
(***************************************************************************)
(* The argument loop.  Arguments are taken from left to right: the first     *)
(* that ends the run decides the exit status, whatever follows it.           *)
(***************************************************************************)
ExitsWith == [unknown |-> 2, badsuffix |-> 1, badclass |-> 1, noclass |-> 1,
              help |-> 0, theme |-> 0]

HasBpf(o) == "nobpf" \notin o

ParseArgument ==
  /\ mainPc = "args" /\ args # <<>>
  /\ args' = Tail(args)
  /\ LET a == Head(args) IN
       IF a \in DOMAIN ExitsWith
       THEN mainPc' = "return" /\ rc' = ExitsWith[a] /\ opt' = opt
       ELSE mainPc' = mainPc /\ rc' = rc /\ opt' = opt \cup {a}
  /\ UNCHANGED <<up, freed, gstop, hits, screen, running, drawn, throws>>
  /\ UNCHANGED writerVars

\* --trace implies --headless; a TUI needs a terminal; --headless needs an output.
OneShot(o) == o \cap {"window", "regime", "json", "anomalies", "similar"} # {}

Guards ==
  /\ mainPc = "args" /\ args = <<>>
  /\ LET o == IF "trace" \in opt THEN opt \cup {"headless"} ELSE opt
         status == IF "headless" \notin o /\ ~OneShot(o) /\ "tty" \notin o THEN 2
                   ELSE IF "headless" \in o /\ o \cap {"metrics", "log", "trace"} = {} THEN 1
                   ELSE NoStatus IN
       /\ opt' = o
       /\ rc' = status
       /\ mainPc' = IF status = NoStatus THEN "producer" ELSE "return"
  /\ UNCHANGED <<args, up, freed, gstop, hits, screen, running, drawn, throws>>
  /\ UNCHANGED writerVars
-----------------------------------------------------------------------------
(***************************************************************************)
(* Starting the parts, in the order of main().  Each reads buffers that were *)
(* constructed before it.                                                   *)
(***************************************************************************)
Reads == [producer |-> {"buffers"}, trace |-> {"trace_buffers"},
          metrics |-> {"buffers", "trace_buffers"}, log |-> {"buffers", "trace_buffers"}]

Launch(part, wanted, next) ==
  /\ up' = IF wanted THEN up \cup {part} ELSE up
  /\ mainPc' = next
  /\ UNCHANGED <<args, opt, rc, freed, gstop, hits, screen, running, drawn, throws>>
  /\ UNCHANGED writerVars

StartProducer == mainPc = "producer" /\ Launch("producer", TRUE, "trace")

StartTrace == mainPc = "trace" /\ HasBpf(opt) /\ Launch("trace", "trace" \in opt, "oneshot")

\* a build without libbpf refuses --trace once the producer runs
RefuseTrace ==
  /\ mainPc = "trace" /\ ~HasBpf(opt)
  /\ mainPc' = IF "trace" \in opt THEN "unwind" ELSE "oneshot"
  /\ rc' = IF "trace" \in opt THEN 1 ELSE rc
  /\ UNCHANGED <<args, opt, up, freed, gstop, hits, screen, running, drawn, throws>>
  /\ UNCHANGED writerVars

StartMetrics == mainPc = "metrics" /\ Launch("metrics", "metrics" \in opt, "log")

StartLog == mainPc = "log" /\ Launch("log", "log" \in opt, "mode")

(***************************************************************************)
(* The modes that print and exit, in the order main() looks for them.        *)
(* --cpu-window, --regime, --anomalies and --similar leave by a return that  *)
(* stops nothing; an interrupted --regime window fails, as --similar may;    *)
(* --json stops the collector and the producer itself.  Their waits are      *)
(* bounded and end early when g_stop is set: Producer has what they wait     *)
(* for, Conclusions what they print.                                        *)
(***************************************************************************)
RunOneShot ==
  /\ mainPc = "oneshot"
  /\ IF ~OneShot(opt) THEN mainPc' = "metrics" /\ UNCHANGED <<rc, up>>
     ELSE IF "window" \in opt THEN mainPc' = "unwind" /\ rc' = 0 /\ up' = up
     ELSE IF "regime" \in opt
          THEN mainPc' = "unwind" /\ up' = up /\ rc' = IF gstop THEN 1 ELSE 0
     ELSE IF "anomalies" \in opt THEN mainPc' = "unwind" /\ rc' = 0 /\ up' = up
     ELSE IF "similar" \in opt THEN mainPc' = "unwind" /\ rc' \in {0, 1} /\ up' = up
     ELSE mainPc' = "unwind" /\ rc' = 0 /\ up' = up \ {"trace", "producer"}
  /\ UNCHANGED <<args, opt, freed, gstop, hits, screen, running, drawn, throws>>
  /\ UNCHANGED writerVars

(***************************************************************************)
(* Headless: after 500 ms a collector that failed to load ends the run with  *)
(* 1, the outputs left to their destructors; otherwise sleep until g_stop.   *)
(***************************************************************************)
ChooseMode ==
  /\ mainPc = "mode"
  /\ mainPc' = IF "headless" \in opt THEN "headless"
           ELSE IF "selftest" \in opt THEN "selftest" ELSE "enter"
  /\ UNCHANGED <<args, opt, rc, up, freed, gstop, hits, screen, running, drawn, throws>>
  /\ UNCHANGED writerVars

TraceFailed ==
  /\ mainPc = "headless" /\ "trace" \in up
  /\ up' = up \ {"trace", "producer"}
  /\ rc' = 1 /\ mainPc' = "unwind"
  /\ UNCHANGED <<args, opt, freed, gstop, hits, screen, running, drawn, throws>>
  /\ UNCHANGED writerVars

HeadlessStops ==
  /\ mainPc = "headless" /\ gstop
  /\ mainPc' = "stop_trace"
  /\ UNCHANGED <<gstop, hits, screen, running, drawn, throws>>
  /\ UNCHANGED mainVars /\ UNCHANGED writerVars

\* the self-test only watches the clock: it neither looks at g_stop nor stops the outputs
SelfTest ==
  /\ mainPc = "selftest"
  /\ up' = up \ {"producer"}
  /\ rc' = 0 /\ mainPc' = "unwind"
  /\ UNCHANGED <<args, opt, freed, gstop, hits, screen, running, drawn, throws>>
  /\ UNCHANGED writerVars
-----------------------------------------------------------------------------
(***************************************************************************)
(* The terminal session: wait for the first publication, enter the screen,   *)
(* start the writer thread, draw frames until g_stop.                        *)
(***************************************************************************)
EnterScreen ==
  /\ mainPc = "enter"
  /\ screen' = "ui"
  /\ running' = TRUE /\ wr' = "check"
  /\ mainPc' = "loop"
  /\ UNCHANGED <<gstop, hits, drawn, throws, queue, chunk, shown, lost>>
  /\ UNCHANGED mainVars

\* enqueue_frame(): drop the oldest frames of a full queue; only with the lock
Enqueued(q, f) ==
  Append(IF Len(q) >= MaxQueuedFrames
         THEN SubSeq(q, Len(q) - MaxQueuedFrames + 2, Len(q)) ELSE q, f)

Woken(w) == IF w = "wait" THEN "check" ELSE w

Frame ==
  /\ mainPc = "loop" /\ ~gstop /\ drawn < MaxFrames
  /\ wr # "sleep"                              \* the writer holds g_writer_mtx
  /\ drawn' = drawn + 1
  /\ queue' = Enqueued(queue, drawn')
  /\ wr' = Woken(wr)
  /\ \E quit \in BOOLEAN : gstop' = quit       \* the q key
  /\ UNCHANGED <<mainPc, hits, screen, running, throws, chunk, shown, lost>>
  /\ UNCHANGED mainVars

LoopEnds ==
  /\ mainPc = "loop" /\ (gstop \/ drawn = MaxFrames)
  /\ mainPc' = "stop_trace"
  /\ UNCHANGED <<gstop, hits, screen, running, drawn, throws>>
  /\ UNCHANGED mainVars /\ UNCHANGED writerVars

(***************************************************************************)
(* writer_loop().  "check" evaluates the predicate under the lock; "sleep"   *)
(* is the moment between a false predicate and the wait, the lock still      *)
(* held; a notification reaches the thread only in "wait".                   *)
(***************************************************************************)
WriterChecks ==
  /\ wr = "check"
  /\ IF queue # <<>>
     THEN wr' = "write" /\ chunk' = Head(queue) /\ queue' = Tail(queue)
     ELSE wr' = (IF running THEN "sleep" ELSE "gone") /\ UNCHANGED <<chunk, queue>>
  /\ UNCHANGED <<mainPc, gstop, hits, screen, running, drawn, throws, shown, lost>>
  /\ UNCHANGED mainVars

WriterSleeps ==
  /\ wr = "sleep" /\ wr' = "wait"
  /\ UNCHANGED <<mainPc, gstop, hits, screen, running, drawn, throws, queue, chunk, shown, lost>>
  /\ UNCHANGED mainVars

\* a short write is resumed, EINTR and EAGAIN retried; any other error drops the rest
WriterWrites ==
  /\ wr = "write" /\ wr' = "check"
  /\ \/ shown' = Append(shown, chunk) /\ lost' = lost
     \/ lost' = lost \cup {chunk} /\ shown' = shown
  /\ UNCHANGED <<mainPc, gstop, hits, screen, running, drawn, throws, queue, chunk>>
  /\ UNCHANGED mainVars
-----------------------------------------------------------------------------
(***************************************************************************)
(* Teardown: the collector, the outputs, the producer, then the writer.      *)
(***************************************************************************)
StopPart(at, part, next) ==
  /\ mainPc = at
  /\ up' = up \ {part} /\ mainPc' = next
  /\ UNCHANGED <<args, opt, rc, freed, gstop, hits, screen, running, drawn, throws>>
  /\ UNCHANGED writerVars

StopTrace    == StopPart("stop_trace", "trace", "stop_log")
StopLog      == StopPart("stop_log", "log", "stop_metrics")
StopMetrics  == StopPart("stop_metrics", "metrics", "stop_producer")
StopProducer == StopPart("stop_producer", "producer",
                         IF "headless" \in opt THEN "return0" ELSE "writer_flag")

\* stop_async_writer(): the flag is cleared without the lock, then everyone is notified
WriterFlag ==
  /\ mainPc = "writer_flag"
  /\ running' = FALSE /\ mainPc' = "writer_notify"
  /\ UNCHANGED <<gstop, hits, screen, drawn, throws>>
  /\ UNCHANGED mainVars /\ UNCHANGED writerVars

\* Mutant: the writer is not notified.
WriterNotifyNot ==
  /\ mainPc = "writer_notify"
  /\ mainPc' = "writer_join"
  /\ UNCHANGED <<gstop, hits, screen, running, drawn, throws, queue, wr, chunk, shown, lost>>
  /\ UNCHANGED mainVars

WriterNotify ==
  /\ mainPc = "writer_notify"
  /\ wr' = Woken(wr) /\ mainPc' = "writer_join"
  /\ UNCHANGED <<gstop, hits, screen, running, drawn, throws, queue, chunk, shown, lost>>
  /\ UNCHANGED mainVars

WriterJoin ==
  /\ mainPc = "writer_join" /\ wr = "gone"
  /\ queue' = <<>> /\ mainPc' = "return0"
  /\ UNCHANGED <<gstop, hits, screen, running, drawn, throws, wr, chunk, shown, lost>>
  /\ UNCHANGED mainVars

ReturnZero ==
  /\ mainPc = "return0" /\ mainPc' = "unwind" /\ rc' = 0
  /\ UNCHANGED <<args, opt, up, freed, gstop, hits, screen, running, drawn, throws>>
  /\ UNCHANGED writerVars

\* Mutant: the buffers are declared last and destroyed first.
LocalsBuffersFirst == <<"buffers", "screen", "log", "metrics", "trace", "trace_buffers", "producer">>

(***************************************************************************)
(* Leaving the try block: the locals of main() are destroyed in the reverse  *)
(* of their construction, each part's destructor stopping its thread; the    *)
(* guards put the screen back.  One local per step.                          *)
(***************************************************************************)
Locals == <<"screen", "log", "metrics", "trace", "trace_buffers", "producer", "buffers">>

Alive(l) == IF l = "screen" THEN screen = "ui"
            ELSE IF l \in {"buffers", "trace_buffers"} THEN l \notin freed ELSE l \in up

Unwind ==
  /\ mainPc \in {"unwind", "catch"}
  /\ \/ /\ \A i \in DOMAIN Locals : ~Alive(Locals[i])
        /\ mainPc' = "return" /\ UNCHANGED <<up, freed, screen>>
     \/ /\ \E i \in DOMAIN Locals :
             /\ Alive(Locals[i]) /\ \A j \in 1 .. (i - 1) : ~Alive(Locals[j])
             /\ up' = up \ {Locals[i]}
             /\ freed' = freed \cup ({Locals[i]} \cap {"buffers", "trace_buffers"})
             /\ screen' = IF Locals[i] = "screen" THEN "plain" ELSE screen
        /\ UNCHANGED mainPc
  /\ UNCHANGED <<args, opt, rc, gstop, hits, running, drawn, throws>>
  /\ UNCHANGED writerVars

\* an exception inside the try block: unwind, restore the terminal, report, return 1
Throw ==
  /\ throws < MaxThrows
  /\ mainPc \in {"producer", "trace", "oneshot", "metrics", "log", "mode", "enter", "loop"}
  /\ throws' = throws + 1
  /\ mainPc' = "catch" /\ rc' = 1
  /\ UNCHANGED <<args, opt, up, freed, gstop, hits, screen, running, drawn>>
  /\ UNCHANGED writerVars

\* after main(): atexit handlers restore the screen, then static destructors run:
\* the destructor of a std::thread that is still joinable calls std::terminate
Exit ==
  /\ mainPc = "return"
  /\ mainPc' = "exited"
  /\ screen' = "plain"
  /\ rc' = IF wr # "off" /\ running THEN 134 ELSE rc
  /\ UNCHANGED <<args, opt, up, freed, gstop, hits, running, drawn, throws>>
  /\ UNCHANGED writerVars

\* on_sigint(): the first restores the screen and asks for a stop, the second ends it
Interrupt ==
  /\ mainPc # "exited" /\ hits < 2
  /\ hits' = hits + 1
  /\ IF hits = 0 THEN gstop' = TRUE /\ UNCHANGED <<mainPc, rc>>
     ELSE mainPc' = "exited" /\ rc' = 130 /\ gstop' = gstop
  /\ screen' = "plain"
  /\ UNCHANGED <<args, opt, up, freed, running, drawn, throws>>
  /\ UNCHANGED writerVars

Ended == mainPc = "exited" /\ UNCHANGED sessionVars
-----------------------------------------------------------------------------
SessionInit ==
  /\ args \in CommandLines /\ opt = {} /\ mainPc = "args" /\ rc = NoStatus
  /\ up = {} /\ freed = {} /\ gstop = FALSE /\ hits = 0 /\ screen = "plain"
  /\ wr = "off" /\ running = FALSE /\ queue = <<>> /\ chunk = 0
  /\ drawn = 0 /\ shown = <<>> /\ lost = {} /\ throws = 0

MainStep ==
  \/ ParseArgument \/ Guards \/ StartProducer \/ StartTrace \/ RefuseTrace
  \/ StartMetrics \/ StartLog \/ RunOneShot \/ ChooseMode \/ TraceFailed
  \/ HeadlessStops \/ SelfTest \/ EnterScreen \/ Frame \/ LoopEnds
  \/ StopTrace \/ StopLog \/ StopMetrics \/ StopProducer
  \/ WriterFlag \/ WriterNotify \/ WriterJoin \/ ReturnZero \/ Unwind \/ Exit
WriterStep == mainPc # "exited" /\ (WriterChecks \/ WriterSleeps \/ WriterWrites)

SessionNext == MainStep \/ WriterStep \/ Throw \/ Interrupt \/ Ended

\* both threads run
SessionFairness == WF_sessionVars(MainStep) /\ WF_sessionVars(WriterStep)
SessionSpec == SessionInit /\ [][SessionNext]_sessionVars /\ SessionFairness
-----------------------------------------------------------------------------
(***************************************************************************)
(* No part outlives the buffers it reads, on any way out of main(): the      *)
(* early returns of the one-shot modes and of a collector that failed leave  *)
(* running threads to destructors, so the order of the locals is what keeps  *)
(* the server and the log writer from reading freed snapshots.               *)
(***************************************************************************)
NoPartOutlivesBuffers == \A p \in up : Reads[p] \cap freed = {}

(***************************************************************************)
(* A session that ends in order shows its last frame: the queue may have     *)
(* dropped older ones, but the newest is written unless its write failed,    *)
(* and what was shown is in the order it was drawn.  stop_async_writer()     *)
(* clears the queue only after writer_loop() has emptied it.                 *)
(***************************************************************************)
LastFrameIsShown ==
  /\ \A i \in 1..Len(shown), j \in 1..Len(shown) : i < j => shown[i] < shown[j]
  /\ rc = 0 /\ mainPc = "exited" /\ drawn > 0 => drawn \in Range(shown) \cup lost

\* Whatever way main() is left, the parts go before what they read and the last
\* frame before the terminal is given back.
EndsInOrder == NoPartOutlivesBuffers /\ LastFrameIsShown

(***************************************************************************)
(* The comment at the handler: "Safety net: catch any unhandled exceptions   *)
(* to prevent crashes".  A process that caught its exception exits with 1.   *)
(***************************************************************************)
CaughtIsNoCrash == mainPc = "exited" => rc # 134

(***************************************************************************)
(* A stop that is asked for is carried out, whatever mode the process is in, *)
(* with one exception: stop_async_writer() clears its flag without the lock, *)
(* so the notification may fall between the writer's check and its wait, and *)
(* the join then never returns (until a second interrupt).                   *)
(***************************************************************************)
LostWakeup == mainPc = "writer_join" /\ wr \in {"sleep", "wait"}
StopEnds == gstop ~> (mainPc = "exited" \/ LostWakeup)

\* A writer that already waits when stop_async_writer() notifies is woken, so
\* that the join returns and the process ends.
NotifiedStopEnds == (mainPc = "writer_notify" /\ wr = "wait") ~> mainPc = "exited"

\* The process ends when it is asked to, but for the lost notification.
StopEndsOrWakeupLost == StopEnds /\ NotifiedStopEnds
=============================================================================
