------------------------------ MODULE Producer ------------------------------
(***************************************************************************)
(* Producer::run (src/app/Producer.cpp): one thread samples every          *)
(* collector on its own cadence into the back buffer and publishes it, and *)
(* the one-shot modes of main.cpp (--json, --anomalies, --similar) wait    *)
(* for a process sample taken over a usable window before they read.       *)
(*                                                                         *)
(* publish() is one step here: DoubleBuffer is shown to be an atomic       *)
(* register.  The two buffers are kept apart, for publish() does not copy  *)
(* one into the other: a member that was not sampled in this pass holds    *)
(* what it was given two publishes ago.  Time is counted in ticks.         *)
(***************************************************************************)
EXTENDS Naturals, Sequences, FiniteSets, FiniteSetsExt

CONSTANTS Tasks,        \* the collectors, each with its next_* variable
          Proc,         \* the process collector
          Watched,      \* those whose next_* is in next_due's min()
          Silent,       \* due, but disabled: does not set ran (the PMU)
          Interval,     \* the *_interval constants, in ticks
          PubInterval,  \* pub_interval
          MinSleep, MaxSleep,   \* the clamp on sleep_for
          MaxLate,      \* bound: how late the scheduler wakes a sleeper
          MaxWork,      \* bound: how long a pass's sampling takes
          WarmSamples,  \* process samples of the warm-up, first read included
          Horizon       \* bound: the clock

ASSUME ProducerAssumption ==
  /\ Proc \in Tasks /\ Watched \subseteq Tasks /\ Silent \subseteq Tasks
  /\ Interval \in [Tasks -> Nat \ {0}]
  /\ {MinSleep, MaxSleep, MaxLate, MaxWork, Horizon} \subseteq Nat /\ PubInterval \in Nat \ {0}
  /\ MinSleep <= MaxSleep
  /\ WarmSamples \in Nat \ {0}

VARIABLES clock,      \* steady_clock
          pc,         \* where run() is
          now,        \* the pass's now
          next,       \* next_cpu ... next_nvml
          nextPub,    \* next_pub
          publishing, \* ran || time_to_publish || nvml_ran
          lastAt,     \* when each collector was sampled last
          lastPub,    \* when publish() was called last
          procAt,     \* when each process sample was taken; its length is process_samples_
          procs,      \* which process sample each buffer holds (0: none)
          seq,        \* publishes so far
          cpc,        \* where the one-shot mode is
          warm,       \* warm_samples
          settled,    \* settled_seq
          gaveUp,     \* did one of its waits run out?
          result      \* the process sample in the snapshot it read

producerVars == <<pc, now, next, nextPub, publishing, lastAt, lastPub, procAt, procs, seq>>
consumerVars == <<cpc, warm, settled, gaveUp, result>>
samplingVars == <<clock, producerVars, consumerVars>>

process_samples == Len(procAt)
Buffer(n) == n % 2                 \* the buffer that publish number n makes live
Back == Buffer(seq + 1)

ProducerInit ==
  /\ clock = 0
  /\ pc = "warmup"
  /\ now = 0
  /\ next = [t \in Tasks |-> 0]
  /\ nextPub = PubInterval
  /\ publishing = FALSE
  /\ lastAt = [t \in Tasks |-> 0]
  /\ lastPub = 0
  /\ procAt = <<>>
  /\ procs = [b \in 0..1 |-> 0]
  /\ seq = 0
  /\ cpc = "warm"
  /\ warm = 0
  /\ settled = 0
  /\ gaveUp = FALSE
  /\ result = 0
-----------------------------------------------------------------------------
\* Time passes inside a step of the Producer; a consumer may act between any two.
Takes(d) == clock' = clock + d

\* HOT start: a first read of everything and a few process samples a kernel
\* tick apart, fewer when the time budget runs out ...
WarmSample ==
  /\ pc = "warmup"
  /\ process_samples < WarmSamples
  /\ \E d \in 0..MaxWork : Takes(d)
  /\ procAt' = Append(procAt, clock')
  /\ procs' = [procs EXCEPT ![Back] = process_samples + 1]
  /\ lastAt' = [t \in Tasks |->
                  IF process_samples = 0 \/ t = Proc THEN clock' ELSE lastAt[t]]
  /\ UNCHANGED <<pc, now, next, nextPub, publishing, lastPub, seq, consumerVars>>

\* ... then the first publish.
WarmPublish ==
  /\ pc = "warmup"
  /\ process_samples > 0
  /\ seq' = seq + 1
  /\ lastPub' = clock
  /\ pc' = "pass"
  /\ UNCHANGED <<clock, now, next, nextPub, publishing, lastAt, procAt, procs, consumerVars>>

\* while (!st.stop_requested()) { auto now = steady_clock::now(); ...
BeginPass ==
  /\ pc = "pass"
  /\ clock < Horizon
  /\ now' = clock
  /\ pc' = "sample"
  /\ UNCHANGED <<clock, next, nextPub, publishing, lastAt, lastPub, procAt, procs, seq, consumerVars>>

Due == {t \in Tasks : now >= next[t]}

\* next_t = now + t_interval: a late pass shifts the schedule.
Reschedule(t) == now + Interval[t]

TimeToPublish == now >= nextPub

\* Sample whatever is due into the back buffer; process_samples_ is
\* incremented before the publish that carries the sample.
SampleDue ==
  /\ pc = "sample"
  /\ \E d \in 0..MaxWork : Takes(d)
  /\ next' = [t \in Tasks |-> IF t \in Due THEN Reschedule(t) ELSE next[t]]
  /\ lastAt' = [t \in Tasks |-> IF t \in Due THEN clock' ELSE lastAt[t]]
  /\ IF Proc \in Due
     THEN /\ procAt' = Append(procAt, clock')
          /\ procs' = [procs EXCEPT ![Back] = process_samples + 1]
     ELSE UNCHANGED <<procAt, procs>>
  /\ nextPub' = IF TimeToPublish THEN now + PubInterval ELSE nextPub
  /\ publishing' = (Due \ Silent # {} \/ TimeToPublish)
  /\ pc' = "finish"
  /\ UNCHANGED <<now, lastPub, seq, consumerVars>>

\* Alerts, churn, attribution, anomalies, histories, then publish().
Publish ==
  /\ pc = "finish"
  /\ publishing
  /\ seq' = seq + 1
  /\ lastPub' = clock
  /\ pc' = "sleep"
  /\ UNCHANGED <<clock, now, next, nextPub, publishing, lastAt, procAt, procs, consumerVars>>

NothingToPublish ==
  /\ pc = "finish"
  /\ ~publishing
  /\ pc' = "sleep"
  /\ UNCHANGED <<clock, now, next, nextPub, publishing, lastAt, lastPub, procAt, procs, seq, consumerVars>>

NextDue == Min({next[t] : t \in Watched} \cup {nextPub})

\* Mutant: sleep until something is due, with no upper bound.
SleepForUnbounded == Max({NextDue - clock, MinSleep})

\* sleep_for, clamped; NextDue may already be past.
SleepFor ==
  IF NextDue < clock + MinSleep THEN MinSleep
  ELSE IF NextDue > clock + MaxSleep THEN MaxSleep ELSE NextDue - clock

Sleep ==
  /\ pc = "sleep"
  /\ \E late \in 0..MaxLate : Takes(SleepFor + late)
  /\ pc' = "pass"
  /\ UNCHANGED <<now, next, nextPub, publishing, lastAt, lastPub, procAt, procs, seq, consumerVars>>

\* main() calls producer.stop() once it has printed its answer.
Stop ==
  /\ pc = "pass"
  /\ cpc = "done"
  /\ pc' = "stopped"
  /\ UNCHANGED <<clock, now, next, nextPub, publishing, lastAt, lastPub, procAt, procs, seq, consumerVars>>
-----------------------------------------------------------------------------
(***************************************************************************)
(* The one-shot modes.                                                     *)
(***************************************************************************)

\* Mutant: wait for the first publish only.
WarmedUpOnce == seq >= 1

\* while buffers.seq() < 2
WarmedUp == seq >= 2

WaitWarm ==
  /\ cpc = "warm"
  /\ WarmedUp
  /\ cpc' = "baseline"
  /\ UNCHANGED <<clock, producerVars, warm, settled, gaveUp, result>>

TakeBaseline ==
  /\ cpc = "baseline"
  /\ warm' = process_samples
  /\ cpc' = "sample"
  /\ UNCHANGED <<clock, producerVars, settled, gaveUp, result>>

WaitSample ==
  /\ cpc = "sample"
  /\ process_samples > warm
  /\ cpc' = "sampled"
  /\ UNCHANGED <<clock, producerVars, warm, settled, gaveUp, result>>

TakeSettled ==
  /\ cpc = "sampled"
  /\ settled' = seq
  /\ cpc' = "settle"
  /\ UNCHANGED <<clock, producerVars, warm, gaveUp, result>>

WaitPublish ==
  /\ cpc = "settle"
  /\ seq > settled
  /\ cpc' = "read"
  /\ UNCHANGED <<clock, producerVars, warm, settled, gaveUp, result>>

\* A wait also ends when its spins run out or on g_stop (a signal, at any
\* time), and main goes on all the same.
GiveUp ==
  /\ cpc \in {"warm", "sample", "settle"}
  /\ cpc' = CASE cpc = "warm" -> "baseline" [] cpc = "sample" -> "sampled"
              [] cpc = "settle" -> "read"
  /\ gaveUp' = TRUE
  /\ UNCHANGED <<clock, producerVars, warm, settled, result>>

Read ==
  /\ cpc = "read"
  /\ result' = procs[Buffer(seq)]
  /\ cpc' = "done"
  /\ UNCHANGED <<clock, producerVars, warm, settled, gaveUp>>
-----------------------------------------------------------------------------
ProducerStep ==
  \/ WarmSample \/ WarmPublish
  \/ BeginPass \/ SampleDue \/ Publish \/ NothingToPublish \/ Sleep \/ Stop

ConsumerStep ==
  WaitWarm \/ TakeBaseline \/ WaitSample \/ TakeSettled \/ WaitPublish \/ GiveUp \/ Read

ProducerNext == ProducerStep \/ ConsumerStep

ProducerSpec == ProducerInit /\ [][ProducerNext]_samplingVars
-----------------------------------------------------------------------------
(***************************************************************************)
(* Properties.                                                             *)
(***************************************************************************)

\* The longest a pass can take from one reading of the clock to the next.
PassTime == MaxWork + MaxSleep + MaxLate

(***************************************************************************)
(* Nothing starves: when a steady pass begins, each collector was sampled   *)
(* within its interval and one pass of now, also fs and nvml, whose         *)
(* deadlines are not among those run() sleeps for; and consumers got a new  *)
(* snapshot within pub_interval and one pass, even when no collector was    *)
(* due ("stable rhythm independent of collector jitter").                   *)
(***************************************************************************)
SampledOnTime ==
  pc = "sample" /\ seq >= 2 =>
    /\ \A t \in Tasks : now < lastAt[t] + Interval[t] + PassTime
    /\ now < lastPub + PubInterval + PassTime

(***************************************************************************)
(* The process sample a one-shot mode waits for covers a whole             *)
(* kProcessInterval (less MaxWork, as above), never one of the warm-up's   *)
(* tick-wide windows (Producer.hpp:62-68), unless a wait ran out.          *)
(***************************************************************************)
AwaitedSampleIsSteady ==
  cpc \in {"sampled", "settle", "read", "done"} /\ ~gaveUp =>
    \A i \in warm + 1 .. process_samples :
      procAt[i] + MaxWork >= procAt[i - 1] + Interval[Proc]

(***************************************************************************)
(* main.cpp:490-492: "Wait for a steady-loop sample, which only lands a    *)
(* full kProcessInterval later, then for the publish that carries it."     *)
(***************************************************************************)
ReadCarriesAwaitedSample == cpc = "done" /\ ~gaveUp => result > warm
=============================================================================
