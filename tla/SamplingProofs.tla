--------------------------- MODULE SamplingProofs ---------------------------
(***************************************************************************)
(* Proofs about the sampling thread (Producer), the hourly log of what it     *)
(* publishes (HourLog), the process collectors (ProcessRows), the one-shot    *)
(* conclusions (Conclusions), the attribution of the GPU (GpuAttribution) and *)
(* the hardware counters (PmuCounters), for every cadence, clock, population, *)
(* machine and number of failures.                                           *)
(***************************************************************************)
EXTENDS Producer, HourLog, ProcessRows, Conclusions, GpuAttribution, PmuCounters, SetInduction,
        FiniteSetTheorems

-----------------------------------------------------------------------------
(* Producer.                                                                *)

ProducerTypeOK ==
  /\ clock \in Nat /\ now \in Nat /\ nextPub \in Nat /\ lastPub \in Nat
  /\ seq \in Nat /\ warm \in Nat /\ settled \in Nat
  /\ pc \in {"warmup", "pass", "sample", "finish", "sleep", "stopped"}
  /\ next \in [Tasks -> Nat] /\ lastAt \in [Tasks -> Nat]
  /\ publishing \in BOOLEAN /\ gaveUp \in BOOLEAN
  /\ procAt \in Seq(Nat) /\ procs \in [0..1 -> Nat]
  /\ cpc \in {"warm", "baseline", "sample", "sampled", "settle", "read", "done"}

\* No deadline lies further ahead than one interval from what it is about.
DeadlinesAreNear ==
  /\ \A t \in Tasks : next[t] <= lastAt[t] + Interval[t]
  /\ nextPub <= clock + PubInterval
  /\ (pc = "finish" /\ publishing) \/ nextPub <= lastPub + PubInterval

\* A pass leaves nothing due behind, and the clock is no further than the
\* pass, or the pass and a sleep, can have taken it.
PassIsOver(spent) ==
  clock <= now + spent /\ now < nextPub /\ \A t \in Tasks : now < next[t]

\* What was not due in the last pass is due in this one at the latest.
PassIsNext == now < nextPub + PassTime /\ \A t \in Tasks : now < next[t] + PassTime

\* The steady passes: seq is 1 from the warm-up's publish to the first pass's.
Steady ==
  /\ now <= clock /\ lastPub <= clock
  /\ pc = "warmup" => seq = 0 /\ \A t \in Tasks : next[t] = 0
  /\ pc \in {"finish", "sleep"} => PassIsOver(MaxWork)
  /\ pc = "pass" /\ seq >= 2 => PassIsOver(PassTime)
  /\ pc = "sample" => clock = now /\ (seq >= 2 => PassIsNext)

\* Once the process collector has a deadline, it has a sample that is one
\* interval, less the work of a pass, older than the deadline.
Spaced(i) == procAt[i] + MaxWork >= procAt[i - 1] + Interval[Proc]
DeadlineIsSpaced ==
  /\ seq >= 2 \/ pc \in {"finish", "sleep"} => next[Proc] > 0
  /\ next[Proc] > 0 => /\ process_samples > 0
                       /\ procAt[process_samples] + Interval[Proc] <= next[Proc] + MaxWork

\* A one-shot mode that has not given up took its baseline in steady passes.
BaselineIsSteady ==
  ~gaveUp =>
    /\ cpc # "warm" => seq >= 2
    /\ cpc \notin {"warm", "baseline"} =>
         warm > 0 /\ \A i \in warm + 1 .. process_samples : Spaced(i)

ProducerInv == /\ ProducerTypeOK /\ DeadlinesAreNear /\ Steady
               /\ DeadlineIsSpaced /\ BaselineIsSteady

\* The sleep is a number of ticks within the clamp, whatever is due next.
LEMMA SleepIsClamped ==
  ASSUME ProducerTypeOK
  PROVE  SleepFor \in Nat /\ SleepFor <= MaxSleep
<1> DEFINE Deadlines == {next[t] : t \in Watched} \cup {nextPub}
<1>1. Deadlines \in SUBSET Nat /\ Deadlines # {}
  BY ProducerAssumption DEF ProducerTypeOK
<1>2. \E least \in Deadlines : \A y \in Deadlines : least <= y
  BY <1>1, LeastNatural
<1>3. NextDue \in Deadlines
  BY <1>2 DEF NextDue, Min
<1>4. NextDue \in Nat /\ clock \in Nat
  BY <1>1, <1>3 DEF ProducerTypeOK
<1>5. QED
  BY <1>4, ProducerAssumption DEF SleepFor

\* A bound that grows with the clock holds later too.
LEMMA LaterBound == \A x, y, z, w \in Nat : x <= y + w /\ y <= z => x <= z + w
  OBVIOUS

LEMMA ProducerStarts == ProducerInit => ProducerInv
<1> SUFFICES ASSUME ProducerInit PROVE ProducerInv
  OBVIOUS
<1> USE ProducerAssumption DEF ProducerInit
<1>1. ProducerTypeOK
  <2>1. procAt \in Seq(Nat)
    OBVIOUS
  <2>2. next \in [Tasks -> Nat] /\ lastAt \in [Tasks -> Nat] /\ procs \in [0..1 -> Nat]
    OBVIOUS
  <2>3. QED
    BY <2>1, <2>2 DEF ProducerTypeOK
<1>2. DeadlinesAreNear /\ Steady /\ DeadlineIsSpaced /\ BaselineIsSteady
  BY DEF DeadlinesAreNear, Steady, DeadlineIsSpaced, BaselineIsSteady
<1>3. QED
  BY <1>1, <1>2 DEF ProducerInv

\* A one-shot mode moves no clock, no deadline and no sample.
LEMMA ConsumerKeeps == ProducerInv /\ ConsumerStep => ProducerInv'
<1> SUFFICES ASSUME ProducerInv, ConsumerStep PROVE ProducerInv'
  OBVIOUS
<1> USE DEF ProducerInv
<1>1. UNCHANGED <<clock, producerVars>>
  BY DEF ConsumerStep, WaitWarm, TakeBaseline, WaitSample, TakeSettled, WaitPublish, GiveUp, Read
<1>2. ProducerTypeOK'
  <2> USE <1>1 DEF ProducerTypeOK, producerVars, process_samples
  <2>1. CASE WaitWarm \/ WaitSample \/ WaitPublish \/ Read
    BY <2>1 DEF WaitWarm, WaitSample, WaitPublish, Read
  <2>2. CASE TakeBaseline \/ TakeSettled
    BY <2>2 DEF TakeBaseline, TakeSettled
  <2>3. CASE GiveUp
    BY <2>3 DEF GiveUp
  <2>4. QED
    BY <2>1, <2>2, <2>3 DEF ConsumerStep
<1>3. DeadlinesAreNear'
  BY <1>1 DEF DeadlinesAreNear, producerVars
<1>4. Steady'
  BY <1>1 DEF Steady, PassIsOver, PassIsNext, producerVars
<1>5. DeadlineIsSpaced'
  BY <1>1 DEF DeadlineIsSpaced, producerVars, process_samples
<1>6. BaselineIsSteady'
  <2> USE <1>1 DEF BaselineIsSteady, producerVars, process_samples, Spaced, ProducerTypeOK
  <2>1. CASE WaitWarm
    BY <2>1 DEF WaitWarm, WarmedUp
  <2>2. CASE TakeBaseline
    BY <2>2, ProducerAssumption DEF TakeBaseline, DeadlineIsSpaced
  <2>3. CASE WaitSample \/ TakeSettled \/ WaitPublish \/ GiveUp \/ Read
    BY <2>3 DEF WaitSample, TakeSettled, WaitPublish, GiveUp, Read
  <2>4. QED
    BY <2>1, <2>2, <2>3 DEF ConsumerStep
<1>7. QED
  BY <1>2, <1>3, <1>4, <1>5, <1>6

\* The warm-up reads every collector once and publishes before any deadline.
LEMMA WarmupKeeps == ProducerInv /\ (WarmSample \/ WarmPublish) => ProducerInv'
<1> SUFFICES ASSUME ProducerInv, WarmSample \/ WarmPublish PROVE ProducerInv'
  OBVIOUS
<1> USE ProducerAssumption DEF ProducerInv
<1>1. ASSUME WarmSample PROVE ProducerInv'
  <2>1. PICK d \in 0 .. MaxWork : clock' = clock + d
    BY <1>1 DEF WarmSample, Takes
  <2>2. clock \in Nat /\ clock' \in Nat /\ clock' >= clock /\ pc = "warmup" /\ pc' = "warmup"
    BY <1>1, <2>1 DEF ProducerTypeOK, WarmSample
  <2>3. UNCHANGED <<now, next, nextPub, publishing, lastPub, seq, cpc, warm, settled, gaveUp>>
    BY <1>1 DEF WarmSample, consumerVars
  <2>4. procAt' \in Seq(Nat) /\ procs' \in [0..1 -> Nat]
    <3>1. procAt' = Append(procAt, clock') /\ procAt \in Seq(Nat)
      BY <1>1 DEF WarmSample, ProducerTypeOK
    <3>2. procs' = [procs EXCEPT ![Back] = Len(procAt) + 1] /\ procs \in [0..1 -> Nat]
      BY <1>1 DEF WarmSample, ProducerTypeOK, process_samples
    <3>3. procAt' \in Seq(Nat) /\ Len(procAt) + 1 \in Nat
      BY <2>2, <3>1
    <3>4. QED
      BY <3>2, <3>3
  <2>5. /\ lastAt' \in [Tasks -> Nat]
        /\ \A t \in Tasks : lastAt'[t] = clock' \/ lastAt'[t] = lastAt[t]
    <3>1. lastAt' = [t \in Tasks |-> IF process_samples = 0 \/ t = Proc THEN clock' ELSE lastAt[t]]
      BY <1>1 DEF WarmSample
    <3>2. lastAt \in [Tasks -> Nat]
      BY DEF ProducerTypeOK
    <3> HIDE DEF ProducerInv
    <3>3. QED
      BY <3>1, <3>2, <2>2
  <2>6. seq = 0 /\ next[Proc] \in Nat /\ \A t \in Tasks : next[t] = 0
    BY <2>2 DEF Steady, ProducerTypeOK
  <2>7. ProducerTypeOK'
    BY <2>2, <2>3, <2>4, <2>5 DEF ProducerTypeOK
  <2>8. DeadlinesAreNear'
    <3>1. \A t \in Tasks : next'[t] <= lastAt'[t] + Interval[t]
      BY <2>2, <2>3, <2>5, <2>6, ProducerAssumption, SMTT(30) DEF ProducerTypeOK
    <3>2. nextPub <= clock + PubInterval /\ nextPub <= lastPub + PubInterval
      BY <2>2 DEF DeadlinesAreNear
    <3>3. nextPub' <= clock' + PubInterval /\ nextPub' <= lastPub' + PubInterval
      <4>1. /\ nextPub \in Nat /\ clock \in Nat /\ clock' \in Nat /\ PubInterval \in Nat
            /\ nextPub' = nextPub /\ lastPub' = lastPub /\ clock <= clock'
        BY <2>2, <2>3, ProducerAssumption DEF ProducerTypeOK
      <4>2. nextPub <= clock' + PubInterval
        BY <3>2, <4>1, LaterBound, Zenon
      <4>3. QED
        BY <3>2, <4>1, <4>2, Zenon
    <3>4. QED
      BY <3>1, <3>3, Zenon DEF DeadlinesAreNear
  <2>9. Steady'
    BY <2>2, <2>3 DEF Steady, ProducerTypeOK
  <2>10. DeadlineIsSpaced' /\ BaselineIsSteady'
    BY <2>2, <2>3, <2>6 DEF DeadlineIsSpaced, BaselineIsSteady
  <2>11. QED
    BY <2>7, <2>8, <2>9, <2>10
<1>2. ASSUME WarmPublish PROVE ProducerInv'
  <2>1. UNCHANGED <<clock, now, next, nextPub, publishing, lastAt, procAt, procs,
                    cpc, warm, settled, gaveUp>>
        /\ pc = "warmup" /\ pc' = "pass" /\ seq' = seq + 1 /\ lastPub' = clock
    BY <1>2 DEF WarmPublish, consumerVars
  <2>2. seq = 0 /\ seq' = 1 /\ \A t \in Tasks : next[t] = 0
    BY <2>1 DEF Steady
  <2>3. ProducerTypeOK'
    BY <2>1, <2>2 DEF ProducerTypeOK
  <2>4. DeadlinesAreNear' /\ Steady'
    BY <2>1, <2>2 DEF ProducerTypeOK, DeadlinesAreNear, Steady
  <2>5. DeadlineIsSpaced' /\ BaselineIsSteady'
    BY <2>1, <2>2 DEF ProducerTypeOK, DeadlineIsSpaced, BaselineIsSteady
  <2>6. QED
    BY <2>3, <2>4, <2>5
<1>3. QED
  BY <1>1, <1>2

\* A steady pass: begin, sample what is due, publish, sleep.
LEMMA PassKeeps ==
  ProducerInv /\ (BeginPass \/ SampleDue \/ Publish \/ NothingToPublish \/ Sleep \/ Stop)
    => ProducerInv'
<1> SUFFICES ASSUME ProducerInv,
                    BeginPass \/ SampleDue \/ Publish \/ NothingToPublish \/ Sleep \/ Stop
             PROVE  ProducerInv'
  OBVIOUS
<1> USE DEF ProducerInv
<1> DEFINE Timed == <<next, nextPub, lastAt, procAt, procs>>
           Asked == <<cpc, warm, settled, gaveUp>>
<1>0. /\ Interval \in [Tasks -> Nat \ {0}] /\ PubInterval \in Nat \ {0} /\ Proc \in Tasks
      /\ MaxWork \in Nat /\ MaxSleep \in Nat /\ MaxLate \in Nat /\ PassTime \in Nat
      /\ PassTime >= MaxWork
  BY ProducerAssumption DEF PassTime
<1>1. CASE BeginPass
  <2>1. UNCHANGED <<clock, Timed, publishing, lastPub, seq, Asked>>
        /\ pc = "pass" /\ pc' = "sample" /\ now' = clock
    BY <1>1 DEF BeginPass, consumerVars
  <2>2. ProducerTypeOK' /\ DeadlinesAreNear'
    BY <2>1 DEF ProducerTypeOK, DeadlinesAreNear
  <2>3. Steady'
    BY <1>0, <2>1 DEF ProducerTypeOK, Steady, PassIsOver, PassIsNext
  <2>4. DeadlineIsSpaced' /\ BaselineIsSteady'
    BY <2>1 DEF DeadlineIsSpaced, BaselineIsSteady, process_samples, Spaced
  <2>5. QED
    BY <2>2, <2>3, <2>4
<1>2. CASE SampleDue
  <2>1. PICK d \in 0 .. MaxWork : clock' = clock + d
    BY <1>2 DEF SampleDue, Takes
  <2>2. UNCHANGED <<now, lastPub, seq, Asked>> /\ pc = "sample" /\ pc' = "finish"
    BY <1>2 DEF SampleDue, consumerVars
  <2>3. clock = now /\ now \in Nat /\ clock' \in Nat /\ now <= clock' /\ clock' <= now + MaxWork
    BY <1>0, <2>1, <2>2 DEF ProducerTypeOK, Steady
  <2>4. \A t \in Tasks : /\ next[t] \in Nat /\ lastAt[t] \in Nat /\ Interval[t] \in Nat \ {0}
                          /\ (t \in Due <=> now >= next[t])
    BY <1>0 DEF ProducerTypeOK, Due
  <2>5. next' = [t \in Tasks |-> IF t \in Due THEN now + Interval[t] ELSE next[t]]
        /\ lastAt' = [t \in Tasks |-> IF t \in Due THEN clock' ELSE lastAt[t]]
    BY <1>2 DEF SampleDue, Reschedule
  <2>6. next' \in [Tasks -> Nat] /\ lastAt' \in [Tasks -> Nat]
    <3> HIDE DEF ProducerInv
    <3> QED
      BY <2>3, <2>4, <2>5
  <2>7. \A t \in Tasks : now < next'[t] /\ next'[t] <= lastAt'[t] + Interval[t]
    BY <2>3, <2>4, <2>5 DEF DeadlinesAreNear
  <2>8. /\ publishing' \in BOOLEAN /\ nextPub' \in Nat /\ now < nextPub'
        /\ nextPub' = nextPub \/ (nextPub' = now + PubInterval /\ publishing')
    <3>1. /\ publishing' = (Due \ Silent # {} \/ TimeToPublish)
          /\ nextPub' = IF TimeToPublish THEN now + PubInterval ELSE nextPub
      BY <1>2 DEF SampleDue
    <3>2. nextPub \in Nat /\ (TimeToPublish <=> now >= nextPub)
      BY DEF ProducerTypeOK, TimeToPublish
    <3> HIDE DEF ProducerInv
    <3>3. publishing' \in BOOLEAN /\ (TimeToPublish => publishing')
      BY <3>1, Zenon
    <3>4. QED
      BY <1>0, <2>3, <3>1, <3>2, <3>3
  <2>9. nextPub' <= clock' + PubInterval
    <3>1. nextPub <= clock + PubInterval /\ nextPub \in Nat /\ clock \in Nat
      BY DEF DeadlinesAreNear, ProducerTypeOK
    <3>2. nextPub' = nextPub \/ nextPub' = now + PubInterval
      BY <2>8, Zenon
    <3>3. QED
      BY <1>0, <2>3, <3>1, <3>2
  <2>10. publishing' \/ nextPub' <= lastPub' + PubInterval
    <3>1. nextPub <= lastPub + PubInterval
      BY <2>2 DEF DeadlinesAreNear
    <3>2. nextPub' = nextPub => nextPub' <= lastPub' + PubInterval
      BY <2>2, <3>1
    <3>3. QED
      BY <2>8, <3>2, Zenon
  <2>11. procAt' \in Seq(Nat) /\ procs' \in [0..1 -> Nat]
    <3>1. procAt' = procAt \/ procAt' = Append(procAt, clock')
      BY <1>2 DEF SampleDue
    <3>2. procs' = procs \/ procs' = [procs EXCEPT ![Back] = Len(procAt) + 1]
      BY <1>2 DEF SampleDue, process_samples
    <3>3. procAt \in Seq(Nat) /\ procs \in [0..1 -> Nat]
      BY DEF ProducerTypeOK
    <3>4. procAt' \in Seq(Nat) /\ Len(procAt) + 1 \in Nat
      <4>1. clock' \in Nat
        BY <2>3
      <4>2. QED
        BY <3>1, <3>3, <4>1, SMTT(30)
    <3>5. QED
      BY <3>2, <3>3, <3>4
  <2>12. ProducerTypeOK'
    BY <2>2, <2>3, <2>6, <2>8, <2>11 DEF ProducerTypeOK
  <2>13. DeadlinesAreNear'
    BY <2>2, <2>7, <2>9, <2>10 DEF DeadlinesAreNear
  <2>14. Steady'
    BY <2>2, <2>3, <2>7, <2>8 DEF Steady, PassIsOver, ProducerTypeOK
  <2>15. next'[Proc] > 0 /\ next'[Proc] \in Nat /\ Interval[Proc] \in Nat
    BY <1>0, <2>3, <2>6, <2>7
  <2>16. CASE Proc \in Due
    <3>1. procAt' = Append(procAt, clock') /\ next'[Proc] = now + Interval[Proc] /\ now >= next[Proc]
      BY <1>0, <1>2, <2>4, <2>5, <2>16 DEF SampleDue
    <3>2. procAt \in Seq(Nat) /\ Len(procAt) \in Nat /\ Len(procAt') = Len(procAt) + 1
          /\ procAt'[Len(procAt')] = clock' /\ \A i \in 1 .. Len(procAt) : procAt'[i] = procAt[i]
      BY <2>3, <3>1 DEF ProducerTypeOK
    <3>3. DeadlineIsSpaced'
      BY <1>0, <2>3, <2>15, <3>1, <3>2 DEF DeadlineIsSpaced, process_samples
    <3>4. ASSUME seq >= 2
          PROVE  /\ Len(procAt) > 0
                 /\ clock' + MaxWork >= procAt[Len(procAt)] + Interval[Proc]
      BY <1>0, <2>3, <2>4, <3>1, <3>2, <3>4, SMTT(30) DEF DeadlineIsSpaced, process_samples
    <3>5. BaselineIsSteady'
      <4> SUFFICES ASSUME ~gaveUp', cpc' # "warm"
                   PROVE  /\ seq' >= 2
                          /\ cpc' # "baseline" => 
                               warm' > 0 /\ \A i \in warm' + 1 .. Len(procAt') : Spaced(i)'
        BY DEF BaselineIsSteady, process_samples
      <4>1. seq >= 2 /\ seq' >= 2
        BY <2>2 DEF BaselineIsSteady
      <4>2. ASSUME cpc' # "baseline", NEW i \in warm' + 1 .. Len(procAt') PROVE warm' > 0 /\ Spaced(i)'
        <5>1. warm \in Nat /\ warm' = warm /\ warm > 0
              /\ \A j \in warm + 1 .. Len(procAt) : Spaced(j)
          BY <2>2, <4>2 DEF BaselineIsSteady, ProducerTypeOK, process_samples
        <5>2. CASE i \in warm + 1 .. Len(procAt)
          <6>1. Spaced(i) /\ i \in 1 .. Len(procAt) /\ i - 1 \in 1 .. Len(procAt)
            BY <3>2, <5>1, <5>2
          <6>2. procAt'[i] = procAt[i] /\ procAt'[i - 1] = procAt[i - 1]
            BY <3>2, <6>1
          <6>3. QED
            BY <5>1, <6>1, <6>2 DEF Spaced
        <5>3. CASE i = Len(procAt')
          BY <3>2, <3>4, <4>1, <5>1, <5>3 DEF Spaced
        <5>4. QED
          BY <3>2, <5>1, <5>2, <5>3, SMTT(30)
      <4>3. QED
        BY <4>1, <4>2, <2>2 DEF BaselineIsSteady
    <3>6. QED
      BY <2>12, <2>13, <2>14, <3>3, <3>5
  <2>17. CASE Proc \notin Due
    <3>1. procAt' = procAt /\ next'[Proc] = next[Proc] /\ next[Proc] > now
      BY <1>0, <1>2, <2>3, <2>4, <2>5, <2>17 DEF SampleDue
    <3>2. DeadlineIsSpaced' /\ BaselineIsSteady'
      BY <2>2, <2>15, <3>1 DEF DeadlineIsSpaced, BaselineIsSteady, Spaced, process_samples
    <3>3. QED
      BY <2>12, <2>13, <2>14, <3>2
  <2>18. QED
    BY <2>16, <2>17
<1>3. CASE Publish
  <2>1. UNCHANGED <<clock, now, Timed, publishing, Asked>>
        /\ pc = "finish" /\ publishing /\ pc' = "sleep" /\ seq' = seq + 1 /\ lastPub' = clock
    BY <1>3 DEF Publish, consumerVars
  <2>2. ProducerTypeOK' /\ DeadlinesAreNear'
    BY <2>1 DEF ProducerTypeOK, DeadlinesAreNear
  <2>3. Steady'
    BY <2>1 DEF ProducerTypeOK, Steady, PassIsOver
  <2>4. DeadlineIsSpaced' /\ BaselineIsSteady'
    BY <2>1 DEF ProducerTypeOK, DeadlineIsSpaced, BaselineIsSteady, process_samples, Spaced
  <2>5. QED
    BY <2>2, <2>3, <2>4
<1>4. CASE NothingToPublish
  <2>1. UNCHANGED <<clock, now, Timed, publishing, lastPub, seq, Asked>>
        /\ pc = "finish" /\ ~publishing /\ pc' = "sleep"
    BY <1>4 DEF NothingToPublish, consumerVars
  <2>2. ProducerTypeOK' /\ DeadlinesAreNear'
    BY <2>1 DEF ProducerTypeOK, DeadlinesAreNear
  <2>3. Steady'
    BY <2>1 DEF ProducerTypeOK, Steady, PassIsOver
  <2>4. DeadlineIsSpaced' /\ BaselineIsSteady'
    BY <2>1 DEF DeadlineIsSpaced, BaselineIsSteady, process_samples, Spaced
  <2>5. QED
    BY <2>2, <2>3, <2>4
<1>5. CASE Sleep
  <2>1. PICK late \in 0 .. MaxLate : clock' = clock + (SleepFor + late)
    BY <1>5 DEF Sleep, Takes
  <2>2. UNCHANGED <<now, Timed, publishing, lastPub, seq, Asked>>
        /\ pc = "sleep" /\ pc' = "pass"
    BY <1>5 DEF Sleep, consumerVars
  <2>3. clock' \in Nat /\ clock' >= clock /\ clock' <= clock + MaxSleep + MaxLate
    BY <1>0, <2>1, SleepIsClamped, SMTT(30) DEF ProducerTypeOK
  <2>4. ProducerTypeOK'
    BY <2>2, <2>3 DEF ProducerTypeOK
  <2>5. DeadlinesAreNear'
    <3>1. nextPub <= clock + PubInterval /\ nextPub <= lastPub + PubInterval
      BY <2>2 DEF DeadlinesAreNear
    <3>2. nextPub' <= clock' + PubInterval /\ nextPub' <= lastPub' + PubInterval
      <4>1. /\ nextPub \in Nat /\ clock \in Nat /\ clock' \in Nat /\ PubInterval \in Nat
            /\ nextPub' = nextPub /\ lastPub' = lastPub /\ clock <= clock'
        BY <1>0, <2>2, <2>3 DEF ProducerTypeOK
      <4>2. nextPub <= clock' + PubInterval
        BY <3>1, <4>1, LaterBound, Zenon
      <4>3. QED
        BY <3>1, <4>1, <4>2, Zenon
    <3>3. \A t \in Tasks : next'[t] <= lastAt'[t] + Interval[t]
      BY <2>2 DEF DeadlinesAreNear
    <3>4. QED
      BY <3>2, <3>3, Zenon DEF DeadlinesAreNear
  <2>6. Steady'
    BY <1>0, <2>2, <2>3 DEF ProducerTypeOK, Steady, PassIsOver, PassTime
  <2>7. DeadlineIsSpaced' /\ BaselineIsSteady'
    BY <2>2 DEF DeadlineIsSpaced, BaselineIsSteady, process_samples, Spaced
  <2>8. QED
    BY <2>4, <2>5, <2>6, <2>7
<1>6. CASE Stop
  <2>1. UNCHANGED <<clock, now, Timed, publishing, lastPub, seq, Asked>>
        /\ pc = "pass" /\ pc' = "stopped"
    BY <1>6 DEF Stop, consumerVars
  <2>2. ProducerTypeOK' /\ DeadlinesAreNear' /\ Steady'
    BY <2>1 DEF ProducerTypeOK, DeadlinesAreNear, Steady
  <2>3. DeadlineIsSpaced' /\ BaselineIsSteady'
    BY <2>1 DEF DeadlineIsSpaced, BaselineIsSteady, process_samples, Spaced
  <2>4. QED
    BY <2>2, <2>3
<1>7. QED
  BY <1>1, <1>2, <1>3, <1>4, <1>5, <1>6

LEMMA ProducerInductive == ProducerInv /\ [ProducerNext]_samplingVars => ProducerInv'
<1>1. ProducerInv /\ UNCHANGED samplingVars => ProducerInv'
  BY DEF samplingVars, producerVars, consumerVars, ProducerInv, ProducerTypeOK, DeadlinesAreNear,
         Steady, PassIsOver, PassIsNext, DeadlineIsSpaced, BaselineIsSteady, Spaced, process_samples
<1>2. QED
  BY <1>1, ConsumerKeeps, WarmupKeeps, PassKeeps DEF ProducerNext, ProducerStep

\* Every variable of the sampling thread and of the mode that waits for it
\* keeps its type.
THEOREM ProducerTypeCorrect == ProducerSpec => []ProducerTypeOK
<1>1. ProducerInv => ProducerTypeOK
  BY DEF ProducerInv
<1>2. QED
  BY <1>1, ProducerStarts, ProducerInductive, PTL DEF ProducerSpec

(***************************************************************************)
(* No collector and no consumer starves, for any set of collectors, any       *)
(* cadences and any lateness of the scheduler: the next_* variables of        *)
(* Producer::run() that are not in next_due's min() are served in time too.   *)
(***************************************************************************)
THEOREM NothingStarves == ProducerSpec => []SampledOnTime
<1>1. ProducerInv => SampledOnTime
  <2> SUFFICES ASSUME ProducerInv, pc = "sample", seq >= 2
               PROVE  /\ \A t \in Tasks : now < lastAt[t] + Interval[t] + PassTime
                      /\ now < lastPub + PubInterval + PassTime
    BY DEF SampledOnTime
  <2>1. PassIsNext /\ nextPub <= lastPub + PubInterval
        /\ \A t \in Tasks : next[t] <= lastAt[t] + Interval[t]
    BY DEF ProducerInv, Steady, DeadlinesAreNear
  <2>2. /\ PassTime \in Nat /\ PubInterval \in Nat /\ now \in Nat /\ nextPub \in Nat /\ lastPub \in Nat
        /\ \A t \in Tasks : next[t] \in Nat /\ lastAt[t] \in Nat /\ Interval[t] \in Nat
    BY ProducerAssumption DEF ProducerInv, ProducerTypeOK, PassTime
  <2>3. QED
    BY <2>1, <2>2 DEF PassIsNext
<1>2. QED
  BY <1>1, ProducerStarts, ProducerInductive, PTL DEF ProducerSpec

(***************************************************************************)
(* What --json, --anomalies and --similar wait for is a sample over a whole   *)
(* interval, however long the warm-up and the passes take.                   *)
(***************************************************************************)
THEOREM AwaitedIsSteady == ProducerSpec => []AwaitedSampleIsSteady
<1>1. ProducerInv => AwaitedSampleIsSteady
  BY DEF ProducerInv, BaselineIsSteady, AwaitedSampleIsSteady, Spaced
<1>2. QED
  BY <1>1, ProducerStarts, ProducerInductive, PTL DEF ProducerSpec

-----------------------------------------------------------------------------
(* LogWriter.                                                               *)

HourTypeOK ==
  /\ wall \in Hours /\ moves \in Nat /\ {first, lwStop} \subseteq BOOLEAN
  /\ lwAt \in {"wait", "loop", "path", "rotate", "write", "gone"}
  /\ {stamp, need, current} \subseteq Hours \cup {0}
  /\ stream \in {"closed", "good", "bad"}
  /\ disk \in Seq((Hours \cup {0}) \X (Hours \cup {0})) /\ lostIn \in Seq(Hours \cup {0})
  /\ blamed \subseteq Hours \cup {0}

\* A block is about to be written to the file it is required in, and a file
\* that is not open, or no longer writable, has been blamed.
HourInv ==
  /\ HourTypeOK
  /\ lwAt \in {"rotate", "write"} => need # 0
  /\ lwAt = "write" => need = current
  /\ stream # "good" /\ current # 0 /\ lwAt # "gone" => current \in blamed
  /\ SilenceIsConfined

\* Every statement of LogWriter::run(), and every move of the clock, keeps it.
LEMMA HourInductive == HourInv /\ [HourNext]_hourVars => HourInv'
<1> SUFFICES ASSUME HourInv, [HourNext]_hourVars PROVE HourInv'
  OBVIOUS
<1> USE HourLogBounds DEF HourInv, HourTypeOK, SilenceIsConfined
<1>1. CASE ClockMoves
  BY <1>1 DEF ClockMoves
<1>2. CASE FirstPublish
  BY <1>2 DEF FirstPublish
<1>3. CASE LogStop
  BY <1>3 DEF LogStop
<1>4. CASE WaitFirst
  BY <1>4 DEF WaitFirst
<1>5. CASE LoopHead
  BY <1>5 DEF LoopHead
<1>6. CASE ChunkPath
  BY <1>6 DEF ChunkPath
<1>7. CASE Rotate
  BY <1>7 DEF Rotate, OpenSucceeds, OpenFails
<1>8. CASE WriteBlock
  <2>1. CASE stream = "good" /\ disk' = Append(disk, <<current, stamp>>)
             /\ UNCHANGED <<stream, lostIn, blamed>>
    BY <1>8, <2>1 DEF WriteBlock
  <2>2. CASE UNCHANGED disk /\ lostIn' = Append(lostIn, need) /\ need \in blamed'
             /\ blamed \subseteq blamed' /\ blamed' \subseteq blamed \cup {current}
             /\ stream' # "good" /\ stream' \in {"bad", "closed"}
    BY <1>8, <2>2 DEF WriteBlock
  <2>3. QED
    BY <1>8, <2>1, <2>2 DEF WriteBlock
<1>9. CASE LogOver \/ UNCHANGED hourVars
  BY <1>9 DEF LogOver, hourVars
<1>10. QED
  BY <1>1, <1>2, <1>3, <1>4, <1>5, <1>6, <1>7, <1>8, <1>9 DEF HourNext

LEMMA HourStarts == HourInit => HourInv
<1> SUFFICES ASSUME HourInit PROVE HourInv
  OBVIOUS
<1>1. disk \in Seq((Hours \cup {0}) \X (Hours \cup {0})) /\ lostIn \in Seq(Hours \cup {0})
  BY DEF HourInit
<1>2. HourTypeOK
  BY <1>1, HourLogBounds DEF HourInit, HourTypeOK
<1>3. SilenceIsConfined
  BY DEF HourInit, SilenceIsConfined
<1>4. QED
  BY <1>2, <1>3 DEF HourInit, HourInv

\* Every variable of LogWriter::run() keeps its type.
THEOREM HourTypeCorrect == HourSpec => []HourTypeOK
<1>1. HourInv => HourTypeOK
  BY DEF HourInv
<1>2. QED
  BY <1>1, HourStarts, HourInductive, PTL DEF HourSpec

(***************************************************************************)
(* The silence of a log whose file cannot be opened or written is confined   *)
(* to the hours that failed, wherever the clock steps meanwhile.             *)
(***************************************************************************)
THEOREM LogSilence == HourSpec => []SilenceIsConfined
<1>1. HourInv => SilenceIsConfined
  BY DEF HourInv
<1>2. QED
  BY <1>1, HourStarts, HourInductive, PTL DEF HourSpec

----------------------------------------------------------------------------
(* The process collectors of ProcessRows.                                   *)

RowType == [pid : ScanPids, life : Nat, total : Nat, charge : Nat, cmd : Nat \X Nat]
ReadingType == [life : Nat, used : Nat]
ReplyType == [error : BOOLEAN, rows : UNION {[S -> ReadingType] : S \in SUBSET ScanPids}]

RowTypeOK ==
    /\ backend \in {"kernel", "procfs"}
    /\ proc \in [ScanPids -> [life : Nat, used : Nat, title : Nat]]
    /\ cached \in [ScanPids -> Nat]
    /\ ticks \in Nat /\ lives \in 0 .. MaxLives /\ scans \in Nat /\ faults \in Nat
    /\ rowAt \in {"idle", "sent", "scan", "title"}
    /\ pidOf \in [1 .. MaxLives -> ScanPids \cup {0}]
    /\ usedBy \in [1 .. MaxLives -> Nat] /\ charged \in [1 .. MaxLives -> Nat]
    /\ rowSeq \in Seq(RowType)
    /\ todo \in Seq(Nat)
    /\ cpuTotal \in Nat /\ lastCpu \in Nat \cup {-1} /\ lastRun \in Nat \cup {-1}
    /\ DOMAIN lastPer \subseteq ScanPids /\ lastPer \in [DOMAIN lastPer -> Nat]
    /\ DOMAIN before = DOMAIN lastPer /\ before \in [DOMAIN lastPer -> Nat \X Nat]
    /\ DOMAIN titles \subseteq ScanPids /\ titles \in [DOMAIN titles -> Nat \X Nat]
    /\ heldBy \in [ScanPids -> SUBSET Nat]
    /\ mischarged \subseteq Nat /\ slighted \subseteq Nat
    /\ inbox \in Seq(ReplyType)

\* where the collectors are
StagesFollow ==
    /\ backend = "kernel" => rowAt # "scan"
    /\ backend = "procfs" => rowAt # "sent" /\ inbox = <<>> /\ DOMAIN titles = {}
    /\ rowAt = "sent" => inbox # <<>>
    /\ rowAt = "scan" => \A k \in DOMAIN todo : todo[k] \in ScanPids
    /\ rowAt = "title" => \A k \in DOMAIN todo : todo[k] \in DOMAIN rowSeq

----------------------------------------------------------------------------
(* The charges.                                                             *)

Baseline(p) == lastPer[p] = before[p][2]
Reading(p) == IF backend = "kernel" THEN cached[p] ELSE proc[p].used

\* life l has the pid p, and whoever was charged at p before lived no later
Owns(p, l) ==
    /\ l \in 1 .. lives /\ pidOf[l] = p
    /\ \A k \in 1 .. MaxLives : charged[k] > 0 /\ pidOf[k] = p => k <= l

\* a reading u of life l under p that is yet to be charged
Chargeable(p, l, u) ==
    /\ Owns(p, l) /\ u <= usedBy[l]
    /\ l \notin slighted => charged[l] <= u
    /\ p \in DOMAIN before =>
         /\ before[p][1] <= l
         /\ before[p][1] = l => before[p][2] <= u
         /\ before[p][1] = 0 /\ charged[l] > 0 => l \in slighted

\* and one that was taken before the present time
Past(p, l, u) ==
    /\ Chargeable(p, l, u)
    /\ proc[p].life # 0 => l <= proc[p].life
    /\ l = proc[p].life => u <= Reading(p)

LivesFollow ==
    /\ \A l \in 1 .. MaxLives : l > lives => charged[l] = 0 /\ usedBy[l] = 0
    /\ \A p \in ScanPids : proc[p].life # 0 =>
         /\ Chargeable(p, proc[p].life, Reading(p))
         /\ Reading(p) <= proc[p].used /\ proc[p].used = usedBy[proc[p].life]

BooksFollow ==
    /\ \A p \in DOMAIN before :
         /\ lastPer[p] = before[p][2]
         /\ before[p][1] # 0 => /\ Owns(p, before[p][1])
                                /\ before[p][1] \notin slighted => charged[before[p][1]] <= before[p][2]
    /\ DOMAIN before # {} => lastCpu >= 0

RepliesFollow ==
    /\ \A i \in DOMAIN inbox : \A p \in DOMAIN inbox[i].rows :
         Past(p, inbox[i].rows[p].life, inbox[i].rows[p].used)
    /\ \A i, j \in DOMAIN inbox : i < j =>
         \A p \in DOMAIN inbox[i].rows \cap DOMAIN inbox[j].rows :
           /\ inbox[i].rows[p].life <= inbox[j].rows[p].life
           /\ inbox[i].rows[p].life = inbox[j].rows[p].life =>
                inbox[i].rows[p].used <= inbox[j].rows[p].used

ScanFollows ==
    rowAt = "scan" =>
      /\ \A i \in DOMAIN rowSeq :
           LET r == rowSeq[i]
           IN  /\ r.charge = (IF r.life = 0 THEN 0 ELSE Charge(r.pid, r.total, cpuTotal))
               /\ r.life # 0 => Past(r.pid, r.life, r.total)
               /\ r.life = 0 => \A l \in 1 .. MaxLives :
                    l = proc[r.pid].life /\ charged[l] > 0 => l \in slighted
      /\ \A i, j \in DOMAIN rowSeq : rowSeq[i].pid = rowSeq[j].pid => i = j
      /\ \A i \in DOMAIN rowSeq, k \in DOMAIN todo : rowSeq[i].pid # todo[k]
      /\ \A i, j \in DOMAIN todo : todo[i] = todo[j] => i = j

----------------------------------------------------------------------------
(* The titles.                                                              *)

TitlesFollow ==
    /\ \A p \in ScanPids : proc[p].life = 0 => proc[p].title = 0
    /\ \A p \in ScanPids : proc[p].life # 0 => proc[p].life \in heldBy[p]
    /\ \A p \in DOMAIN titles : titles[p][2] # 0 => titles[p][1] \in heldBy[p]
    /\ rowAt = "scan" => \A i \in DOMAIN rowSeq : rowSeq[i].cmd[2] = 0

RowInv == /\ RowTypeOK /\ StagesFollow /\ LivesFollow /\ BooksFollow /\ RepliesFollow
          /\ ScanFollows /\ TitlesFollow /\ RowsAreOwn

----------------------------------------------------------------------------
(* The operators.                                                           *)

LEMMA ReplyRows ==
  ASSUME NEW r \in ReplyType
  PROVE  /\ r.error \in BOOLEAN /\ DOMAIN r.rows \subseteq ScanPids
         /\ \A p \in DOMAIN r.rows : r.rows[p].life \in Nat /\ r.rows[p].used \in Nat
  BY DEF ReplyType, ReadingType

LEMMA ReplyMade ==
  ASSUME NEW S \in SUBSET ScanPids, NEW f \in [S -> ReadingType], NEW e \in BOOLEAN
  PROVE  [error |-> e, rows |-> f] \in ReplyType
  BY DEF ReplyType

\* the types the books are about
BookTypes ==
    /\ MaxLives \in Nat /\ lives \in 0 .. MaxLives /\ lastCpu \in Nat \cup {-1}
    /\ pidOf \in [1 .. MaxLives -> ScanPids \cup {0}]
    /\ usedBy \in [1 .. MaxLives -> Nat] /\ charged \in [1 .. MaxLives -> Nat]
    /\ DOMAIN before = DOMAIN lastPer /\ DOMAIN lastPer \subseteq ScanPids
    /\ \A p \in DOMAIN lastPer : /\ lastPer[p] \in Nat
                                 /\ before[p][1] \in Nat /\ before[p][2] \in Nat

LEMMA TypesOfBooks == RowTypeOK => BookTypes
  <1> SUFFICES ASSUME RowTypeOK PROVE BookTypes
    OBVIOUS
  <1>1. /\ lives \in 0 .. MaxLives /\ lastCpu \in Nat \cup {-1}
        /\ pidOf \in [1 .. MaxLives -> ScanPids \cup {0}]
        /\ usedBy \in [1 .. MaxLives -> Nat] /\ charged \in [1 .. MaxLives -> Nat]
        /\ DOMAIN before = DOMAIN lastPer /\ DOMAIN lastPer \subseteq ScanPids
        /\ lastPer \in [DOMAIN lastPer -> Nat] /\ before \in [DOMAIN lastPer -> Nat \X Nat]
    BY DEF RowTypeOK
  <1>2. \A p \in DOMAIN lastPer : lastPer[p] \in Nat /\ before[p] \in Nat \X Nat
    BY <1>1
  <1>3. MaxLives \in Nat
    BY RowBounds
  <1>4. QED
    BY <1>1, <1>2, <1>3 DEF BookTypes

LEMMA ChargedLives ==
  ASSUME BookTypes, LivesFollow, NEW l \in 1 .. MaxLives, charged[l] > 0
  PROVE  l <= lives
  <1>1. l > lives => charged[l] = 0
    BY DEF LivesFollow
  <1>2. l \in Nat /\ lives \in Nat
    BY DEF BookTypes
  <1>3. QED
    BY <1>1, <1>2

LEMMA ChargeIsNat ==
  ASSUME BookTypes, NEW p \in ScanPids, NEW u \in Nat, NEW at \in Nat
  PROVE  /\ Charge(p, u, at) \in Nat /\ Charge(p, u, at) <= u
         /\ p \notin DOMAIN lastPer => Charge(p, u, at) = 0
         /\ p \in DOMAIN lastPer =>
              /\ u >= lastPer[p] => Charge(p, u, at) <= u - lastPer[p]
              /\ u >= lastPer[p] /\ lastCpu >= 0 /\ at > lastCpu =>
                   Charge(p, u, at) = u - lastPer[p]
  BY DEF Charge, BookTypes

LEMMA RowIsRow ==
  ASSUME BookTypes, NEW p \in ScanPids, NEW l \in Nat, NEW u \in Nat, NEW at \in Nat
  PROVE  Row(p, l, u, at) \in RowType
  <1>1. Charge(p, u, at) \in Nat
    BY ChargeIsNat
  <1>2. <<l, 0>> \in Nat \X Nat
    OBVIOUS
  <1>3. QED
    BY <1>1, <1>2 DEF Row, RowType

LEMMA Ordered ==
  ASSUME NEW rows \in Seq(RowType), NEW o \in ByCharge(rows)
  PROVE  /\ o \in Seq(RowType) /\ Len(o) = Len(rows)
         /\ \A i \in DOMAIN o : \E j \in DOMAIN rows : o[i] = rows[j]
  <1>1. PICK f \in [DOMAIN rows -> DOMAIN rows] : o = [i \in DOMAIN rows |-> rows[f[i]]]
    BY DEF ByCharge
  <1>2. DOMAIN rows = 1 .. Len(rows) /\ Len(rows) \in Nat
    OBVIOUS
  <1>3. \A i \in DOMAIN rows : rows[f[i]] \in RowType
    BY <1>1
  <1>4. o \in [1 .. Len(rows) -> RowType]
    BY <1>1, <1>2, <1>3
  <1>5. QED
    BY <1>1, <1>2, <1>4

\* where no pid has two rows, the row of a pid is its row
LEMMA RowOfPid ==
  ASSUME NEW rows,
         \A i, j \in DOMAIN rows : rows[i].pid = rows[j].pid => i = j
  PROVE  \A i \in DOMAIN rows : RowOf(rows, rows[i].pid) = rows[i]
  BY DEF RowOf

----------------------------------------------------------------------------
(* The end of a sample.                                                     *)

\* what a life is charged never passes the reading it is charged by
LEMMA ChargeFits ==
  ASSUME BookTypes, BooksFollow, NEW p \in ScanPids, NEW l \in 1 .. MaxLives, NEW u \in Nat,
         NEW at \in Nat, Chargeable(p, l, u), l \notin slighted
  PROVE  charged[l] + Charge(p, u, at) <= u
  <1> USE DEF BookTypes
  <1>1. charged[l] \in Nat /\ charged[l] <= u /\ pidOf[l] = p /\ DOMAIN before = DOMAIN lastPer
    BY DEF Chargeable, Owns
  <1>2. Charge(p, u, at) \in Nat /\ Charge(p, u, at) <= u
        /\ (p \notin DOMAIN lastPer => Charge(p, u, at) = 0)
        /\ (p \in DOMAIN lastPer /\ u >= lastPer[p] => Charge(p, u, at) <= u - lastPer[p])
    BY ChargeIsNat
  <1>3. CASE p \notin DOMAIN before
    BY <1>1, <1>2, <1>3
  <1>4. CASE p \in DOMAIN before /\ before[p][1] = l
    <2>0. before[p][1] # 0 /\ before[p][1] \notin slighted
      BY <1>4
    <2>1. /\ before[p][2] <= u /\ before[p][2] = lastPer[p]
          /\ charged[before[p][1]] <= before[p][2]
      <3>1. before[p][2] = lastPer[p] /\ charged[before[p][1]] <= before[p][2]
        BY <1>4, <2>0 DEF BooksFollow
      <3>2. before[p][2] <= u
        BY <1>4 DEF Chargeable
      <3>3. QED
        BY <3>1, <3>2
    <2>2. before[p][2] \in Nat
      BY <1>1, <1>4
    <2>3. QED
      BY <1>1, <1>2, <1>4, <2>1, <2>2
  <1>5. CASE p \in DOMAIN before /\ before[p][1] # l
    <2>1. before[p][1] \in Nat /\ before[p][1] <= l
      BY <1>1, <1>5 DEF Chargeable
    <2>2. charged[l] = 0
      <3>1. CASE before[p][1] = 0
        BY <1>1, <1>5, <3>1 DEF Chargeable
      <3>2. CASE before[p][1] # 0
        <4>1. charged[l] > 0 => l <= before[p][1]
          BY <1>1, <1>5, <3>2 DEF BooksFollow, Owns
        <4>2. QED
          BY <1>1, <1>5, <2>1, <4>1
      <3>3. QED
        BY <3>1, <3>2
    <2>3. QED
      BY <1>1, <1>2, <2>2
  <1>6. QED
    BY <1>3, <1>4, <1>5

\* rows that a sample may end with
Countable(rows, at) ==
    /\ rows \in Seq(RowType)
    /\ \A i, j \in DOMAIN rows : rows[i].pid = rows[j].pid => i = j
    /\ \A i \in DOMAIN rows : rows[i].life # 0 =>
         /\ Chargeable(rows[i].pid, rows[i].life, rows[i].total)
         /\ rows[i].charge = Charge(rows[i].pid, rows[i].total, at)

Sampled(rows, at) ==
    /\ Book(rows, at) /\ lastPer' = Baselines(rows) /\ lastCpu' = at
    /\ UNCHANGED <<lives, pidOf, usedBy, slighted>>

LEMMA SampledBooks ==
  ASSUME BookTypes, LivesFollow, BooksFollow, RowsAreOwn, NEW rows, NEW at \in Nat,
         Countable(rows, at), Sampled(rows, at)
  PROVE  /\ charged' \in [1 .. MaxLives -> Nat]
         /\ DOMAIN lastPer' \subseteq ScanPids /\ lastPer' \in [DOMAIN lastPer' -> Nat]
         /\ DOMAIN before' = DOMAIN lastPer' /\ before' \in [DOMAIN lastPer' -> Nat \X Nat]
         /\ mischarged' = {}
         /\ NeverOvercharged'
         /\ BooksFollow'
         /\ \A l \in 1 .. MaxLives :
              \/ charged'[l] = charged[l]
              \/ \E i \in DOMAIN rows : rows[i].life = l /\ rows[i].pid = pidOf[l]
         /\ \A p \in ScanPids, l \in Nat, u \in Nat :
              /\ Chargeable(p, l, u)
              /\ \A i \in DOMAIN rows : rows[i].pid = p =>
                   /\ rows[i].life <= l
                   /\ rows[i].life = l => rows[i].total <= u
                   /\ rows[i].life = 0 /\ charged[l] > 0 => l \in slighted
              => Chargeable(p, l, u)'
  <1> USE DEF BookTypes
  <1>1. \A i \in DOMAIN rows : /\ rows[i].pid \in ScanPids /\ rows[i].life \in Nat
                                /\ rows[i].total \in Nat /\ rows[i].charge \in Nat
    <2>1. \A i \in DOMAIN rows : rows[i] \in RowType
      BY DEF Countable
    <2>2. QED
      BY <2>1 DEF RowType
  <1>2. \A i \in DOMAIN rows : RowOf(rows, rows[i].pid) = rows[i]
    BY RowOfPid DEF Countable
  <1>3. /\ DOMAIN before' = PidsOf(rows) /\ DOMAIN lastPer' = PidsOf(rows)
        /\ PidsOf(rows) \subseteq ScanPids
    BY <1>1 DEF Sampled, Book, Baselines, PidsOf
  <1>4. \A i \in DOMAIN rows :
          /\ before'[rows[i].pid] = <<rows[i].life, rows[i].total>>
          /\ lastPer'[rows[i].pid] = rows[i].total
    BY <1>2 DEF Sampled, Book, Baselines, PidsOf
  <1>5. lastPer' \in [DOMAIN lastPer' -> Nat] /\ before' \in [DOMAIN lastPer' -> Nat \X Nat]
    <2>1. \A i \in DOMAIN rows : <<rows[i].life, rows[i].total>> \in Nat \X Nat
      BY <1>1
    <2>2. \A p \in PidsOf(rows) : before'[p] \in Nat \X Nat /\ lastPer'[p] \in Nat
      <3> TAKE p \in PidsOf(rows)
      <3>1. PICK i \in DOMAIN rows : rows[i].pid = p
        BY DEF PidsOf
      <3>2. QED
        BY <1>1, <1>4, <2>1, <3>1
    <2>3. /\ lastPer' = [p \in DOMAIN lastPer' |-> lastPer'[p]]
          /\ before' = [p \in DOMAIN lastPer' |-> before'[p]]
      BY <1>3 DEF Sampled, Book, Baselines
    <2>4. QED
      BY <1>3, <2>2, <2>3
  <1>6. \A l \in 1 .. MaxLives :
          charged'[l] = IF pidOf[l] \in PidsOf(rows) /\ RowOf(rows, pidOf[l]).life = l
                        THEN charged[l] + RowOf(rows, pidOf[l]).charge ELSE charged[l]
    BY DEF Sampled, Book
  <1>7. \A l \in 1 .. MaxLives :
          \/ charged'[l] = charged[l] /\ \A i \in DOMAIN rows : rows[i].life = l => rows[i].pid # pidOf[l]
          \/ \E i \in DOMAIN rows : /\ rows[i].life = l /\ rows[i].pid = pidOf[l]
                                    /\ charged'[l] = charged[l] + rows[i].charge
    <2> TAKE l \in 1 .. MaxLives
    <2>1. CASE pidOf[l] \in PidsOf(rows) /\ RowOf(rows, pidOf[l]).life = l
      <3>1. PICK i \in DOMAIN rows : rows[i].pid = pidOf[l]
        BY <2>1 DEF PidsOf
      <3>2. RowOf(rows, pidOf[l]) = rows[i]
        BY <1>2, <3>1
      <3>3. QED
        BY <1>6, <2>1, <3>1, <3>2
    <2>2. CASE ~(pidOf[l] \in PidsOf(rows) /\ RowOf(rows, pidOf[l]).life = l)
      <3>1. ASSUME NEW i \in DOMAIN rows, rows[i].life = l, rows[i].pid = pidOf[l] PROVE FALSE
        <4>1. pidOf[l] \in PidsOf(rows)
          BY <3>1 DEF PidsOf
        <4>2. RowOf(rows, pidOf[l]) = rows[i]
          BY <1>2, <3>1
        <4>3. QED
          BY <2>2, <3>1, <4>1, <4>2
      <3>2. QED
        BY <1>6, <2>2, <3>1
    <2>3. QED
      BY <2>1, <2>2
  <1>8. \A i \in DOMAIN rows : rows[i].life # 0 =>
          /\ Chargeable(rows[i].pid, rows[i].life, rows[i].total)
          /\ rows[i].charge = Charge(rows[i].pid, rows[i].total, at)
          /\ rows[i].life \in 1 .. MaxLives /\ pidOf[rows[i].life] = rows[i].pid
          /\ rows[i].life <= lives
    <2>1. \A i \in DOMAIN rows : rows[i].life # 0 =>
            /\ Chargeable(rows[i].pid, rows[i].life, rows[i].total)
            /\ rows[i].charge = Charge(rows[i].pid, rows[i].total, at)
      BY DEF Countable
    <2>2. \A p, l, u : Chargeable(p, l, u) => l \in 1 .. lives /\ pidOf[l] = p
      BY DEF Chargeable, Owns
    <2>3. lives \in 0 .. MaxLives /\ MaxLives \in Nat
      BY DEF BookTypes
    <2>4. \A l \in 1 .. lives : l \in 1 .. MaxLives /\ l <= lives
      BY <2>3
    <2>5. QED
      BY <2>1, <2>2, <2>4
  <1>9. charged' \in [1 .. MaxLives -> Nat]
    <2>1. \A l \in 1 .. MaxLives : charged'[l] \in Nat
      <3> TAKE l \in 1 .. MaxLives
      <3>1. charged[l] \in Nat
        OBVIOUS
      <3>2. CASE charged'[l] = charged[l]
        BY <3>1, <3>2
      <3>3. CASE \E i \in DOMAIN rows : charged'[l] = charged[l] + rows[i].charge
        <4>1. PICK i \in DOMAIN rows : charged'[l] = charged[l] + rows[i].charge
          BY <3>3
        <4>2. rows[i].charge \in Nat
          BY <1>1
        <4>3. QED
          BY <3>1, <4>1, <4>2
      <3>4. QED
        BY <1>7, <3>2, <3>3
    <2>2. charged' = [l \in 1 .. MaxLives |-> charged'[l]]
      BY DEF Sampled, Book
    <2>3. QED
      BY <2>1, <2>2
  <1>10. \A l \in 1 .. MaxLives \ slighted :
          \/ charged'[l] = charged[l] /\ \A i \in DOMAIN rows : rows[i].life = l => rows[i].pid # pidOf[l]
          \/ \E i \in DOMAIN rows : /\ rows[i].life = l /\ rows[i].pid = pidOf[l]
                                    /\ charged'[l] <= rows[i].total
    <2> TAKE l \in 1 .. MaxLives \ slighted
    <2>1. ASSUME NEW i \in DOMAIN rows, rows[i].life = l, rows[i].pid = pidOf[l],
                 charged'[l] = charged[l] + rows[i].charge
          PROVE  charged'[l] <= rows[i].total
      <3>1. rows[i].pid \in ScanPids /\ rows[i].total \in Nat
        BY <1>1
      <3>2. Chargeable(rows[i].pid, l, rows[i].total) /\ rows[i].charge = Charge(rows[i].pid, rows[i].total, at)
        BY <1>8, <2>1
      <3>3. QED
        BY <2>1, <3>1, <3>2, ChargeFits
    <2>2. QED
      BY <1>7, <2>1
  <1>11. NeverOvercharged'
    <2> SUFFICES ASSUME NEW l \in 1 .. MaxLives \ slighted PROVE charged'[l] <= usedBy[l]
      BY <1>9 DEF NeverOvercharged, Sampled
    <2>1. CASE charged'[l] = charged[l]
      BY <2>1 DEF RowsAreOwn, NeverOvercharged
    <2>2. CASE \E i \in DOMAIN rows : /\ rows[i].life = l /\ rows[i].pid = pidOf[l]
                                      /\ charged'[l] <= rows[i].total
      <3>1. PICK i \in DOMAIN rows : rows[i].life = l /\ charged'[l] <= rows[i].total
        BY <2>2
      <3>2. rows[i].total <= usedBy[l] /\ rows[i].total \in Nat
        <4>1. l # 0 /\ rows[i].total \in Nat
          BY <1>1
        <4>2. Chargeable(rows[i].pid, l, rows[i].total)
          BY <1>8, <3>1, <4>1
        <4>3. QED
          BY <4>1, <4>2 DEF Chargeable
      <3>3. QED
        BY <1>9, <3>1, <3>2
    <2>3. QED
      BY <1>10, <2>1, <2>2
  <1>12. mischarged' = {}
    <2>1. mischarged = {}
      BY DEF RowsAreOwn, ChargeIsExact
    <2>2. ASSUME NEW q \in PidsOf(rows) \cap DOMAIN before, RowOf(rows, q).life # 0,
                 before[q][1] = RowOf(rows, q).life, at > lastCpu
          PROVE  RowOf(rows, q).charge = RowOf(rows, q).total - before[q][2]
      <3>1. PICK i \in DOMAIN rows : rows[i].pid = q
        BY DEF PidsOf
      <3>2. RowOf(rows, q) = rows[i] /\ q \in ScanPids /\ rows[i].total \in Nat
        BY <1>1, <1>2, <3>1
      <3>3. Chargeable(q, rows[i].life, rows[i].total) /\ rows[i].charge = Charge(q, rows[i].total, at)
        BY <1>8, <2>2, <3>1, <3>2
      <3>4. lastCpu >= 0 /\ lastPer[q] = before[q][2] /\ before[q][2] <= rows[i].total
        BY <2>2, <3>2, <3>3 DEF BooksFollow, Chargeable
      <3>5. QED
        <4>1. q \in DOMAIN lastPer /\ rows[i].total >= lastPer[q] /\ at > lastCpu
          BY <2>2, <3>2, <3>4 DEF BookTypes
        <4>2. Charge(q, rows[i].total, at) = rows[i].total - lastPer[q]
          BY <3>2, <3>4, <4>1, ChargeIsNat
        <4>3. QED
          BY <3>2, <3>3, <3>4, <4>2
    <2>3. mischarged' = mischarged \cup
         {RowOf(rows, p).life : p \in {q \in PidsOf(rows) \cap DOMAIN before :
            /\ RowOf(rows, q).life # 0 /\ before[q][1] = RowOf(rows, q).life
            /\ at > lastCpu /\ RowOf(rows, q).charge # RowOf(rows, q).total - before[q][2]}}
      BY DEF Sampled, Book
    <2>4. {q \in PidsOf(rows) \cap DOMAIN before :
            /\ RowOf(rows, q).life # 0 /\ before[q][1] = RowOf(rows, q).life
            /\ at > lastCpu /\ RowOf(rows, q).charge # RowOf(rows, q).total - before[q][2]} = {}
      BY <2>2
    <2>5. QED
      BY <2>1, <2>3, <2>4
  <1>13. \A i \in DOMAIN rows : rows[i].life # 0 => Owns(rows[i].pid, rows[i].life)'
    <2> SUFFICES ASSUME NEW i \in DOMAIN rows, rows[i].life # 0, NEW k \in 1 .. MaxLives,
                        charged'[k] > 0, pidOf[k] = rows[i].pid
                 PROVE  k <= rows[i].life
      BY <1>8 DEF Owns, Sampled
    <2>1. Owns(rows[i].pid, rows[i].life)
      BY <1>8 DEF Chargeable
    <2>2. CASE charged'[k] = charged[k]
      BY <2>1, <2>2 DEF Owns
    <2>3. CASE \E j \in DOMAIN rows : rows[j].life = k /\ rows[j].pid = pidOf[k]
      <3>1. PICK j \in DOMAIN rows : rows[j].life = k /\ rows[j].pid = rows[i].pid
        BY <2>3
      <3>2. j = i
        BY <3>1 DEF Countable
      <3>3. QED
        BY <3>1, <3>2
    <2>4. QED
      BY <1>7, <2>2, <2>3
  <1>14. BooksFollow'
    <2>1. ASSUME NEW p \in DOMAIN before', before'[p][1] # 0
          PROVE  /\ \A l \in Nat : l = before'[p][1] => Owns(p, l)'
                 /\ before'[p][1] \notin slighted' => charged'[before'[p][1]] <= before'[p][2]
      <3>1. PICK i \in DOMAIN rows : rows[i].pid = p
        BY <1>3 DEF PidsOf
      <3>2. before'[p] = <<rows[i].life, rows[i].total>>
        BY <1>4, <3>1
      <3>3. Owns(p, rows[i].life)'
        BY <1>13, <2>1, <3>1, <3>2
      <3>4. ASSUME rows[i].life \notin slighted
            PROVE  charged'[rows[i].life] <= rows[i].total
        <4>1. rows[i].life \in 1 .. MaxLives \ slighted /\ pidOf[rows[i].life] = rows[i].pid
          BY <1>8, <2>1, <3>2, <3>4
        <4>2. PICK j \in DOMAIN rows : /\ rows[j].life = rows[i].life /\ rows[j].pid = rows[i].pid
                                       /\ charged'[rows[i].life] <= rows[j].total
          <5>1. rows[i].pid = pidOf[rows[i].life]
            BY <4>1
          <5>2. ~\A j \in DOMAIN rows : rows[j].life = rows[i].life => rows[j].pid # pidOf[rows[i].life]
            BY <5>1
          <5>3. \E j \in DOMAIN rows : /\ rows[j].life = rows[i].life /\ rows[j].pid = pidOf[rows[i].life]
                                        /\ charged'[rows[i].life] <= rows[j].total
            BY <1>10, <4>1, <5>2
          <5>4. QED
            BY <5>1, <5>3
        <4>3. j = i
          BY <4>2 DEF Countable
        <4>4. QED
          BY <4>2, <4>3
      <3>5. QED
        BY <3>2, <3>3, <3>4 DEF Sampled
    <2>2. \A p \in DOMAIN before' : lastPer'[p] = before'[p][2]
      BY <1>3, <1>4 DEF PidsOf
    <2>3. lastCpu' >= 0
      BY DEF Sampled
    <2>4. QED
      <3>1. \A p \in DOMAIN before' : before'[p][1] \in Nat
        BY <1>3, <1>5
      <3>2. \A p \in DOMAIN before' : before'[p][1] # 0 => Owns(p, before[p][1])'
        BY <2>1, <3>1 DEF Owns
      <3>3. QED
        BY <2>1, <2>2, <2>3, <3>2 DEF BooksFollow
  <1>15. ASSUME NEW p \in ScanPids, NEW l \in Nat, NEW u \in Nat, Chargeable(p, l, u),
                \A i \in DOMAIN rows : rows[i].pid = p =>
                   /\ rows[i].life <= l
                   /\ rows[i].life = l => rows[i].total <= u
                   /\ rows[i].life = 0 /\ charged[l] > 0 => l \in slighted
         PROVE  Chargeable(p, l, u)'
    <2>1. l \in 1 .. MaxLives /\ pidOf[l] = p /\ l \in 1 .. lives
      BY <1>15 DEF Chargeable, Owns
    <2>2. Owns(p, l)'
      <3> SUFFICES ASSUME NEW k \in 1 .. MaxLives, charged'[k] > 0, pidOf[k] = p
                   PROVE  k <= l
        BY <2>1 DEF Owns, Sampled
      <3>1. CASE charged'[k] = charged[k]
        BY <1>15, <3>1 DEF Chargeable, Owns
      <3>2. CASE \E j \in DOMAIN rows : rows[j].life = k /\ rows[j].pid = pidOf[k]
        BY <1>15, <3>2
      <3>3. QED
        BY <1>7, <3>1, <3>2
    <2>3. l \notin slighted => charged'[l] <= u
      <3> SUFFICES ASSUME l \notin slighted PROVE charged'[l] <= u
        OBVIOUS
      <3>1. CASE charged'[l] = charged[l]
        BY <1>15, <3>1 DEF Chargeable
      <3>2. CASE \E i \in DOMAIN rows : /\ rows[i].life = l /\ rows[i].pid = pidOf[l]
                                        /\ charged'[l] <= rows[i].total
        <4>1. PICK i \in DOMAIN rows : rows[i].life = l /\ rows[i].pid = p /\ charged'[l] <= rows[i].total
          BY <2>1, <3>2
        <4>2. rows[i].total <= u /\ rows[i].total \in Nat
          BY <1>1, <1>15, <4>1
        <4>3. QED
          <5>1. charged'[l] \in Nat
            BY <1>9, <2>1
          <5>2. QED
            BY <1>15, <4>1, <4>2, <5>1
      <3>3. QED
        BY <1>10, <2>1, <3>1, <3>2
    <2>4. ASSUME p \in DOMAIN before'
          PROVE  /\ before'[p][1] <= l
                 /\ before'[p][1] = l => before'[p][2] <= u
                 /\ before'[p][1] = 0 /\ charged'[l] > 0 => l \in slighted'
      <3>1. PICK i \in DOMAIN rows : rows[i].pid = p
        BY <1>3, <2>4 DEF PidsOf
      <3>2. before'[p] = <<rows[i].life, rows[i].total>>
        BY <1>4, <3>1
      <3>3. ASSUME rows[i].life = 0, charged'[l] > 0 PROVE l \in slighted
        <4>1. charged'[l] = charged[l]
          <5>1. \A j \in DOMAIN rows : rows[j].life = l => rows[j].pid # p
            <6> SUFFICES ASSUME NEW j \in DOMAIN rows, rows[j].life = l, rows[j].pid = p PROVE FALSE
              OBVIOUS
            <6>1. j = i
              BY <3>1 DEF Countable
            <6>2. QED
              BY <2>1, <3>3, <6>1
          <5>2. QED
            BY <1>7, <2>1, <5>1
        <4>2. QED
          BY <1>15, <3>1, <3>3, <4>1
      <3>4. QED
        BY <1>15, <3>1, <3>2, <3>3 DEF Sampled
    <2>5. u <= usedBy'[l]
      BY <1>15 DEF Chargeable, Sampled
    <2>6. QED
      BY <2>2, <2>3, <2>4, <2>5 DEF Chargeable, Sampled
  <1>16. QED
    BY <1>3, <1>5, <1>7, <1>9, <1>11, <1>12, <1>14, <1>15

----------------------------------------------------------------------------
(* The host.                                                                *)

\* what any of the host's steps does to what was read
WorldMoves ==
    /\ UNCHANGED <<backend, scanVars, judgeVars>>
    /\ lives <= lives'
    /\ \A l \in 1 .. lives : pidOf'[l] = pidOf[l] /\ usedBy[l] <= usedBy'[l]
    /\ \A p \in ScanPids : proc'[p].life # 0 =>
         \/ proc'[p].life = proc[p].life /\ Reading(p) <= Reading(p)'
         \/ proc'[p].life = lives + 1

WorldTypes ==
    /\ proc \in [ScanPids -> [life : Nat, used : Nat, title : Nat]]
    /\ cached \in [ScanPids -> Nat]
    /\ heldBy \in [ScanPids -> SUBSET Nat]
    /\ ticks \in Nat /\ MaxLives \in Nat /\ lives \in 0 .. MaxLives
    /\ pidOf \in [1 .. MaxLives -> ScanPids \cup {0}]
    /\ usedBy \in [1 .. MaxLives -> Nat]

LEMMA ReadingIsNat ==
  ASSUME WorldTypes
  PROVE  \A p \in ScanPids : /\ Reading(p) \in Nat /\ proc[p].life \in Nat
                             /\ proc[p].used \in Nat /\ proc[p].title \in Nat
  <1>1. \A p \in ScanPids : proc[p] \in [life : Nat, used : Nat, title : Nat] /\ cached[p] \in Nat
    BY DEF WorldTypes
  <1>2. QED
    BY <1>1 DEF Reading

LEMMA WorldKeepsReadings ==
  ASSUME RowTypeOK, WorldTypes', LivesFollow, WorldMoves,
         NEW p \in ScanPids, NEW l \in Nat, NEW u \in Nat
  PROVE  /\ Chargeable(p, l, u) => Chargeable(p, l, u)'
         /\ Past(p, l, u) => Past(p, l, u)'
  <1>0. BookTypes /\ WorldTypes
    BY TypesOfBooks, RowBounds DEF RowTypeOK, WorldTypes
  <1>1. ASSUME Chargeable(p, l, u) PROVE Chargeable(p, l, u)'
    <2>1. l \in 1 .. lives /\ l \in 1 .. lives' /\ pidOf'[l] = p /\ usedBy[l] <= usedBy'[l]
      BY <1>0, <1>1 DEF Chargeable, Owns, WorldMoves, WorldTypes
    <2>2. usedBy[l] \in Nat /\ usedBy'[l] \in Nat
      BY <1>0, <2>1 DEF WorldTypes
    <2>3. u <= usedBy'[l]
      BY <1>1, <2>1, <2>2 DEF Chargeable
    <2>4. charged' = charged /\ before' = before /\ slighted' = slighted
      BY DEF WorldMoves, judgeVars
    <2>5. Owns(p, l)'
      <3> SUFFICES ASSUME NEW k \in 1 .. MaxLives, charged[k] > 0, pidOf'[k] = p PROVE k <= l
        BY <2>1, <2>4 DEF Owns
      <3>1. k \in 1 .. lives
        <4>1. ~(k > lives)
          BY DEF LivesFollow
        <4>2. QED
          BY <1>0, <4>1 DEF WorldTypes
      <3>2. pidOf[k] = p
        BY <3>1 DEF WorldMoves
      <3>3. QED
        BY <1>1, <3>2 DEF Chargeable, Owns
    <2>6. QED
      BY <1>1, <2>3, <2>4, <2>5 DEF Chargeable
  <1>2. ASSUME Past(p, l, u) PROVE Past(p, l, u)'
    <2>1. Chargeable(p, l, u) /\ l \in 1 .. lives /\ lives \in Nat
      BY <1>0, <1>2 DEF Past, Chargeable, Owns, WorldTypes
    <2>2. /\ Reading(p) \in Nat /\ Reading(p)' \in Nat /\ proc[p].life \in Nat /\ proc'[p].life \in Nat
      <3>1. proc[p] \in [life : Nat, used : Nat, title : Nat] /\ proc'[p] \in [life : Nat, used : Nat, title : Nat]
            /\ cached[p] \in Nat /\ cached'[p] \in Nat
        BY <1>0 DEF WorldTypes
      <3>2. QED
        BY <3>1 DEF Reading
    <2>3. CASE proc'[p].life = 0
      BY <1>1, <2>1, <2>3 DEF Past
    <2>4. CASE proc'[p].life = lives + 1
      BY <1>1, <2>1, <2>4 DEF Past
    <2>5. CASE proc'[p].life # 0 /\ proc'[p].life = proc[p].life /\ Reading(p) <= Reading(p)'
      BY <1>1, <1>2, <2>1, <2>2, <2>5 DEF Past
    <2>6. QED
      BY <2>3, <2>4, <2>5 DEF WorldMoves
  <1>3. QED
    BY <1>1, <1>2

LEMMA WorldKeeps ==
  ASSUME RowInv, WorldTypes', WorldMoves
  PROVE  /\ RowTypeOK' /\ StagesFollow' /\ BooksFollow' /\ RepliesFollow' /\ ScanFollows'
         /\ NeverOvercharged' /\ ChargeIsExact'
  <1>0. /\ RowTypeOK /\ StagesFollow /\ LivesFollow /\ BooksFollow /\ RepliesFollow /\ ScanFollows
        /\ NeverOvercharged /\ ChargeIsExact /\ BookTypes /\ WorldTypes
    BY TypesOfBooks, RowBounds DEF RowInv, RowsAreOwn, RowTypeOK, WorldTypes
  <1>1. UNCHANGED <<backend, rowAt, scans, inbox, todo, rowSeq, cpuTotal, lastPer, lastCpu, lastRun, titles,
                    charged, before, mischarged, faults, slighted>>
    BY DEF WorldMoves, scanVars, judgeVars
  <1>2. RowTypeOK'
    BY <1>0, <1>1 DEF RowTypeOK, WorldTypes
  <1>3. StagesFollow'
    BY <1>0, <1>1 DEF StagesFollow
  <1>4. RepliesFollow'
    <2>1. ASSUME NEW i \in DOMAIN inbox, NEW p \in DOMAIN inbox[i].rows
          PROVE  Past(p, inbox[i].rows[p].life, inbox[i].rows[p].used)'
      <3>1. inbox[i] \in ReplyType
        BY <1>0 DEF RowTypeOK
      <3>2. p \in ScanPids /\ inbox[i].rows[p].life \in Nat /\ inbox[i].rows[p].used \in Nat
        BY <3>1, ReplyRows
      <3>3. Past(p, inbox[i].rows[p].life, inbox[i].rows[p].used)
        BY <1>0 DEF RepliesFollow
      <3>4. \A l, u \in Nat : Past(p, l, u) => Past(p, l, u)'
        BY <1>0, <3>2, WorldKeepsReadings
      <3>5. inbox'[i].rows[p] = inbox[i].rows[p]
        BY <1>1
      <3>6. QED
        BY <3>2, <3>3, <3>4, <3>5
    <2>2. QED
      BY <1>0, <1>1, <2>1 DEF RepliesFollow
  <1>5. BooksFollow'
    <2>1. ASSUME NEW p \in DOMAIN before, before[p][1] # 0
          PROVE  Owns(p, before[p][1])'
      <3>1. Owns(p, before[p][1])
        BY <1>0, <2>1 DEF BooksFollow
      <3>2. before[p][1] \in 1 .. lives' /\ pidOf'[before[p][1]] = p /\ before'[p][1] = before[p][1]
        BY <1>0, <1>1, <3>1 DEF Owns, WorldMoves, WorldTypes
      <3>3. ASSUME NEW k \in 1 .. MaxLives, charged[k] > 0, pidOf'[k] = p
            PROVE  k <= before[p][1]
        <4>1. k \in 1 .. lives
          BY <1>0, <3>3 DEF LivesFollow, BookTypes
        <4>2. pidOf[k] = p
          BY <3>3, <4>1 DEF WorldMoves
        <4>3. QED
          BY <3>1, <3>3, <4>2 DEF Owns
      <3>4. QED
        BY <1>1, <3>2, <3>3 DEF Owns
    <2>2. QED
      BY <1>0, <1>1, <2>1 DEF BooksFollow
  <1>6. ScanFollows'
    <2> SUFFICES ASSUME rowAt = "scan" PROVE ScanFollows'
      BY <1>1 DEF ScanFollows
    <2>1. ASSUME NEW i \in DOMAIN rowSeq
          PROVE  /\ rowSeq[i].life # 0 => Past(rowSeq[i].pid, rowSeq[i].life, rowSeq[i].total)'
                 /\ rowSeq[i].life = 0 => \A l \in 1 .. MaxLives :
                      l = proc'[rowSeq[i].pid].life /\ charged[l] > 0 => l \in slighted
      <3>1. rowSeq[i].pid \in ScanPids /\ rowSeq[i].life \in Nat /\ rowSeq[i].total \in Nat
        <4>1. rowSeq[i] \in RowType
          BY <1>0 DEF RowTypeOK
        <4>2. QED
          BY <4>1 DEF RowType
      <3>2. \A p \in ScanPids : \A l, u \in Nat : Past(p, l, u) => Past(p, l, u)'
        BY <1>0, WorldKeepsReadings
      <3>3. rowSeq[i].life # 0 => Past(rowSeq[i].pid, rowSeq[i].life, rowSeq[i].total)
        BY <1>0 DEF ScanFollows
      <3>4. rowSeq'[i] = rowSeq[i]
        BY <1>1
      <3>5. rowSeq[i].life # 0 => Past(rowSeq[i].pid, rowSeq[i].life, rowSeq[i].total)'
        BY <3>1, <3>2, <3>3, <3>4
      <3>6. ASSUME rowSeq[i].life = 0, NEW l \in 1 .. MaxLives, l = proc'[rowSeq[i].pid].life, charged[l] > 0
            PROVE  l \in slighted
        <4>1. l <= lives
          BY <1>0, <3>6, ChargedLives
        <4>2. l = proc[rowSeq[i].pid].life
          <5>1. l # 0 /\ l # lives + 1
            BY <1>0, <4>1 DEF BookTypes
          <5>2. QED
            BY <3>1, <3>6, <5>1 DEF WorldMoves
        <4>3. QED
          BY <1>0, <3>6, <4>2 DEF ScanFollows
      <3>7. QED
        BY <3>5, <3>6
    <2>2. \A i \in DOMAIN rowSeq :
            rowSeq[i].charge = (IF rowSeq[i].life = 0 THEN 0
                                ELSE Charge(rowSeq[i].pid, rowSeq[i].total, cpuTotal)')
      BY <1>0, <1>1 DEF ScanFollows, Charge
    <2>3. /\ \A i, j \in DOMAIN rowSeq : rowSeq[i].pid = rowSeq[j].pid => i = j
          /\ \A i \in DOMAIN rowSeq, k \in DOMAIN todo : rowSeq[i].pid # todo[k]
          /\ \A i, j \in DOMAIN todo : todo[i] = todo[j] => i = j
      BY <1>0 DEF ScanFollows
    <2>4. QED
      BY <1>1, <2>1, <2>2, <2>3 DEF ScanFollows
  <1>7. NeverOvercharged' /\ ChargeIsExact'
    <2>1. ASSUME NEW l \in 1 .. MaxLives \ slighted PROVE charged[l] <= usedBy'[l]
      <3>1. charged[l] \in Nat /\ usedBy[l] \in Nat /\ usedBy'[l] \in Nat
        BY <1>0 DEF BookTypes, WorldTypes
      <3>2. CASE l <= lives
        <4>1. usedBy[l] <= usedBy'[l] /\ charged[l] <= usedBy[l]
          BY <1>0, <3>2 DEF WorldMoves, NeverOvercharged, BookTypes
        <4>2. QED
          BY <3>1, <4>1
      <3>3. CASE l > lives
        BY <1>0, <3>1, <3>3 DEF LivesFollow
      <3>4. QED
        BY <1>0, <3>2, <3>3 DEF BookTypes
    <2>2. QED
      BY <1>0, <1>1, <2>1 DEF NeverOvercharged, ChargeIsExact, BookTypes
  <1>8. QED
    BY <1>2, <1>3, <1>4, <1>5, <1>6, <1>7
LEMMA SpawnKeeps == ASSUME RowInv, NEW p \in ScanPids, Spawn(p) PROVE RowInv'
  <1>0. /\ RowTypeOK /\ LivesFollow /\ BooksFollow /\ TitlesFollow /\ BookTypes /\ WorldTypes /\ TitleIsOfPid
    BY TypesOfBooks, RowBounds DEF RowInv, RowsAreOwn, RowTypeOK, WorldTypes
  <1>1. /\ proc[p].life = 0 /\ lives < MaxLives /\ lives' = lives + 1
        /\ pidOf' = [pidOf EXCEPT ![lives + 1] = p]
        /\ proc' = [proc EXCEPT ![p] = [life |-> lives + 1, used |-> 0, title |-> 0]]
        /\ cached' = [cached EXCEPT ![p] = 0]
        /\ heldBy' = [heldBy EXCEPT ![p] = @ \cup {lives + 1}]
        /\ UNCHANGED <<backend, ticks, usedBy, scanVars, judgeVars>>
    <2>1. [NoProc EXCEPT !.life = lives + 1] = [life |-> lives + 1, used |-> 0, title |-> 0]
      BY DEF NoProc
    <2>2. QED
      BY <2>1 DEF Spawn
  <1>2. WorldTypes'
    BY <1>0, <1>1 DEF WorldTypes
  <1>3. \A q \in ScanPids :
          /\ q # p => proc'[q] = proc[q] /\ cached'[q] = cached[q] /\ heldBy'[q] = heldBy[q]
          /\ q = p => /\ proc'[q].life = lives + 1 /\ proc'[q].used = 0 /\ proc'[q].title = 0
                      /\ cached'[q] = 0 /\ heldBy'[q] = heldBy[q] \cup {lives + 1}
    BY <1>0, <1>1 DEF WorldTypes
  <1>4. \A q \in ScanPids : /\ q # p => Reading(q)' = Reading(q)
                            /\ q = p => Reading(q)' = 0
    BY <1>1, <1>3 DEF Reading
  <1>5. WorldMoves
    <2>1. \A l \in 1 .. lives : pidOf'[l] = pidOf[l] /\ usedBy[l] <= usedBy'[l]
      <3> TAKE l \in 1 .. lives
      <3>1. usedBy[l] \in Nat /\ l # lives + 1
        BY <1>0 DEF WorldTypes
      <3>2. QED
        BY <1>0, <1>1, <3>1 DEF WorldTypes
    <2>2. \A q \in ScanPids : proc'[q].life # 0 =>
            \/ proc'[q].life = proc[q].life /\ Reading(q) <= Reading(q)'
            \/ proc'[q].life = lives + 1
      <3> TAKE q \in ScanPids
      <3>1. Reading(q) \in Nat
        BY <1>0, ReadingIsNat
      <3>2. QED
        BY <1>3, <1>4, <3>1
    <2>3. QED
      BY <1>0, <1>1, <2>1, <2>2 DEF WorldMoves, WorldTypes
  <1>6. charged' = charged /\ before' = before /\ slighted' = slighted /\ rowSeq' = rowSeq
        /\ titles' = titles /\ rowAt' = rowAt
    BY <1>1 DEF scanVars, judgeVars
  <1>7. LivesFollow'
    <2>1. ASSUME NEW q \in ScanPids, proc'[q].life # 0
          PROVE  /\ Chargeable(q, proc[q].life, Reading(q))'
                 /\ Reading(q)' <= proc'[q].used /\ proc'[q].used = usedBy'[proc'[q].life]
      <3>1. CASE q # p
        <4>1. /\ Chargeable(q, proc[q].life, Reading(q)) /\ Reading(q) <= proc[q].used
              /\ proc[q].used = usedBy[proc[q].life]
          BY <1>0, <1>3, <2>1, <3>1 DEF LivesFollow
        <4>2. Reading(q) \in Nat /\ proc[q].life \in Nat
          BY <1>0, ReadingIsNat
        <4>3. \A l, u \in Nat : Chargeable(q, l, u) => Chargeable(q, l, u)'
          BY <1>0, <1>2, <1>5, WorldKeepsReadings
        <4>4. proc'[q].life = proc[q].life /\ Reading(q)' = Reading(q) /\ proc'[q].used = proc[q].used
          BY <1>3, <1>4, <3>1
        <4>5. Chargeable(q, proc[q].life, Reading(q))'
          BY <4>1, <4>2, <4>3, <4>4
        <4>6. QED
          BY <1>1, <4>1, <4>4, <4>5
      <3>2. CASE q = p
        <4>1. proc'[q].life = lives + 1 /\ proc'[q].used = 0 /\ Reading(q)' = 0
          BY <1>3, <1>4, <3>2
        <4>2. charged[lives + 1] = 0 /\ usedBy[lives + 1] = 0 /\ lives + 1 \in 1 .. MaxLives
          BY <1>0, <1>1 DEF LivesFollow, WorldTypes
        <4>3. pidOf'[lives + 1] = p
          BY <1>0, <1>1, <4>2 DEF WorldTypes
        <4>4. \A k \in 1 .. MaxLives : charged[k] > 0 => k <= lives + 1
          <5>1. \A k \in 1 .. MaxLives : charged[k] > 0 => k <= lives
            BY <1>0, ChargedLives
          <5>2. lives \in Nat
            BY <1>0 DEF BookTypes
          <5>3. QED
            BY <5>1, <5>2
        <4>5. \A l \in Nat : l = lives + 1 => Owns(q, l)'
          BY <1>0, <1>1, <1>6, <3>2, <4>2, <4>3, <4>4 DEF Owns, WorldTypes
        <4>6. q \in DOMAIN before => before[q][1] <= lives
          <5> SUFFICES ASSUME q \in DOMAIN before, before[q][1] # 0 PROVE before[q][1] <= lives
            BY <1>0 DEF BookTypes
          <5>1. Owns(q, before[q][1])
            BY <1>0 DEF BooksFollow
          <5>2. QED
            BY <1>0, <5>1 DEF Owns, BookTypes
        <4>7. q \in DOMAIN before => before[q][1] \in Nat
          BY <1>0 DEF BookTypes
        <4>8. \A l, u \in Nat : l = lives + 1 /\ u = 0 => Chargeable(q, l, u)'
          BY <1>0, <1>1, <1>6, <4>2, <4>5, <4>6, <4>7 DEF Chargeable, BookTypes
        <4>9. Chargeable(q, proc[q].life, Reading(q))'
          BY <1>0, <4>1, <4>8 DEF BookTypes
        <4>10. QED
          BY <1>1, <4>1, <4>2, <4>9
      <3>3. QED
        BY <3>1, <3>2
    <2>2. \A l \in 1 .. MaxLives : l > lives' => charged'[l] = 0 /\ usedBy'[l] = 0
      BY <1>0, <1>1, <1>6 DEF LivesFollow, WorldTypes
    <2>3. QED
      BY <2>1, <2>2 DEF LivesFollow
  <1>8. TitlesFollow'
    <2>1. \A q \in ScanPids : heldBy[q] \subseteq heldBy'[q]
      BY <1>3
    <2>2. \A q \in ScanPids : proc'[q].life = 0 => proc'[q].title = 0
      BY <1>0, <1>3 DEF TitlesFollow, WorldTypes
    <2>3. \A q \in ScanPids : proc'[q].life # 0 => proc'[q].life \in heldBy'[q]
      BY <1>0, <1>3 DEF TitlesFollow
    <2>4. \A q \in DOMAIN titles : titles[q][2] # 0 => titles[q][1] \in heldBy'[q]
      BY <1>0, <2>1 DEF TitlesFollow, RowTypeOK
    <2>5. QED
      BY <1>0, <1>6, <2>2, <2>3, <2>4 DEF TitlesFollow
  <1>9. TitleIsOfPid'
    <2>1. \A i \in DOMAIN rowSeq : rowSeq[i].pid \in ScanPids
      <3>1. \A i \in DOMAIN rowSeq : rowSeq[i] \in RowType
        BY <1>0 DEF RowTypeOK
      <3>2. QED
        BY <3>1 DEF RowType
    <2>2. \A i \in DOMAIN rowSeq : heldBy[rowSeq[i].pid] \subseteq heldBy'[rowSeq[i].pid]
      BY <1>3, <2>1
    <2>3. QED
      BY <1>0, <1>6, <2>2 DEF TitleIsOfPid
  <1>10. QED
    BY <1>2, <1>5, <1>7, <1>8, <1>9, WorldKeeps DEF RowInv, RowsAreOwn
\* the host's other steps
LEMMA HostKeeps ==
  ASSUME RowInv, WorldTypes', WorldMoves, UNCHANGED <<lives, heldBy>>,
         \A q \in ScanPids : proc'[q].life # 0 =>
           /\ proc'[q].life = proc[q].life /\ Reading(q) <= Reading(q)'
           /\ Reading(q)' <= proc'[q].used /\ proc'[q].used = usedBy'[proc'[q].life],
         \A q \in ScanPids : proc'[q].life = 0 => proc'[q].title = 0,
         \A l \in 1 .. MaxLives : l > lives => usedBy'[l] = 0
  PROVE  RowInv'
  <1>0. /\ RowTypeOK /\ LivesFollow /\ TitlesFollow /\ BookTypes /\ WorldTypes /\ TitleIsOfPid
    BY TypesOfBooks, RowBounds DEF RowInv, RowsAreOwn, RowTypeOK, WorldTypes
  <1>1. charged' = charged /\ before' = before /\ slighted' = slighted /\ rowSeq' = rowSeq
        /\ titles' = titles /\ rowAt' = rowAt
    BY DEF WorldMoves, scanVars, judgeVars
  <1>2. LivesFollow'
    <2>1. ASSUME NEW q \in ScanPids, proc'[q].life # 0
          PROVE  Chargeable(q, proc[q].life, Reading(q))'
      <3>1. Chargeable(q, proc[q].life, Reading(q)) /\ proc'[q].life = proc[q].life
        BY <1>0, <2>1 DEF LivesFollow
      <3>2. Reading(q) \in Nat /\ proc[q].life \in Nat
        BY <1>0, ReadingIsNat
      <3>3. proc'[q] \in [life : Nat, used : Nat, title : Nat] /\ cached'[q] \in Nat
        BY DEF WorldTypes
      <3>4. Reading(q)' \in Nat /\ proc'[q].used \in Nat
        BY <3>3 DEF Reading
      <3>5. \A l, u \in Nat : Chargeable(q, l, u) => Chargeable(q, l, u)'
        BY <1>0, WorldKeepsReadings
      <3>6. \A l, u, v \in Nat :
              Chargeable(q, l, u)' /\ u <= v /\ v <= usedBy'[l] => Chargeable(q, l, v)'
        <4> TAKE l, u, v \in Nat
        <4> SUFFICES ASSUME Chargeable(q, l, u)', u <= v, v <= usedBy'[l] PROVE Chargeable(q, l, v)'
          OBVIOUS
        <4>1. l \in 1 .. MaxLives
          BY DEF Chargeable, Owns, WorldTypes
        <4>2. charged'[l] \in Nat
          BY <1>0, <1>1, <4>1 DEF BookTypes
        <4>3. q \in DOMAIN before => before[q][2] \in Nat
          BY <1>0 DEF BookTypes
        <4>4. QED
          BY <1>1, <4>2, <4>3 DEF Chargeable
      <3>7. \A l \in Nat : l = proc[q].life => Chargeable(q, l, Reading(q))'
        <4> TAKE l \in Nat
        <4> SUFFICES ASSUME l = proc[q].life PROVE Chargeable(q, l, Reading(q))'
          OBVIOUS
        <4>1. \A u \in Nat : u = Reading(q) => Chargeable(q, l, u)'
          BY <3>1, <3>2, <3>5
        <4>2. Reading(q)' <= usedBy'[l] /\ Reading(q) <= Reading(q)'
          BY <2>1, <3>1
        <4>3. \A v \in Nat : v = Reading(q)' => Chargeable(q, l, v)'
          BY <3>2, <3>6, <4>1, <4>2
        <4>4. QED
          BY <3>4, <4>3
      <3>8. QED
        BY <3>1, <3>2, <3>7
    <2>2. \A l \in 1 .. MaxLives : l > lives' => charged'[l] = 0 /\ usedBy'[l] = 0
      BY <1>0, <1>1 DEF LivesFollow
    <2>3. QED
      BY <2>1, <2>2 DEF LivesFollow
  <1>3. TitlesFollow' /\ TitleIsOfPid'
    BY <1>0, <1>1 DEF TitlesFollow, TitleIsOfPid
  <1>4. QED
    BY <1>2, <1>3, WorldKeeps DEF RowInv, RowsAreOwn

LEMMA HostInv ==
  ASSUME RowInv, NEW p \in ScanPids, Run(p) \/ Exec(p) \/ Exit(p) \/ Refresh(p)
  PROVE  RowInv'
  <1>0. /\ RowTypeOK /\ LivesFollow /\ TitlesFollow /\ BookTypes /\ WorldTypes
    BY TypesOfBooks, RowBounds DEF RowInv, RowsAreOwn, RowTypeOK, WorldTypes
  <1>1. \A q \in ScanPids :
          /\ Reading(q) \in Nat /\ proc[q].life \in Nat /\ proc[q].used \in Nat /\ proc[q].title \in Nat
          /\ proc[q].life # 0 => /\ proc[q].life \in 1 .. MaxLives /\ proc[q].life <= lives /\ pidOf[proc[q].life] = q
                                 /\ Reading(q) <= proc[q].used /\ proc[q].used = usedBy[proc[q].life]
          /\ proc[q].life = 0 => proc[q].title = 0
    <2> TAKE q \in ScanPids
    <2>1. Reading(q) \in Nat /\ proc[q].life \in Nat /\ proc[q].used \in Nat /\ proc[q].title \in Nat
      BY <1>0, ReadingIsNat
    <2>2. proc[q].life # 0 => /\ Chargeable(q, proc[q].life, Reading(q))
                              /\ Reading(q) <= proc[q].used /\ proc[q].used = usedBy[proc[q].life]
      BY <1>0 DEF LivesFollow
    <2>3. proc[q].life # 0 => proc[q].life \in 1 .. lives /\ pidOf[proc[q].life] = q
      BY <2>2 DEF Chargeable, Owns
    <2>4. lives \in 0 .. MaxLives /\ MaxLives \in Nat
      BY <1>0 DEF BookTypes
    <2>5. proc[q].life = 0 => proc[q].title = 0
      BY <1>0 DEF TitlesFollow
    <2>6. QED
      BY <2>1, <2>2, <2>3, <2>4, <2>5
  <1>2. \A l \in 1 .. MaxLives : usedBy[l] \in Nat /\ (l > lives => usedBy[l] = 0)
    BY <1>0 DEF LivesFollow, BookTypes
  <1>3. CASE Run(p)
    <2>1. /\ proc[p].life # 0 /\ proc' = [proc EXCEPT ![p].used = @ + 1]
          /\ usedBy' = [usedBy EXCEPT ![proc[p].life] = @ + 1]
          /\ ticks' = ticks + 1
          /\ UNCHANGED <<backend, cached, lives, pidOf, heldBy, scanVars, judgeVars>>
      BY <1>3 DEF Run
    <2>2. WorldTypes'
      BY SMTT(40), <1>0, <1>1, <2>1 DEF WorldTypes
    <2>3. \A q \in ScanPids : /\ proc'[q].life = proc[q].life /\ proc'[q].title = proc[q].title
                              /\ q # p => proc'[q] = proc[q]
                              /\ q = p => proc'[q].used = proc[q].used + 1
      BY <1>0, <2>1 DEF WorldTypes
    <2>4. \A q \in ScanPids : Reading(q) <= Reading(q)' /\ (proc[q].life # 0 => Reading(q)' <= proc'[q].used)
      BY <1>1, <2>1, <2>3 DEF Reading
    <2>5. \A l \in 1 .. MaxLives : /\ l # proc[p].life => usedBy'[l] = usedBy[l]
                                   /\ l = proc[p].life => usedBy'[l] = usedBy[l] + 1
      BY <1>0, <2>1 DEF WorldTypes
    <2>6. \A q \in ScanPids : proc[q].life # 0 => proc'[q].used = usedBy'[proc[q].life]
      <3> TAKE q \in ScanPids
      <3>1. q # p /\ proc[q].life # 0 => proc[q].life # proc[p].life
        BY <1>1, <2>1
      <3>2. QED
        BY <1>1, <2>1, <2>3, <2>5, <3>1
    <2>7. WorldMoves
      BY <1>0, <1>2, <2>1, <2>3, <2>4, <2>5 DEF WorldMoves, WorldTypes
    <2>8. \A l \in 1 .. MaxLives : l > lives => usedBy'[l] = 0
      BY <1>0, <1>1, <1>2, <2>1, <2>5 DEF WorldTypes
    <2>9. QED
      BY <1>1, <2>1, <2>2, <2>3, <2>4, <2>6, <2>7, <2>8, HostKeeps
  <1>4. CASE Exec(p)
    <2>1. /\ proc[p].life # 0 /\ proc' = [proc EXCEPT ![p].title = @ + 1]
          /\ UNCHANGED <<backend, cached, ticks, lives, pidOf, usedBy, heldBy, scanVars, judgeVars>>
      BY <1>4 DEF Exec
    <2>2. WorldTypes'
      <3>1. proc[p] \in [life : Nat, used : Nat, title : Nat]
        BY <1>0 DEF WorldTypes
      <3>2. [proc[p] EXCEPT !.title = @ + 1] \in [life : Nat, used : Nat, title : Nat]
        BY <3>1
      <3>3. proc' \in [ScanPids -> [life : Nat, used : Nat, title : Nat]]
        BY <1>0, <2>1, <3>2 DEF WorldTypes
      <3>4. QED
        BY <1>0, <2>1, <3>3 DEF WorldTypes
    <2>3. \A q \in ScanPids : /\ proc'[q].life = proc[q].life /\ proc'[q].used = proc[q].used
                              /\ q # p => proc'[q].title = proc[q].title
      BY <1>0, <2>1 DEF WorldTypes
    <2>4. \A q \in ScanPids : Reading(q)' = Reading(q)
      BY <2>1, <2>3 DEF Reading
    <2>5. WorldMoves
      BY <1>0, <1>1, <1>2, <2>1, <2>3, <2>4 DEF WorldMoves, WorldTypes
    <2>6. QED
      BY <1>1, <1>2, <2>1, <2>2, <2>3, <2>4, <2>5, HostKeeps
  <1>5. CASE Exit(p)
    <2>1. /\ proc' = [proc EXCEPT ![p] = [life |-> 0, used |-> 0, title |-> 0]]
          /\ UNCHANGED <<backend, cached, ticks, lives, pidOf, usedBy, heldBy, scanVars, judgeVars>>
      BY <1>5 DEF Exit, NoProc
    <2>2. WorldTypes'
      BY <1>0, <2>1 DEF WorldTypes
    <2>3. \A q \in ScanPids : /\ q # p => proc'[q] = proc[q]
                              /\ q = p => proc'[q].life = 0 /\ proc'[q].title = 0
      BY <1>0, <2>1 DEF WorldTypes
    <2>4. \A q \in ScanPids : q # p => Reading(q)' = Reading(q)
      BY <2>1, <2>3 DEF Reading
    <2>5. WorldMoves
      <3>1. \A q \in ScanPids : proc'[q].life # 0 =>
              proc'[q].life = proc[q].life /\ Reading(q) <= Reading(q)'
        BY <1>1, <2>3, <2>4
      <3>2. \A l \in 1 .. lives : usedBy[l] <= usedBy'[l]
        BY <1>0, <1>2, <2>1 DEF WorldTypes
      <3>3. QED
        BY <1>0, <2>1, <3>1, <3>2 DEF WorldMoves, WorldTypes
    <2>6. QED
      BY <1>1, <1>2, <2>1, <2>2, <2>3, <2>4, <2>5, HostKeeps
  <1>6. CASE Refresh(p)
    <2>1. /\ backend = "kernel" /\ proc[p].life # 0 /\ cached' = [cached EXCEPT ![p] = proc[p].used]
          /\ UNCHANGED <<backend, proc, ticks, lives, pidOf, usedBy, heldBy, scanVars, judgeVars>>
      BY <1>6 DEF Refresh
    <2>2. WorldTypes'
      <3>1. proc[p].used \in Nat
        BY <1>1
      <3>2. cached' \in [ScanPids -> Nat]
        BY <1>0, <2>1, <3>1 DEF WorldTypes
      <3>3. QED
        BY <1>0, <2>1, <3>2 DEF WorldTypes
    <2>3. \A q \in ScanPids : /\ q # p => cached'[q] = cached[q]
                              /\ q = p => cached'[q] = proc[q].used
      BY <1>0, <2>1 DEF WorldTypes
    <2>4. \A q \in ScanPids : Reading(q) <= Reading(q)' /\ (proc[q].life # 0 => Reading(q)' <= proc[q].used)
      BY <1>1, <2>1, <2>3 DEF Reading
    <2>5. WorldMoves
      BY <1>0, <1>2, <2>1, <2>4 DEF WorldMoves, WorldTypes
    <2>6. QED
      BY <1>1, <1>2, <2>1, <2>2, <2>4, <2>5, HostKeeps
  <1>7. QED
    BY <1>3, <1>4, <1>5, <1>6
----------------------------------------------------------------------------
(* The collectors.                                                          *)

\* what was read and charged, where the processes and the books stay
LEMMA StillTrue ==
  ASSUME UNCHANGED <<backend, proc, cached, lives, pidOf, usedBy, charged, before, lastPer, lastCpu, slighted>>
  PROVE  /\ LivesFollow => LivesFollow'
         /\ BooksFollow => BooksFollow'
         /\ \A p, l, u : /\ Past(p, l, u)' <=> Past(p, l, u)
                         /\ Chargeable(p, l, u)' <=> Chargeable(p, l, u)
  <1>1. \A p : Reading(p)' = Reading(p)
    BY DEF Reading
  <1>2. \A p, l : Owns(p, l)' <=> Owns(p, l)
    BY DEF Owns
  <1>3. \A p, l, u : Chargeable(p, l, u)' <=> Chargeable(p, l, u)
    BY <1>2 DEF Chargeable
  <1>4. \A p, l, u : Past(p, l, u)' <=> Past(p, l, u)
    BY <1>1, <1>3 DEF Past
  <1>5. LivesFollow => LivesFollow'
    BY <1>1, <1>3 DEF LivesFollow
  <1>6. BooksFollow => BooksFollow'
    BY <1>2 DEF BooksFollow
  <1>7. QED
    BY <1>3, <1>4, <1>5, <1>6

LEMMA RequestInv == ASSUME RowInv, SendRequest PROVE RowInv'
  <1>0. /\ RowTypeOK /\ StagesFollow /\ LivesFollow /\ BooksFollow /\ RepliesFollow /\ TitlesFollow
        /\ RowsAreOwn /\ BookTypes /\ WorldTypes
    BY TypesOfBooks, RowBounds DEF RowInv, RowTypeOK, WorldTypes
  <1>1. /\ backend = "kernel" /\ scans' = scans + 1 /\ rowSeq' = <<>>
        /\ UNCHANGED <<backend, proc, cached, ticks, lives, pidOf, usedBy, heldBy, todo, cpuTotal, lastPer,
                       lastCpu, lastRun, titles, charged, before, mischarged, slighted>>
    BY DEF SendRequest, worldVars
  <1>2. /\ LivesFollow' /\ BooksFollow'
        /\ \A p, l, u : Past(p, l, u)' <=> Past(p, l, u)
    BY <1>0, <1>1, StillTrue
  <1>3. TitlesFollow' /\ RowsAreOwn'
    BY <1>0, <1>1 DEF TitlesFollow, RowsAreOwn, NeverOvercharged, ChargeIsExact, TitleIsOfPid, SendRequest
  <1>4. inbox \in Seq(ReplyType)
    BY <1>0 DEF RowTypeOK
  <1>5. CASE rowAt' = "idle" /\ inbox' = inbox /\ faults' = faults + 1
    <2>1. RowTypeOK'
      <3>1. rowSeq' \in Seq(RowType) /\ faults' \in Nat /\ scans' \in Nat
        BY <1>0, <1>1, <1>5 DEF RowTypeOK
      <3>2. QED
        BY <1>0, <1>1, <1>5, <3>1 DEF RowTypeOK
    <2>2. StagesFollow' /\ RepliesFollow' /\ ScanFollows'
      BY <1>0, <1>1, <1>2, <1>5 DEF StagesFollow, RepliesFollow, ScanFollows
    <2>3. QED
      BY <1>2, <1>3, <2>1, <2>2 DEF RowInv
  <1>6. CASE \E a \in Answers :
            /\ faults' = faults + (IF a.seen = Living /\ ~a.error THEN 0 ELSE 1)
            /\ inbox' = Append(inbox,
                 [error |-> a.error, rows |-> [p \in a.seen |-> [life |-> proc[p].life, used |-> cached[p]]]])
            /\ rowAt' = "sent"
    <2>1. PICK a \in Answers :
            /\ faults' = faults + (IF a.seen = Living /\ ~a.error THEN 0 ELSE 1)
            /\ inbox' = Append(inbox,
                 [error |-> a.error, rows |-> [p \in a.seen |-> [life |-> proc[p].life, used |-> cached[p]]]])
            /\ rowAt' = "sent"
      BY <1>6
    <2>2. a.seen \subseteq Living /\ a.error \in BOOLEAN
      <3>1. a \in [seen : SUBSET Living, error : {FALSE}] \/ a = [seen |-> {}, error |-> TRUE]
        BY DEF Answers
      <3>2. CASE a \in [seen : SUBSET Living, error : {FALSE}]
        <4>1. a.seen \in SUBSET Living /\ a.error \in {FALSE}
          BY <3>2
        <4>2. QED
          BY <4>1
      <3>3. CASE a = [seen |-> {}, error |-> TRUE]
        <4>1. a.seen = {} /\ a.error = TRUE
          BY <3>3
        <4>2. QED
          BY <4>1
      <3>4. QED
        BY <3>1, <3>2, <3>3
    <2> DEFINE table == [p \in a.seen |-> [life |-> proc[p].life, used |-> cached[p]]]
               reply == [error |-> a.error, rows |-> table]
    <2>3. \A p \in a.seen : /\ p \in ScanPids /\ proc[p].life # 0
                            /\ table[p].life = proc[p].life /\ table[p].used = cached[p]
                            /\ proc[p].life \in Nat /\ cached[p] \in Nat
      BY <1>0, <2>2, ReadingIsNat DEF Living, WorldTypes
    <2>4. table \in [a.seen -> ReadingType]
      BY <2>3 DEF ReadingType
    <2>5. reply \in ReplyType /\ DOMAIN reply.rows = a.seen
      BY <2>2, <2>3, <2>4, ReplyMade
    <2> HIDE DEF table
    <2>6. inbox' = Append(inbox, reply) /\ inbox' \in Seq(ReplyType) /\ Len(inbox') = Len(inbox) + 1
      BY <1>4, <2>1, <2>5 DEF table
    <2>7. /\ \A i \in DOMAIN inbox : inbox'[i] = inbox[i] /\ i # Len(inbox) + 1 /\ i \in 1 .. Len(inbox)
          /\ inbox'[Len(inbox) + 1] = reply /\ reply.rows = table
          /\ DOMAIN inbox' = DOMAIN inbox \cup {Len(inbox) + 1} /\ Len(inbox) \in Nat
      BY <1>4, <2>5, <2>6
    <2>8. faults' \in Nat
      BY <1>0, <2>1 DEF RowTypeOK
    <2>9. RowTypeOK'
      <3>1. rowSeq' \in Seq(RowType) /\ scans' \in Nat
        BY <1>0, <1>1 DEF RowTypeOK
      <3>2. QED
        BY <1>0, <1>1, <2>1, <2>6, <2>8, <3>1 DEF RowTypeOK
    <2>10. StagesFollow' /\ ScanFollows'
      BY <1>0, <1>1, <2>1, <2>7 DEF StagesFollow, ScanFollows
    <2>11. \A p \in a.seen : Past(p, table[p].life, table[p].used)
      <3> TAKE p \in a.seen
      <3>1. Reading(p) = cached[p]
        BY <1>1 DEF Reading
      <3>2. Chargeable(p, proc[p].life, Reading(p))
        BY <1>0, <2>3 DEF LivesFollow
      <3>3. Past(p, proc[p].life, cached[p])
        BY <2>3, <3>1, <3>2 DEF Past
      <3>4. QED
        BY <2>3, <3>3
    <2>12. ASSUME NEW i \in DOMAIN inbox', NEW p \in DOMAIN inbox'[i].rows
           PROVE  Past(p, inbox[i].rows[p].life, inbox[i].rows[p].used)'
      <3>1. Past(p, inbox'[i].rows[p].life, inbox'[i].rows[p].used)
        BY <1>0, <2>5, <2>7, <2>11 DEF RepliesFollow
      <3>2. QED
        BY <1>2, <3>1
    <2>13. ASSUME NEW i \in DOMAIN inbox', NEW j \in DOMAIN inbox', i < j,
                  NEW p \in DOMAIN inbox'[i].rows \cap DOMAIN inbox'[j].rows
           PROVE  /\ inbox'[i].rows[p].life <= inbox'[j].rows[p].life
                  /\ inbox'[i].rows[p].life = inbox'[j].rows[p].life =>
                       inbox'[i].rows[p].used <= inbox'[j].rows[p].used
      <3>1. i \in DOMAIN inbox
        BY <2>7, <2>13
      <3>2. CASE j \in DOMAIN inbox
        BY <1>0, <2>7, <2>13, <3>1, <3>2 DEF RepliesFollow
      <3>3. CASE j = Len(inbox) + 1
        <4>1. p \in a.seen /\ p \in DOMAIN inbox[i].rows
          BY <2>5, <2>7, <3>1, <3>3
        <4>2. Past(p, inbox[i].rows[p].life, inbox[i].rows[p].used)
          BY <1>0, <3>1, <4>1 DEF RepliesFollow
        <4>3. Reading(p) = cached[p]
          BY <1>1 DEF Reading
        <4>4. /\ inbox[i].rows[p].life <= proc[p].life
              /\ inbox[i].rows[p].life = proc[p].life => inbox[i].rows[p].used <= cached[p]
          BY <2>3, <4>1, <4>2, <4>3 DEF Past
        <4>5. QED
          BY <2>3, <2>7, <3>1, <3>3, <4>1, <4>4
      <3>4. QED
        BY <2>7, <3>2, <3>3
    <2>14. RepliesFollow'
      BY <2>12, <2>13 DEF RepliesFollow
    <2>15. QED
      BY <1>2, <1>3, <2>9, <2>10, <2>14 DEF RowInv
  <1>7. QED
    BY <1>5, <1>6 DEF SendRequest

LEMMA InboxTail ==
  ASSUME RowTypeOK, inbox # <<>>, inbox' = Tail(inbox)
  PROVE  /\ Head(inbox) \in ReplyType /\ Head(inbox) = inbox[1] /\ 1 \in DOMAIN inbox
         /\ inbox' \in Seq(ReplyType)
         /\ \A i \in DOMAIN inbox' : i \in Nat /\ i + 1 \in DOMAIN inbox /\ inbox'[i] = inbox[i + 1] /\ 1 < i + 1
  <1>1. inbox \in Seq(ReplyType)
    BY DEF RowTypeOK
  <1>2. QED
    BY <1>1

LEMMA FailInv == ASSUME RowInv, ReceiveFails PROVE RowInv'
  <1>0. /\ RowTypeOK /\ StagesFollow /\ LivesFollow /\ BooksFollow /\ RepliesFollow /\ TitlesFollow
        /\ RowsAreOwn
    BY DEF RowInv
  <1>1. /\ rowAt = "sent" /\ rowAt' = "idle"
        /\ UNCHANGED <<backend, proc, cached, ticks, lives, pidOf, usedBy, heldBy, scans, todo, rowSeq, cpuTotal,
                       lastPer, lastCpu, lastRun, titles, charged, before, mischarged, slighted>>
        /\ \/ faults' = faults + 1 /\ inbox' = inbox
           \/ inbox' = Tail(inbox) /\ faults' = faults
    BY DEF ReceiveFails, worldVars
  <1>2. /\ LivesFollow' /\ BooksFollow'
        /\ \A p, l, u : Past(p, l, u)' <=> Past(p, l, u)
    BY <1>0, <1>1, StillTrue
  <1>3. TitlesFollow' /\ RowsAreOwn' /\ ScanFollows'
    BY <1>0, <1>1 DEF TitlesFollow, RowsAreOwn, NeverOvercharged, ChargeIsExact, TitleIsOfPid, ScanFollows
  <1>4. inbox # <<>> /\ backend = "kernel"
    BY <1>0, <1>1 DEF StagesFollow, RowTypeOK
  <1>5. StagesFollow'
    BY <1>1, <1>4 DEF StagesFollow
  <1>6. RowTypeOK' /\ RepliesFollow'
    <2>1. CASE inbox' = inbox /\ faults' = faults + 1
      <3>1. faults' \in Nat
        BY <1>0, <2>1 DEF RowTypeOK
      <3>2. RowTypeOK'
        BY <1>0, <1>1, <2>1, <3>1 DEF RowTypeOK
      <3>3. RepliesFollow'
        BY <1>0, <1>2, <2>1 DEF RepliesFollow
      <3>4. QED
        BY <3>2, <3>3
    <2>2. CASE inbox' = Tail(inbox) /\ faults' = faults
      <3>1. /\ inbox' \in Seq(ReplyType)
            /\ \A i \in DOMAIN inbox' : i \in Nat /\ i + 1 \in DOMAIN inbox /\ inbox'[i] = inbox[i + 1]
        BY <1>0, <1>4, <2>2, InboxTail
      <3>2. RowTypeOK'
        BY <1>0, <1>1, <2>2, <3>1 DEF RowTypeOK
      <3>3. \A i, j \in DOMAIN inbox' : i < j => i + 1 < j + 1
        BY <3>1
      <3>4. ASSUME NEW i \in DOMAIN inbox', NEW p \in DOMAIN inbox'[i].rows
            PROVE  Past(p, inbox[i].rows[p].life, inbox[i].rows[p].used)'
        <4>1. Past(p, inbox'[i].rows[p].life, inbox'[i].rows[p].used)
          BY <1>0, <3>1 DEF RepliesFollow
        <4>2. QED
          BY <1>2, <4>1
      <3>5. QED
        BY <1>0, <3>1, <3>2, <3>3, <3>4 DEF RepliesFollow
    <2>3. QED
      BY <1>1, <2>1, <2>2
  <1>7. QED
    BY <1>2, <1>3, <1>5, <1>6 DEF RowInv
LEMMA ReplyInv == ASSUME RowInv, ReceiveReply PROVE RowInv'
  <1>0. /\ RowTypeOK /\ StagesFollow /\ LivesFollow /\ BooksFollow /\ RepliesFollow /\ TitlesFollow
        /\ RowsAreOwn /\ BookTypes /\ WorldTypes
    BY TypesOfBooks, RowBounds DEF RowInv, RowTypeOK, WorldTypes
  <1> DEFINE reply == Head(inbox).rows
  <1>1. PICK walk \in Walks(DOMAIN reply) :
          LET rows == [i \in DOMAIN walk |->
                        Row(walk[i], reply[walk[i]].life, reply[walk[i]].used, ticks)]
         IN  /\ titles' = KeptTitles(DOMAIN reply)
             /\ lastPer' = Baselines(rows)
             /\ rowSeq' \in ByCharge(rows)
             /\ todo' = [i \in DOMAIN rows |-> i]
             /\ Book(rows, ticks)
             /\ heldBy' = [p \in ScanPids |-> IF p \in DOMAIN reply THEN heldBy[p] ELSE {proc[p].life} \ {0}]
    BY DEF ReceiveReply
  <1> DEFINE rows == [i \in DOMAIN walk |->
                        Row(walk[i], reply[walk[i]].life, reply[walk[i]].used, ticks)]
  <1>2. /\ titles' = KeptTitles(DOMAIN reply) /\ lastPer' = Baselines(rows)
        /\ rowSeq' \in ByCharge(rows) /\ todo' = [i \in DOMAIN rows |-> i]
        /\ Book(rows, ticks)
        /\ heldBy' = [p \in ScanPids |-> IF p \in DOMAIN reply THEN heldBy[p] ELSE {proc[p].life} \ {0}]
    BY <1>1
  <1>3. /\ rowAt = "sent" /\ inbox' = Tail(inbox) /\ cpuTotal' = ticks /\ lastCpu' = ticks /\ rowAt' = "title"
        /\ UNCHANGED <<backend, proc, cached, ticks, lives, pidOf, usedBy, scans, lastRun, faults, slighted>>
    BY DEF ReceiveReply
  <1>4. inbox # <<>> /\ backend = "kernel"
    BY <1>0, <1>3 DEF StagesFollow, RowTypeOK
  <1>5. /\ Head(inbox) \in ReplyType /\ Head(inbox) = inbox[1] /\ 1 \in DOMAIN inbox
        /\ inbox' \in Seq(ReplyType)
        /\ \A i \in DOMAIN inbox' : i \in Nat /\ i + 1 \in DOMAIN inbox /\ inbox'[i] = inbox[i + 1] /\ 1 < i + 1
    BY <1>0, <1>3, <1>4, InboxTail
  <1>6. /\ DOMAIN reply \subseteq ScanPids
        /\ \A p \in DOMAIN reply : reply[p].life \in Nat /\ reply[p].used \in Nat
    BY <1>5, ReplyRows
  <1>7. \A p \in DOMAIN reply : /\ Past(p, reply[p].life, reply[p].used)
                                /\ Chargeable(p, reply[p].life, reply[p].used)
                                /\ reply[p].life # 0
    BY <1>0, <1>5 DEF RepliesFollow, Past, Chargeable, Owns, BookTypes
  <1>8. \A i \in DOMAIN inbox' : \A p \in DOMAIN reply \cap DOMAIN inbox'[i].rows :
          /\ reply[p].life <= inbox'[i].rows[p].life
          /\ reply[p].life = inbox'[i].rows[p].life => reply[p].used <= inbox'[i].rows[p].used
    BY <1>0, <1>5 DEF RepliesFollow
  <1>9. /\ walk \in [1 .. Cardinality(DOMAIN reply) -> DOMAIN reply]
        /\ \A p \in DOMAIN reply : \E i \in DOMAIN walk : walk[i] = p
        /\ \A i, j \in DOMAIN walk : walk[i] = walk[j] => i = j
    BY DEF Walks
  <1>10. Cardinality(DOMAIN reply) \in Nat
    <2>1. IsFiniteSet(DOMAIN reply)
      BY <1>6, RowBounds, FS_Subset
    <2>2. QED
      BY <2>1, FS_CardinalityType
  <1> HIDE DEF reply
  <1>11. ticks \in Nat
    BY <1>0 DEF WorldTypes
  <1>12. \A i \in DOMAIN walk :
           /\ rows[i] \in RowType /\ rows[i].pid = walk[i] /\ walk[i] \in DOMAIN reply
           /\ rows[i].life = reply[walk[i]].life /\ rows[i].total = reply[walk[i]].used
           /\ rows[i].charge = Charge(walk[i], reply[walk[i]].used, ticks)
           /\ rows[i].cmd[2] = 0
    <2> TAKE i \in DOMAIN walk
    <2>1. walk[i] \in DOMAIN reply /\ walk[i] \in ScanPids
      BY <1>6, <1>9
    <2>2. rows[i] = Row(walk[i], reply[walk[i]].life, reply[walk[i]].used, ticks)
      OBVIOUS
    <2>3. Row(walk[i], reply[walk[i]].life, reply[walk[i]].used, ticks) \in RowType
      BY <1>0, <1>6, <1>11, <2>1, RowIsRow
    <2>4. QED
      BY <2>1, <2>2, <2>3 DEF Row
  <1>13. rows \in Seq(RowType) /\ DOMAIN rows = DOMAIN walk
    BY <1>9, <1>10, <1>12
  <1> HIDE DEF rows
  <1>14. Countable(rows, ticks)
    BY <1>7, <1>9, <1>12, <1>13 DEF Countable
  <1>15. Sampled(rows, ticks)
    BY <1>2, <1>3 DEF Sampled
  <1>16. /\ charged' \in [1 .. MaxLives -> Nat]
         /\ DOMAIN lastPer' \subseteq ScanPids /\ lastPer' \in [DOMAIN lastPer' -> Nat]
         /\ DOMAIN before' = DOMAIN lastPer' /\ before' \in [DOMAIN lastPer' -> Nat \X Nat]
         /\ mischarged' = {} /\ NeverOvercharged' /\ BooksFollow'
         /\ \A l \in 1 .. MaxLives :
              \/ charged'[l] = charged[l]
              \/ \E i \in DOMAIN rows : rows[i].life = l /\ rows[i].pid = pidOf[l]
         /\ \A p \in ScanPids, l \in Nat, u \in Nat :
              /\ Chargeable(p, l, u)
              /\ \A i \in DOMAIN rows : rows[i].pid = p =>
                   /\ rows[i].life <= l
                   /\ rows[i].life = l => rows[i].total <= u
                   /\ rows[i].life = 0 /\ charged[l] > 0 => l \in slighted
              => Chargeable(p, l, u)'
    BY <1>0, <1>11, <1>14, <1>15, SampledBooks
  <1>17. \A p \in ScanPids, l \in Nat, u \in Nat :
           /\ Chargeable(p, l, u)
           /\ p \in DOMAIN reply => /\ reply[p].life <= l
                                    /\ reply[p].life = l => reply[p].used <= u
           => Chargeable(p, l, u)'
    <2> TAKE p \in ScanPids, l \in Nat, u \in Nat
    <2> SUFFICES ASSUME Chargeable(p, l, u),
                        p \in DOMAIN reply => /\ reply[p].life <= l
                                              /\ reply[p].life = l => reply[p].used <= u
                 PROVE  Chargeable(p, l, u)'
      OBVIOUS
    <2>1. \A i \in DOMAIN rows : rows[i].pid = p =>
             /\ rows[i].life <= l
             /\ rows[i].life = l => rows[i].total <= u
             /\ rows[i].life = 0 /\ charged[l] > 0 => l \in slighted
      BY <1>7, <1>12, <1>13
    <2>2. QED
      BY <1>16, <2>1
  <1>18. \A p : Reading(p)' = Reading(p)
    BY <1>3 DEF Reading
  <1>19. LivesFollow'
    <2>1. ASSUME NEW p \in ScanPids, proc[p].life # 0
          PROVE  \A l, u \in Nat : l = proc[p].life /\ u = Reading(p) => Chargeable(p, l, u)'
      <3>1. Chargeable(p, proc[p].life, Reading(p))
        BY <1>0, <2>1 DEF LivesFollow
      <3>2. p \in DOMAIN reply => /\ reply[p].life <= proc[p].life
                                  /\ reply[p].life = proc[p].life => reply[p].used <= Reading(p)
        BY <1>7, <2>1 DEF Past
      <3>3. QED
        BY <1>17, <3>1, <3>2
    <2>2. \A p \in ScanPids : Reading(p) \in Nat /\ proc[p].life \in Nat
      BY <1>0, ReadingIsNat
    <2>3. \A p \in ScanPids : proc[p].life # 0 => Chargeable(p, proc[p].life, Reading(p))'
      BY <1>3, <1>18, <2>1, <2>2
    <2>4. \A l \in 1 .. MaxLives : l > lives => charged'[l] = 0
      <3> SUFFICES ASSUME NEW l \in 1 .. MaxLives, l > lives PROVE charged'[l] = 0
        OBVIOUS
      <3>1. ASSUME NEW i \in DOMAIN rows, rows[i].life = l PROVE FALSE
        <4>1. Chargeable(walk[i], l, rows[i].total)
          BY <1>7, <1>12, <1>13, <3>1
        <4>2. QED
          BY <1>0, <4>1 DEF Chargeable, Owns, BookTypes
      <3>2. charged[l] = 0
        BY <1>0 DEF LivesFollow
      <3>3. QED
        BY <1>16, <3>1, <3>2
    <2>5. QED
      BY <1>0, <1>3, <1>18, <2>3, <2>4 DEF LivesFollow
  <1>20. RepliesFollow'
    <2>1. ASSUME NEW i \in DOMAIN inbox', NEW p \in DOMAIN inbox'[i].rows
          PROVE  Past(p, inbox[i].rows[p].life, inbox[i].rows[p].used)'
      <3>1. inbox'[i] \in ReplyType
        BY <1>5
      <3>2. p \in ScanPids /\ inbox'[i].rows[p].life \in Nat /\ inbox'[i].rows[p].used \in Nat
        BY <3>1, ReplyRows
      <3>3. Past(p, inbox'[i].rows[p].life, inbox'[i].rows[p].used)
        BY <1>0, <1>5 DEF RepliesFollow
      <3>4. \A l, u \in Nat : l = inbox'[i].rows[p].life /\ u = inbox'[i].rows[p].used => Chargeable(p, l, u)'
        BY <1>8, <1>17, <3>2, <3>3 DEF Past
      <3>5. \A l, u \in Nat : l = inbox'[i].rows[p].life /\ u = inbox'[i].rows[p].used => Past(p, l, u)'
        BY <1>3, <1>18, <3>3, <3>4 DEF Past
      <3>6. QED
        BY <3>2, <3>5
    <2>2. \A i, j \in DOMAIN inbox' : i < j => i + 1 < j + 1
      BY <1>5
    <2>3. ASSUME NEW i \in DOMAIN inbox', NEW j \in DOMAIN inbox', i < j,
                 NEW p \in DOMAIN inbox'[i].rows \cap DOMAIN inbox'[j].rows
          PROVE  /\ inbox'[i].rows[p].life <= inbox'[j].rows[p].life
                 /\ inbox'[i].rows[p].life = inbox'[j].rows[p].life =>
                      inbox'[i].rows[p].used <= inbox'[j].rows[p].used
      BY <1>0, <1>5, <2>2, <2>3 DEF RepliesFollow
    <2>4. QED
      BY <2>1, <2>3 DEF RepliesFollow
  <1>21. /\ rowSeq' \in Seq(RowType) /\ Len(rowSeq') = Len(rows)
         /\ \A i \in DOMAIN rowSeq' : \E j \in DOMAIN rows : rowSeq'[i] = rows[j]
    BY <1>2, <1>13, Ordered
  <1>22. /\ todo' \in Seq(Nat) /\ DOMAIN todo' = DOMAIN rowSeq'
         /\ \A k \in DOMAIN todo' : todo'[k] = k
    BY <1>2, <1>13, <1>21
  <1>23. DOMAIN titles' = DOMAIN titles \cap DOMAIN reply /\ \A p \in DOMAIN titles' : titles'[p] = titles[p]
    BY <1>2 DEF KeptTitles
  <1>24. \A p \in ScanPids : heldBy'[p] = IF p \in DOMAIN reply THEN heldBy[p] ELSE {proc[p].life} \ {0}
    BY <1>2
  <1>25. RowTypeOK'
    <2>1. heldBy' \in [ScanPids -> SUBSET Nat]
      <3>1. \A p \in ScanPids : heldBy[p] \subseteq Nat /\ proc[p].life \in Nat
        BY <1>0, ReadingIsNat DEF WorldTypes
      <3>2. QED
        BY <1>2, <3>1
    <2>2. DOMAIN titles' \subseteq ScanPids /\ titles' \in [DOMAIN titles' -> Nat \X Nat]
      <3>1. DOMAIN titles \subseteq ScanPids /\ titles \in [DOMAIN titles -> Nat \X Nat]
        BY <1>0 DEF RowTypeOK
      <3>2. titles' = [p \in DOMAIN titles' |-> titles[p]]
        BY <1>2 DEF KeptTitles
      <3>3. QED
        BY <1>23, <3>1, <3>2
    <2>3. QED
      BY <1>0, <1>3, <1>5, <1>11, <1>16, <1>21, <1>22, <2>1, <2>2 DEF RowTypeOK
  <1>26. StagesFollow' /\ ScanFollows'
    BY <1>3, <1>4, <1>22 DEF StagesFollow, ScanFollows
  <1>27. TitlesFollow'
    <2>1. /\ \A p \in ScanPids : proc[p].life = 0 => proc[p].title = 0
          /\ \A p \in ScanPids : proc[p].life # 0 => proc[p].life \in heldBy[p]
          /\ \A p \in DOMAIN titles : titles[p][2] # 0 => titles[p][1] \in heldBy[p]
      BY <1>0 DEF TitlesFollow
    <2>2. \A p \in ScanPids : proc[p].life # 0 => proc[p].life \in heldBy'[p]
      <3> SUFFICES ASSUME NEW p \in ScanPids, proc[p].life # 0 PROVE proc[p].life \in heldBy'[p]
        OBVIOUS
      <3>1. CASE p \in DOMAIN reply
        BY <1>24, <2>1, <3>1
      <3>2. CASE p \notin DOMAIN reply
        BY <1>24, <3>2
      <3>3. QED
        BY <3>1, <3>2
    <2>3. \A p \in DOMAIN titles' : titles'[p][2] # 0 => titles'[p][1] \in heldBy'[p]
      BY <1>6, <1>23, <1>24, <2>1
    <2>4. QED
      BY <1>3, <2>1, <2>2, <2>3 DEF TitlesFollow
  <1>28. RowsAreOwn'
    <2>1. \A i \in DOMAIN rowSeq' : rowSeq'[i].cmd[2] = 0
      BY <1>12, <1>13, <1>21
    <2>2. QED
      BY <1>16, <2>1 DEF RowsAreOwn, ChargeIsExact, TitleIsOfPid
  <1>29. QED
    BY <1>16, <1>19, <1>20, <1>25, <1>26, <1>27, <1>28 DEF RowInv
LEMMA ResolveInv == ASSUME RowInv, ResolveTitle \/ EnrichRow PROVE RowInv'
  <1>0. /\ RowTypeOK /\ StagesFollow /\ LivesFollow /\ BooksFollow /\ RepliesFollow /\ TitlesFollow
        /\ RowsAreOwn /\ WorldTypes
    BY RowBounds DEF RowInv, RowTypeOK, WorldTypes
  <1>1. /\ rowAt = "title" /\ todo # <<>> /\ todo' = Tail(todo)
        /\ UNCHANGED <<backend, proc, cached, ticks, lives, pidOf, usedBy, heldBy, rowAt, scans, inbox, cpuTotal,
                       lastPer, lastCpu, lastRun, charged, before, mischarged, faults, slighted>>
    BY DEF ResolveTitle, EnrichRow, worldVars, judgeVars
  <1> DEFINE i == Head(todo)
             p == rowSeq[i].pid
             read == <<proc[p].life, proc[p].title>>
  <1>2. todo \in Seq(Nat) /\ rowSeq \in Seq(RowType)
    BY <1>0 DEF RowTypeOK
  <1>3. /\ i \in DOMAIN rowSeq /\ todo' \in Seq(Nat)
        /\ \A k \in DOMAIN todo' : todo'[k] \in DOMAIN rowSeq
    BY <1>0, <1>1, <1>2 DEF StagesFollow
  <1>4. p \in ScanPids
    <2>1. rowSeq[i] \in RowType
      BY <1>2, <1>3
    <2>2. QED
      BY <2>1 DEF RowType
  <1>5. /\ read \in Nat \X Nat
        /\ read[2] # 0 => read[1] \in heldBy[p]
    <2>1. proc[p].life \in Nat /\ proc[p].title \in Nat
      BY <1>0, <1>4, ReadingIsNat
    <2>2. proc[p].title # 0 => proc[p].life \in heldBy[p]
      BY <1>0, <1>4 DEF TitlesFollow
    <2>3. QED
      BY <2>1, <2>2
  <1>6. /\ DOMAIN titles \subseteq ScanPids
        /\ \A q \in DOMAIN titles : /\ titles[q] \in Nat \X Nat
                                    /\ titles[q][2] # 0 => titles[q][1] \in heldBy[q]
    BY <1>0 DEF RowTypeOK, TitlesFollow
  <1>7. /\ DOMAIN titles' \subseteq ScanPids /\ titles' \in [DOMAIN titles' -> Nat \X Nat]
        /\ \A q \in DOMAIN titles' : titles'[q][2] # 0 => titles'[q][1] \in heldBy[q]
        /\ \E found \in Nat \X Nat :
             /\ found[2] # 0 => found[1] \in heldBy[p]
             /\ rowSeq' = rowSeq \/ rowSeq' = [rowSeq EXCEPT ![i].cmd = found]
    <2>1. CASE ResolveTitle
      <3> DEFINE found == IF p \in DOMAIN titles THEN titles[p] ELSE read
      <3>1. /\ titles' = [q \in DOMAIN titles \cup {p} |-> IF q = p THEN found ELSE titles[q]]
            /\ rowSeq' = IF found[2] = 0 THEN rowSeq ELSE [rowSeq EXCEPT ![i].cmd = found]
        BY <2>1 DEF ResolveTitle
      <3>2. found \in Nat \X Nat /\ (found[2] # 0 => found[1] \in heldBy[p])
        BY <1>5, <1>6
      <3> HIDE DEF found
      <3>3. QED
        BY <1>4, <1>6, <3>1, <3>2
    <2>2. CASE EnrichRow
      <3>1. titles' = titles /\ rowSeq' = IF proc[p].title = 0 THEN rowSeq ELSE [rowSeq EXCEPT ![i].cmd = read]
        BY <2>2 DEF EnrichRow
      <3>2. titles \in [DOMAIN titles -> Nat \X Nat]
        BY <1>0 DEF RowTypeOK
      <3> HIDE DEF read
      <3>3. QED
        BY <1>5, <1>6, <3>1, <3>2
    <2>3. QED
      BY <2>1, <2>2
  <1> HIDE DEF read
  <1>8. /\ rowSeq' \in Seq(RowType) /\ DOMAIN rowSeq' = DOMAIN rowSeq
        /\ TitleIsOfPid'
    <2>1. PICK found \in Nat \X Nat :
             /\ found[2] # 0 => found[1] \in heldBy[p]
             /\ rowSeq' = rowSeq \/ rowSeq' = [rowSeq EXCEPT ![i].cmd = found]
      BY <1>7
    <2>2. TitleIsOfPid
      BY <1>0 DEF RowsAreOwn
    <2>3. CASE rowSeq' = rowSeq
      BY <1>1, <1>2, <2>2, <2>3 DEF TitleIsOfPid
    <2>4. CASE rowSeq' = [rowSeq EXCEPT ![i].cmd = found]
      <3>1. rowSeq[i] \in RowType /\ \A j \in DOMAIN rowSeq : rowSeq[j] \in RowType
        BY <1>2, <1>3
      <3>2. [rowSeq[i] EXCEPT !.cmd = found] \in RowType
        BY <3>1 DEF RowType
      <3>3. \A j \in DOMAIN rowSeq : rowSeq'[j] = IF j = i THEN [rowSeq[i] EXCEPT !.cmd = found] ELSE rowSeq[j]
        BY <1>2, <1>3, <2>4
      <3>4. DOMAIN rowSeq' = DOMAIN rowSeq
        BY <2>4
      <3>5. rowSeq' \in Seq(RowType)
        <4>1. rowSeq' = [rowSeq EXCEPT ![i] = [rowSeq[i] EXCEPT !.cmd = found]]
          BY <2>4
        <4>2. QED
          BY <1>2, <1>3, <3>2, <4>1
      <3>6. [rowSeq[i] EXCEPT !.cmd = found].cmd = found /\ [rowSeq[i] EXCEPT !.cmd = found].pid = p
        BY <3>1 DEF RowType
      <3>7. \A j \in DOMAIN rowSeq : rowSeq'[j].cmd[2] # 0 => rowSeq'[j].cmd[1] \in heldBy[rowSeq'[j].pid]
        BY <2>1, <2>2, <3>3, <3>6 DEF TitleIsOfPid
      <3>8. QED
        BY <1>1, <3>4, <3>5, <3>7 DEF TitleIsOfPid
    <2>5. QED
      BY <2>1, <2>3, <2>4
  <1>9. LivesFollow' /\ BooksFollow' /\ \A q, l, u : Past(q, l, u)' <=> Past(q, l, u)
    BY <1>0, <1>1, StillTrue
  <1>10. RepliesFollow'
    BY <1>0, <1>1, <1>9 DEF RepliesFollow
  <1>11. RowTypeOK'
    BY <1>0, <1>1, <1>3, <1>7, <1>8 DEF RowTypeOK
  <1>12. StagesFollow' /\ ScanFollows'
    <2>1. backend = "procfs" => titles' = titles
      BY DEF ResolveTitle, EnrichRow
    <2>2. DOMAIN rowSeq' = DOMAIN rowSeq
      BY <1>8
    <2>3. StagesFollow'
      BY <1>0, <1>1, <1>3, <2>1, <2>2 DEF StagesFollow
    <2>4. ScanFollows'
      BY <1>1 DEF ScanFollows
    <2>5. QED
      BY <2>3, <2>4
  <1>13. TitlesFollow'
    BY <1>0, <1>1, <1>7 DEF TitlesFollow
  <1>14. RowsAreOwn'
    BY <1>0, <1>1, <1>8 DEF RowsAreOwn, NeverOvercharged, ChargeIsExact
  <1>15. QED
    BY <1>9, <1>10, <1>11, <1>12, <1>13, <1>14 DEF RowInv

LEMMA ReturnInv == ASSUME RowInv, TooSoon \/ SampleReturns PROVE RowInv'
  <1>0. /\ RowTypeOK /\ StagesFollow /\ LivesFollow /\ BooksFollow /\ RepliesFollow /\ TitlesFollow
        /\ RowsAreOwn
    BY DEF RowInv
  <1>1. /\ scans' \in Nat /\ rowAt # "scan" /\ rowAt' \in {rowAt, "idle"}
        /\ UNCHANGED <<backend, proc, cached, ticks, lives, pidOf, usedBy, heldBy, inbox, todo, rowSeq, cpuTotal,
                       lastPer, lastCpu, lastRun, titles, charged, before, mischarged, faults, slighted>>
    BY <1>0 DEF TooSoon, SampleReturns, worldVars, judgeVars, RowTypeOK
  <1>2. LivesFollow' /\ BooksFollow' /\ \A q, l, u : Past(q, l, u)' <=> Past(q, l, u)
    BY <1>0, <1>1, StillTrue
  <1>3. RepliesFollow' /\ TitlesFollow' /\ RowsAreOwn' /\ ScanFollows' /\ StagesFollow'
    BY <1>0, <1>1, <1>2 DEF RepliesFollow, TitlesFollow, RowsAreOwn, NeverOvercharged, ChargeIsExact,
                            TitleIsOfPid, ScanFollows, StagesFollow
  <1>4. RowTypeOK'
    BY <1>0, <1>1 DEF RowTypeOK
  <1>5. QED
    BY <1>2, <1>3, <1>4 DEF RowInv
LEMMA ListInv == ASSUME RowInv, ListProc PROVE RowInv'
  <1>0. /\ RowTypeOK /\ StagesFollow /\ LivesFollow /\ BooksFollow /\ TitlesFollow
        /\ RowsAreOwn /\ WorldTypes
    BY RowBounds DEF RowInv, RowTypeOK, WorldTypes
  <1>1. /\ backend = "procfs" /\ scans' = scans + 1 /\ lastRun' = ticks /\ cpuTotal' = ticks
        /\ todo' \in Walks(Living) /\ rowSeq' = <<>> /\ rowAt' = "scan"
        /\ heldBy' = [p \in ScanPids |-> {proc[p].life} \ {0}]
        /\ UNCHANGED <<backend, proc, cached, ticks, lives, pidOf, usedBy, inbox, lastPer, lastCpu, titles,
                       charged, before, mischarged, faults, slighted>>
    BY DEF ListProc, judgeVars
  <1>2. /\ LivesFollow' /\ BooksFollow'
    BY <1>0, <1>1, StillTrue
  <1>3. inbox = <<>> /\ DOMAIN titles = {}
    BY <1>0, <1>1 DEF StagesFollow
  <1>4. /\ todo' \in [1 .. Cardinality(Living) -> Living]
        /\ \A i, j \in DOMAIN todo' : todo'[i] = todo'[j] => i = j
    BY <1>1 DEF Walks
  <1>5. Living \subseteq ScanPids /\ Cardinality(Living) \in Nat
    BY RowBounds, FS_Subset, FS_CardinalityType DEF Living
  <1>6. todo' \in Seq(Nat) /\ \A k \in DOMAIN todo' : todo'[k] \in ScanPids
    <2>1. Living \subseteq Nat
      BY <1>5, RowBounds
    <2>2. todo' \in [1 .. Cardinality(Living) -> Nat]
      BY <1>4, <2>1
    <2>3. DOMAIN todo' = 1 .. Cardinality(Living) /\ \A k \in DOMAIN todo' : todo'[k] \in Living
      BY <1>4
    <2>4. QED
      BY <1>5, <2>2, <2>3
  <1>7. \A p \in ScanPids : heldBy'[p] = {proc[p].life} \ {0} /\ proc[p].life \in Nat
    BY <1>0, <1>1, ReadingIsNat
  <1>8. RowTypeOK'
    <2>1. heldBy' \in [ScanPids -> SUBSET Nat]
      BY <1>1, <1>7
    <2>2. /\ ticks \in Nat /\ scans' \in Nat /\ rowSeq' \in Seq(RowType)
      BY <1>0, <1>1 DEF RowTypeOK
    <2>3. QED
      BY <1>0, <1>1, <1>6, <2>1, <2>2 DEF RowTypeOK
  <1>9. StagesFollow' /\ RepliesFollow' /\ ScanFollows'
    BY <1>1, <1>3, <1>4, <1>6 DEF StagesFollow, RepliesFollow, ScanFollows
  <1>10. TitlesFollow'
    BY <1>0, <1>1, <1>3, <1>7 DEF TitlesFollow
  <1>11. RowsAreOwn'
    BY <1>0, <1>1 DEF RowsAreOwn, NeverOvercharged, ChargeIsExact, TitleIsOfPid
  <1>12. QED
    BY <1>2, <1>8, <1>9, <1>10, <1>11 DEF RowInv

LEMMA ReadInv == ASSUME RowInv, ReadStat PROVE RowInv'
  <1>0. /\ RowTypeOK /\ StagesFollow /\ LivesFollow /\ BooksFollow /\ RepliesFollow /\ ScanFollows
        /\ TitlesFollow /\ RowsAreOwn /\ WorldTypes /\ BookTypes
    BY TypesOfBooks, RowBounds DEF RowInv, RowTypeOK, WorldTypes
  <1> DEFINE p == Head(todo)
  <1>1. /\ rowAt = "scan" /\ todo # <<>> /\ todo' = Tail(todo)
        /\ UNCHANGED <<backend, proc, cached, ticks, lives, pidOf, usedBy, heldBy, rowAt, scans, inbox, cpuTotal,
                       lastPer, lastCpu, lastRun, titles, charged, before, mischarged>>
    BY DEF ReadStat, worldVars
  <1>2. backend = "procfs" /\ inbox = <<>>
    BY <1>0, <1>1 DEF StagesFollow, RowTypeOK
  <1>3. todo \in Seq(Nat) /\ rowSeq \in Seq(RowType)
    BY <1>0 DEF RowTypeOK
  <1>4. /\ 1 \in DOMAIN todo /\ p = todo[1] /\ todo' \in Seq(Nat)
        /\ \A k \in DOMAIN todo' : k \in Nat /\ k + 1 \in DOMAIN todo /\ todo'[k] = todo[k + 1] /\ 1 # k + 1
    BY <1>1, <1>3
  <1>5. p \in ScanPids
    BY <1>0, <1>1, <1>4 DEF StagesFollow
  <1>6. /\ proc[p].life \in Nat /\ proc[p].used \in Nat /\ Reading(p) = proc[p].used
    BY <1>0, <1>2, <1>5, ReadingIsNat DEF Reading
  <1>7. cpuTotal \in Nat
    BY <1>0 DEF RowTypeOK
  <1>8. \E r \in RowType :
          /\ rowSeq' = Append(rowSeq, r) /\ r.pid = p /\ r.cmd[2] = 0
          /\ r.life \in {0, proc[p].life} /\ faults' \in Nat
          /\ r.life = 0 => r.charge = 0 /\ (proc[p].life = 0 \/ proc[p].life \in slighted')
          /\ r.life # 0 => r.total = proc[p].used /\ r.charge = Charge(p, r.total, cpuTotal)
          /\ slighted \subseteq slighted' /\ slighted' \subseteq Nat
    <2>0. faults \in Nat /\ slighted \subseteq Nat
      BY <1>0 DEF RowTypeOK
    <2>1. Placeholder(p) \in RowType
      <3>1. <<0, 0>> \in Nat \X Nat
        OBVIOUS
      <3>2. QED
        BY <1>5, <3>1 DEF Placeholder, RowType
    <2>2. Row(p, proc[p].life, proc[p].used, cpuTotal) \in RowType
      BY <1>0, <1>5, <1>6, <1>7, RowIsRow
    <2>3. CASE /\ proc[p].life # 0
               /\ rowSeq' = Append(rowSeq, Row(p, proc[p].life, proc[p].used, cpuTotal))
               /\ UNCHANGED <<faults, slighted>>
      BY <2>0, <2>2, <2>3 DEF Row
    <2>4. CASE /\ proc[p].life = 0
               /\ rowSeq' = Append(rowSeq, Placeholder(p))
               /\ UNCHANGED <<faults, slighted>>
      BY <2>0, <2>1, <2>4 DEF Placeholder
    <2>5. CASE /\ proc[p].life # 0
               /\ rowSeq' = Append(rowSeq, Placeholder(p))
               /\ faults' = faults + 1 /\ slighted' = slighted \cup {proc[p].life}
      <3>1. /\ Placeholder(p).pid = p /\ Placeholder(p).cmd[2] = 0 /\ Placeholder(p).life = 0
            /\ Placeholder(p).charge = 0
        BY DEF Placeholder
      <3>2. faults' \in Nat /\ slighted' \subseteq Nat /\ slighted \subseteq slighted' /\ proc[p].life \in slighted'
        <4>1. faults' = faults + 1 /\ slighted' = slighted \cup {proc[p].life}
          BY <2>5
        <4> HIDE DEF p
        <4>2. {proc[p].life} \subseteq Nat
          BY <1>6
        <4>3. QED
          <5>1. faults' \in Nat
            BY <2>0, <4>1
          <5>2. slighted' \subseteq Nat /\ slighted \subseteq slighted'
            BY <2>0, <4>1, <4>2
          <5>3. proc[p].life \in slighted'
            BY <4>1
          <5>4. QED
            BY <5>1, <5>2, <5>3
      <3>3. WITNESS Placeholder(p) \in RowType
      <3>4. QED
        BY <2>5, <3>1, <3>2
    <2>6. QED
      BY <2>3, <2>4, <2>5 DEF ReadStat
  <1>9. PICK r \in RowType :
          /\ rowSeq' = Append(rowSeq, r) /\ r.pid = p /\ r.cmd[2] = 0
          /\ r.life \in {0, proc[p].life} /\ faults' \in Nat
          /\ r.life = 0 => r.charge = 0 /\ (proc[p].life = 0 \/ proc[p].life \in slighted')
          /\ r.life # 0 => r.total = proc[p].used /\ r.charge = Charge(p, r.total, cpuTotal)
          /\ slighted \subseteq slighted' /\ slighted' \subseteq Nat
    BY <1>8
  <1> HIDE DEF p
  <1>10. \A q : Reading(q)' = Reading(q)
    BY <1>1 DEF Reading
  <1>11. \A q, l : Owns(q, l)' <=> Owns(q, l)
    BY <1>1 DEF Owns
  <1>12. \A q, l, u : Chargeable(q, l, u) => Chargeable(q, l, u)'
    <2> SUFFICES ASSUME NEW q, NEW l, NEW u, Chargeable(q, l, u) PROVE Chargeable(q, l, u)'
      OBVIOUS
    <2>1. Owns(q, l)' /\ u <= usedBy'[l]
      BY <1>1, <1>11 DEF Chargeable
    <2>2. slighted \subseteq slighted'
      BY <1>9
    <2>3. (l \notin slighted => charged[l] <= u)' /\ before' = before /\ charged' = charged
      BY <1>1, <2>2 DEF Chargeable
    <2>4. (q \in DOMAIN before =>
             /\ before[q][1] <= l
             /\ before[q][1] = l => before[q][2] <= u
             /\ before[q][1] = 0 /\ charged[l] > 0 => l \in slighted)'
      BY <2>2, <2>3 DEF Chargeable
    <2>5. QED
      BY <2>1, <2>3, <2>4 DEF Chargeable
  <1>13. \A q, l, u : Past(q, l, u) => Past(q, l, u)'
    BY <1>1, <1>10, <1>12 DEF Past
  <1>14. LivesFollow' /\ BooksFollow'
    BY <1>0, <1>1, <1>9, <1>10, <1>11, <1>12 DEF LivesFollow, BooksFollow
  <1>15. /\ rowSeq' \in Seq(RowType)
         /\ \A i \in DOMAIN rowSeq : rowSeq'[i] = rowSeq[i] /\ i # Len(rowSeq) + 1
         /\ rowSeq'[Len(rowSeq) + 1] = r
         /\ DOMAIN rowSeq' = DOMAIN rowSeq \cup {Len(rowSeq) + 1}
    BY <1>3, <1>9
  <1>16. RowTypeOK'
    BY <1>0, <1>1, <1>4, <1>9, <1>15 DEF RowTypeOK
  <1>17. StagesFollow' /\ RepliesFollow'
    BY <1>0, <1>1, <1>2, <1>4 DEF StagesFollow, RepliesFollow
  <1>18. TitlesFollow'
    <2>1. \A i \in DOMAIN rowSeq' : rowSeq'[i].cmd[2] = 0
      BY <1>0, <1>1, <1>9, <1>15 DEF TitlesFollow
    <2>2. QED
      BY <1>0, <1>1, <2>1 DEF TitlesFollow
  <1>19. RowsAreOwn'
    <2>1. NeverOvercharged' /\ ChargeIsExact'
      BY <1>0, <1>1, <1>9 DEF RowsAreOwn, NeverOvercharged, ChargeIsExact
    <2>2. \A i \in DOMAIN rowSeq' : rowSeq'[i].cmd[2] = 0
      BY <1>0, <1>1, <1>9, <1>15 DEF TitlesFollow
    <2>3. QED
      BY <2>1, <2>2 DEF RowsAreOwn, TitleIsOfPid
  <1>20. ScanFollows'
    <2>1. ASSUME NEW i \in DOMAIN rowSeq'
          PROVE  /\ rowSeq'[i].charge = (IF rowSeq'[i].life = 0 THEN 0
                                         ELSE Charge(rowSeq'[i].pid, rowSeq'[i].total, cpuTotal))
                 /\ rowSeq'[i].life # 0 => Past(rowSeq'[i].pid, rowSeq'[i].life, rowSeq'[i].total)
                 /\ rowSeq'[i].life = 0 => \A l \in 1 .. MaxLives :
                      l = proc[rowSeq'[i].pid].life /\ charged[l] > 0 => l \in slighted'
      <3>1. CASE i \in DOMAIN rowSeq
        BY <1>0, <1>1, <1>9, <1>15, <3>1 DEF ScanFollows
      <3>2. CASE i = Len(rowSeq) + 1
        <4>1. rowSeq'[i] = r
          BY <1>15, <3>2
        <4>2. CASE r.life = 0
          BY <1>9, <4>1, <4>2
        <4>3. CASE r.life # 0
          <5>1. r.life = proc[p].life /\ r.total = proc[p].used
            BY <1>9, <4>3
          <5>2. Chargeable(p, proc[p].life, proc[p].used)
            BY <1>0, <1>5, <1>6, <4>3, <5>1 DEF LivesFollow
          <5>3. Past(p, r.life, r.total)
            BY <1>6, <5>1, <5>2 DEF Past
          <5>4. QED
            BY <1>9, <4>1, <4>3, <5>3
        <4>4. QED
          BY <4>2, <4>3
      <3>3. QED
        BY <1>15, <3>1, <3>2
    <2>2. /\ \A i \in DOMAIN rowSeq, k \in DOMAIN todo : rowSeq[i].pid # todo[k]
          /\ \A i, j \in DOMAIN rowSeq : rowSeq[i].pid = rowSeq[j].pid => i = j
          /\ \A i, j \in DOMAIN todo : todo[i] = todo[j] => i = j
      BY <1>0, <1>1 DEF ScanFollows
    <2>3. \A i, j \in DOMAIN rowSeq' : rowSeq'[i].pid = rowSeq'[j].pid => i = j
      BY <1>4, <1>9, <1>15, <2>2
    <2>4. \A i \in DOMAIN rowSeq', k \in DOMAIN todo' : rowSeq'[i].pid # todo'[k]
      BY <1>4, <1>9, <1>15, <2>2
    <2>5. \A i, j \in DOMAIN todo' : todo'[i] = todo'[j] => i = j
      BY <1>4, <2>2
    <2>6. \A i \in DOMAIN rowSeq' :
            /\ Charge(rowSeq[i].pid, rowSeq[i].total, cpuTotal)' = Charge(rowSeq'[i].pid, rowSeq'[i].total, cpuTotal)
            /\ rowSeq'[i].life # 0 => Past(rowSeq[i].pid, rowSeq[i].life, rowSeq[i].total)'
      BY <1>1, <1>13, <2>1 DEF Charge
    <2>7. QED
      BY <1>1, <2>1, <2>3, <2>4, <2>5, <2>6 DEF ScanFollows
  <1>21. QED
    BY <1>14, <1>16, <1>17, <1>18, <1>19, <1>20 DEF RowInv

LEMMA EndInv == ASSUME RowInv, EndScan PROVE RowInv'
  <1>0. /\ RowTypeOK /\ StagesFollow /\ LivesFollow /\ BooksFollow /\ RepliesFollow /\ ScanFollows
        /\ TitlesFollow /\ RowsAreOwn /\ WorldTypes /\ BookTypes
    BY TypesOfBooks, RowBounds DEF RowInv, RowTypeOK, WorldTypes
  <1>1. PICK order \in ByCharge(rowSeq) : rowSeq' = [i \in 1 .. Least(TopK, Len(rowSeq)) |-> order[i]]
    BY DEF EndScan
  <1>2. /\ rowAt = "scan" /\ lastPer' = Baselines(rowSeq) /\ lastCpu' = cpuTotal
        /\ todo' = [i \in 1 .. Least(EnrichTop, Least(TopK, Len(rowSeq))) |-> i]
        /\ Book(rowSeq, cpuTotal) /\ rowAt' = "title"
        /\ UNCHANGED <<backend, proc, cached, ticks, lives, pidOf, usedBy, heldBy, scans, inbox, cpuTotal, lastRun,
                       titles, faults, slighted>>
    BY DEF EndScan, worldVars
  <1>3. backend = "procfs" /\ inbox = <<>> /\ inbox' = <<>>
    BY <1>0, <1>2 DEF StagesFollow, RowTypeOK
  <1>4. rowSeq \in Seq(RowType) /\ cpuTotal \in Nat
    BY <1>0 DEF RowTypeOK
  <1>5. Countable(rowSeq, cpuTotal)
    BY <1>0, <1>2, <1>4 DEF Countable, ScanFollows, Past
  <1>6. Sampled(rowSeq, cpuTotal)
    BY <1>2 DEF Sampled
  <1>7. /\ charged' \in [1 .. MaxLives -> Nat]
        /\ DOMAIN lastPer' \subseteq ScanPids /\ lastPer' \in [DOMAIN lastPer' -> Nat]
        /\ DOMAIN before' = DOMAIN lastPer' /\ before' \in [DOMAIN lastPer' -> Nat \X Nat]
        /\ mischarged' = {} /\ NeverOvercharged' /\ BooksFollow'
        /\ \A l \in 1 .. MaxLives :
             \/ charged'[l] = charged[l]
             \/ \E i \in DOMAIN rowSeq : rowSeq[i].life = l /\ rowSeq[i].pid = pidOf[l]
        /\ \A p \in ScanPids, l \in Nat, u \in Nat :
             /\ Chargeable(p, l, u)
             /\ \A i \in DOMAIN rowSeq : rowSeq[i].pid = p =>
                  /\ rowSeq[i].life <= l
                  /\ rowSeq[i].life = l => rowSeq[i].total <= u
                  /\ rowSeq[i].life = 0 /\ charged[l] > 0 => l \in slighted
             => Chargeable(p, l, u)'
    BY <1>0, <1>4, <1>5, <1>6, SampledBooks
  <1>8. \A p : Reading(p)' = Reading(p)
    BY <1>2 DEF Reading
  <1>9. LivesFollow'
    <2>1. ASSUME NEW p \in ScanPids, proc[p].life # 0
          PROVE  \A l, u \in Nat : l = proc[p].life /\ u = Reading(p) => Chargeable(p, l, u)'
      <3>1. Chargeable(p, proc[p].life, Reading(p)) /\ proc[p].life \in 1 .. MaxLives /\ proc[p].life \in Nat
        <4>1. Chargeable(p, proc[p].life, Reading(p))
          BY <1>0, <2>1 DEF LivesFollow
        <4>2. proc[p].life \in 1 .. lives
          BY <4>1 DEF Chargeable, Owns
        <4>3. lives \in 0 .. MaxLives /\ MaxLives \in Nat
          BY <1>0 DEF BookTypes
        <4>4. QED
          BY <4>1, <4>2, <4>3
      <3>2. \A i \in DOMAIN rowSeq : rowSeq[i].pid = p =>
              /\ rowSeq[i].life <= proc[p].life
              /\ rowSeq[i].life = proc[p].life => rowSeq[i].total <= Reading(p)
              /\ rowSeq[i].life = 0 /\ charged[proc[p].life] > 0 => proc[p].life \in slighted
        BY <1>0, <1>2, <2>1, <3>1 DEF ScanFollows, Past
      <3>3. QED
        BY <1>7, <3>1, <3>2
    <2>2. \A p \in ScanPids : Reading(p) \in Nat /\ proc[p].life \in Nat
      BY <1>0, ReadingIsNat
    <2>3. \A p \in ScanPids : proc[p].life # 0 => Chargeable(p, proc[p].life, Reading(p))'
      BY <1>2, <1>8, <2>1, <2>2
    <2>4. \A l \in 1 .. MaxLives : l > lives => charged'[l] = 0
      <3> SUFFICES ASSUME NEW l \in 1 .. MaxLives, l > lives PROVE charged'[l] = 0
        OBVIOUS
      <3>1. ASSUME NEW i \in DOMAIN rowSeq, rowSeq[i].life = l PROVE FALSE
        <4>1. Chargeable(rowSeq[i].pid, l, rowSeq[i].total)
          BY <1>5, <3>1 DEF Countable
        <4>2. QED
          BY <1>0, <4>1 DEF Chargeable, Owns, BookTypes
      <3>2. charged[l] = 0
        BY <1>0 DEF LivesFollow
      <3>3. QED
        BY <1>7, <3>1, <3>2
    <2>5. QED
      BY <1>0, <1>2, <1>8, <2>3, <2>4 DEF LivesFollow
  <1>10. /\ order \in Seq(RowType) /\ Len(order) = Len(rowSeq) /\ Len(order) \in Nat
         /\ \A i \in DOMAIN order : \E j \in DOMAIN rowSeq : order[i] = rowSeq[j]
    BY <1>4, Ordered
  <1>11. TopK \in Nat /\ EnrichTop \in Nat
    BY RowBounds
  <1>12. /\ Least(TopK, Len(rowSeq)) \in Nat /\ Least(TopK, Len(rowSeq)) <= Len(order)
         /\ Least(EnrichTop, Least(TopK, Len(rowSeq))) \in Nat
         /\ Least(EnrichTop, Least(TopK, Len(rowSeq))) <= Least(TopK, Len(rowSeq))
    BY <1>4, <1>10, <1>11 DEF Least
  <1>13. /\ rowSeq' \in Seq(RowType) /\ DOMAIN rowSeq' = 1 .. Least(TopK, Len(rowSeq))
         /\ \A i \in DOMAIN rowSeq' : \E j \in DOMAIN rowSeq : rowSeq'[i] = rowSeq[j]
    <2>1. \A i \in 1 .. Least(TopK, Len(rowSeq)) : i \in DOMAIN order /\ rowSeq'[i] = order[i] /\ order[i] \in RowType
      <3>1. DOMAIN order = 1 .. Len(order) /\ \A i \in 1 .. Len(order) : order[i] \in RowType
        BY <1>10
      <3>2. \A i \in 1 .. Least(TopK, Len(rowSeq)) : i \in 1 .. Len(order)
        BY <1>10, <1>12
      <3>3. \A i \in 1 .. Least(TopK, Len(rowSeq)) : rowSeq'[i] = order[i]
        BY <1>1
      <3>4. QED
        BY <3>1, <3>2, <3>3
    <2>2. QED
      <3> DEFINE n == Least(TopK, Len(rowSeq))
      <3>1. n \in Nat /\ rowSeq' = [i \in 1 .. n |-> order[i]]
        BY <1>1, <1>12
      <3>2. \A i \in 1 .. n : i \in DOMAIN order /\ rowSeq'[i] = order[i] /\ order[i] \in RowType
        BY <2>1
      <3>3. DOMAIN rowSeq' = 1 .. n
        BY <3>1
      <3>4. \A i \in DOMAIN rowSeq' : \E j \in DOMAIN rowSeq : rowSeq'[i] = rowSeq[j]
        BY <1>10, <3>2, <3>3
      <3> HIDE DEF n
      <3>5. rowSeq' \in [1 .. n -> RowType]
        BY <3>1, <3>2
      <3>6. rowSeq' \in Seq(RowType)
        BY <3>1, <3>5
      <3>7. QED
        BY <3>3, <3>4, <3>6 DEF n
  <1>14. /\ todo' \in Seq(Nat)
         /\ \A k \in DOMAIN todo' : todo'[k] \in DOMAIN rowSeq'
    BY <1>2, <1>12, <1>13
  <1>15. RowTypeOK'
    BY <1>0, <1>2, <1>4, <1>7, <1>13, <1>14 DEF RowTypeOK
  <1>16. StagesFollow' /\ RepliesFollow' /\ ScanFollows'
    BY <1>0, <1>2, <1>3, <1>14 DEF StagesFollow, RepliesFollow, ScanFollows
  <1>17. TitlesFollow'
    BY <1>0, <1>2 DEF TitlesFollow
  <1>18. RowsAreOwn'
    <2>1. \A i \in DOMAIN rowSeq' : rowSeq'[i].cmd[2] = 0
      BY <1>0, <1>2, <1>13 DEF TitlesFollow
    <2>2. QED
      BY <1>7, <2>1 DEF RowsAreOwn, ChargeIsExact, TitleIsOfPid
  <1>19. QED
    BY <1>7, <1>9, <1>15, <1>16, <1>17, <1>18 DEF RowInv

----------------------------------------------------------------------------
(* The theorems.                                                            *)

LEMMA RowInvInit == RowInit => RowInv
  <1> SUFFICES ASSUME RowInit PROVE RowInv
    OBVIOUS
  <1> USE DEF RowInit
  <1>1. MaxLives \in Nat
    BY RowBounds
  <1>2. RowTypeOK
    <2>1. proc \in [ScanPids -> [life : Nat, used : Nat, title : Nat]]
      BY DEF NoProc
    <2>2. /\ heldBy \in [ScanPids -> SUBSET Nat] /\ cached \in [ScanPids -> Nat]
          /\ pidOf \in [1 .. MaxLives -> ScanPids \cup {0}]
          /\ usedBy \in [1 .. MaxLives -> Nat] /\ charged \in [1 .. MaxLives -> Nat]
      OBVIOUS
    <2>3. /\ DOMAIN lastPer \subseteq ScanPids /\ lastPer \in [DOMAIN lastPer -> Nat]
          /\ DOMAIN before = DOMAIN lastPer /\ before \in [DOMAIN lastPer -> Nat \X Nat]
          /\ DOMAIN titles \subseteq ScanPids /\ titles \in [DOMAIN titles -> Nat \X Nat]
      BY DEF EmptyRows
    <2>4. rowSeq \in Seq(RowType) /\ todo \in Seq(Nat) /\ inbox \in Seq(ReplyType)
      OBVIOUS
    <2>5. QED
      BY <1>1, <2>1, <2>2, <2>3, <2>4 DEF RowTypeOK
  <1>3. \A p \in ScanPids : proc[p].life = 0 /\ proc[p].title = 0
    BY DEF NoProc
  <1>4. DOMAIN before = {} /\ DOMAIN titles = {} /\ DOMAIN rowSeq = {} /\ DOMAIN inbox = {}
    BY DEF EmptyRows
  <1>5. StagesFollow /\ LivesFollow /\ BooksFollow /\ RepliesFollow /\ ScanFollows /\ TitlesFollow
    BY <1>3, <1>4 DEF StagesFollow, LivesFollow, BooksFollow, RepliesFollow, ScanFollows, TitlesFollow
  <1>6. RowsAreOwn
    BY <1>4 DEF RowsAreOwn, NeverOvercharged, ChargeIsExact, TitleIsOfPid
  <1>7. QED
    BY <1>2, <1>5, <1>6 DEF RowInv

LEMMA RowInvNext == RowInv /\ [RowNext]_rowVars => RowInv'
  <1> SUFFICES ASSUME RowInv, [RowNext]_rowVars PROVE RowInv'
    OBVIOUS
  <1>1. CASE Host
    BY <1>1, SpawnKeeps, HostInv DEF Host
  <1>2. CASE SendRequest
    BY <1>2, RequestInv
  <1>3. CASE ReceiveFails
    BY <1>3, FailInv
  <1>4. CASE ReceiveReply
    BY <1>4, ReplyInv
  <1>5. CASE ResolveTitle \/ EnrichRow
    BY <1>5, ResolveInv
  <1>6. CASE TooSoon \/ SampleReturns
    BY <1>6, ReturnInv
  <1>7. CASE ListProc
    BY <1>7, ListInv
  <1>8. CASE ReadStat
    BY <1>8, ReadInv
  <1>9. CASE EndScan
    BY <1>9, EndInv
  <1>10. CASE UNCHANGED rowVars
    <2>1. UNCHANGED <<backend, proc, cached, ticks, lives, pidOf, usedBy, heldBy, rowAt, scans, inbox, todo, rowSeq,
                      cpuTotal, lastPer, lastCpu, lastRun, titles, charged, before, mischarged, faults, slighted>>
      BY <1>10 DEF rowVars, worldVars, scanVars, judgeVars
    <2>2. /\ LivesFollow' /\ BooksFollow' /\ \A q, l, u : Past(q, l, u)' <=> Past(q, l, u)
      BY <2>1, StillTrue DEF RowInv
    <2>3. RowTypeOK' /\ StagesFollow'
      BY <2>1 DEF RowInv, RowTypeOK, StagesFollow
    <2>4. RepliesFollow' /\ ScanFollows' /\ TitlesFollow' /\ RowsAreOwn'
      BY <2>1, <2>2 DEF RowInv, RepliesFollow, ScanFollows, Charge, TitlesFollow, RowsAreOwn, NeverOvercharged,
                        ChargeIsExact, TitleIsOfPid
    <2>5. QED
      BY <2>2, <2>3, <2>4 DEF RowInv
  <1>11. QED
    BY <1>1, <1>2, <1>3, <1>4, <1>5, <1>6, <1>7, <1>8, <1>9, <1>10 DEF RowNext

LEMMA RowInvHolds == RowSpec => []RowInv
  BY RowInvInit, RowInvNext, PTL DEF RowSpec

(***************************************************************************)
(* sample() keeps the types of its rows, baselines, replies and titles.     *)
(***************************************************************************)
THEOREM RowTypeCorrect == RowSpec => []RowTypeOK
  <1>1. RowInv => RowTypeOK
    BY DEF RowInv
  <1>2. QED
    BY <1>1, RowInvHolds, PTL

(***************************************************************************)
(* No process is charged with more time than it used, one seen by two        *)
(* samples in a row is charged with exactly what it used between them, and   *)
(* a title is never an older holder's, in either collector: for any number   *)
(* of pids and lives, any cut, late or lost reply.                           *)
(***************************************************************************)
THEOREM RowsOwn == RowSpec => []RowsAreOwn
  <1>1. RowInv => RowsAreOwn
    BY DEF RowInv
  <1>2. QED
    BY <1>1, RowInvHolds, PTL

-----------------------------------------------------------------------------
(* The conclusions of main().                                               *)

LEMMA FiniteOnto ==
  ASSUME NEW S, IsFiniteSet(S), NEW f \in [1..Cardinality(S) -> S],
         \A i, j \in 1..Cardinality(S) : i < j => f[i] # f[j]
  PROVE  \A x \in S : \E i \in 1..Cardinality(S) : f[i] = x
<1>1. Cardinality(S) \in Nat
  BY FS_CardinalityType
<1>2. Cardinality(1..Cardinality(S)) = Cardinality(S)
  BY <1>1, FS_Interval
<1>3. f \in Injection(1..Cardinality(S), S)
  <2>1. \A i, j \in 1..Cardinality(S) : f[i] = f[j] => i = j
    BY <1>1
  <2>2. QED
    BY <2>1 DEF Injection, IsInjective
<1>4. f \in Surjection(1..Cardinality(S), S)
  BY <1>2, <1>3, FS_Injection
<1>5. QED
  BY <1>4 DEF Surjection

\* The index of the first of the vectors equal to a process's.
LEMMA FirstOfEquals ==
  ASSUME NEW rows \in Seq(Vectors), NEW i \in DOMAIN rows
  PROVE  /\ First(rows, i) \in DOMAIN rows /\ rows[First(rows, i)] = rows[i]
         /\ First(rows, First(rows, i)) = First(rows, i)
         /\ \A j \in DOMAIN rows : rows[j] = rows[i] => First(rows, j) = First(rows, i)
<1>1. Equals(rows, i) \in SUBSET Nat /\ i \in Equals(rows, i)
  BY DEF Equals
<1>2. \E j \in Equals(rows, i) : \A k \in Equals(rows, i) : j <= k
  BY <1>1, LeastNatural
<1>3. First(rows, i) \in Equals(rows, i)
  BY <1>2 DEF First
<1>4. \A j \in DOMAIN rows : rows[j] = rows[i] => Equals(rows, j) = Equals(rows, i)
  BY DEF Equals
<1>5. \A j \in DOMAIN rows : rows[j] = rows[i] => First(rows, j) = First(rows, i)
  BY <1>4 DEF First
<1>6. QED
  BY <1>3, <1>5 DEF Equals

\* One representative for every vector.
LEMMA Representatives ==
  ASSUME NEW rows \in Seq(Vectors), NEW q \in DOMAIN rows
  PROVE  LET S == Represent(rows, q)
         IN  /\ S \subseteq DOMAIN rows /\ q \in S /\ IsFiniteSet(S)
             /\ \A i, j \in S : rows[i] = rows[j] => i = j
             /\ \A i \in DOMAIN rows : \E r \in S : rows[r] = rows[i]
<1> DEFINE S == Represent(rows, q)
<1>1. S \subseteq DOMAIN rows /\ q \in S
  BY DEF Represent
<1>2. IsFiniteSet(S)
  <2>1. DOMAIN rows = 1..Len(rows) /\ Len(rows) \in Int
    OBVIOUS
  <2>2. QED
    BY <1>1, <2>1, FS_Interval, FS_Subset
<1>3. ASSUME NEW i \in S, NEW j \in S, rows[i] = rows[j] PROVE i = j
  <2>1. CASE rows[i] = rows[q]
    BY <1>3, <2>1 DEF Represent
  <2>2. CASE rows[i] # rows[q]
    <3>1. i \in DOMAIN rows /\ j \in DOMAIN rows /\ First(rows, i) = i /\ First(rows, j) = j
      BY <1>3, <2>2 DEF Represent
    <3>2. QED
      BY <1>3, <3>1, FirstOfEquals
  <2>3. QED
    BY <2>1, <2>2
<1>4. ASSUME NEW i \in DOMAIN rows PROVE \E r \in S : rows[r] = rows[i]
  <2>1. CASE rows[i] = rows[q]
    BY <1>1, <2>1
  <2>2. CASE rows[i] # rows[q]
    <3>1. First(rows, i) \in S
      BY <2>2, FirstOfEquals DEF Represent
    <3>2. QED
      BY <3>1, FirstOfEquals
  <2>3. QED
    BY <2>1, <2>2
<1>5. QED
  BY <1>1, <1>2, <1>3, <1>4

\* Cut or not, the graph holds each vector once, and none farther than one left out.
LEMMA GraphIsBall ==
  ASSUME NEW rows \in Seq(Vectors), NEW q \in DOMAIN rows,
         NEW c \in Collapsed(rows, q), NEW d \in Capped(c, rows, q)
  PROVE  LET S == Represent(rows, q)
             dist(i) == Distance(rows[i], rows[q])
         IN  /\ \A u \in DOMAIN d.sel : d.sel[u] \in S
             /\ \A u, v \in DOMAIN d.sel : d.sel[u] = d.sel[v] => u = v
             /\ \A x \in S : (\E u \in DOMAIN d.sel : d.sel[u] = x)
                             \/ \A u \in DOMAIN d.sel : dist(d.sel[u]) <= dist(x)
             /\ \E n \in Nat : DOMAIN d.sel = 1..n
<1> DEFINE S == Represent(rows, q)
           n == Cardinality(S)
           key == [i \in S |-> First(rows, i)]
           T == {c.sel[u] : u \in DOMAIN c.sel}
           far == [i \in T |-> Distance(rows[i], rows[q])]
<1>1. IsFiniteSet(S) /\ n \in Nat
  BY Representatives, FS_CardinalityType
<1>2. c.sel \in Foremost(S, key, n)
  BY DEF Collapsed
<1> HIDE DEF S
<1>3. c.sel \in [1..n -> S] /\ \A i, j \in 1..n : i < j => c.sel[i] # c.sel[j]
  BY <1>2 DEF Foremost
<1>4. \A x \in S : \E u \in 1..n : c.sel[u] = x
  BY <1>1, <1>3, FiniteOnto
<1>5. DOMAIN c.sel = 1..n /\ T = S
  <2>1. DOMAIN c.sel = 1..n
    BY <1>3
  <2>2. \A u \in 1..n : c.sel[u] \in S
    BY <1>3
  <2>3. QED
    BY <1>4, <2>1, <2>2
<1>6. CASE d = c
  <2>1. \A u, v \in 1..n : c.sel[u] = c.sel[v] => u = v
    BY <1>1, <1>3
  <2>2. QED
    BY <1>1, <1>3, <1>4, <1>5, <1>6, <2>1 DEF S
<1>7. CASE d.sel \in Foremost(T, far, Cap)
  <2>1. /\ d.sel \in [1..Cap -> S] /\ Cap \in Nat
        /\ \A i, j \in 1..Cap : i < j => d.sel[i] # d.sel[j]
        /\ \A x \in S, i \in 1..Cap : (\E j \in 1..Cap : d.sel[j] = x) \/ far[d.sel[i]] <= far[x]
    BY <1>5, <1>7, ConclusionBounds DEF Foremost
  <2>2. \A u, v \in 1..Cap : d.sel[u] = d.sel[v] => u = v
    BY <2>1
  <2>3. DOMAIN d.sel = 1..Cap /\ \A u \in 1..Cap : d.sel[u] \in S
    BY <2>1
  <2>4. \A x \in S : far[x] = Distance(rows[x], rows[q])
    BY <1>5
  <2>5. \A x \in S : (\E u \in 1..Cap : d.sel[u] = x)
                     \/ \A u \in 1..Cap : Distance(rows[d.sel[u]], rows[q]) <= Distance(rows[x], rows[q])
    BY <2>1, <2>3, <2>4
  <2>6. QED
    BY <2>1, <2>2, <2>3, <2>5 DEF S
<1>8. QED
  BY <1>6, <1>7 DEF Capped

\* What SimilarIsNearest says of an answer.
Nearest(rows, q, list) ==
  LET named == {list[i].pid : i \in DOMAIN list}
      dist(i) == Distance(rows[i], rows[q])
      resist(i) == Resistance[rows[q]][rows[i]]
  IN  /\ \A i \in named : rows[i] # rows[q]
      /\ \A i \in named, j \in named : rows[i] = rows[j] => i = j
      /\ \A i, j \in DOMAIN list : i < j => resist(list[i].pid) <= resist(list[j].pid)
      /\ \A i \in DOMAIN rows, j \in named :
           dist(i) < dist(j) /\ resist(i) < resist(j) =>
             rows[i] = rows[q] \/ \E k \in named : rows[k] = rows[i]

LEMMA SimilarNearest ==
  ASSUME NEW rows \in Seq(Vectors), NEW q \in DOMAIN rows, NEW list \in Similar(rows, q)
  PROVE  Nearest(rows, q, list)
<1> DEFINE S == Represent(rows, q)
           dist(i) == Distance(rows[i], rows[q])
           resist(i) == Resistance[rows[q]][rows[i]]
<1>1. PICK c \in Collapsed(rows, q) : \E d \in Capped(c, rows, q) : list \in Ranked(d, rows, q)
  BY DEF Similar
<1>2. PICK d \in Capped(c, rows, q) : list \in Ranked(d, rows, q)
  BY <1>1
<1> DEFINE others == {u \in DOMAIN d.sel : d.sel[u] # q}
           key == [u \in others |-> Resistance[rows[q]][rows[d.sel[u]]]]
           k == Fewer(TopN, Cardinality(others))
<1>3. PICK near \in Foremost(others, key, k) :
        list = [i \in DOMAIN near |-> [pid |-> d.sel[near[i]], peers |-> d.members[near[i]]]]
  BY <1>2 DEF Ranked
<1>4. /\ S \subseteq DOMAIN rows /\ q \in S
      /\ \A i, j \in S : rows[i] = rows[j] => i = j
      /\ \A i \in DOMAIN rows : \E r \in S : rows[r] = rows[i]
  BY Representatives
<1>5. /\ \A u \in DOMAIN d.sel : d.sel[u] \in S
      /\ \A u, v \in DOMAIN d.sel : d.sel[u] = d.sel[v] => u = v
      /\ \A x \in S : (\E u \in DOMAIN d.sel : d.sel[u] = x)
                      \/ \A u \in DOMAIN d.sel : dist(d.sel[u]) <= dist(x)
  BY GraphIsBall
<1>6. k \in Int
  <2>1. PICK m \in Nat : DOMAIN d.sel = 1..m
    BY GraphIsBall
  <2>2. IsFiniteSet(others)
    BY <2>1, FS_Interval, FS_Subset
  <2>3. QED
    BY <2>2, FS_CardinalityType, ConclusionBounds DEF Fewer
<1> HIDE DEF S, k, others
<1>7. /\ near \in [1..k -> others]
      /\ \A i, j \in 1..k : i < j => near[i] # near[j] /\ key[near[i]] <= key[near[j]]
      /\ \A x \in others, i \in 1..k : (\E j \in 1..k : near[j] = x) \/ key[near[i]] <= key[x]
  BY <1>3 DEF Foremost
<1>8. /\ \A u \in others : u \in DOMAIN d.sel /\ d.sel[u] # q
      /\ \A u \in DOMAIN d.sel : d.sel[u] # q => u \in others
  BY DEF others
<1>9. DOMAIN list = 1..k /\ \A i \in 1..k : near[i] \in others /\ list[i].pid = d.sel[near[i]]
  BY <1>3, <1>7
<1>10. \A u \in others : /\ key[u] = resist(d.sel[u]) /\ d.sel[u] \in S
                         /\ rows[d.sel[u]] # rows[q]
  BY <1>4, <1>5, <1>8
<1>11. \A i \in DOMAIN rows : dist(i) \in Int /\ resist(i) \in Nat
  <2> TAKE i \in DOMAIN rows
  <2>1. rows[i] \in Vectors /\ rows[q] \in Vectors
    BY <1>4
  <2>2. rows[i] \in Int /\ rows[q] \in Int
    BY <2>1, ConclusionBounds
  <2>3. resist(i) \in Nat
    BY <2>1, ConclusionBounds
  <2>4. QED
    BY <2>2, <2>3 DEF Distance
<1>12. ASSUME NEW i \in DOMAIN rows, NEW m \in 1..k, dist(i) < dist(d.sel[near[m]]),
              resist(i) < resist(d.sel[near[m]]), rows[i] # rows[q]
       PROVE  \E j \in 1..k : rows[d.sel[near[j]]] = rows[i]
  <2>1. PICK r \in S : rows[r] = rows[i]
    BY <1>4
  <2>2. near[m] \in others /\ d.sel[near[m]] \in DOMAIN rows /\ near[m] \in DOMAIN d.sel
    BY <1>4, <1>8, <1>9, <1>10
  <2>3. ~ dist(d.sel[near[m]]) <= dist(r)
    <3>1. dist(r) = dist(i)
      BY <2>1
    <3>2. dist(i) \in Int /\ dist(d.sel[near[m]]) \in Int
      BY <1>11, <2>2
    <3> HIDE DEF dist
    <3>3. QED
      BY <1>12, <3>1, <3>2
  <2>4. PICK u \in DOMAIN d.sel : d.sel[u] = r
    BY <1>5, <2>2, <2>3
  <2>5. u \in others
    BY <1>8, <1>12, <2>1, <2>4
  <2>6. ~ key[near[m]] <= key[u]
    <3>1. key[near[m]] = resist(d.sel[near[m]]) /\ key[u] = resist(r)
      BY <1>10, <2>2, <2>4, <2>5
    <3>2. resist(r) = resist(i)
      BY <2>1
    <3>3. resist(i) \in Nat /\ resist(d.sel[near[m]]) \in Nat
      BY <1>11, <2>2
    <3> HIDE DEF resist, key
    <3>4. QED
      BY <1>12, <3>1, <3>2, <3>3
  <2>7. PICK j \in 1..k : near[j] = u
    BY <1>7, <2>5, <2>6
  <2>8. QED
    BY <2>1, <2>4, <2>7
<1> DEFINE named == {list[i].pid : i \in DOMAIN list}
<1>13. \A j \in named : \E m \in 1..k : j = d.sel[near[m]]
  BY <1>9
<1>14. \A j \in 1..k : d.sel[near[j]] \in named
  BY <1>9
<1> HIDE DEF named
<1>15. \A i \in named : rows[i] # rows[q] /\ i \in S
  BY <1>9, <1>10, <1>13
<1>16. \A i \in named, j \in named : rows[i] = rows[j] => i = j
  BY <1>4, <1>15
<1>17. \A i, j \in DOMAIN list : i < j => resist(list[i].pid) <= resist(list[j].pid)
  <2> SUFFICES ASSUME NEW i \in 1..k, NEW j \in 1..k, i < j PROVE resist(list[i].pid) <= resist(list[j].pid)
    BY <1>9
  <2>1. key[near[i]] <= key[near[j]]
    BY <1>7
  <2>2. near[i] \in others /\ near[j] \in others /\ list[i].pid = d.sel[near[i]] /\ list[j].pid = d.sel[near[j]]
    BY <1>9
  <2>3. key[near[i]] = resist(d.sel[near[i]]) /\ key[near[j]] = resist(d.sel[near[j]])
    BY <1>10, <2>2
  <2> HIDE DEF key, resist
  <2>4. QED
    BY <2>1, <2>2, <2>3
<1>18. \A i \in DOMAIN rows, j \in named :
         dist(i) < dist(j) /\ resist(i) < resist(j) =>
           rows[i] = rows[q] \/ \E x \in named : rows[x] = rows[i]
  BY <1>12, <1>13, <1>14
<1>19. QED
  BY <1>15, <1>16, <1>17, <1>18 DEF Nearest, named

ConclusionInv == population \in Seq(Vectors) /\ SimilarIsNearest

(***************************************************************************)
(* What --similar lists is the nearest there is, for every population, cap    *)
(* and length of the list, whatever the library's resistances are and         *)
(* whichever order std::sort leaves ties in.                                *)
(***************************************************************************)
THEOREM SimilarNames == ConclusionSpec => []SimilarIsNearest
<1>1. ConclusionInit => ConclusionInv
  <2> SUFFICES ASSUME ConclusionInit PROVE ConclusionInv
    OBVIOUS
  <2>1. PICK n \in 0..MaxProcesses : population \in [1..n -> Vectors]
    BY DEF ConclusionInit
  <2>2. n \in Nat
    BY ConclusionBounds
  <2>3. population \in Seq(Vectors)
    BY <2>1, <2>2
  <2>4. QED
    BY <2>3 DEF ConclusionInit, ConclusionInv, SimilarIsNearest, Concluded
<1>2. ConclusionInv /\ [ConclusionNext]_conclusionVars => ConclusionInv'
  <2> SUFFICES ASSUME ConclusionInv, [ConclusionNext]_conclusionVars PROVE ConclusionInv'
    OBVIOUS
  <2>1. CASE UNCHANGED conclusionVars
    BY <2>1 DEF conclusionVars, ConclusionInv, SimilarIsNearest, Concluded
  <2>2. CASE Conclude /\ mode = "similar"
    <3>1. population' = population /\ query' = query /\ mode' = mode /\ population \in Seq(Vectors)
      BY <2>2 DEF Conclude, ConclusionInv
    <3>2. CASE answer' = <<1, <<>>>>
      BY <3>1, <3>2 DEF ConclusionInv, SimilarIsNearest, Concluded
    <3>3. CASE ~SimilarFails(population, query) /\ \E ranked \in Similar(population, query) : answer' = <<0, ranked>>
      <4>1. PICK ranked \in Similar(population, query) : answer' = <<0, ranked>>
        BY <3>3
      <4>2. query \in DOMAIN population
        BY <3>3 DEF SimilarFails
      <4>3. Nearest(population, query, ranked)
        BY <3>1, <4>2, SimilarNearest
      <4>4. answer'[2] = ranked
        BY <4>1
      <4>5. Nearest(population', query', answer'[2])
        BY <3>1, <4>3, <4>4
      <4>6. QED
        BY <3>1, <4>5 DEF ConclusionInv, SimilarIsNearest, Nearest
    <3>4. QED
      BY <2>2, <3>2, <3>3 DEF Conclude
  <2>3. CASE Conclude /\ mode # "similar"
    BY <2>3 DEF Conclude, ConclusionInv, SimilarIsNearest, Concluded
  <2>4. QED
    BY <2>1, <2>2, <2>3 DEF ConclusionNext, ConclusionEnded
<1>3. ConclusionInv => SimilarIsNearest
  BY DEF ConclusionInv
<1>4. QED
  BY <1>1, <1>2, <1>3, PTL DEF ConclusionSpec

-----------------------------------------------------------------------------
(* GPU attribution.                                                         *)

\* Maps from pids to natural numbers.
PidMaps == UNION {[D -> Nat] : D \in SUBSET GpuPids}
FoundType == [util : PidMaps, running : SUBSET GpuPids, mem : PidMaps]

GpuTypeOK ==
    /\ machine \in SUBSET Sources /\ opened \in SUBSET GpuPids /\ rowPids \in SUBSET GpuPids
    /\ level \in [GpuPids -> 0 .. Full]
    /\ memOf \in [GpuPids -> Nat] /\ work \in [GpuPids -> Nat] /\ sampledAt \in [GpuPids -> Nat]
    /\ gclock \in Nat \ {0} /\ seenTs \in Nat
    /\ driver \in [GpuPids -> [util : Nat, ts : 0 .. gclock]]
    /\ device \in [util : Nat, used : Nat]
    /\ baseline \in UNION {[D -> [work : Nat, at : Nat]] : D \in SUBSET GpuPids}
    /\ DOMAIN smooth \subseteq GpuPids

\* What is smoothed was sampled, and no longer before the last pass than PruneAfter.
SmoothIsRecent ==
    /\ pass.at \in Nat /\ pass.at <= gclock
    /\ \A p \in DOMAIN smooth :
         /\ smooth[p].sampled = sampledAt[p] /\ sampledAt[p] > 0 /\ sampledAt[p] <= pass.at
         /\ pass.at - sampledAt[p] <= PruneAfter

GpuInv == GpuTypeOK /\ SmoothIsRecent /\ GpuIsEarned

-----------------------------------------------------------------------------
(* Totals of maps.                                                          *)

LEMMA TotalIsSum ==
  ASSUME NEW m PROVE Total(m) = SumFunctionOnSet(m, DOMAIN m)
BY DEF Total, SumFunction, SumFunctionOnSet, FoldFunction

LEMMA PidMapFacts ==
  ASSUME GpuBounds, NEW m \in PidMaps
  PROVE  /\ DOMAIN m \in SUBSET GpuPids /\ IsFiniteSet(DOMAIN m) /\ \A p \in DOMAIN m : m[p] \in Nat
         /\ Total(m) \in Nat /\ Cardinality(DOMAIN m) \in Nat
<1>1. DOMAIN m \in SUBSET GpuPids /\ \A p \in DOMAIN m : m[p] \in Nat
  <2>1. PICK D \in SUBSET GpuPids : m \in [D -> Nat]
    BY DEF PidMaps
  <2>2. QED
    BY <2>1
<1>2. IsFiniteSet(DOMAIN m)
  BY <1>1, FS_Subset DEF GpuBounds
<1>3. QED
  BY <1>1, <1>2, TotalIsSum, SumIsNat, FS_CardinalityType

\* A map of one pid, or of none.
LEMMA TotalOfOne ==
  ASSUME NEW S, NEW v \in Nat, NEW m, m = [p \in S |-> v], Cardinality(S) = 1, IsFiniteSet(S)
  PROVE  Total(m) = v
<1>1. PICK e : S = {e}
  BY FS_Singleton
<1>2. SumFunctionOnSet(m, S) = m[e] + SumFunctionOnSet(m, S \ {e})
  BY <1>1, SumWithout
<1>3. SumFunctionOnSet(m, {}) = 0
  BY FS_EmptySet, SumStep
<1>4. S \ {e} = {} /\ m[e] = v /\ DOMAIN m = S
  BY <1>1
<1>5. QED
  BY <1>2, <1>3, <1>4, TotalIsSum

LEMMA TotalOfNone == ASSUME NEW m, DOMAIN m = {} PROVE Total(m) = 0
<1>1. SumFunctionOnSet(m, {}) = 0
  BY FS_EmptySet, SumStep
<1>2. QED
  BY <1>1, TotalIsSum

LEMMA SumOfOnes ==
  ASSUME NEW S, IsFiniteSet(S), NEW m, \A p \in S : m[p] = 1
  PROVE  SumFunctionOnSet(m, S) = Cardinality(S)
<1> DEFINE F == {T \in SUBSET S : SumFunctionOnSet(m, T) = Cardinality(T)}
<1>1. ASSUME NEW T \in SUBSET S, \A U \in SUBSET T : U # T => U \in F PROVE T \in F
  <2>1. IsFiniteSet(T)
    BY FS_Subset
  <2>2. CASE T = {}
    BY <2>1, <2>2, SumStep, FS_EmptySet
  <2>3. CASE T # {}
    <3>1. PICK x \in T : SumFunctionOnSet(m, T) = m[x] + SumFunctionOnSet(m, T \ {x})
      BY <2>1, <2>3, SumStep
    <3>2. T \ {x} \in F /\ m[x] = 1
      BY <1>1
    <3>3. Cardinality(T \ {x}) = Cardinality(T) - 1 /\ Cardinality(T) \in Nat
      BY <2>1, FS_RemoveElement, FS_CardinalityType
    <3>4. QED
      BY <3>1, <3>2, <3>3
  <2>4. QED
    BY <2>2, <2>3
<1>2. S \in F
  <2> HIDE DEF F
  <2>1. QED
    BY <1>1, SubsetInduction
<1>3. QED
  BY <1>2

\* Shares of a by weight, at least one each, come to a and one for each pid at most.
LEMMA SharesAddUp ==
  ASSUME GpuBounds, NEW S \in SUBSET GpuPids, NEW w, \A p \in S : w[p] \in Nat, NEW a \in Nat,
         NEW d \in Nat, d > 0, d = SumFunctionOnSet(w, S),
         NEW m, m = [p \in S |-> Larger(1, (a * w[p]) \div d)]
  PROVE  Total(m) <= a + Cardinality(S)
<1>1. IsFiniteSet(S) /\ Cardinality(S) \in Nat
  BY FS_Subset, FS_CardinalityType DEF GpuBounds
<1>2. ASSUME NEW p \in S PROVE m[p] \in Nat /\ d * m[p] <= a * w[p] + d
  <2> DEFINE x == a * w[p]
             q == x \div d
  <2>1. x \in Nat /\ w[p] \in Nat
    OBVIOUS
  <2> HIDE DEF x
  <2>2. q \in Nat /\ d * q <= x
    BY <2>1
  <2>3. m[p] = IF 1 > q THEN 1 ELSE q
    BY DEF Larger, x
  <2> HIDE DEF q
  <2>4. CASE 1 > q
    BY <2>1, <2>2, <2>3, <2>4 DEF x
  <2>5. CASE ~(1 > q)
    BY <2>1, <2>2, <2>3, <2>5 DEF x
  <2>6. QED
    BY <2>4, <2>5
<1> DEFINE t == SumFunctionOnSet(m, S)
           n == Cardinality(S)
<1>3. d * t <= a * d + d * n
  BY <1>1, <1>2, SumOfShares
<1>4. t \in Nat
  BY <1>1, <1>2, SumIsNat
<1>5. Total(m) = t
  BY TotalIsSum
<1> HIDE DEF t, n
<1>6. n \in Nat
  BY <1>1 DEF n
<1>7. t <= a + n
  <2> SUFFICES ASSUME t > a + n PROVE FALSE
    BY <1>4, <1>6
  <2>1. t >= a + n + 1
    BY <1>4, <1>6
  <2>2. d * t >= d * (a + n + 1)
    BY <1>4, <1>6, <2>1
  <2>3. d * (a + n + 1) = a * d + d * n + d
    BY <1>6
  <2>4. QED
    BY <1>3, <1>4, <1>6, <2>2, <2>3
<1>8. QED
  BY <1>5, <1>7 DEF n

LEMMA PidMap ==
  ASSUME NEW m, NEW D \in SUBSET GpuPids, m = [p \in D |-> m[p]], \A p \in D : m[p] \in Nat
  PROVE  m \in PidMaps
<1>1. m \in [D -> Nat]
  OBVIOUS
<1>2. QED
  BY <1>1 DEF PidMaps

LEMMA NoMapIsMap == NoMap \in PidMaps /\ DOMAIN NoMap = {}
<1>1. NoMap \in [{} -> Nat] /\ DOMAIN NoMap = {}
  BY DEF NoMap
<1>2. QED
  BY <1>1 DEF PidMaps

LEMMA FilledIsMap ==
  ASSUME NEW m \in PidMaps, NEW n \in PidMaps
  PROVE  Filled(m, n) \in PidMaps
<1>1. PICK D \in SUBSET GpuPids : m \in [D -> Nat]
  BY DEF PidMaps
<1>2. PICK E \in SUBSET GpuPids : n \in [E -> Nat]
  BY DEF PidMaps
<1>3. Filled(m, n) \in [D \cup E -> Nat]
  BY <1>1, <1>2 DEF Filled
<1>4. D \cup E \in SUBSET GpuPids
  OBVIOUS
<1>5. QED
  BY <1>3, <1>4 DEF PidMaps

-----------------------------------------------------------------------------
(* What a pass finds and infers.                                            *)

LEMMA DrmLevelIsNat ==
  ASSUME GpuBounds, GpuTypeOK, NEW p \in opened \cap DOMAIN baseline
  PROVE  DrmLevel(p) \in Nat
<1> DEFINE spent == work[p] - baseline[p].work
           dt == gclock - baseline[p].at
<1>1. p \in GpuPids /\ work[p] \in Nat /\ gclock \in Nat
  BY DEF GpuTypeOK
<1>2. baseline[p] \in [work : Nat, at : Nat]
  <2>1. PICK D \in SUBSET GpuPids : baseline \in [D -> [work : Nat, at : Nat]]
    BY DEF GpuTypeOK
  <2>2. QED
    BY <2>1
<1>3. spent \in Int /\ dt \in Int /\ Full \in Nat
  BY <1>1, <1>2 DEF GpuBounds
<1>4. DrmLevel(p) = IF dt > 0 /\ spent >= 0 THEN Smaller(Full, (2 * spent + dt) \div (2 * dt)) ELSE 0
  BY DEF DrmLevel
<1> HIDE DEF spent, dt
<1>5. ASSUME dt > 0, spent >= 0 PROVE (2 * spent + dt) \div (2 * dt) \in Nat
  <2>1. 2 * spent + dt \in Nat /\ 2 * dt \in Nat /\ 2 * dt > 0
    BY <1>3, <1>5
  <2>2. QED
    BY <2>1
<1>6. QED
  BY <1>3, <1>4, <1>5 DEF Smaller

LEMMA HoldingIsMap == ASSUME GpuTypeOK PROVE Holding \in PidMaps
<1> DEFINE D == {q \in opened : memOf[q] > 0}
<1>1. D \in SUBSET GpuPids /\ \A p \in D : memOf[p] \in Nat
  BY DEF GpuTypeOK
<1>2. Holding \in [D -> Nat]
  BY <1>1 DEF Holding
<1>3. QED
  BY <1>1, <1>2 DEF PidMaps

LEMMA FdinfoIsMap == ASSUME GpuBounds, GpuTypeOK PROVE Fdinfo \in PidMaps
<1> DEFINE D == {q \in opened \cap DOMAIN baseline : DrmLevel(q) > 0}
<1>1. D \in SUBSET GpuPids /\ \A p \in D : DrmLevel(p) \in Nat
  BY DrmLevelIsNat DEF GpuTypeOK
<1>2. Fdinfo = [p \in D |-> DrmLevel(p)]
  BY DEF Fdinfo
<1> HIDE DEF D
<1>3. Fdinfo \in [D -> Nat]
  BY <1>1, <1>2
<1>4. QED
  BY <1>1, <1>3 DEF PidMaps

LEMMA NvmlFinds == ASSUME GpuBounds, GpuTypeOK, NEW on PROVE Nvml(on) \in FoundType
<1> DEFINE D == {q \in GpuPids : driver[q].ts > seenTs}
           u == [p \in D |-> driver[p].util]
<1>1. \A p \in GpuPids : driver[p].util \in Nat
  BY DEF GpuTypeOK
<1>2. u \in [D -> Nat] /\ D \in SUBSET GpuPids
  BY <1>1
<1>3. u \in PidMaps
  <2> HIDE DEF D, u
  <2>1. QED
    BY <1>2 DEF PidMaps
<1>4. opened \in SUBSET GpuPids /\ {} \in SUBSET GpuPids
  BY DEF GpuTypeOK
<1>5. Nvml(on).util \in PidMaps
  BY <1>3, NoMapIsMap DEF Nvml
<1>6. Nvml(on).running \in SUBSET GpuPids
  BY <1>4 DEF Nvml
<1>7. Nvml(on).mem \in PidMaps
  BY HoldingIsMap, NoMapIsMap DEF Nvml
<1>8. Nvml(on) = [util |-> Nvml(on).util, running |-> Nvml(on).running, mem |-> Nvml(on).mem]
  BY DEF Nvml
<1>9. QED
  BY <1>5, <1>6, <1>7, <1>8 DEF FoundType

LEMMA SourcesFind ==
  ASSUME GpuBounds, GpuTypeOK, NEW on, NEW f \in FoundType
  PROVE  /\ AskFdinfo(on, f) \in FoundType
         /\ AskPmon(on, f) \in FoundType
         /\ ScanDescriptors(f) \in FoundType
         /\ AskSmiMem(on, f) \in FoundType
<1>1. /\ f.util \in PidMaps /\ f.running \in SUBSET GpuPids /\ f.mem \in PidMaps
      /\ f = [util |-> f.util, running |-> f.running, mem |-> f.mem]
  BY DEF FoundType
<1>2. AskFdinfo(on, f) \in FoundType
  <2>1. Filled(f.mem, Holding) \in PidMaps /\ Fdinfo \in PidMaps
    BY <1>1, FilledIsMap, HoldingIsMap, FdinfoIsMap
  <2>2. f.running \cup opened \in SUBSET GpuPids
    BY <1>1 DEF GpuTypeOK
  <2>3. QED
    BY <2>1, <2>2 DEF AskFdinfo, FoundType
<1>3. AskPmon(on, f) \in FoundType
  <2> DEFINE named == {p \in opened : level[p] > 0}
             u == [p \in named |-> level[p]]
  <2>1. Full \in Nat /\ level \in [GpuPids -> 0 .. Full] /\ opened \in SUBSET GpuPids
    BY DEF GpuTypeOK, GpuBounds
  <2>2. named \in SUBSET GpuPids /\ u \in [named -> Nat]
    <3>1. \A p \in opened : level[p] \in Nat
      BY <2>1
    <3>2. QED
      BY <2>1, <3>1
  <2>3. AskPmon(on, f) \in {[util |-> u, running |-> f.running \cup named, mem |-> f.mem], f}
    BY DEF AskPmon
  <2> HIDE DEF named, u
  <2>4. u \in PidMaps /\ f.running \cup named \in SUBSET GpuPids
    BY <1>1, <2>2 DEF PidMaps
  <2>5. QED
    BY <1>1, <2>3, <2>4 DEF FoundType
<1>4. ScanDescriptors(f) \in FoundType
  <2>1. rowPids \cap opened \in SUBSET GpuPids
    BY DEF GpuTypeOK
  <2>2. QED
    BY <1>1, <2>1 DEF ScanDescriptors, FoundType
<1>5. AskSmiMem(on, f) \in FoundType
  BY <1>1, HoldingIsMap DEF AskSmiMem, FoundType
<1>6. QED
  BY <1>2, <1>3, <1>4, <1>5

LEMMA ToldIsFound == ASSUME GpuBounds, GpuTypeOK, NEW on PROVE Told(on) \in FoundType
<1>1. AskFdinfo(on, Nvml(on)) \in FoundType
  BY NvmlFinds, SourcesFind
<1>2. AskPmon(on, AskFdinfo(on, Nvml(on))) \in FoundType
  BY <1>1, SourcesFind
<1>3. ScanDescriptors(AskPmon(on, AskFdinfo(on, Nvml(on)))) \in FoundType
  BY <1>2, SourcesFind
<1>4. QED
  BY <1>3, SourcesFind DEF Told

\* Nobody, or one pid.
One == {{}} \cup {{p} : p \in GpuPids}

LEMMA OneIsSmall ==
  ASSUME NEW o \in One
  PROVE  o \in SUBSET GpuPids /\ IsFiniteSet(o) /\ (o # {} => Cardinality(o) = 1)
<1>1. CASE o = {}
  BY <1>1, FS_EmptySet
<1>2. CASE \E p \in GpuPids : o = {p}
  BY <1>2, FS_Singleton
<1>3. QED
  BY <1>1, <1>2 DEF One

\* The memory inferred from shares, before the remainder.
LEMMA SpreadMemAddsUp ==
  ASSUME GpuBounds, GpuTypeOK, NEW on, NEW f \in FoundType, NEW owner \in One
  PROVE  /\ SpreadMem(on, f, owner) \in PidMaps
         /\ \/ SpreadMem(on, f, owner) = f.mem
            \/ /\ "mig" \notin on
               /\ \/ Total(SpreadMem(on, f, owner)) <= device.used
                  \/ /\ f.util # NoMap
                     /\ Total(SpreadMem(on, f, owner)) <= device.used + Cardinality(DOMAIN f.util)
<1> DEFINE sum == Total(f.util)
           shares == [p \in DOMAIN f.util |-> Larger(1, (device.used * f.util[p]) \div sum)]
           alone == [p \in f.running |-> device.used]
           owned == [p \in owner |-> device.used]
<1>1. f.util \in PidMaps /\ f.running \in SUBSET GpuPids /\ f.mem \in PidMaps /\ device.used \in Nat
  BY DEF FoundType, GpuTypeOK
<1>2. /\ DOMAIN f.util \in SUBSET GpuPids /\ \A p \in DOMAIN f.util : f.util[p] \in Nat
      /\ sum \in Nat /\ sum = SumFunctionOnSet(f.util, DOMAIN f.util)
  BY <1>1, PidMapFacts, TotalIsSum
<1>3. owner \in SUBSET GpuPids /\ IsFiniteSet(owner) /\ (owner # {} => Cardinality(owner) = 1)
  BY OneIsSmall
<1>4. alone \in PidMaps /\ owned \in PidMaps
  <2>1. alone \in [f.running -> Nat] /\ owned \in [owner -> Nat]
    BY <1>1
  <2> HIDE DEF alone, owned
  <2>2. QED
    BY <1>1, <1>3, <2>1 DEF PidMaps
<1>5. ASSUME sum > 0
      PROVE  shares \in PidMaps /\ Total(shares) <= device.used + Cardinality(DOMAIN f.util) /\ f.util # NoMap
  <2>1. Total(shares) <= device.used + Cardinality(DOMAIN f.util)
    BY <1>1, <1>2, <1>5, SharesAddUp
  <2>2. \A p \in DOMAIN f.util : shares[p] \in Nat
    <3> TAKE p \in DOMAIN f.util
    <3> DEFINE x == device.used * f.util[p]
    <3>1. x \in Nat
      BY <1>1, <1>2
    <3> HIDE DEF x, sum
    <3>2. x \div sum \in Nat
      BY <1>2, <1>5, <3>1
    <3>3. QED
      BY <3>2 DEF Larger, x
  <2>3. shares \in [DOMAIN f.util -> Nat]
    BY <2>2
  <2>4. shares \in PidMaps
    <3> HIDE DEF shares
    <3>1. QED
      BY <1>2, <2>3 DEF PidMaps
  <2>5. f.util # NoMap
    <3>1. Total(NoMap) = 0
      BY NoMapIsMap, TotalOfNone
    <3>2. QED
      BY <1>5, <3>1
  <2>6. QED
    BY <2>1, <2>4, <2>5
<1>6. Cardinality(f.running) = 1 => Total(alone) = device.used
  <2>1. IsFiniteSet(f.running)
    BY <1>1, FS_Subset DEF GpuBounds
  <2>2. QED
    BY <1>1, <2>1, TotalOfOne
<1>7. Total(owned) <= device.used
  <2>1. CASE owner = {}
    <3>1. DOMAIN owned = {}
      BY <2>1
    <3>2. Total(owned) = 0
      BY <3>1, TotalOfNone
    <3>3. QED
      BY <1>1, <3>2
  <2>2. CASE owner # {}
    <3>1. Total(owned) = device.used
      BY <1>1, <1>3, <2>2, TotalOfOne
    <3>2. QED
      BY <1>1, <3>1
  <2>3. QED
    BY <2>1, <2>2
<1>8. SpreadMem(on, f, owner) = IF "mig" \in on \/ f.mem # NoMap \/ device.used = 0 THEN f.mem
                               ELSE IF sum > 0 THEN shares
                               ELSE IF Cardinality(f.running) = 1 THEN alone ELSE owned
  BY DEF SpreadMem
<1>9. device.used <= device.used
  BY <1>1
<1> HIDE DEF sum, shares, alone, owned
<1>10. CASE "mig" \in on \/ f.mem # NoMap \/ device.used = 0
  BY <1>1, <1>8, <1>10
<1>11. CASE ~("mig" \in on \/ f.mem # NoMap \/ device.used = 0) /\ sum > 0
  BY <1>5, <1>8, <1>11
<1>12. CASE ~("mig" \in on \/ f.mem # NoMap \/ device.used = 0) /\ ~(sum > 0)
  BY <1>4, <1>6, <1>7, <1>8, <1>9, <1>12
<1>13. QED
  BY <1>10, <1>11, <1>12

\* The remainder brings the total to the device's.
LEMMA ResidualAddsUp ==
  ASSUME GpuBounds, GpuTypeOK, NEW on, NEW mem \in PidMaps, NEW heir \in One
  PROVE  /\ AddResidual(on, mem, heir) \in PidMaps
         /\ \/ AddResidual(on, mem, heir) = mem
            \/ "mig" \notin on /\ Total(AddResidual(on, mem, heir)) <= device.used
<1> DEFINE more == [p \in heir |-> At(mem, p, 0) + Residual(mem)]
           all == Filled(more, mem)
<1>1. /\ device.used \in Nat /\ Total(mem) \in Nat /\ DOMAIN mem \in SUBSET GpuPids
      /\ IsFiniteSet(DOMAIN mem) /\ \A p \in DOMAIN mem : mem[p] \in Nat
  BY PidMapFacts DEF GpuTypeOK
<1>2. CASE "mig" \in on \/ device.used = 0 \/ Total(mem) >= device.used
  BY <1>2 DEF AddResidual
<1>3. CASE ~("mig" \in on \/ device.used = 0 \/ Total(mem) >= device.used)
  <2>1. AddResidual(on, mem, heir) = all
    BY <1>3 DEF AddResidual
  <2>2. Residual(mem) \in Nat /\ Residual(mem) = device.used - Total(mem)
    BY <1>1, <1>3 DEF Residual
  <2>3. CASE heir = {}
    <3>1. all = mem
      <4>1. DOMAIN more = {} /\ mem = [p \in DOMAIN mem |-> mem[p]]
        <5>1. PICK D \in SUBSET GpuPids : mem \in [D -> Nat]
          BY DEF PidMaps
        <5>2. QED
          BY <2>3, <5>1
      <4> HIDE DEF more
      <4>2. QED
        BY <4>1 DEF Filled
    <3>2. QED
      BY <2>1, <3>1
  <2>4. CASE \E h \in GpuPids : heir = {h}
    <3>1. PICK h \in GpuPids : heir = {h}
      BY <2>4
    <3> DEFINE D == DOMAIN mem
    <3>2. At(mem, h, 0) \in Nat
      BY <1>1 DEF At
    <3>3. /\ DOMAIN all = D \cup {h}
          /\ all[h] = At(mem, h, 0) + Residual(mem)
          /\ \A p \in D \ {h} : all[p] = mem[p]
      BY <3>1 DEF Filled
    <3>4. IsFiniteSet(D \cup {h}) /\ IsFiniteSet(D \ {h})
      BY <1>1, FS_AddElement, FS_RemoveElement
    <3> HIDE DEF all, more
    <3>5. \A p \in D \cup {h} : all[p] \in Nat
      <4> TAKE p \in D \cup {h}
      <4>1. CASE p = h
        BY <2>2, <3>2, <3>3, <4>1
      <4>2. CASE p \in D \ {h}
        BY <1>1, <3>3, <4>2
      <4>3. QED
        BY <4>1, <4>2
    <3>6. SumFunctionOnSet(all, D \cup {h}) = all[h] + SumFunctionOnSet(all, D \ {h})
      <4>1. (D \cup {h}) \ {h} = D \ {h} /\ h \in D \cup {h}
        OBVIOUS
      <4> HIDE DEF D
      <4>2. QED
        BY <3>4, <3>5, <4>1, SumWithout
    <3>7. SumFunctionOnSet(all, D \ {h}) = SumFunctionOnSet(mem, D \ {h})
      BY <3>3, <3>4, SumSame
    <3>8. Total(mem) = At(mem, h, 0) + SumFunctionOnSet(mem, D \ {h})
      <4>1. CASE h \in D
        BY <1>1, <4>1, SumWithout, TotalIsSum DEF At
      <4>2. CASE h \notin D
        <5>1. D \ {h} = D /\ At(mem, h, 0) = 0 /\ Total(mem) = SumFunctionOnSet(mem, D)
          <6>1. D \ {h} = D
            <7> HIDE DEF D
            <7>1. QED
              BY <4>2
          <6>2. At(mem, h, 0) = 0
            BY <4>2 DEF At
          <6>3. QED
            BY <6>1, <6>2, TotalIsSum
        <5>2. QED
          BY <1>1, <5>1
      <4>3. QED
        BY <4>1, <4>2
    <3>9. SumFunctionOnSet(mem, D \ {h}) \in Nat
      BY <1>1, <3>4, SumIsNat
    <3>10. Total(all) = SumFunctionOnSet(all, D \cup {h})
      BY <3>3, TotalIsSum
    <3> HIDE DEF D
    <3>11. Total(all) = device.used
      BY <1>1, <2>2, <3>2, <3>3, <3>6, <3>7, <3>8, <3>9, <3>10
    <3>12. all \in [D \cup {h} -> Nat]
      <4>1. all = [p \in D \cup {h} |-> all[p]]
        BY <3>3 DEF all, Filled
      <4>2. QED
        BY <3>5, <4>1
    <3>13. all \in PidMaps
      <4>1. D \cup {h} \in SUBSET GpuPids
        BY <1>1, <3>1 DEF D
      <4>2. QED
        BY <3>12, <4>1 DEF PidMaps
    <3>14. device.used <= device.used
      BY <1>1
    <3>15. QED
      BY <1>3, <2>1, <3>11, <3>13, <3>14
  <2>5. QED
    BY <2>3, <2>4 DEF One
<1>4. QED
  BY <1>2, <1>3

\* The level inferred splits the device's.
LEMMA SpreadUtilAddsUp ==
  ASSUME GpuBounds, GpuTypeOK, NEW on, NEW f \in FoundType, NEW mem \in PidMaps, NEW owner \in One
  PROVE  /\ SpreadUtil(on, f, mem, owner) \in PidMaps
         /\ \/ SpreadUtil(on, f, mem, owner) = f.util
            \/ /\ f.util = NoMap
               /\ Total(SpreadUtil(on, f, mem, owner)) <=
                    device.util + Cardinality(DOMAIN SpreadUtil(on, f, mem, owner))
<1> DEFINE holding == {p \in f.running \cap DOMAIN mem : mem[p] > 0}
           held == SumFunctionOnSet(mem, holding)
           n == Cardinality(f.running)
           u == device.util
           alone == [p \in f.running |-> u]
           owned == [p \in owner |-> u]
           shares == [p \in holding |-> Larger(1, (u * mem[p]) \div held)]
           even == [p \in f.running |-> Larger(1, u \div n)]
<1>1. /\ f.util \in PidMaps /\ f.running \in SUBSET GpuPids /\ u \in Nat
      /\ DOMAIN mem \in SUBSET GpuPids /\ \A p \in DOMAIN mem : mem[p] \in Nat
  BY PidMapFacts DEF FoundType, GpuTypeOK
<1>2. owner \in SUBSET GpuPids /\ IsFiniteSet(owner) /\ (owner # {} => Cardinality(owner) = 1)
  BY OneIsSmall
<1>3. holding \in SUBSET GpuPids /\ \A p \in holding : mem[p] \in Nat
  BY <1>1
<1>4. /\ IsFiniteSet(f.running) /\ n \in Nat /\ IsFiniteSet(holding) /\ held \in Nat
      /\ Cardinality(owner) \in Nat
  <2>1. IsFiniteSet(f.running) /\ IsFiniteSet(holding)
    BY <1>1, <1>3, FS_Subset DEF GpuBounds
  <2> HIDE DEF holding
  <2>2. QED
    BY <1>2, <1>3, <2>1, FS_CardinalityType, SumIsNat
<1>5. ASSUME n = 1 PROVE alone \in PidMaps /\ Total(alone) <= u + Cardinality(DOMAIN alone)
  <2>1. Total(alone) = u /\ DOMAIN alone = f.running /\ alone \in [f.running -> Nat]
    BY <1>1, <1>4, <1>5, TotalOfOne
  <2> HIDE DEF alone, u
  <2>2. alone \in PidMaps
    BY <1>1, <2>1 DEF PidMaps
  <2>3. QED
    BY <1>1, <1>5, <2>1, <2>2
<1>6. ASSUME owner # {} PROVE owned \in PidMaps /\ Total(owned) <= u + Cardinality(DOMAIN owned)
  <2>1. Total(owned) = u /\ DOMAIN owned = owner /\ owned \in [owner -> Nat]
    BY <1>1, <1>2, <1>6, TotalOfOne
  <2> HIDE DEF owned, u
  <2>2. owned \in PidMaps
    BY <1>2, <2>1 DEF PidMaps
  <2>3. QED
    BY <1>1, <1>2, <1>4, <1>6, <2>1, <2>2
<1>7. ASSUME held > 0 PROVE shares \in PidMaps /\ Total(shares) <= u + Cardinality(DOMAIN shares)
  <2>1. Total(shares) <= u + Cardinality(holding)
    <3> HIDE DEF holding, u
    <3>1. QED
      BY <1>1, <1>3, <1>4, <1>7, SharesAddUp
  <2>2. \A p \in holding : shares[p] \in Nat
    <3> TAKE p \in holding
    <3> DEFINE x == u * mem[p]
    <3>1. x \in Nat
      BY <1>1, <1>3
    <3> HIDE DEF x, held, u
    <3>2. x \div held \in Nat
      BY <1>4, <1>7, <3>1
    <3>3. QED
      BY <3>2 DEF Larger, x
  <2>3. shares \in [holding -> Nat] /\ DOMAIN shares = holding
    BY <2>2
  <2> HIDE DEF shares, holding
  <2>4. shares \in PidMaps
    BY <1>3, <2>3 DEF PidMaps
  <2>5. QED
    BY <2>1, <2>3, <2>4
<1>8. even \in PidMaps /\ Total(even) <= u + Cardinality(DOMAIN even)
  <2>1. CASE f.running = {}
    <3>1. DOMAIN even = {} /\ Cardinality({}) = 0
      BY <2>1, FS_EmptySet
    <3>2. Total(even) = 0 /\ even \in [{} -> Nat]
      BY <2>1, <3>1, TotalOfNone
    <3> HIDE DEF even, u
    <3>3. even \in PidMaps
      <4>1. {} \in SUBSET GpuPids
        OBVIOUS
      <4>2. \E D \in SUBSET GpuPids : even \in [D -> Nat]
        BY <3>2, <4>1
      <4>3. QED
        BY <4>2 DEF PidMaps
    <3>4. QED
      BY <1>1, <3>1, <3>2, <3>3
  <2>2. CASE f.running # {}
    <3> DEFINE ones == [p \in f.running |-> 1]
    <3>1. n > 0
      BY <1>4, <2>2, FS_EmptySet
    <3>2. n = SumFunctionOnSet(ones, f.running)
      BY <1>4, SumOfOnes
    <3>3. even = [p \in f.running |-> Larger(1, (u * ones[p]) \div n)] /\ \A p \in f.running : ones[p] \in Nat
      <4>1. \A p \in f.running : ones[p] = 1 /\ u * ones[p] = u
        BY <1>1
      <4> HIDE DEF ones, u, n
      <4>2. QED
        BY <4>1
    <3>4. Total(even) <= u + Cardinality(f.running)
      <4> HIDE DEF ones, u, n, even
      <4>1. QED
        BY <1>1, <1>4, <3>1, <3>2, <3>3, SharesAddUp
    <3>5. u \div n \in Nat
      <4> HIDE DEF u, n
      <4>1. QED
        BY <1>1, <1>4, <3>1
    <3>6. even \in [f.running -> Nat] /\ DOMAIN even = f.running
      BY <3>5 DEF Larger
    <3> HIDE DEF even
    <3>7. even \in PidMaps
      BY <1>1, <3>6 DEF PidMaps
    <3>8. QED
      BY <3>4, <3>6, <3>7
  <2>3. QED
    BY <2>1, <2>2
<1>9. SpreadUtil(on, f, mem, owner) =
        IF f.util # NoMap \/ "mig" \in on \/ u = 0 THEN f.util
        ELSE IF n = 1 THEN alone
        ELSE IF owner # {} THEN owned
        ELSE IF held > 0 THEN shares ELSE even
  BY DEF SpreadUtil
<1> HIDE DEF holding, held, n, u, alone, owned, shares, even
<1>10. CASE f.util # NoMap \/ "mig" \in on \/ u = 0
  BY <1>1, <1>9, <1>10
<1>11. CASE ~(f.util # NoMap \/ "mig" \in on \/ u = 0)
  <2>1. /\ SpreadUtil(on, f, mem, owner) \in PidMaps
        /\ Total(SpreadUtil(on, f, mem, owner)) <= u + Cardinality(DOMAIN SpreadUtil(on, f, mem, owner))
    BY <1>5, <1>6, <1>7, <1>8, <1>9, <1>11
  <2>2. QED
    BY <1>11, <2>1 DEF u
<1>12. QED
  BY <1>10, <1>11

LEMMA OneOfPids == ASSUME NEW S \in SUBSET GpuPids PROVE OneOf(S) \subseteq One
BY DEF OneOf, One

LEMMA OwnersArePids == ASSUME GpuBounds, GpuTypeOK PROVE Owners \in SUBSET GpuPids
<1>1. rowPids \in SUBSET GpuPids
  BY DEF GpuTypeOK
<1>2. QED
  BY <1>1 DEF Owners

LEMMA HeirsArePids ==
  ASSUME GpuBounds, NEW f \in FoundType, NEW owner \in One
  PROVE  Heirs(f, owner) \in SUBSET GpuPids
<1>1. f.running \in SUBSET GpuPids /\ owner \in SUBSET GpuPids /\ DOMAIN f.util \in SUBSET GpuPids
  BY OneIsSmall, PidMapFacts DEF FoundType
<1>2. QED
  BY <1>1 DEF Heirs

\* What a pass finds adds up.
LEMMA OutcomeAddsUp ==
  ASSUME GpuBounds, GpuTypeOK, NEW on, NEW owner \in One, NEW heir \in One,
         NEW found, found = Outcome(on, owner, heir)
  PROVE  /\ found.util \in PidMaps /\ found.mem \in PidMaps /\ found.running \in SUBSET GpuPids
         /\ Total(found.mem) <= Larger(device.used, Total(Told(on).mem)) + Cardinality(DOMAIN found.util)
         /\ "mig" \in on => Total(found.mem) = Total(Told(on).mem)
         /\ ~found.told => Total(found.util) <= device.util + Cardinality(DOMAIN found.util)
<1> DEFINE told == Told(on)
           mem0 == SpreadMem(on, told, owner)
           mem == AddResidual(on, mem0, heir)
           util == SpreadUtil(on, told, mem, owner)
           inferred == told.util = NoMap /\ util # NoMap
           running == IF inferred /\ Cardinality(told.running) # 1 THEN told.running \cup owner ELSE told.running
<1>1. told \in FoundType
  BY ToldIsFound
<1>2. found = [util |-> util, mem |-> mem, told |-> ~inferred, running |-> running]
  BY DEF Outcome
<1> HIDE DEF told
<1>3. /\ mem0 \in PidMaps
      /\ \/ mem0 = told.mem
         \/ /\ "mig" \notin on
            /\ \/ Total(mem0) <= device.used
               \/ told.util # NoMap /\ Total(mem0) <= device.used + Cardinality(DOMAIN told.util)
  BY <1>1, SpreadMemAddsUp
<1> HIDE DEF mem0
<1>4. mem \in PidMaps /\ (mem = mem0 \/ ("mig" \notin on /\ Total(mem) <= device.used))
  BY <1>3, ResidualAddsUp
<1> HIDE DEF mem
<1>5. /\ util \in PidMaps
      /\ \/ util = told.util
         \/ told.util = NoMap /\ Total(util) <= device.util + Cardinality(DOMAIN util)
  BY <1>1, <1>4, SpreadUtilAddsUp
<1> HIDE DEF util
<1>6. told.running \in SUBSET GpuPids /\ owner \in SUBSET GpuPids /\ told.mem \in PidMaps
  BY <1>1, OneIsSmall DEF FoundType
<1>7. /\ Total(mem) \in Nat /\ Total(mem0) \in Nat /\ Total(told.mem) \in Nat /\ Cardinality(DOMAIN util) \in Nat
      /\ device.used \in Nat /\ device.util \in Nat
  BY <1>3, <1>4, <1>5, <1>6, PidMapFacts DEF GpuTypeOK
<1>8. Total(mem) <= Larger(device.used, Total(told.mem)) + Cardinality(DOMAIN util)
  <2> DEFINE most == Larger(device.used, Total(told.mem))
  <2>1. most \in Nat /\ device.used <= most /\ Total(told.mem) <= most
    BY <1>7 DEF Larger
  <2> SUFFICES Total(mem) <= most + Cardinality(DOMAIN util)
    OBVIOUS
  <2> HIDE DEF most
  <2>2. CASE Total(mem) <= device.used
    BY <1>7, <2>1, <2>2
  <2>3. CASE mem = mem0 /\ mem0 = told.mem
    BY <1>7, <2>1, <2>3
  <2>4. CASE mem = mem0 /\ Total(mem0) <= device.used
    BY <1>7, <2>1, <2>4
  <2>5. CASE mem = mem0 /\ told.util # NoMap /\ Total(mem0) <= device.used + Cardinality(DOMAIN told.util)
    <3>1. util = told.util
      BY <1>5, <2>5
    <3>2. QED
      BY <1>7, <2>1, <2>5, <3>1
  <2>6. QED
    BY <1>3, <1>4, <2>2, <2>3, <2>4, <2>5
<1>9. "mig" \in on => Total(mem) = Total(told.mem)
  BY <1>3, <1>4
<1>10. inferred => Total(util) <= device.util + Cardinality(DOMAIN util)
  BY <1>5
<1>11. running \in SUBSET GpuPids
  BY <1>6
<1>12. found.util = util /\ found.mem = mem /\ found.running = running /\ found.told = ~inferred
  BY <1>2
<1>13. QED
  BY <1>4, <1>5, <1>8, <1>9, <1>10, <1>11, <1>12 DEF told

\* A row's level is shown for a sample that is recent.
LEMMA DisplayIsRecent ==
  ASSUME GpuBounds, gclock \in Nat, NEW st, st.sampled \in Nat, NEW running \in BOOLEAN,
         Smaller(Full * Scale, Display(st, running)) > 0
  PROVE  st.sampled > 0 /\ (gclock - st.sampled < Hold + Decay \/ running)
<1> DEFINE over == gclock - st.sampled - Hold
           window == IF st.ran > 0 THEN Decay ELSE ExitDecay
           top == Full * Scale
<1>1. /\ Hold \in Nat /\ Decay \in Nat /\ ExitDecay \in Nat /\ ExitDecay <= Decay /\ Decay > 0
      /\ top \in Int
  BY DEF GpuBounds, Scale
<1>2. over \in Int /\ window \in Nat /\ window <= Decay /\ over = gclock - st.sampled - Hold
  BY <1>1
<1>3. Display(st, running) = IF st.sampled = 0 THEN 0
                            ELSE IF running \/ over <= 0 THEN st.ema
                            ELSE IF over < window THEN (st.ema * (window - over)) \div window
                            ELSE 0
  BY DEF Display
<1> HIDE DEF over, window, top
<1>4. Display(st, running) # 0
  <2> SUFFICES ASSUME Display(st, running) = 0 PROVE FALSE
    OBVIOUS
  <2>1. Smaller(top, 0) > 0
    BY DEF top
  <2>2. QED
    BY <1>1, <2>1 DEF Smaller
<1>5. st.sampled # 0
  BY <1>3, <1>4
<1>6. running \/ over <= 0 \/ over < window
  BY <1>3, <1>4
<1>7. CASE over <= 0
  BY <1>1, <1>2, <1>5, <1>7
<1>8. CASE over < window
  BY <1>1, <1>2, <1>5, <1>8
<1>9. QED
  BY <1>5, <1>6, <1>7, <1>8

LEMMA ShowKeeps ==
  ASSUME GpuBounds, GpuInv, NEW on, Attribute(on), gclock' = gclock, rowPids' = rowPids
  PROVE  /\ sampledAt' \in [GpuPids -> Nat] /\ DOMAIN smooth' \subseteq GpuPids
         /\ SmoothIsRecent' /\ GpuIsEarned'
<1>0. /\ GpuTypeOK /\ gclock \in Nat \ {0} /\ sampledAt \in [GpuPids -> Nat] /\ DOMAIN smooth \subseteq GpuPids
      /\ rowPids \in SUBSET GpuPids
  BY DEF GpuInv, GpuTypeOK
<1>1. PICK owner \in One, heir \in One : Show(on, Outcome(on, owner, heir))
  <2>1. OneOf(Owners) \subseteq One
    BY <1>0, OwnersArePids, OneOfPids
  <2>2. \A owner \in One : OneOf(Heirs(Told(on), owner)) \subseteq One
    BY <1>0, ToldIsFound, HeirsArePids, OneOfPids
  <2>3. QED
    BY <2>1, <2>2 DEF Attribute
<1> DEFINE found == Outcome(on, owner, heir)
           sm == Smoothed(found.util, found.running)
<1>2. /\ found.util \in PidMaps /\ found.mem \in PidMaps /\ found.running \in SUBSET GpuPids
      /\ Total(found.mem) <= Larger(device.used, Total(Told(on).mem)) + Cardinality(DOMAIN found.util)
      /\ "mig" \in on => Total(found.mem) = Total(Told(on).mem)
      /\ ~found.told => Total(found.util) <= device.util + Cardinality(DOMAIN found.util)
  BY <1>0, OutcomeAddsUp
<1>3. Show(on, found)
  BY <1>1
<1> HIDE DEF found
<1>4. /\ shown' = [p \in GpuPids |->
                      IF p \in rowPids /\ p \in DOMAIN sm
                      THEN Smaller(Full * Scale, Display(sm[p], p \in found.running)) ELSE 0]
      /\ smooth' = Pruned(sm)
      /\ sampledAt' = [p \in GpuPids |-> IF p \in DOMAIN found.util THEN gclock ELSE sampledAt[p]]
      /\ pass' = [at |-> gclock, gap |-> gclock - pass.at, running |-> found.running, util |-> found.util,
                  told |-> found.told, mem |-> found.mem, given |-> Total(Told(on).mem),
                  mig |-> "mig" \in on, device |-> device]
  BY <1>3 DEF Show
<1>5. DOMAIN found.util \in SUBSET GpuPids
  BY <1>2, PidMapFacts
<1>6. /\ DOMAIN sm = DOMAIN smooth \cup DOMAIN found.util \cup found.running
      /\ \A p \in DOMAIN sm : sm[p].sampled = IF p \in DOMAIN found.util THEN gclock
                                            ELSE IF p \in DOMAIN smooth THEN smooth[p].sampled ELSE 0
  BY DEF Smoothed
<1> HIDE DEF sm
<1>7. sampledAt' \in [GpuPids -> Nat]
  BY <1>0, <1>4
<1>8. DOMAIN sm \in SUBSET GpuPids
  BY <1>0, <1>2, <1>5, <1>6
<1>9. pass.at \in Nat /\ pass.at <= gclock
  BY DEF GpuInv, SmoothIsRecent
<1>10. \A p \in DOMAIN sm : sm[p].sampled # 0 =>
         /\ sm[p].sampled = sampledAt'[p] /\ sampledAt'[p] > 0 /\ sampledAt'[p] <= gclock
         /\ gclock - sampledAt'[p] <= PruneAfter + (gclock - pass.at)
  <2> TAKE p \in DOMAIN sm
  <2> HAVE sm[p].sampled # 0
  <2>1. p \in GpuPids /\ PruneAfter \in Nat
    BY <1>8 DEF GpuBounds
  <2>2. CASE p \in DOMAIN found.util
    <3>1. sm[p].sampled = gclock /\ sampledAt'[p] = gclock
      BY <1>4, <1>6, <2>1, <2>2
    <3>2. QED
      BY <1>0, <1>9, <2>1, <3>1
  <2>3. CASE p \notin DOMAIN found.util
    <3>1. p \in DOMAIN smooth /\ sm[p].sampled = smooth[p].sampled /\ sampledAt'[p] = sampledAt[p]
      BY <1>4, <1>6, <2>1, <2>3
    <3>2. /\ smooth[p].sampled = sampledAt[p] /\ sampledAt[p] > 0 /\ sampledAt[p] <= pass.at
          /\ pass.at - sampledAt[p] <= PruneAfter
      BY <3>1 DEF GpuInv, SmoothIsRecent
    <3>3. sampledAt[p] \in Nat
      BY <1>0, <2>1
    <3>4. QED
      BY <1>0, <1>9, <2>1, <3>1, <3>2, <3>3
  <2>4. QED
    BY <2>2, <2>3
<1>11. /\ DOMAIN smooth' = {p \in DOMAIN sm : sm[p].sampled # 0 /\ gclock - sm[p].sampled <= PruneAfter}
       /\ \A p \in DOMAIN smooth' : smooth'[p] = sm[p]
  BY <1>4 DEF Pruned, Restrict
<1>12. pass'.at = gclock
  BY <1>4
<1>13. SmoothIsRecent'
  <2>1. \A p \in DOMAIN smooth' :
          /\ smooth'[p].sampled = sampledAt'[p] /\ sampledAt'[p] > 0 /\ sampledAt'[p] <= gclock
          /\ gclock - sampledAt'[p] <= PruneAfter
    BY <1>10, <1>11
  <2>2. gclock \in Nat /\ gclock <= gclock
    BY <1>0
  <2>3. QED
    BY <1>12, <2>1, <2>2 DEF SmoothIsRecent
<1>14. ShownIsRecent'
  <2> SUFFICES ASSUME NEW p \in rowPids, shown'[p] > 0
               PROVE  /\ sampledAt'[p] > 0
                      /\ \/ gclock - sampledAt'[p] < Hold + Decay
                         \/ p \in found.running /\ gclock - sampledAt'[p] <= PruneAfter + (gclock - pass.at)
    BY <1>4 DEF ShownIsRecent
  <2>1. p \in GpuPids
    BY <1>0
  <2>2. p \in DOMAIN sm /\ Smaller(Full * Scale, Display(sm[p], p \in found.running)) > 0
    <3>1. ~(0 > 0)
      OBVIOUS
    <3>2. QED
      BY <1>4, <2>1, <3>1
  <2>3. sm[p].sampled \in Nat
    <3>1. p \in DOMAIN smooth => smooth[p].sampled \in Nat
      BY <1>0, <2>1 DEF GpuInv, SmoothIsRecent
    <3>2. QED
      BY <1>0, <1>6, <2>2, <3>1
  <2>4. gclock \in Nat /\ (p \in found.running) \in BOOLEAN
    BY <1>0
  <2>5. sm[p].sampled > 0 /\ (gclock - sm[p].sampled < Hold + Decay \/ p \in found.running)
    BY <2>2, <2>3, <2>4, DisplayIsRecent
  <2>6. sm[p].sampled # 0
    BY <2>3, <2>5
  <2>7. /\ sm[p].sampled = sampledAt'[p] /\ sampledAt'[p] > 0
        /\ gclock - sampledAt'[p] <= PruneAfter + (gclock - pass.at)
    BY <1>10, <2>2, <2>6
  <2>8. QED
    BY <2>5, <2>7
<1>15. MemoryAddsUp' /\ LevelAddsUp'
  <2>1. /\ pass'.mem = found.mem /\ pass'.given = Total(Told(on).mem) /\ pass'.util = found.util
        /\ pass'.told = found.told /\ pass'.mig = ("mig" \in on) /\ pass'.device = device
    BY <1>4
  <2>2. QED
    BY <1>2, <2>1 DEF MemoryAddsUp, LevelAddsUp, Total
<1>16. QED
  BY <1>7, <1>8, <1>11, <1>13, <1>14, <1>15 DEF GpuIsEarned

LEMMA GpuStarts == ASSUME GpuBounds, GpuInit PROVE GpuInv
<1>1. rowPids \in SUBSET GpuPids /\ machine \in SUBSET Sources /\ Full \in Nat
  BY DEF GpuInit, GpuBounds
<1>2. 0 \in 0 .. Full /\ 0 \in 0 .. 1
  BY <1>1
<1>3. driver \in [GpuPids -> [util : Nat, ts : 0 .. gclock]]
  BY <1>2 DEF GpuInit
<1>4. DOMAIN baseline = {} /\ baseline \in [{} -> [work : Nat, at : Nat]] /\ DOMAIN smooth = {}
  BY DEF GpuInit, NoMap
<1>5. baseline \in UNION {[D -> [work : Nat, at : Nat]] : D \in SUBSET GpuPids}
  <2>1. \E D \in SUBSET GpuPids : baseline \in [D -> [work : Nat, at : Nat]]
    BY <1>4
  <2>2. QED
    BY <2>1
<1>6. GpuTypeOK
  <2>1. /\ level = [p \in GpuPids |-> 0] /\ memOf = [p \in GpuPids |-> 0] /\ work = [p \in GpuPids |-> 0]
        /\ sampledAt = [p \in GpuPids |-> 0] /\ opened = {} /\ gclock = 1 /\ seenTs = 0
        /\ device = [util |-> 0, used |-> 0]
    BY DEF GpuInit
  <2>2. /\ level \in [GpuPids -> 0 .. Full] /\ memOf \in [GpuPids -> Nat] /\ work \in [GpuPids -> Nat]
        /\ sampledAt \in [GpuPids -> Nat] /\ opened \in SUBSET GpuPids /\ gclock \in Nat \ {0} /\ seenTs \in Nat
        /\ device \in [util : Nat, used : Nat]
    BY <1>2, <2>1
  <2>3. QED
    BY <1>1, <1>3, <1>4, <1>5, <2>2 DEF GpuTypeOK
<1>7. SmoothIsRecent
  BY <1>4 DEF GpuInit, SmoothIsRecent
<1>8. ShownIsRecent
  <2>1. rowPids \in SUBSET GpuPids /\ \A p \in GpuPids : shown[p] = 0
    BY <1>1 DEF GpuInit
  <2>2. QED
    BY <2>1 DEF ShownIsRecent
<1>9. MemoryAddsUp /\ LevelAddsUp
  <2>1. /\ pass.mem = NoMap /\ pass.util = NoMap /\ pass.given = 0 /\ pass.told /\ pass.device.used = 0
        /\ pass.mig = FALSE
    BY DEF GpuInit
  <2>2. Total(NoMap) = 0 /\ Cardinality(DOMAIN NoMap) = 0
    BY NoMapIsMap, TotalOfNone, FS_EmptySet
  <2>3. QED
    BY <2>1, <2>2 DEF MemoryAddsUp, LevelAddsUp, Larger
<1>10. QED
  BY <1>6, <1>7, <1>8, <1>9 DEF GpuInv, GpuIsEarned

\* What a pass left stands while no pass runs and rows show nothing new.
LEMMA EarnedStays ==
  ASSUME GpuInv, pass' = pass, smooth' = smooth, sampledAt' = sampledAt,
         gclock' \in Nat, gclock' >= gclock,
         \/ shown' = [p \in GpuPids |-> 0] /\ rowPids' \in SUBSET GpuPids
         \/ shown' = shown /\ rowPids' = rowPids
  PROVE  SmoothIsRecent' /\ GpuIsEarned'
<1>1. gclock \in Nat /\ pass.at \in Nat /\ pass.at <= gclock
  BY DEF GpuInv, GpuTypeOK, SmoothIsRecent
<1>2. SmoothIsRecent'
  <2>1. pass.at <= gclock'
    BY <1>1
  <2>2. QED
    BY <2>1 DEF GpuInv, SmoothIsRecent
<1>3. MemoryAddsUp' /\ LevelAddsUp'
  BY DEF GpuInv, GpuIsEarned, MemoryAddsUp, LevelAddsUp, Total
<1>4. ShownIsRecent'
  <2> SUFFICES ASSUME pass.at = gclock', NEW p \in rowPids', shown'[p] > 0
               PROVE  /\ sampledAt[p] > 0
                      /\ \/ gclock' - sampledAt[p] < Hold + Decay
                         \/ p \in pass.running /\ gclock' - sampledAt[p] <= PruneAfter + pass.gap
    BY DEF ShownIsRecent
  <2>1. gclock' = gclock
    BY <1>1
  <2>2. shown' = shown /\ rowPids' = rowPids
    <3>1. ~(0 > 0)
      OBVIOUS
    <3>2. QED
      BY <3>1
  <2>3. QED
    BY <2>1, <2>2 DEF GpuInv, GpuIsEarned, ShownIsRecent
<1>5. QED
  BY <1>2, <1>3, <1>4 DEF GpuIsEarned

\* The machine moves; of what passes use, only what it holds changes.
LEMMA HostMoves ==
  ASSUME GpuBounds, GpuInv, SampleDevice \/ SampleRows \/ Elapse \/ (\E p \in GpuPids : Work(p))
  PROVE  GpuTypeOK'
<1>1. /\ gclock \in Nat \ {0} /\ level \in [GpuPids -> 0 .. Full] /\ memOf \in [GpuPids -> Nat]
      /\ work \in [GpuPids -> Nat] /\ driver \in [GpuPids -> [util : Nat, ts : 0 .. gclock]]
      /\ opened \in SUBSET GpuPids /\ Full \in Nat
  BY DEF GpuInv, GpuTypeOK, GpuBounds
<1>2. level \in PidMaps /\ memOf \in PidMaps
  <2>1. level \in [GpuPids -> Nat]
    BY <1>1
  <2>2. GpuPids \in SUBSET GpuPids
    OBVIOUS
  <2>3. QED
    BY <1>1, <2>1, <2>2 DEF PidMaps
<1>3. CASE SampleDevice
  <2>1. Total(level) \in Nat /\ Total(memOf) \in Nat
    BY <1>2, PidMapFacts
  <2>2. device' \in [util : Nat, used : Nat]
    BY <1>1, <1>3, <2>1 DEF SampleDevice, Smaller
  <2>3. QED
    BY <1>3, <2>2 DEF SampleDevice, GpuInv, GpuTypeOK
<1>4. CASE SampleRows
  <2>1. rowPids' \in SUBSET GpuPids
    BY <1>4 DEF SampleRows, GpuBounds
  <2>2. QED
    BY <1>4, <2>1 DEF SampleRows, hostVars, GpuInv, GpuTypeOK
<1>5. CASE Elapse
  <2>1. gclock' = gclock + 1 /\ gclock' \in Nat \ {0}
    BY <1>1, <1>5 DEF Elapse
  <2>2. \A p \in GpuPids : level[p] \in Nat /\ work[p] \in Nat
    BY <1>1
  <2>3. work' \in [GpuPids -> Nat]
    <3>1. \A p \in GpuPids : work[p] + level[p] \in Nat
      BY <2>2
    <3>2. QED
      BY <1>1, <1>5, <3>1 DEF Elapse
  <2>4. driver' \in [GpuPids -> [util : Nat, ts : 0 .. gclock']]
    <3> DEFINE high(p) == IF driver[p].ts > seenTs THEN Larger(driver[p].util, level[p]) ELSE level[p]
    <3>1. ASSUME NEW p \in GpuPids
          PROVE  driver[p] \in [util : Nat, ts : 0 .. gclock'] /\ [util |-> high(p), ts |-> gclock] \in [util : Nat, ts : 0 .. gclock']
      <4>1. driver[p] \in [util : Nat, ts : 0 .. gclock]
        BY <1>1
      <4>2. \A t \in 0 .. gclock : t \in 0 .. gclock'
        BY <1>1, <2>1
      <4>3. high(p) \in Nat
        BY <2>2, <4>1 DEF Larger
      <4>4. gclock \in 0 .. gclock'
        BY <1>1, <2>1
      <4> HIDE DEF high
      <4>5. QED
        BY <4>1, <4>2, <4>3, <4>4
    <3>2. driver' = [p \in GpuPids |-> IF ~Offers("procUtil") \/ p \notin opened THEN driver[p]
                                      ELSE [util |-> high(p), ts |-> gclock]]
      BY <1>5 DEF Elapse
    <3> HIDE DEF high
    <3>3. QED
      BY <3>1, <3>2
  <2>5. QED
    BY <1>5, <2>1, <2>3, <2>4 DEF Elapse, GpuInv, GpuTypeOK
<1>6. CASE \E p \in GpuPids : Work(p)
  <2>1. PICK p \in GpuPids : Work(p)
    BY <1>6
  <2>2. /\ level' \in [GpuPids -> 0 .. Full] /\ memOf' \in [GpuPids -> Nat]
        /\ opened' \in SUBSET GpuPids /\ work' \in [GpuPids -> Nat]
    <3>1. CASE \E u \in Uses : /\ level' = [level EXCEPT ![p] = u.level] /\ memOf' = [memOf EXCEPT ![p] = u.mem]
                              /\ opened' = opened \cup {p} /\ work' = work
      <4>1. PICK u \in Uses : /\ level' = [level EXCEPT ![p] = u.level] /\ memOf' = [memOf EXCEPT ![p] = u.mem]
                              /\ opened' = opened \cup {p} /\ work' = work
        BY <3>1
      <4>2. u.level \in 0 .. Full /\ u.mem \in Nat
        BY DEF GpuBounds
      <4>3. QED
        BY <1>1, <4>1, <4>2
    <3>2. CASE /\ opened' = opened \ {p} /\ work' = [work EXCEPT ![p] = 0]
               /\ level' = [level EXCEPT ![p] = 0] /\ memOf' = [memOf EXCEPT ![p] = 0]
      <4>1. 0 \in 0 .. Full
        BY <1>1
      <4>2. QED
        BY <1>1, <3>2, <4>1
    <3>3. QED
      BY <2>1, <3>1, <3>2 DEF Work
  <2>3. QED
    BY <2>1, <2>2 DEF Work, GpuInv, GpuTypeOK
<1>7. QED
  BY <1>3, <1>4, <1>5, <1>6

LEMMA RememberKeeps ==
  ASSUME GpuBounds, GpuTypeOK, NEW on, Remember(on)
  PROVE  /\ seenTs' \in Nat
         /\ baseline' \in UNION {[D -> [work : Nat, at : Nat]] : D \in SUBSET GpuPids}
<1>1. /\ gclock \in Nat /\ seenTs \in Nat /\ opened \in SUBSET GpuPids /\ work \in [GpuPids -> Nat]
      /\ driver \in [GpuPids -> [util : Nat, ts : 0 .. gclock]]
      /\ baseline \in UNION {[D -> [work : Nat, at : Nat]] : D \in SUBSET GpuPids}
  BY DEF GpuTypeOK
<1>2. seenTs' \in Nat
  <2> DEFINE read == DOMAIN Nvml(on).util
             fresh == {driver[p].ts : p \in read}
  <2>1. read \in SUBSET GpuPids
    BY NvmlFinds, PidMapFacts DEF FoundType
  <2>2. fresh \in SUBSET (0 .. gclock)
    <3>1. \A p \in GpuPids : driver[p].ts \in 0 .. gclock
      BY <1>1
    <3> HIDE DEF read
    <3>2. QED
      BY <2>1, <3>1
  <2>3. seenTs' \in {seenTs} \cup fresh
    BY DEF Remember
  <2> HIDE DEF fresh
  <2>4. QED
    BY <1>1, <2>2, <2>3
<1>3. baseline' \in UNION {[D -> [work : Nat, at : Nat]] : D \in SUBSET GpuPids}
  <2> DEFINE new == [p \in opened |-> [work |-> work[p], at |-> gclock]]
  <2>1. new \in [opened -> [work : Nat, at : Nat]] /\ NoMap \in [{} -> [work : Nat, at : Nat]]
    BY <1>1 DEF NoMap
  <2>2. baseline' \in {baseline, new, NoMap}
    BY DEF Remember
  <2> HIDE DEF new
  <2>3. {} \in SUBSET GpuPids
    OBVIOUS
  <2>4. (\E D \in SUBSET GpuPids : new \in [D -> [work : Nat, at : Nat]])
        /\ (\E D \in SUBSET GpuPids : NoMap \in [D -> [work : Nat, at : Nat]])
    BY <1>1, <2>1, <2>3
  <2>5. QED
    BY <1>1, <2>2, <2>4
<1>4. QED
  BY <1>2, <1>3

LEMMA GpuInductive == ASSUME GpuBounds, GpuInv, [GpuNext]_gpuVars PROVE GpuInv'
<1>1. gclock \in Nat \ {0} /\ rowPids \in SUBSET GpuPids /\ GpuTypeOK
  BY DEF GpuInv, GpuTypeOK
<1>2. CASE SampleDevice \/ SampleRows \/ Elapse \/ (\E p \in GpuPids : Work(p))
  <2>1. pass' = pass /\ smooth' = smooth /\ sampledAt' = sampledAt
    BY <1>2 DEF SampleDevice, SampleRows, Elapse, Work
  <2>2. gclock' \in Nat /\ gclock' >= gclock
    BY <1>1, <1>2 DEF SampleDevice, SampleRows, Elapse, Work, hostVars
  <2>3. \/ shown' = [p \in GpuPids |-> 0] /\ rowPids' \in SUBSET GpuPids
        \/ shown' = shown /\ rowPids' = rowPids
    BY <1>2 DEF SampleDevice, SampleRows, Elapse, Work, GpuBounds
  <2>4. QED
    BY <1>2, <2>1, <2>2, <2>3, HostMoves, EarnedStays DEF GpuInv
<1>3. CASE Enrich
  <2>1. PICK on : Attribute(on) /\ Remember(on)
    BY <1>3 DEF Enrich
  <2>2. /\ gclock' = gclock /\ rowPids' = rowPids /\ machine' = machine /\ opened' = opened /\ level' = level
        /\ memOf' = memOf /\ work' = work /\ driver' = driver /\ device' = device
    BY <1>3 DEF Enrich, hostVars
  <2>3. /\ sampledAt' \in [GpuPids -> Nat] /\ DOMAIN smooth' \subseteq GpuPids
        /\ SmoothIsRecent' /\ GpuIsEarned'
    BY <2>1, <2>2, ShowKeeps
  <2>4. /\ seenTs' \in Nat
        /\ baseline' \in UNION {[D -> [work : Nat, at : Nat]] : D \in SUBSET GpuPids}
    BY <1>1, <2>1, RememberKeeps
  <2>5. GpuTypeOK'
    BY <1>1, <2>2, <2>3, <2>4 DEF GpuTypeOK
  <2>6. QED
    BY <2>3, <2>5 DEF GpuInv
<1>4. CASE UNCHANGED gpuVars
  <2>1. /\ pass' = pass /\ smooth' = smooth /\ sampledAt' = sampledAt /\ gclock' = gclock
        /\ shown' = shown /\ rowPids' = rowPids
    BY <1>4 DEF gpuVars
  <2>2. GpuTypeOK'
    BY <1>1, <1>4 DEF gpuVars, GpuTypeOK
  <2>3. gclock' \in Nat /\ gclock' >= gclock
    BY <1>1, <2>1
  <2>4. QED
    BY <2>1, <2>2, <2>3, EarnedStays DEF GpuInv
<1>5. QED
  BY <1>2, <1>3, <1>4 DEF GpuNext

(***************************************************************************)
(* What rows show of the GPU is current and is no more than there is: a level *)
(* has a recent sample behind it, the memory given out is the device's or     *)
(* what the sources told, to one unit per pid, and so is a level that is      *)
(* inferred (GpuAttributor::enrich), on every machine, with any pids, uses,   *)
(* failures of sources and times.                                          *)
(***************************************************************************)
THEOREM GpuEarned == GpuSpec => []GpuIsEarned
<1>1. GpuInit => GpuInv
  BY GpuBounds, GpuStarts
<1>2. GpuInv /\ [GpuNext]_gpuVars => GpuInv'
  BY GpuBounds, GpuInductive
<1>3. GpuInv => GpuIsEarned
  BY DEF GpuInv
<1>4. QED
  BY <1>1, <1>2, <1>3, PTL DEF GpuSpec

-----------------------------------------------------------------------------
(* PmuCounters.                                                             *)

Fds == {<<n, s>> : n \in Nat \ {0}, s \in Slots}
Files == [holder : Nat, on : BOOLEAN, count : Nat]

PmuTypeOK ==
  /\ holder \in [PmuPids -> Nat] /\ uses \in [PmuPids -> Nat] /\ listed \subseteq PmuPids
  /\ opens \in Nat /\ reads \in Nat /\ failures \in Nat /\ happened \in Nat
  /\ pmuAt \in {"idle", "attach", "open", "processes", "cpus"}
  /\ initialized \in BOOLEAN /\ available \in BOOLEAN /\ procAvailable \in BOOLEAN
  /\ files \in [DOMAIN files -> Files] /\ DOMAIN files \subseteq Fds
  /\ counter \in [Slots -> [fd : Fds \cup {NoFd}, last : Nat \cup {Never}, first : Nat \cup {Never}]]
  /\ total \in [Slots -> Nat] /\ totals \in [CpuEvents -> Nat]

\* Descriptors are named by the round they were opened in.
RoundsAreOver == \A f \in DOMAIN files : f[1] <= opens

\* What was read of a counter it counted, later no less than before.
ReadingsAreCounts ==
  \A s \in Slots :
    /\ counter[s].fd = NoFd => counter[s] = NoCounter
    /\ (counter[s].last = Never) <=> (counter[s].first = Never)
    /\ counter[s].last # Never =>
         counter[s].first <= counter[s].last /\ counter[s].last <= files[counter[s].fd].count

\* Where the collector is, and what it has opened by then.
SetUpInOrder ==
  /\ \A p \in PmuPids \ Attached : \A e \in ProcEvents : counter[<<"proc", p, e>>].fd = NoFd
  /\ pmuAt = "attach" => remaining \subseteq PmuPids \ Attached
  /\ pmuAt = "open" =>
       /\ initialized /\ ~available /\ remaining \subseteq PmuCpus
       /\ \A c \in remaining : \A e \in CpuEvents : counter[<<"cpu", c, e>>].fd = NoFd
       /\ \A s \in L3Slots : counter[s].fd = NoFd
  /\ ~initialized => ~available /\ \A s \in CpuSlots \cup L3Slots : counter[s].fd = NoFd
  /\ ~available => \A s \in CpuSlots : counter[s].last = Never
  /\ pmuAt = "cpus" => available

PmuInv ==
  /\ PmuTypeOK /\ RoundsAreOver /\ ReadingsAreCounts /\ SetUpInOrder
  /\ FdsAreHeld /\ TotalsAreOwn

\* What a slot has come to is a number, and nothing for a slot without counter.
LEMMA SinceIsNat ==
  ASSUME PmuTypeOK, FdsAreHeld, ReadingsAreCounts, NEW s \in Slots
  PROVE  /\ Since(s) \in Nat
         /\ counter[s].fd = NoFd => Since(s) = 0
         /\ counter[s].last # Never => Since(s) <= files[counter[s].fd].count /\ counter[s].fd \in Fds
         /\ counter[s].last = Never => Since(s) = 0
<1>1. counter[s] \in [fd : Fds \cup {NoFd}, last : Nat \cup {Never}, first : Nat \cup {Never}]
  BY DEF PmuTypeOK
<1>2. /\ counter[s].last \in Nat \cup {Never} /\ counter[s].first \in Nat \cup {Never}
      /\ counter[s].fd \in Fds \cup {NoFd}
  BY <1>1
<1>3. /\ counter[s].fd = NoFd => counter[s].last = Never
      /\ (counter[s].last = Never) <=> (counter[s].first = Never)
      /\ counter[s].last # Never =>
           counter[s].first <= counter[s].last /\ counter[s].last <= files[counter[s].fd].count
  BY DEF ReadingsAreCounts, NoCounter
<1>4. CASE counter[s].last = Never
  BY <1>4 DEF Since
<1>5. CASE counter[s].last # Never
  <2>1. counter[s].last \in Nat /\ counter[s].first \in Nat /\ counter[s].fd \in Fds
    BY <1>2, <1>3, <1>5
  <2>2. Since(s) = counter[s].last - counter[s].first
    BY <1>5 DEF Since
  <2>0. counter[s].fd \in DOMAIN files
    <3>1. counter[s].fd # NoFd
      BY <1>3, <1>5
    <3>2. QED
      BY <3>1 DEF FdsAreHeld, HeldFds
  <2>3. files[counter[s].fd].count \in Nat
    BY <2>0 DEF PmuTypeOK, Files
  <2>4. ASSUME NEW l \in Nat, NEW f \in Nat, NEW n \in Nat, f <= l, l <= n PROVE l - f \in Nat /\ l - f <= n
    BY <2>4
  <2>5. Since(s) \in Nat /\ Since(s) <= files[counter[s].fd].count
    BY <1>3, <1>5, <2>1, <2>2, <2>3, <2>4
  <2>6. QED
    BY <1>3, <1>5, <2>1, <2>5
<1>6. QED
  BY <1>4, <1>5

\* The totals of the CPUs follow what their slots come to.
LEMMA TotalsStay ==
  ASSUME TotalsAreOwn, totals' = totals, \A s \in CpuSlots : Since(s)' = Since(s)
  PROVE  \A e \in CpuEvents :
           totals'[e] = SumFunction([c \in PmuCpus |-> Since(<<"cpu", c, e>>)])'
<1> SUFFICES ASSUME NEW e \in CpuEvents
             PROVE  totals'[e] = SumFunction([c \in PmuCpus |-> Since(<<"cpu", c, e>>)'])
  OBVIOUS
<1>1. \A c \in PmuCpus : <<"cpu", c, e>> \in CpuSlots
  BY DEF CpuSlots
<1>2. [c \in PmuCpus |-> Since(<<"cpu", c, e>>)'] = [c \in PmuCpus |-> Since(<<"cpu", c, e>>)]
  BY <1>1
<1>3. QED
  BY <1>2 DEF TotalsAreOwn

\* Opening the counters of the slots ss and keeping those of kept, none of
\* which had one.
LEMMA CountersOpened ==
  ASSUME PmuTypeOK, RoundsAreOver, ReadingsAreCounts, FdsAreHeld, TotalsAreOwn,
         NEW ss \in SUBSET Slots, NEW kept \in SUBSET ss,
         \A s \in kept : counter[s].fd = NoFd,
         \A s \in ss \ kept : s \in L3Slots /\ s[3] = "miss",
         counter' = SlotsOpened(kept), opens' = opens + 1, total' = total, totals' = totals,
         dropped' = dropped \cup {Fd(s) : s \in ss \ kept},
         DOMAIN files' = DOMAIN files \cup {Fd(s) : s \in ss},
         files' \in [DOMAIN files' -> Files],
         \A f \in DOMAIN files : files'[f].count = files[f].count
  PROVE  /\ RoundsAreOver' /\ ReadingsAreCounts' /\ FdsAreHeld' /\ TotalsAreOwn'
         /\ DOMAIN files' \subseteq Fds
         /\ counter' \in [Slots -> [fd : Fds \cup {NoFd}, last : Nat \cup {Never}, first : Nat \cup {Never}]]
         /\ \A s \in Slots : counter'[s].fd = IF s \in kept THEN Fd(s) ELSE counter[s].fd
         /\ \A s \in Slots : counter'[s].last = IF s \in kept THEN Never ELSE counter[s].last
<1>1. opens \in Nat /\ DOMAIN files \subseteq Fds
  BY DEF PmuTypeOK
<1>2. \A s \in Slots : /\ Fd(s) \in Fds /\ Fd(s) \notin DOMAIN files /\ Fd(s) # NoFd
                       /\ Fd(s)[1] = opens + 1 /\ Fd(s)[2] = s
  <2> SUFFICES ASSUME NEW s \in Slots PROVE /\ Fd(s) \in Fds /\ Fd(s) \notin DOMAIN files /\ Fd(s) # NoFd
                                            /\ Fd(s)[1] = opens + 1 /\ Fd(s)[2] = s
    OBVIOUS
  <2>1. Fd(s)[1] = opens + 1 /\ Fd(s)[2] = s
    BY DEF Fd
  <2>2. Fd(s) \in Fds
    <3>1. opens + 1 \in Nat \ {0}
      BY <1>1
    <3>2. QED
      BY <3>1 DEF Fd, Fds
  <2>3. Fd(s) \notin DOMAIN files
    BY <1>1, <2>1 DEF RoundsAreOver
  <2>4. NoFd[1] = 0
    BY DEF NoFd
  <2>5. QED
    BY <1>1, <2>1, <2>2, <2>3, <2>4
<1>3. \A s \in Slots : /\ s \in kept => counter'[s] = [fd |-> Fd(s), last |-> Never, first |-> Never]
                       /\ s \notin kept => counter'[s] = counter[s]
  BY DEF SlotsOpened
<1>4. \A s \in Slots : counter[s] \in [fd : Fds \cup {NoFd}, last : Nat \cup {Never}, first : Nat \cup {Never}]
  BY DEF PmuTypeOK
<1>5. counter' \in [Slots -> [fd : Fds \cup {NoFd}, last : Nat \cup {Never}, first : Nat \cup {Never}]]
  BY <1>2, <1>3, <1>4 DEF SlotsOpened
<1>6. /\ \A s \in Slots : counter'[s].fd = IF s \in kept THEN Fd(s) ELSE counter[s].fd
      /\ \A s \in Slots : counter'[s].last = IF s \in kept THEN Never ELSE counter[s].last
      /\ \A s \in Slots : counter'[s].first = IF s \in kept THEN Never ELSE counter[s].first
  <2> SUFFICES ASSUME NEW s \in Slots
               PROVE  /\ counter'[s].fd = IF s \in kept THEN Fd(s) ELSE counter[s].fd
                      /\ counter'[s].last = IF s \in kept THEN Never ELSE counter[s].last
                      /\ counter'[s].first = IF s \in kept THEN Never ELSE counter[s].first
    OBVIOUS
  <2>1. CASE s \in kept
    <3>1. counter'[s] = [fd |-> Fd(s), last |-> Never, first |-> Never]
      BY <1>3, <2>1
    <3>2. counter'[s].fd = Fd(s) /\ counter'[s].last = Never /\ counter'[s].first = Never
      BY <3>1
    <3>3. QED
      BY <2>1, <3>2
  <2>2. CASE s \notin kept
    BY <1>3, <2>2
  <2>3. QED
    BY <2>1, <2>2
<1>7. HeldFds' = HeldFds \cup {Fd(s) : s \in kept}
  <2>1. HeldFds' = {counter'[s].fd : s \in Slots} \ {NoFd}
    BY DEF HeldFds
  <2>2. ASSUME NEW f \in HeldFds' PROVE f \in HeldFds \cup {Fd(s) : s \in kept}
    BY <1>6, <2>1, <2>2 DEF HeldFds
  <2>3. ASSUME NEW f \in HeldFds PROVE f \in HeldFds'
    <3>1. PICK s \in Slots : f = counter[s].fd /\ f # NoFd
      BY <2>3 DEF HeldFds
    <3>2. s \notin kept
      BY <3>1
    <3>3. QED
      BY <1>6, <2>1, <3>1, <3>2
  <2>4. ASSUME NEW s \in kept PROVE Fd(s) \in HeldFds'
    <3>1. s \in Slots /\ counter'[s].fd = Fd(s) /\ Fd(s) # NoFd
      BY <1>2, <1>6
    <3>2. QED
      BY <2>1, <3>1
  <2>5. QED
    BY <2>2, <2>3, <2>4
<1>8. FdsAreHeld'
  <2>1. DOMAIN files = HeldFds \cup dropped /\ HeldFds \cap dropped = {}
    BY DEF FdsAreHeld
  <2>2. DOMAIN files' = (HeldFds \cup dropped)'
    BY <1>7, <2>1
  <2>3. (HeldFds \cap dropped)' = {}
    <3>1. \A s \in kept, t \in ss \ kept : Fd(s) # Fd(t)
      BY <1>2
    <3>2. \A s \in ss : Fd(s) \notin HeldFds \cup dropped
      BY <1>2, <2>1
    <3>3. QED
      BY <1>7, <2>1, <3>1, <3>2
  <2>4. \A s \in Slots : counter'[s].fd # NoFd => counter'[s].fd[2] = s
    BY <1>2, <1>6 DEF FdsAreHeld
  <2>5. \A f \in dropped' : f[2] \in L3Slots /\ f[2][3] = "miss"
    BY <1>2 DEF FdsAreHeld
  <2>6. QED
    BY <2>2, <2>3, <2>4, <2>5 DEF FdsAreHeld
<1>9. RoundsAreOver'
  <2>1. \A f \in DOMAIN files : f[1] <= opens /\ f[1] \in Nat
    BY <1>1 DEF RoundsAreOver, Fds
  <2>2. QED
    BY <1>1, <1>2, <2>1 DEF RoundsAreOver
<1>10. \A s \in Slots : counter[s].fd \in DOMAIN files \cup {NoFd}
  BY DEF FdsAreHeld, HeldFds
<1>11. ReadingsAreCounts'
  <2> SUFFICES ASSUME NEW s \in Slots
               PROVE  /\ counter'[s].fd = NoFd => counter'[s] = NoCounter
                      /\ (counter'[s].last = Never) <=> (counter'[s].first = Never)
                      /\ counter'[s].last # Never =>
                           /\ counter'[s].first <= counter'[s].last
                           /\ counter'[s].last <= files'[counter'[s].fd].count
    BY DEF ReadingsAreCounts
  <2>1. CASE s \in kept
    BY <1>2, <1>6, <2>1
  <2>2. CASE s \notin kept
    <3>1. counter'[s] = counter[s]
      BY <1>3, <2>2
    <3>2. counter[s].last # Never => counter[s].fd \in DOMAIN files
      BY <1>10 DEF ReadingsAreCounts, NoCounter
    <3>3. QED
      BY <3>1, <3>2 DEF ReadingsAreCounts
  <2>3. QED
    BY <2>1, <2>2
<1>12. \A s \in Slots : Since(s)' = Since(s)
  <2> SUFFICES ASSUME NEW s \in Slots PROVE Since(s)' = Since(s)
    OBVIOUS
  <2>1. CASE s \in kept
    <3>1. Since(s) = 0
      BY <2>1, SinceIsNat
    <3>2. QED
      BY <1>6, <2>1, <3>1 DEF Since
  <2>2. CASE s \notin kept
    BY <1>6, <2>2 DEF Since
  <2>3. QED
    BY <2>1, <2>2
<1>13. TotalsAreOwn'
  <2>1. \A s \in ProcSlots : total'[s] = Since(s)'
    BY <1>12 DEF TotalsAreOwn, Slots
  <2>2. ASSUME NEW s \in ProcSlots, counter'[s].fd # NoFd PROVE total'[s] <= files'[counter'[s].fd].count
    <3>0. s \in Slots
      BY DEF Slots
    <3>1. CASE s \in kept
      <4>1. total[s] = 0
        BY <3>0, <3>1, SinceIsNat DEF TotalsAreOwn
      <4>2. Fd(s) \in DOMAIN files'
        BY <3>1
      <4>3. files'[Fd(s)].count \in Nat
        BY <4>2 DEF Files
      <4>4. QED
        BY <1>6, <3>0, <3>1, <4>1, <4>3
    <3>2. CASE s \notin kept
      <4>1. counter'[s].fd = counter[s].fd /\ counter[s].fd \in DOMAIN files
        BY <1>6, <1>10, <2>2, <3>0, <3>2
      <4>2. QED
        BY <2>2, <4>1 DEF TotalsAreOwn
    <3>3. QED
      BY <3>1, <3>2
  <2>3. \A s \in CpuSlots : Since(s)' = Since(s)
    BY <1>12 DEF Slots
  <2>4. QED
    BY <2>1, <2>2, <2>3, TotalsStay DEF TotalsAreOwn
<1>14. DOMAIN files' \subseteq Fds
  BY <1>1, <1>2
<1>15. QED
  BY <1>5, <1>6, <1>8, <1>9, <1>11, <1>13, <1>14

\* Closing the counters of the slots ss, of the CPUs none that was ever read.
LEMMA CountersClosed ==
  ASSUME PmuTypeOK, RoundsAreOver, ReadingsAreCounts, FdsAreHeld, TotalsAreOwn,
         NEW ss \in SUBSET Slots, NEW zs, zs = ss \cap ProcSlots,
         \A s \in ss \cap CpuSlots : counter[s].last = Never,
         files' = FilesClosed(ss), counter' = SlotsClosed(ss), total' = TotalsCleared(zs),
         totals' = totals, dropped' = dropped, opens' \in {opens, opens + 1}
  PROVE  /\ RoundsAreOver' /\ ReadingsAreCounts' /\ FdsAreHeld' /\ TotalsAreOwn'
         /\ files' \in [DOMAIN files' -> Files] /\ DOMAIN files' \subseteq Fds
         /\ counter' \in [Slots -> [fd : Fds \cup {NoFd}, last : Nat \cup {Never}, first : Nat \cup {Never}]]
         /\ total' \in [Slots -> Nat]
         /\ \A s \in Slots : counter'[s] = IF s \in ss THEN NoCounter ELSE counter[s]
<1>1. \A s \in Slots : counter'[s] = IF s \in ss THEN NoCounter ELSE counter[s]
  BY DEF SlotsClosed
<1>2. \A s \in Slots : total'[s] = IF s \in zs THEN 0 ELSE total[s]
  BY DEF TotalsCleared
<1>3. /\ DOMAIN files' = DOMAIN files \ {counter[s].fd : s \in ss}
      /\ \A f \in DOMAIN files' : files'[f] = files[f]
      /\ files' \in [DOMAIN files' -> Files] /\ DOMAIN files' \subseteq Fds
  BY DEF FilesClosed, PmuTypeOK
<1>4. NoCounter.fd = NoFd /\ NoCounter.last = Never /\ NoCounter.first = Never
  BY DEF NoCounter
<1>5. NoCounter \in [fd : Fds \cup {NoFd}, last : Nat \cup {Never}, first : Nat \cup {Never}]
  BY DEF NoCounter
<1>6. counter' \in [Slots -> [fd : Fds \cup {NoFd}, last : Nat \cup {Never}, first : Nat \cup {Never}]]
  BY <1>5 DEF SlotsClosed, PmuTypeOK
<1>7. total' \in [Slots -> Nat]
  BY DEF TotalsCleared, PmuTypeOK
<1>8. HeldFds' = HeldFds \ {counter[s].fd : s \in ss}
  <2>1. HeldFds' = {counter'[s].fd : s \in Slots} \ {NoFd}
    BY DEF HeldFds
  <2>2. ASSUME NEW f \in HeldFds' PROVE f \in HeldFds \ {counter[s].fd : s \in ss}
    <3>1. PICK s \in Slots : f = counter'[s].fd /\ f # NoFd
      BY <2>1, <2>2
    <3>2. s \notin ss /\ f = counter[s].fd
      BY <1>1, <1>4, <3>1
    <3>3. \A t \in ss : counter[t].fd # f
      BY <3>1, <3>2 DEF FdsAreHeld
    <3>4. QED
      BY <3>1, <3>2, <3>3 DEF HeldFds
  <2>3. ASSUME NEW f \in HeldFds \ {counter[s].fd : s \in ss} PROVE f \in HeldFds'
    <3>1. PICK s \in Slots : f = counter[s].fd /\ f # NoFd
      BY <2>3 DEF HeldFds
    <3>2. s \notin ss
      BY <2>3, <3>1
    <3>3. QED
      BY <1>1, <2>1, <3>1, <3>2
  <2>4. QED
    BY <2>2, <2>3
<1>9. \A s \in Slots : counter[s].fd \in HeldFds \cup {NoFd}
  BY DEF HeldFds
<1>10. FdsAreHeld'
  <2>1. DOMAIN files = HeldFds \cup dropped /\ HeldFds \cap dropped = {}
    BY DEF FdsAreHeld
  <2>2. dropped \cap {counter[s].fd : s \in ss} = {}
    <3>1. NoFd \notin dropped
      <4>1. NoFd \notin Fds
        <5>1. \A f \in Fds : f[1] # 0
          BY DEF Fds
        <5>2. NoFd[1] = 0
          BY DEF NoFd
        <5>3. QED
          BY <5>1, <5>2
      <4>2. dropped \subseteq Fds
        BY <2>1 DEF PmuTypeOK
      <4>3. QED
        BY <4>1, <4>2
    <3>2. QED
      BY <1>9, <2>1, <3>1
  <2>3. DOMAIN files' = (HeldFds \cup dropped)' /\ (HeldFds \cap dropped)' = {}
    BY <1>3, <1>8, <2>1, <2>2
  <2>4. \A s \in Slots : counter'[s].fd # NoFd => counter'[s].fd[2] = s
    BY <1>1, <1>4 DEF FdsAreHeld
  <2>5. QED
    BY <2>3, <2>4 DEF FdsAreHeld
<1>11. RoundsAreOver'
  <2>1. \A f \in DOMAIN files' : f[1] \in Nat /\ f[1] <= opens
    BY <1>3 DEF RoundsAreOver, Fds
  <2>2. opens \in Nat
    BY DEF PmuTypeOK
  <2>3. QED
    BY <2>1, <2>2 DEF RoundsAreOver
<1>12. \A s \in Slots \ ss : counter[s].fd # NoFd =>
         counter[s].fd \in DOMAIN files' /\ files'[counter[s].fd] = files[counter[s].fd]
  <2> SUFFICES ASSUME NEW s \in Slots \ ss, counter[s].fd # NoFd
               PROVE  counter[s].fd \in DOMAIN files'
    BY <1>3
  <2>1. counter[s].fd \in DOMAIN files
    BY <1>9 DEF FdsAreHeld
  <2>2. \A t \in ss : counter[t].fd # counter[s].fd
    BY DEF FdsAreHeld
  <2>3. QED
    BY <1>3, <2>1, <2>2
<1>13. ReadingsAreCounts'
  <2> SUFFICES ASSUME NEW s \in Slots
               PROVE  /\ counter'[s].fd = NoFd => counter'[s] = NoCounter
                      /\ (counter'[s].last = Never) <=> (counter'[s].first = Never)
                      /\ counter'[s].last # Never =>
                           /\ counter'[s].first <= counter'[s].last
                           /\ counter'[s].last <= files'[counter'[s].fd].count
    BY DEF ReadingsAreCounts
  <2>1. CASE s \in ss
    BY <1>1, <1>4, <2>1
  <2>2. CASE s \notin ss
    <3>1. counter'[s] = counter[s]
      BY <1>1, <2>2
    <3>2. counter[s].last # Never => counter[s].fd # NoFd
      BY <1>4 DEF ReadingsAreCounts
    <3>3. QED
      BY <1>12, <2>2, <3>1, <3>2 DEF ReadingsAreCounts
  <2>3. QED
    BY <2>1, <2>2
<1>14. \A s \in Slots : Since(s)' = IF s \in ss THEN 0 ELSE Since(s)
  BY <1>1, <1>4 DEF Since
<1>15. TotalsAreOwn'
  <2>1. \A s \in ProcSlots : total'[s] = Since(s)'
    <3>1. \A s \in ProcSlots : s \in Slots /\ (s \in zs <=> s \in ss)
      BY DEF Slots
    <3>2. QED
      BY <1>2, <1>14, <3>1 DEF TotalsAreOwn
  <2>2. ASSUME NEW s \in ProcSlots, counter'[s].fd # NoFd PROVE total'[s] <= files'[counter'[s].fd].count
    <3>1. s \in Slots /\ s \notin ss /\ counter'[s] = counter[s]
      BY <1>1, <1>4, <2>2 DEF Slots
    <3>2. s \notin zs /\ total'[s] = total[s]
      BY <1>2, <3>1
    <3>3. files'[counter[s].fd] = files[counter[s].fd]
      BY <1>12, <2>2, <3>1
    <3>4. QED
      BY <2>2, <3>1, <3>2, <3>3 DEF TotalsAreOwn
  <2>3. \A s \in CpuSlots : Since(s)' = Since(s)
    <3> SUFFICES ASSUME NEW s \in CpuSlots PROVE Since(s)' = Since(s)
      OBVIOUS
    <3>1. s \in Slots
      BY DEF Slots
    <3>2. CASE s \in ss
      BY <1>14, <3>1, <3>2 DEF Since
    <3>3. CASE s \notin ss
      BY <1>14, <3>1, <3>3
    <3>4. QED
      BY <3>2, <3>3
  <2>4. QED
    BY <2>1, <2>2, <2>3, TotalsStay DEF TotalsAreOwn
<1>16. QED
  BY <1>1, <1>3, <1>6, <1>7, <1>10, <1>11, <1>13, <1>15

\* Reading the counters of the slots ss, where the reads of bad fail.
LEMMA CountersRead ==
  ASSUME PmuTypeOK, RoundsAreOver, ReadingsAreCounts, FdsAreHeld,
         NEW ss \in SUBSET Slots, NEW bad,
         files' = files, opens' = opens, dropped' = dropped, counter' = AfterReads(ss, bad)
  PROVE  /\ RoundsAreOver' /\ ReadingsAreCounts' /\ FdsAreHeld'
         /\ counter' \in [Slots -> [fd : Fds \cup {NoFd}, last : Nat \cup {Never}, first : Nat \cup {Never}]]
         /\ \A s \in Slots : counter'[s].fd = counter[s].fd /\ (s \notin ss => counter'[s] = counter[s])
         /\ \A s \in Slots : DeltaOf(s, bad) \in Nat
         /\ \A s \in Slots : Since(s)' = IF s \in ss THEN Since(s) + DeltaOf(s, bad) ELSE Since(s)
         /\ \A s \in Slots : counter[s].fd # NoFd => Since(s)' <= files[counter[s].fd].count
<1> DEFINE read(s) == s \in ss /\ ReadsWell(s, bad)
           Counter == [fd : Fds \cup {NoFd}, last : Nat \cup {Never}, first : Nat \cup {Never}]
<1>1. \A s \in Slots : counter[s] \in Counter
  BY DEF PmuTypeOK
<1>2. \A s \in Slots : counter[s].fd # NoFd => ValueOf(s) \in Nat /\ ValueOf(s) = files[counter[s].fd].count
  BY DEF FdsAreHeld, HeldFds, ValueOf, PmuTypeOK, Files
<1>3. \A s \in Slots : read(s) => counter[s].fd # NoFd
  BY DEF ReadsWell
<1>4. \A s \in Slots : /\ ~read(s) => counter'[s] = counter[s]
                       /\ read(s) => counter'[s] = [fd |-> counter[s].fd, last |-> ValueOf(s),
                                        first |-> IF counter[s].last = Never THEN ValueOf(s) ELSE counter[s].first]
  BY DEF AfterReads
<1>5. \A s \in Slots : read(s) => /\ counter'[s].fd = counter[s].fd /\ counter'[s].last = ValueOf(s)
                                  /\ counter'[s].first = IF counter[s].last = Never THEN ValueOf(s) ELSE counter[s].first
  <2> SUFFICES ASSUME NEW s \in Slots, read(s)
               PROVE  /\ counter'[s].fd = counter[s].fd /\ counter'[s].last = ValueOf(s)
                      /\ counter'[s].first = IF counter[s].last = Never THEN ValueOf(s) ELSE counter[s].first
    OBVIOUS
  <2>1. counter'[s] = [fd |-> counter[s].fd, last |-> ValueOf(s),
                       first |-> IF counter[s].last = Never THEN ValueOf(s) ELSE counter[s].first]
    BY <1>4
  <2>2. QED
    BY <2>1
<1>6. \A s \in Slots : counter'[s].fd = counter[s].fd
  BY <1>4, <1>5
<1>7. ASSUME NEW s \in Slots PROVE counter'[s] \in Counter
  <2>1. CASE read(s)
    <3>1. ValueOf(s) \in Nat /\ counter[s].fd \in Fds \cup {NoFd} /\ counter[s].first \in Nat \cup {Never}
      BY <1>1, <1>2, <1>3, <2>1
    <3>2. counter'[s] = [fd |-> counter[s].fd, last |-> ValueOf(s),
                         first |-> IF counter[s].last = Never THEN ValueOf(s) ELSE counter[s].first]
      BY <1>4, <2>1
    <3>3. QED
      BY <3>1, <3>2
  <2>2. CASE ~read(s)
    BY <1>1, <1>4, <2>2
  <2>3. QED
    BY <2>1, <2>2
<1>8. counter' \in [Slots -> Counter]
  <2>1. counter' = [s \in Slots |-> counter'[s]]
    BY DEF AfterReads
  <2>2. QED
    BY <1>7, <2>1
<1>9. HeldFds' = HeldFds
  BY <1>6 DEF HeldFds
<1>10. FdsAreHeld' /\ RoundsAreOver'
  BY <1>6, <1>9 DEF FdsAreHeld, RoundsAreOver
<1>11. \A s \in Slots : /\ counter[s].fd = NoFd => counter[s] = NoCounter
                        /\ (counter[s].last = Never) <=> (counter[s].first = Never)
                        /\ counter[s].last # Never =>
                             counter[s].first <= counter[s].last /\ counter[s].last <= files[counter[s].fd].count
  BY DEF ReadingsAreCounts
<1>12. \A s \in Slots : counter[s].last # Never =>
         counter[s].last \in Nat /\ counter[s].first \in Nat /\ counter[s].fd # NoFd
  BY <1>1, <1>11 DEF NoCounter
<1>13. ASSUME NEW s \in Slots
       PROVE  /\ counter'[s].fd = NoFd => counter'[s] = NoCounter
              /\ (counter'[s].last = Never) <=> (counter'[s].first = Never)
              /\ counter'[s].last # Never =>
                   counter'[s].first <= counter'[s].last /\ counter'[s].last <= files'[counter'[s].fd].count
  <2>1. CASE ~read(s)
    BY <1>4, <1>11, <2>1
  <2>2. CASE read(s)
    <3>1. counter[s].fd # NoFd /\ ValueOf(s) \in Nat /\ ValueOf(s) = files[counter[s].fd].count
      BY <1>2, <1>3, <2>2
    <3>2. ValueOf(s) # Never
      BY <3>1 DEF Never
    <3>3. CASE counter[s].last = Never
      BY <1>5, <1>6, <2>2, <3>1, <3>2, <3>3
    <3>4. CASE counter[s].last # Never
      <4>1. /\ counter'[s].fd = counter[s].fd /\ counter'[s].last = ValueOf(s)
            /\ counter'[s].first = counter[s].first
        BY <1>5, <2>2, <3>4
      <4>2. counter[s].first <= counter[s].last /\ counter[s].last <= ValueOf(s) /\ counter[s].first # Never
        BY <1>11, <3>1, <3>4
      <4>3. counter[s].first \in Nat /\ counter[s].last \in Nat
        BY <1>12, <3>4
      <4>4. QED
        BY <3>1, <3>2, <4>1, <4>2, <4>3
    <3>5. QED
      BY <3>3, <3>4
  <2>3. QED
    BY <2>1, <2>2
<1>14. ReadingsAreCounts'
  BY <1>13 DEF ReadingsAreCounts
<1>15. ASSUME NEW s \in Slots
       PROVE  /\ DeltaOf(s, bad) \in Nat
              /\ Since(s)' = IF s \in ss THEN Since(s) + DeltaOf(s, bad) ELSE Since(s)
  <2>1. CASE counter[s].last = Never
    <3>1. DeltaOf(s, bad) = 0 /\ Since(s) = 0
      BY <2>1 DEF DeltaOf, Since
    <3>2. Since(s)' = 0
      <4>1. CASE read(s)
        <5>1. counter'[s].last = ValueOf(s) /\ counter'[s].first = ValueOf(s) /\ ValueOf(s) \in Nat
          BY <1>2, <1>3, <1>5, <2>1, <4>1
        <5>2. QED
          BY <5>1 DEF Since
      <4>2. CASE ~read(s)
        BY <1>4, <2>1, <4>2 DEF Since
      <4>3. QED
        BY <4>1, <4>2
    <3>3. QED
      BY <3>1, <3>2
  <2>2. CASE counter[s].last # Never
    <3>1. /\ counter[s].last \in Nat /\ counter[s].first \in Nat /\ ValueOf(s) \in Nat
          /\ counter[s].last <= ValueOf(s) /\ counter[s].first <= counter[s].last
      BY <1>2, <1>11, <1>12, <2>2
    <3>2. Since(s) = counter[s].last - counter[s].first
      BY <2>2 DEF Since
    <3>3. CASE read(s)
      <4>1. counter'[s].last = ValueOf(s) /\ counter'[s].first = counter[s].first /\ ValueOf(s) # Never
        BY <1>5, <2>2, <3>1, <3>3 DEF Never
      <4>2. Since(s)' = ValueOf(s) - counter[s].first
        BY <4>1 DEF Since
      <4>3. DeltaOf(s, bad) = ValueOf(s) - counter[s].last
        BY <2>2, <3>1, <3>3 DEF DeltaOf
      <4>4. QED
        BY <3>1, <3>2, <3>3, <4>2, <4>3
    <3>4. CASE ~read(s)
      <4>1. Since(s)' = Since(s) /\ Since(s) \in Nat
        <5>1. Since(s)' = Since(s)
          BY <1>4, <3>4 DEF Since
        <5>2. QED
          BY <3>1, <3>2, <5>1
      <4>2. s \in ss => DeltaOf(s, bad) = 0
        BY <3>4 DEF DeltaOf
      <4>3. DeltaOf(s, bad) \in Nat
        BY <3>1 DEF DeltaOf
      <4>4. QED
        BY <4>1, <4>2, <4>3
    <3>5. QED
      BY <3>3, <3>4
  <2>3. QED
    BY <2>1, <2>2
<1>16. ASSUME NEW s \in Slots, counter[s].fd # NoFd PROVE Since(s)' <= files[counter[s].fd].count
  <2>1. files[counter[s].fd].count \in Nat
    BY <1>2, <1>16
  <2>2. CASE counter'[s].last = Never
    BY <2>1, <2>2 DEF Since
  <2>3. CASE counter'[s].last # Never
    <3>1. counter'[s] \in Counter /\ counter'[s].first # Never
      BY <1>7, <1>13, <2>3
    <3>2. counter'[s].last \in Nat /\ counter'[s].first \in Nat
      BY <2>3, <3>1
    <3>3. counter'[s].last <= files[counter[s].fd].count
      BY <1>6, <1>13, <2>3
    <3>4. Since(s)' = counter'[s].last - counter'[s].first
      BY <2>3 DEF Since
    <3>5. QED
      BY <2>1, <3>2, <3>3, <3>4
  <2>4. QED
    BY <2>2, <2>3
<1>17. QED
  BY <1>4, <1>6, <1>8, <1>10, <1>14, <1>15, <1>16

\* Opening leaves what is open as it is.
LEMMA OpenedFiles ==
  ASSUME PmuTypeOK, NEW ss \in SUBSET Slots, NEW on \in BOOLEAN
  PROVE  /\ DOMAIN FilesOpened(ss, on) = DOMAIN files \cup {Fd(s) : s \in ss}
         /\ FilesOpened(ss, on) \in [DOMAIN FilesOpened(ss, on) -> Files]
         /\ \A f \in DOMAIN files : FilesOpened(ss, on)[f] = files[f]
<1> DEFINE fs == FilesOpened(ss, on)
<1>1. DOMAIN fs = DOMAIN files \cup {Fd(s) : s \in ss} /\ fs = [f \in DOMAIN fs |-> fs[f]]
  BY DEF FilesOpened
<1>2. \A f \in DOMAIN files : fs[f] = files[f] /\ files[f] \in Files
  BY DEF FilesOpened, PmuTypeOK
<1>3. ASSUME NEW s \in ss, Fd(s) \notin DOMAIN files PROVE fs[Fd(s)] \in Files
  <2>1. fs[Fd(s)] = [holder |-> IF s[1] = "proc" THEN holder[s[2]] ELSE 0, on |-> on, count |-> 0]
    <3>1. Fd(s)[2] = s
      BY DEF Fd
    <3>2. QED
      BY <1>3, <3>1 DEF FilesOpened
  <2>2. s[1] = "proc" => s[2] \in PmuPids
    BY DEF Slots, CpuSlots, L3Slots, ProcSlots
  <2>3. \A p \in PmuPids : holder[p] \in Nat
    BY DEF PmuTypeOK
  <2>4. QED
    BY <2>1, <2>2, <2>3 DEF Files
<1>4. \A f \in DOMAIN fs : fs[f] \in Files
  BY <1>1, <1>2, <1>3
<1>5. QED
  BY <1>1, <1>2, <1>4

LEMMA SlotKinds ==
  /\ \A c \in PmuCpus, e \in CpuEvents : <<"cpu", c, e>> \in CpuSlots
  /\ \A p \in PmuPids, e \in ProcEvents : <<"proc", p, e>> \in ProcSlots
  /\ CpuSlots \subseteq Slots /\ L3Slots \subseteq Slots /\ ProcSlots \subseteq Slots
  /\ \A s \in CpuSlots : s[1] = "cpu"
  /\ \A s \in L3Slots : s[1] = "l3"
  /\ \A s \in ProcSlots : s[1] = "proc" /\ s[2] \in PmuPids
  /\ CpuSlots \cap ProcSlots = {} /\ L3Slots \cap ProcSlots = {} /\ CpuSlots \cap L3Slots = {}
<1>1. \A s \in CpuSlots : s[1] = "cpu"
  BY DEF CpuSlots
<1>2. \A s \in L3Slots : s[1] = "l3"
  BY DEF L3Slots
<1>3. \A s \in ProcSlots : s[1] = "proc" /\ s[2] \in PmuPids
  BY DEF ProcSlots
<1>4. CpuSlots \subseteq Slots /\ L3Slots \subseteq Slots /\ ProcSlots \subseteq Slots
  BY DEF Slots
<1>5. \A c \in PmuCpus, e \in CpuEvents : <<"cpu", c, e>> \in CpuSlots
  BY DEF CpuSlots
<1>6. \A p \in PmuPids, e \in ProcEvents : <<"proc", p, e>> \in ProcSlots
  BY DEF ProcSlots
<1>7. CpuSlots \cap ProcSlots = {} /\ L3Slots \cap ProcSlots = {} /\ CpuSlots \cap L3Slots = {}
  BY <1>1, <1>2, <1>3
<1>8. QED
  BY <1>1, <1>2, <1>3, <1>4, <1>5, <1>6, <1>7

LEMMA PmuInitStep == PmuInit => PmuInv
<1> SUFFICES ASSUME PmuInit PROVE PmuInv
  OBVIOUS
<1> USE DEF PmuInit
<1>1. DOMAIN files = {} /\ \A s \in Slots : counter[s] = NoCounter
  OBVIOUS
<1>2. NoCounter.fd = NoFd /\ NoCounter.last = Never /\ NoCounter.first = Never
  BY DEF NoCounter
<1>3. PmuTypeOK
  <2>1. counter \in [Slots -> [fd : Fds \cup {NoFd}, last : Nat \cup {Never}, first : Nat \cup {Never}]]
    BY DEF NoCounter
  <2>2. QED
    BY <1>1, <2>1 DEF PmuTypeOK
<1>4. HeldFds = {}
  BY <1>1, <1>2 DEF HeldFds
<1>5. \A s \in Slots : Since(s) = 0
  BY <1>1, <1>2 DEF Since
<1>6. TotalsAreOwn
  <2>1. ASSUME NEW e \in CpuEvents PROVE totals[e] = SumFunction([c \in PmuCpus |-> Since(<<"cpu", c, e>>)])
    <3> DEFINE f == [c \in PmuCpus |-> Since(<<"cpu", c, e>>)]
               z == [c \in PmuCpus |-> 0]
    <3>1. f = z
      BY <1>5 DEF Slots, CpuSlots
    <3>2. IsFiniteSet(PmuCpus)
      BY PmuAssumption
    <3>3. SumFunctionOnSet(z, PmuCpus) = SumFunctionOnSet(z, PmuCpus) + SumFunctionOnSet(z, PmuCpus)
      BY <3>2, SumAdds
    <3>4. SumFunctionOnSet(z, PmuCpus) \in Nat
      BY <3>2, SumIsNat
    <3>5. SumFunctionOnSet(z, PmuCpus) = 0
      BY <3>3, <3>4
    <3>6. SumFunction(f) = 0
      BY <3>1, <3>5 DEF SumFunction
    <3>7. QED
      BY <3>6
  <2>2. \A s \in ProcSlots : total[s] = Since(s) /\ counter[s].fd = NoFd
    BY <1>1, <1>2, <1>5 DEF Slots
  <2>3. QED
    BY <2>1, <2>2 DEF TotalsAreOwn
<1>7. FdsAreHeld
  BY <1>1, <1>2, <1>4 DEF FdsAreHeld
<1>8. RoundsAreOver /\ ReadingsAreCounts
  BY <1>1, <1>2 DEF RoundsAreOver, ReadingsAreCounts
<1>9. SetUpInOrder
  <2>1. \A s \in Slots : counter[s].fd = NoFd /\ counter[s].last = Never
    BY <1>1, <1>2
  <2>2. QED
    BY <2>1, SlotKinds DEF SetUpInOrder
<1>10. QED
  BY <1>3, <1>6, <1>7, <1>8, <1>9 DEF PmuInv

\* What the machine does leaves the slots, and the counts that were read, as
\* they are.
LEMMA MachineStep ==
  ASSUME PmuInv, NEW p \in PmuPids, NEW c \in PmuCpus, NEW e \in CpuEvents \cup ProcEvents,
         ProcessStarts(p) \/ ProcessEnds(p) \/ PmuEvent(p, c, e) \/ ListProcesses
  PROVE  PmuInv'
<1> USE DEF PmuInv
<1>1. counter' = counter /\ opens' = opens /\ dropped' = dropped /\ total' = total /\ totals' = totals
  BY DEF ProcessStarts, ProcessEnds, PmuEvent, ListProcesses
<1>2. UNCHANGED <<pmuAt, remaining, initialized, available, procAvailable, reads, failures>>
  BY DEF ProcessStarts, ProcessEnds, PmuEvent, ListProcesses
<1>3. /\ DOMAIN files' = DOMAIN files /\ files' \in [DOMAIN files' -> Files]
      /\ \A f \in DOMAIN files : files[f].count \in Nat /\ files[f].count <= files'[f].count
  <2>1. CASE files' = files
    BY <2>1 DEF PmuTypeOK, Files
  <2>2. CASE files' = AfterEvent(p, c, e)
    <3>1. DOMAIN files' = DOMAIN files
      BY <2>2 DEF AfterEvent
    <3>2. \A f \in DOMAIN files : files[f] \in Files
      BY DEF PmuTypeOK
    <3>3. \A f \in DOMAIN files : files'[f] =
            [holder |-> files[f].holder, on |-> files[f].on,
             count |-> IF IsCounted(f, p, c, e) THEN files[f].count + 1 ELSE files[f].count]
      BY <2>2 DEF AfterEvent
    <3>4. ASSUME NEW f \in DOMAIN files
          PROVE  files'[f] \in Files /\ files[f].count \in Nat /\ files[f].count <= files'[f].count
      <4>1. files[f].count \in Nat /\ files[f].holder \in Nat /\ files[f].on \in BOOLEAN
        BY <3>2 DEF Files
      <4>2. PICK n \in {files[f].count, files[f].count + 1} :
              files'[f] = [holder |-> files[f].holder, on |-> files[f].on, count |-> n]
        BY <3>3
      <4>3. QED
        BY <4>1, <4>2 DEF Files
    <3>5. files' = [f \in DOMAIN files' |-> files'[f]]
      BY <2>2 DEF AfterEvent
    <3>6. QED
      BY <3>1, <3>4, <3>5
  <2>3. QED
    BY <2>1, <2>2 DEF ProcessStarts, ProcessEnds, PmuEvent, ListProcesses
<1>4. holder' \in [PmuPids -> Nat] /\ uses' \in [PmuPids -> Nat] /\ listed' \subseteq PmuPids /\ happened' \in Nat
  BY DEF PmuTypeOK, ProcessStarts, ProcessEnds, PmuEvent, ListProcesses
<1>5. PmuTypeOK'
  BY <1>1, <1>2, <1>3, <1>4 DEF PmuTypeOK
<1>6. \A s \in Slots : counter[s].fd # NoFd => counter[s].fd \in DOMAIN files
  BY DEF FdsAreHeld, HeldFds
<1>7. FdsAreHeld' /\ RoundsAreOver' /\ SetUpInOrder'
  <2>1. HeldFds' = HeldFds /\ Attached' = Attached
    BY <1>1 DEF HeldFds, Attached
  <2>2. QED
    BY <1>1, <1>2, <1>3, <2>1 DEF FdsAreHeld, RoundsAreOver, SetUpInOrder
<1>8. ReadingsAreCounts'
  <2> SUFFICES ASSUME NEW s \in Slots
               PROVE  /\ counter[s].fd = NoFd => counter[s] = NoCounter
                      /\ (counter[s].last = Never) <=> (counter[s].first = Never)
                      /\ counter[s].last # Never =>
                           counter[s].first <= counter[s].last /\ counter[s].last <= files'[counter[s].fd].count
    BY <1>1 DEF ReadingsAreCounts
  <2>1. counter[s].last # Never => counter[s].last \in Nat /\ counter[s].fd # NoFd
    BY DEF ReadingsAreCounts, NoCounter, PmuTypeOK
  <2>2. files'[counter[s].fd].count \in Nat \/ counter[s].fd \notin DOMAIN files
    BY <1>3 DEF Files
  <2>3. QED
    BY <1>3, <1>6, <2>1, <2>2 DEF ReadingsAreCounts
<1>9. TotalsAreOwn'
  <2>1. \A s \in Slots : Since(s)' = Since(s)
    BY <1>1 DEF Since
  <2>2. ASSUME NEW s \in ProcSlots, counter[s].fd # NoFd PROVE total[s] <= files'[counter[s].fd].count
    <3>1. counter[s].fd \in DOMAIN files /\ total[s] \in Nat /\ total[s] <= files[counter[s].fd].count
      BY <1>6, <2>2, SlotKinds DEF TotalsAreOwn, PmuTypeOK
    <3>2. files'[counter[s].fd].count \in Nat
      BY <1>3, <3>1 DEF Files
    <3>3. QED
      BY <1>3, <3>1, <3>2
  <2>3. QED
    BY <1>1, <2>1, <2>2, TotalsStay, SlotKinds DEF TotalsAreOwn
<1>10. QED
  BY <1>5, <1>7, <1>8, <1>9

LEMMA BeginTurnStep == PmuInv /\ BeginTurn => PmuInv'
<1> SUFFICES ASSUME PmuInv, BeginTurn PROVE PmuInv'
  OBVIOUS
<1> USE DEF PmuInv
<1>1. PICK resolves \in BOOLEAN, gone \in SUBSET ProcSlots :
        /\ gone = {s \in ProcSlots : resolves /\ s[2] \notin PmuTargets}
        /\ files' = FilesClosed(gone) /\ counter' = SlotsClosed(gone) /\ total' = TotalsCleared(gone)
        /\ remaining' = IF resolves THEN PmuTargets \ Attached ELSE {}
  BY DEF BeginTurn
<1>2. /\ pmuAt = "idle" /\ pmuAt' = "attach"
      /\ UNCHANGED <<asked, machineVars, opens, initialized, available, procAvailable, totals, dropped,
                     reads, failures>>
  BY DEF BeginTurn
<1>3. gone \subseteq Slots /\ gone = gone \cap ProcSlots /\ gone \cap CpuSlots = {} /\ gone \cap L3Slots = {}
  BY SlotKinds
<1>4. opens' \in {opens, opens + 1} /\ dropped' = dropped /\ totals' = totals
  BY <1>2
<1>5. /\ RoundsAreOver' /\ ReadingsAreCounts' /\ FdsAreHeld' /\ TotalsAreOwn'
      /\ files' \in [DOMAIN files' -> Files] /\ DOMAIN files' \subseteq Fds
      /\ counter' \in [Slots -> [fd : Fds \cup {NoFd}, last : Nat \cup {Never}, first : Nat \cup {Never}]]
      /\ total' \in [Slots -> Nat]
      /\ \A s \in Slots : counter'[s] = IF s \in gone THEN NoCounter ELSE counter[s]
  BY <1>1, <1>3, <1>4, CountersClosed
<1>6. PmuTypeOK'
  BY <1>2, <1>5 DEF PmuTypeOK, machineVars
<1>7. NoCounter.fd = NoFd
  BY DEF NoCounter
<1>8. \A p \in PmuPids : \A e \in ProcEvents : <<"proc", p, e>> \in gone <=> (resolves /\ p \notin PmuTargets)
  BY <1>1, SlotKinds
<1>9. Attached' = {p \in Attached : ~(resolves /\ p \notin PmuTargets)}
  <2>1. \A p \in PmuPids : FirstEvent \in ProcEvents /\ <<"proc", p, FirstEvent>> \in Slots
    BY SlotKinds DEF ProcEvents
  <2>2. \A p \in PmuPids : counter'[<<"proc", p, FirstEvent>>] =
          IF resolves /\ p \notin PmuTargets THEN NoCounter ELSE counter[<<"proc", p, FirstEvent>>]
    BY <1>5, <1>8, <2>1
  <2>3. QED
    BY <1>7, <2>2 DEF Attached
<1>10. SetUpInOrder'
  <2>1. ASSUME NEW p \in PmuPids \ Attached', NEW e \in ProcEvents PROVE counter'[<<"proc", p, e>>].fd = NoFd
    <3>1. <<"proc", p, e>> \in Slots
      BY SlotKinds
    <3>2. CASE resolves /\ p \notin PmuTargets
      BY <1>5, <1>7, <1>8, <3>1, <3>2
    <3>3. CASE ~(resolves /\ p \notin PmuTargets)
      <4>1. p \notin Attached
        BY <1>9, <2>1, <3>3
      <4>2. QED
        BY <1>5, <1>8, <3>1, <3>3, <4>1 DEF SetUpInOrder
    <3>4. QED
      BY <3>2, <3>3
  <2>2. remaining' \subseteq PmuPids \ Attached'
    <3>1. PmuTargets \subseteq PmuPids
      BY PmuAssumption DEF PmuTargets, PmuTypeOK
    <3>2. QED
      BY <1>1, <1>9, <3>1
  <2>3. \A s \in CpuSlots \cup L3Slots : counter'[s] = counter[s]
    BY <1>3, <1>5, SlotKinds
  <2>4. ~initialized' => ~available' /\ \A s \in CpuSlots \cup L3Slots : counter'[s].fd = NoFd
    BY <1>2, <2>3 DEF SetUpInOrder
  <2>5. ~available' => \A s \in CpuSlots : counter'[s].last = Never
    BY <1>2, <2>3 DEF SetUpInOrder
  <2>6. QED
    BY <1>2, <2>1, <2>2, <2>4, <2>5 DEF SetUpInOrder
<1>11. QED
  BY <1>5, <1>6, <1>10

LEMMA AttachStep == ASSUME PmuInv, NEW p \in PmuPids, Attach(p) PROVE PmuInv'
<1> USE DEF PmuInv
<1>1. PICK es \in SUBSET ProcEvents :
        /\ es # {} => FirstEvent \in es
        /\ files' = FilesOpened({<<"proc", p, e>> : e \in es}, TRUE)
        /\ counter' = SlotsOpened({<<"proc", p, e>> : e \in es})
        /\ procAvailable' = (procAvailable \/ es # {})
        /\ failures' \in {failures, failures + 1}
  BY DEF Attach, PmuCallsFail
<1>2. /\ pmuAt = "attach" /\ p \in remaining /\ remaining' = remaining \ {p} /\ opens' = opens + 1
      /\ UNCHANGED <<asked, machineVars, pmuAt, initialized, available, total, totals, dropped, reads>>
  BY DEF Attach
<1> DEFINE ss == {<<"proc", p, e>> : e \in es}
<1>3. ss \in SUBSET ProcSlots /\ ss \subseteq Slots /\ ss \cap CpuSlots = {} /\ ss \cap L3Slots = {}
  BY SlotKinds
<1>4. p \notin Attached /\ \A s \in ss : counter[s].fd = NoFd
  BY <1>2 DEF SetUpInOrder
<1>5. /\ DOMAIN files' = DOMAIN files \cup {Fd(s) : s \in ss}
      /\ files' \in [DOMAIN files' -> Files]
      /\ \A f \in DOMAIN files : files'[f].count = files[f].count
  BY <1>1, <1>3, OpenedFiles
<1>6. dropped' = dropped \cup {Fd(s) : s \in ss \ ss}
  BY <1>2
<1>7. counter' = SlotsOpened(ss)
  BY <1>1
<1> HIDE DEF ss
<1>8. /\ RoundsAreOver' /\ ReadingsAreCounts' /\ FdsAreHeld' /\ TotalsAreOwn'
      /\ DOMAIN files' \subseteq Fds
      /\ counter' \in [Slots -> [fd : Fds \cup {NoFd}, last : Nat \cup {Never}, first : Nat \cup {Never}]]
      /\ \A s \in Slots : counter'[s].fd = IF s \in ss THEN Fd(s) ELSE counter[s].fd
      /\ \A s \in Slots : counter'[s].last = IF s \in ss THEN Never ELSE counter[s].last
  <2>1. ss \in SUBSET Slots /\ ss \in SUBSET ss /\ \A s \in ss \ ss : s \in L3Slots /\ s[3] = "miss"
    BY <1>3
  <2>2. total' = total /\ totals' = totals
    BY <1>2
  <2>3. QED
    BY <1>2, <1>4, <1>5, <1>6, <1>7, <2>1, <2>2, CountersOpened
<1>9. PmuTypeOK'
  <2>1. procAvailable' \in BOOLEAN /\ failures' \in Nat /\ opens' \in Nat
    BY <1>1, <1>2 DEF PmuTypeOK
  <2>2. QED
    BY <1>2, <1>5, <1>8, <2>1 DEF PmuTypeOK, machineVars
<1>10. SetUpInOrder'
  <2>0. \A q \in PmuPids : FirstEvent \in ProcEvents /\ <<"proc", q, FirstEvent>> \in Slots
    BY SlotKinds DEF ProcEvents
  <2>1. ASSUME NEW q \in PmuPids, q # p, NEW e \in ProcEvents
        PROVE  <<"proc", q, e>> \in Slots /\ counter'[<<"proc", q, e>>].fd = counter[<<"proc", q, e>>].fd
    <3>1. <<"proc", q, e>> \in Slots
      BY SlotKinds
    <3>2. <<"proc", q, e>> \notin ss
      BY <2>1 DEF ss
    <3>3. QED
      BY <1>8, <3>1, <3>2
  <2>2. \A q \in PmuPids \ {p} : q \in Attached' <=> q \in Attached
    BY <2>0, <2>1 DEF Attached
  <2>3. ASSUME NEW q \in PmuPids \ Attached', NEW e \in ProcEvents PROVE counter'[<<"proc", q, e>>].fd = NoFd
    <3>1. CASE q # p
      <4>1. q \notin Attached
        BY <2>2, <2>3, <3>1
      <4>2. QED
        BY <2>1, <3>1, <4>1 DEF SetUpInOrder
    <3>2. CASE q = p
      <4>1. counter'[<<"proc", p, FirstEvent>>].fd = NoFd
        BY <2>3, <3>2 DEF Attached
      <4>2. \A s \in Slots : Fd(s) # NoFd
        <5>1. opens + 1 # 0
          BY DEF PmuTypeOK
        <5>2. \A s \in Slots : Fd(s)[1] = opens + 1
          BY DEF Fd
        <5>3. NoFd[1] = 0
          BY DEF NoFd
        <5>4. QED
          BY <5>1, <5>2, <5>3
      <4>3. <<"proc", p, FirstEvent>> \notin ss
        BY <1>8, <2>0, <4>1, <4>2
      <4>4. es = {}
        BY <1>1, <4>3 DEF ss
      <4>5. <<"proc", p, e>> \notin ss /\ <<"proc", p, e>> \in Slots
        BY <4>4, SlotKinds DEF ss
      <4>6. QED
        BY <1>4, <1>8, <3>2, <4>5 DEF SetUpInOrder
    <3>3. QED
      BY <3>1, <3>2
  <2>4. remaining' \subseteq PmuPids \ Attached'
    BY <1>2, <2>2 DEF SetUpInOrder
  <2>5. \A s \in CpuSlots \cup L3Slots : counter'[s].fd = counter[s].fd /\ counter'[s].last = counter[s].last
    BY <1>3, <1>8, SlotKinds
  <2>6. ~initialized' => ~available' /\ \A s \in CpuSlots \cup L3Slots : counter'[s].fd = NoFd
    BY <1>2, <2>5 DEF SetUpInOrder
  <2>7. ~available' => \A s \in CpuSlots : counter'[s].last = Never
    BY <1>2, <2>5 DEF SetUpInOrder
  <2>8. QED
    BY <1>2, <2>3, <2>4, <2>6, <2>7 DEF SetUpInOrder
<1>11. QED
  BY <1>8, <1>9, <1>10

LEMMA BeginSampleStep == PmuInv /\ BeginSample => PmuInv'
<1> SUFFICES ASSUME PmuInv, BeginSample PROVE PmuInv'
  OBVIOUS
<1> USE DEF PmuInv
<1>1. /\ pmuAt = "attach" /\ remaining = {} /\ initialized' = TRUE
      /\ procAvailable' = (procAvailable /\ Attached # {})
      /\ \/ ~initialized /\ pmuAt' = "open" /\ remaining' = PmuCpus /\ failures' = failures
         \/ pmuAt' = "processes" /\ remaining' = remaining /\ failures' \in {failures, failures + 1}
      /\ UNCHANGED <<asked, machineVars, files, opens, available, counter, total, totals, dropped, reads>>
  BY DEF BeginSample, PmuCallsFail
<1>2. PmuTypeOK'
  BY <1>1 DEF PmuTypeOK, machineVars
<1>3. FdsAreHeld' /\ RoundsAreOver' /\ Attached' = Attached
  BY <1>1 DEF FdsAreHeld, RoundsAreOver, HeldFds, Attached
<1>4. ReadingsAreCounts'
  BY <1>1 DEF ReadingsAreCounts
<1>5. TotalsAreOwn'
  <2>1. \A s \in CpuSlots : Since(s)' = Since(s)
    BY <1>1 DEF Since
  <2>2. \A s \in ProcSlots : Since(s)' = Since(s)
    BY <1>1 DEF Since
  <2>3. totals' = totals
    BY <1>1
  <2>4. \A s \in ProcSlots : total'[s] = Since(s)' /\
          (counter'[s].fd # NoFd => total'[s] <= files'[counter'[s].fd].count)
    BY <1>1, <2>2 DEF TotalsAreOwn
  <2>5. QED
    BY <2>1, <2>3, <2>4, TotalsStay DEF TotalsAreOwn
<1>6. SetUpInOrder'
  <2>1. pmuAt' = "open" => ~initialized /\ remaining' = PmuCpus
    BY <1>1
  <2>2. \A c \in PmuCpus, e \in CpuEvents : <<"cpu", c, e>> \in CpuSlots
    BY SlotKinds
  <2>3. QED
    BY <1>1, <1>3, <2>1, <2>2 DEF SetUpInOrder
<1>7. QED
  BY <1>2, <1>3, <1>4, <1>5, <1>6

LEMMA OpenCpuStep == ASSUME PmuInv, NEW c \in PmuCpus, OpenCpu(c) PROVE PmuInv'
<1> USE DEF PmuInv
<1>1. /\ pmuAt = "open" /\ c \in remaining /\ opens' = opens + 1
      /\ UNCHANGED <<asked, machineVars, initialized, available, procAvailable, totals, dropped, reads>>
  BY DEF OpenCpu
<1>2. PICK es \in SUBSET CpuEvents :
        /\ failures' \in {failures, failures + 1}
        /\ \/ /\ files' = FilesOpened({<<"cpu", c, e>> : e \in es}, FALSE)
              /\ counter' = SlotsOpened({<<"cpu", c, e>> : e \in es})
              /\ remaining' = remaining \ {c} /\ pmuAt' = pmuAt /\ total' = total
           \/ /\ files' = FilesClosed(Slots) /\ counter' = SlotsClosed(Slots) /\ total' = TotalsCleared(ProcSlots)
              /\ remaining' = {} /\ pmuAt' = "processes"
  BY DEF OpenCpu, PmuCallsFail
<1>3. \A s \in CpuSlots : counter[s].last = Never
  BY <1>1 DEF SetUpInOrder
<1>4. failures' \in Nat /\ opens' \in Nat
  BY <1>1, <1>2 DEF PmuTypeOK
<1>5. \A p \in PmuPids, e \in ProcEvents : <<"proc", p, e>> \in Slots
  BY SlotKinds
<1>6. FirstEvent \in ProcEvents
  BY DEF ProcEvents
<1>7. CASE /\ files' = FilesOpened({<<"cpu", c, e>> : e \in es}, FALSE)
           /\ counter' = SlotsOpened({<<"cpu", c, e>> : e \in es})
           /\ remaining' = remaining \ {c} /\ pmuAt' = pmuAt /\ total' = total
  <2> DEFINE ss == {<<"cpu", c, e>> : e \in es}
  <2>1. ss \in SUBSET CpuSlots /\ ss \subseteq Slots /\ ss \cap ProcSlots = {} /\ ss \cap L3Slots = {}
    BY SlotKinds
  <2>2. \A s \in ss : counter[s].fd = NoFd
    BY <1>1 DEF SetUpInOrder
  <2>3. \A d \in remaining \ {c}, e \in CpuEvents : <<"cpu", d, e>> \notin ss
    OBVIOUS
  <2>4. /\ DOMAIN files' = DOMAIN files \cup {Fd(s) : s \in ss}
        /\ files' \in [DOMAIN files' -> Files]
        /\ \A f \in DOMAIN files : files'[f].count = files[f].count
    BY <1>7, <2>1, OpenedFiles
  <2>5. dropped' = dropped \cup {Fd(s) : s \in ss \ ss} /\ total' = total /\ totals' = totals
    BY <1>1, <1>7
  <2>6. counter' = SlotsOpened(ss)
    BY <1>7
  <2> HIDE DEF ss
  <2>7. /\ RoundsAreOver' /\ ReadingsAreCounts' /\ FdsAreHeld' /\ TotalsAreOwn'
        /\ DOMAIN files' \subseteq Fds
        /\ counter' \in [Slots -> [fd : Fds \cup {NoFd}, last : Nat \cup {Never}, first : Nat \cup {Never}]]
        /\ \A s \in Slots : counter'[s].fd = IF s \in ss THEN Fd(s) ELSE counter[s].fd
        /\ \A s \in Slots : counter'[s].last = IF s \in ss THEN Never ELSE counter[s].last
    <3>1. ss \in SUBSET Slots /\ ss \in SUBSET ss /\ \A s \in ss \ ss : s \in L3Slots /\ s[3] = "miss"
      BY <2>1
    <3>2. QED
      BY <1>1, <2>2, <2>4, <2>5, <2>6, <3>1, CountersOpened
  <2>8. PmuTypeOK'
    BY <1>1, <1>4, <1>7, <2>4, <2>7 DEF PmuTypeOK, machineVars
  <2>9. SetUpInOrder'
    <3>1. \A s \in L3Slots \cup ProcSlots : s \in Slots /\ counter'[s].fd = counter[s].fd
      BY <2>1, <2>7, SlotKinds
    <3>2. Attached' = Attached
      BY <1>6, <3>1, SlotKinds DEF Attached
    <3>3. \A d \in remaining' : \A e \in CpuEvents : counter'[<<"cpu", d, e>>].fd = NoFd
      <4> SUFFICES ASSUME NEW d \in remaining', NEW e \in CpuEvents
                   PROVE  counter'[<<"cpu", d, e>>].fd = NoFd
        OBVIOUS
      <4>1. d \in remaining \ {c} /\ d \in PmuCpus
        BY <1>1, <1>7 DEF SetUpInOrder
      <4>2. <<"cpu", d, e>> \in Slots /\ <<"cpu", d, e>> \notin ss
        BY <2>3, <4>1, SlotKinds
      <4>3. QED
        BY <1>1, <2>7, <4>1, <4>2 DEF SetUpInOrder
    <3>4. \A s \in CpuSlots : counter'[s].last = Never
      BY <1>3, <2>7, SlotKinds
    <3>5. \A p \in PmuPids \ Attached' : \A e \in ProcEvents : counter'[<<"proc", p, e>>].fd = NoFd
      BY <3>1, <3>2, SlotKinds DEF SetUpInOrder
    <3>6. \A s \in L3Slots : counter'[s].fd = NoFd
      BY <1>1, <3>1 DEF SetUpInOrder
    <3>7. pmuAt' = "open" /\ initialized' /\ ~available' /\ remaining' \subseteq PmuCpus
      BY <1>1, <1>7 DEF SetUpInOrder
    <3>8. QED
      BY <3>3, <3>4, <3>5, <3>6, <3>7 DEF SetUpInOrder
  <2>10. QED
    BY <2>7, <2>8, <2>9
<1>8. CASE /\ files' = FilesClosed(Slots) /\ counter' = SlotsClosed(Slots) /\ total' = TotalsCleared(ProcSlots)
           /\ remaining' = {} /\ pmuAt' = "processes"
  <2>1. /\ Slots \in SUBSET Slots /\ ProcSlots = Slots \cap ProcSlots
        /\ \A s \in Slots \cap CpuSlots : counter[s].last = Never
        /\ totals' = totals /\ dropped' = dropped /\ opens' \in {opens, opens + 1}
    BY <1>1, <1>3, SlotKinds
  <2>2. /\ RoundsAreOver' /\ ReadingsAreCounts' /\ FdsAreHeld' /\ TotalsAreOwn'
        /\ files' \in [DOMAIN files' -> Files] /\ DOMAIN files' \subseteq Fds
        /\ counter' \in [Slots -> [fd : Fds \cup {NoFd}, last : Nat \cup {Never}, first : Nat \cup {Never}]]
        /\ total' \in [Slots -> Nat]
        /\ \A s \in Slots : counter'[s] = IF s \in Slots THEN NoCounter ELSE counter[s]
    BY <1>8, <2>1, CountersClosed
  <2>3. PmuTypeOK'
    BY <1>1, <1>4, <1>8, <2>2 DEF PmuTypeOK, machineVars
  <2>4. \A s \in Slots : counter'[s].fd = NoFd /\ counter'[s].last = Never
    BY <2>2 DEF NoCounter
  <2>5. SetUpInOrder'
    <3>1. \A s \in CpuSlots \cup L3Slots : counter'[s].fd = NoFd
      BY <2>4, SlotKinds
    <3>2. \A s \in CpuSlots : counter'[s].last = Never
      BY <2>4, SlotKinds
    <3>3. \A p \in PmuPids : \A e \in ProcEvents : counter'[<<"proc", p, e>>].fd = NoFd
      BY <1>5, <2>4
    <3>4. initialized' /\ ~available' /\ pmuAt' = "processes"
      BY <1>1, <1>8 DEF SetUpInOrder
    <3>5. QED
      BY <3>1, <3>2, <3>3, <3>4 DEF SetUpInOrder
  <2>6. QED
    BY <2>2, <2>3, <2>5
<1>9. QED
  BY <1>2, <1>7, <1>8

LEMMA OpenL3Step == PmuInv /\ OpenL3 => PmuInv'
<1> SUFFICES ASSUME PmuInv, OpenL3 PROVE PmuInv'
  OBVIOUS
<1> USE DEF PmuInv
<1>1. /\ pmuAt = "open" /\ remaining = {} /\ opens' = opens + 1 /\ available' = TRUE /\ pmuAt' = "processes"
      /\ UNCHANGED <<asked, machineVars, remaining, initialized, procAvailable, total, totals, reads>>
  BY DEF OpenL3
<1>2. PICK ss \in SUBSET L3Slots, kept \in SUBSET L3Slots :
        /\ kept = {s \in ss : <<"l3", s[2], "access">> \in ss}
        /\ failures' \in {failures, failures + 1}
        /\ counter' = SlotsOpened(kept)
        /\ dropped' = dropped \cup {Fd(s) : s \in ss \ kept}
        /\ files' = [f \in DOMAIN FilesOpened(ss, FALSE) |->
                       [holder |-> FilesOpened(ss, FALSE)[f].holder,
                        on |-> FilesOpened(ss, FALSE)[f].on \/ f \notin dropped',
                        count |-> FilesOpened(ss, FALSE)[f].count]]
  BY DEF OpenL3, PmuCallsFail
<1>3. /\ ss \in SUBSET Slots /\ kept \in SUBSET ss /\ kept \subseteq Slots
      /\ kept \cap CpuSlots = {} /\ kept \cap ProcSlots = {}
  BY <1>2, SlotKinds
<1>4. \A s \in kept : counter[s].fd = NoFd
  BY <1>1, <1>2 DEF SetUpInOrder
<1>5. ASSUME NEW s \in ss \ kept PROVE s \in L3Slots /\ s[3] = "miss"
  <2>1. PICK d \in Domains, e \in {"access", "miss"} : s = <<"l3", d, e>>
    BY DEF L3Slots
  <2>2. e # "access"
    BY <1>2, <2>1
  <2>3. QED
    BY <2>1, <2>2
<1>6. /\ DOMAIN files' = DOMAIN files \cup {Fd(s) : s \in ss}
      /\ files' \in [DOMAIN files' -> Files]
      /\ \A f \in DOMAIN files : files'[f].count = files[f].count
  <2> DEFINE fs == FilesOpened(ss, FALSE)
  <2>1. /\ DOMAIN fs = DOMAIN files \cup {Fd(s) : s \in ss}
        /\ fs \in [DOMAIN fs -> Files]
        /\ \A f \in DOMAIN files : fs[f] = files[f]
    BY <1>3, OpenedFiles
  <2>2. files' = [f \in DOMAIN fs |->
                    [holder |-> fs[f].holder, on |-> fs[f].on \/ f \notin dropped', count |-> fs[f].count]]
    BY <1>2
  <2> HIDE DEF fs
  <2>3. DOMAIN files' = DOMAIN fs
    BY <2>2
  <2>4. \A f \in DOMAIN fs : fs[f].holder \in Nat /\ fs[f].count \in Nat
    BY <2>1 DEF Files
  <2>5. ASSUME NEW f \in DOMAIN fs PROVE files'[f] \in Files /\ files'[f].count = fs[f].count
    <3>1. PICK b \in BOOLEAN : files'[f] = [holder |-> fs[f].holder, on |-> b, count |-> fs[f].count]
      <4> DEFINE b == fs[f].on \/ f \notin dropped'
      <4>1. b \in BOOLEAN
        OBVIOUS
      <4>2. files'[f] = [holder |-> fs[f].holder, on |-> b, count |-> fs[f].count]
        BY <2>2
      <4>3. QED
        BY <4>1, <4>2
    <3>2. QED
      BY <2>4, <3>1 DEF Files
  <2>6. files' = [f \in DOMAIN files' |-> files'[f]]
    BY <2>2
  <2>7. QED
    BY <2>1, <2>3, <2>5, <2>6
<1>7. /\ RoundsAreOver' /\ ReadingsAreCounts' /\ FdsAreHeld' /\ TotalsAreOwn'
      /\ DOMAIN files' \subseteq Fds
      /\ counter' \in [Slots -> [fd : Fds \cup {NoFd}, last : Nat \cup {Never}, first : Nat \cup {Never}]]
      /\ \A s \in Slots : counter'[s].fd = IF s \in kept THEN Fd(s) ELSE counter[s].fd
      /\ \A s \in Slots : counter'[s].last = IF s \in kept THEN Never ELSE counter[s].last
  <2>1. total' = total /\ totals' = totals
    BY <1>1
  <2>2. counter' = SlotsOpened(kept) /\ dropped' = dropped \cup {Fd(s) : s \in ss \ kept} /\ opens' = opens + 1
    BY <1>1, <1>2
  <2>3. \A s \in ss \ kept : s \in L3Slots /\ s[3] = "miss"
    BY <1>5
  <2>4. ss \in SUBSET Slots /\ kept \in SUBSET ss
    BY <1>3
  <2>5. QED
    BY <1>4, <1>6, <2>1, <2>2, <2>3, <2>4, CountersOpened
<1>8. PmuTypeOK'
  <2>1. failures' \in Nat /\ opens' \in Nat
    BY <1>1, <1>2 DEF PmuTypeOK
  <2>2. QED
    BY <1>1, <1>6, <1>7, <2>1 DEF PmuTypeOK, machineVars
<1>9. SetUpInOrder'
  <2>1. \A s \in ProcSlots : counter'[s].fd = counter[s].fd
    BY <1>3, <1>7, SlotKinds
  <2>2. Attached' = Attached
    BY <2>1, SlotKinds DEF Attached, ProcEvents
  <2>3. \A p \in PmuPids \ Attached' : \A e \in ProcEvents : counter'[<<"proc", p, e>>].fd = NoFd
    BY <2>1, <2>2, SlotKinds DEF SetUpInOrder
  <2>4. QED
    BY <1>1, <2>3 DEF SetUpInOrder
<1>10. QED
  BY <1>7, <1>8, <1>9

LEMMA ReadProcessesStep == PmuInv /\ ReadProcesses => PmuInv'
<1> SUFFICES ASSUME PmuInv, ReadProcesses PROVE PmuInv'
  OBVIOUS
<1> USE DEF PmuInv
<1>1. /\ pmuAt = "processes" /\ reads' = reads + 1 /\ pmuAt' = IF available THEN "cpus" ELSE "idle"
      /\ UNCHANGED <<asked, machineVars, files, opens, remaining, initialized, available, procAvailable,
                     totals, dropped>>
  BY DEF ReadProcesses
<1>2. PICK bad \in FailingReads(ProcSlots) :
        /\ failures' \in {failures, failures + 1}
        /\ \/ /\ counter' = AfterReads(ProcSlots, bad)
              /\ total' = [s \in Slots |-> IF s \in ProcSlots THEN total[s] + DeltaOf(s, bad) ELSE total[s]]
           \/ counter' = counter /\ total' = total
  BY DEF ReadProcesses, PmuCallsFail
<1>3. PICK ss \in {ProcSlots, {}} :
        /\ counter' = AfterReads(ss, bad)
        /\ total' = [s \in Slots |-> IF s \in ss THEN total[s] + DeltaOf(s, bad) ELSE total[s]]
  <2>1. counter' = counter => counter' = AfterReads({}, bad)
    BY DEF AfterReads, PmuTypeOK
  <2>2. total' = total => total' = [s \in Slots |-> IF s \in {} THEN total[s] + DeltaOf(s, bad) ELSE total[s]]
    BY DEF PmuTypeOK
  <2>3. QED
    BY <1>2, <2>1, <2>2
<1>4. ss \in SUBSET Slots /\ ss \cap CpuSlots = {} /\ ss \cap L3Slots = {}
  BY SlotKinds
<1>5. /\ RoundsAreOver' /\ ReadingsAreCounts' /\ FdsAreHeld'
      /\ counter' \in [Slots -> [fd : Fds \cup {NoFd}, last : Nat \cup {Never}, first : Nat \cup {Never}]]
      /\ \A s \in Slots : counter'[s].fd = counter[s].fd /\ (s \notin ss => counter'[s] = counter[s])
      /\ \A s \in Slots : DeltaOf(s, bad) \in Nat
      /\ \A s \in Slots : Since(s)' = IF s \in ss THEN Since(s) + DeltaOf(s, bad) ELSE Since(s)
      /\ \A s \in Slots : counter[s].fd # NoFd => Since(s)' <= files[counter[s].fd].count
  BY <1>1, <1>3, <1>4, CountersRead
<1>6. total' \in [Slots -> Nat]
  BY <1>3, <1>5 DEF PmuTypeOK
<1>7. PmuTypeOK'
  <2>1. failures' \in Nat /\ reads' \in Nat
    BY <1>1, <1>2 DEF PmuTypeOK
  <2>2. QED
    BY <1>1, <1>5, <1>6, <2>1 DEF PmuTypeOK, machineVars
<1>8. TotalsAreOwn'
  <2>1. ASSUME NEW s \in ProcSlots
        PROVE  /\ total'[s] = Since(s)'
               /\ counter'[s].fd # NoFd => total'[s] <= files'[counter'[s].fd].count
    <3>1. s \in Slots /\ total[s] = Since(s)
      BY SlotKinds DEF TotalsAreOwn
    <3>2. total'[s] = Since(s)'
      BY <1>3, <1>5, <3>1
    <3>3. QED
      BY <1>1, <1>5, <3>1, <3>2
  <2>2. \A s \in CpuSlots : Since(s)' = Since(s)
    BY <1>4, <1>5, SlotKinds
  <2>3. totals' = totals
    BY <1>1
  <2>4. QED
    BY <2>1, <2>2, <2>3, TotalsStay DEF TotalsAreOwn
<1>9. SetUpInOrder'
  <2>1. \A s \in Slots : counter'[s].fd = counter[s].fd
    BY <1>5
  <2>2. Attached' = Attached
    BY <2>1, SlotKinds DEF Attached, ProcEvents
  <2>3. \A p \in PmuPids \ Attached' : \A e \in ProcEvents : counter'[<<"proc", p, e>>].fd = NoFd
    BY <2>1, <2>2, SlotKinds DEF SetUpInOrder
  <2>4. ~initialized' => ~available' /\ \A s \in CpuSlots \cup L3Slots : counter'[s].fd = NoFd
    BY <1>1, <2>1, SlotKinds DEF SetUpInOrder
  <2>5. ~available' => \A s \in CpuSlots : counter'[s].last = Never
    BY <1>1, <1>4, <1>5, SlotKinds DEF SetUpInOrder
  <2>6. QED
    BY <1>1, <2>3, <2>4, <2>5 DEF SetUpInOrder
<1>10. QED
  BY <1>5, <1>7, <1>8, <1>9

LEMMA ReadCpusStep == PmuInv /\ ReadCpus => PmuInv'
<1> SUFFICES ASSUME PmuInv, ReadCpus PROVE PmuInv'
  OBVIOUS
<1> USE DEF PmuInv
<1> DEFINE ss == CpuSlots \cup L3Slots
<1>1. /\ pmuAt = "cpus" /\ pmuAt' = "idle"
      /\ UNCHANGED <<asked, machineVars, files, opens, remaining, initialized, available, procAvailable,
                     total, dropped, reads>>
  BY DEF ReadCpus
<1>2. PICK bad \in FailingReads(ss) :
        /\ failures' \in {failures, failures + 1}
        /\ counter' = AfterReads(ss, bad)
        /\ totals' = [e \in CpuEvents |->
                        totals[e] + SumFunction([c \in PmuCpus |-> DeltaOf(<<"cpu", c, e>>, bad)])]
  BY DEF ReadCpus, PmuCallsFail
<1>3. ss \in SUBSET Slots /\ ss \cap ProcSlots = {} /\ CpuSlots \subseteq ss
  BY SlotKinds
<1> HIDE DEF ss
<1>4. /\ RoundsAreOver' /\ ReadingsAreCounts' /\ FdsAreHeld'
      /\ counter' \in [Slots -> [fd : Fds \cup {NoFd}, last : Nat \cup {Never}, first : Nat \cup {Never}]]
      /\ \A s \in Slots : counter'[s].fd = counter[s].fd /\ (s \notin ss => counter'[s] = counter[s])
      /\ \A s \in Slots : DeltaOf(s, bad) \in Nat
      /\ \A s \in Slots : Since(s)' = IF s \in ss THEN Since(s) + DeltaOf(s, bad) ELSE Since(s)
      /\ \A s \in Slots : counter[s].fd # NoFd => Since(s)' <= files[counter[s].fd].count
  BY <1>1, <1>2, <1>3, CountersRead
<1>5. ASSUME NEW e \in CpuEvents
      PROVE  totals'[e] \in Nat /\ totals'[e] = SumFunction([c \in PmuCpus |-> Since(<<"cpu", c, e>>)'])
  <2> DEFINE sofar == [c \in PmuCpus |-> Since(<<"cpu", c, e>>)]
             more == [c \in PmuCpus |-> DeltaOf(<<"cpu", c, e>>, bad)]
             then == [c \in PmuCpus |-> Since(<<"cpu", c, e>>)']
  <2>1. ASSUME NEW c \in PmuCpus
        PROVE  sofar[c] \in Nat /\ more[c] \in Nat /\ then[c] = sofar[c] + more[c]
    <3>1. <<"cpu", c, e>> \in Slots /\ <<"cpu", c, e>> \in ss
      BY <1>3, SlotKinds
    <3>2. Since(<<"cpu", c, e>>) \in Nat
      BY <3>1, SinceIsNat
    <3>3. QED
      BY <1>4, <3>1, <3>2
  <2>2. IsFiniteSet(PmuCpus) /\ DOMAIN sofar = PmuCpus /\ DOMAIN more = PmuCpus /\ DOMAIN then = PmuCpus
    BY PmuAssumption
  <2>3. totals[e] = SumFunction(sofar) /\ totals[e] \in Nat
    BY DEF TotalsAreOwn, PmuTypeOK
  <2>4. totals'[e] = totals[e] + SumFunction(more)
    BY <1>2
  <2> HIDE DEF sofar, more, then
  <2>5. SumFunctionOnSet(then, PmuCpus) = SumFunctionOnSet(sofar, PmuCpus) + SumFunctionOnSet(more, PmuCpus)
    BY <2>1, <2>2, SumAdds
  <2>6. SumFunctionOnSet(more, PmuCpus) \in Nat
    BY <2>1, <2>2, SumIsNat
  <2>7. totals'[e] \in Nat /\ totals'[e] = SumFunction(then)
    BY <2>2, <2>3, <2>4, <2>5, <2>6 DEF SumFunction
  <2>8. QED
    BY <2>7 DEF then
<1>6. totals' \in [CpuEvents -> Nat]
  BY <1>2, <1>5
<1>7. PmuTypeOK'
  <2>1. failures' \in Nat
    BY <1>2 DEF PmuTypeOK
  <2>2. QED
    BY <1>1, <1>4, <1>6, <2>1 DEF PmuTypeOK, machineVars
<1>8. TotalsAreOwn'
  <2>1. \A s \in ProcSlots : s \in Slots /\ Since(s)' = Since(s) /\ counter'[s] = counter[s]
    BY <1>3, <1>4, SlotKinds
  <2>2. \A s \in ProcSlots : total'[s] = Since(s)' /\
          (counter'[s].fd # NoFd => total'[s] <= files'[counter'[s].fd].count)
    BY <1>1, <2>1 DEF TotalsAreOwn
  <2>3. QED
    BY <1>5, <2>2 DEF TotalsAreOwn
<1>9. SetUpInOrder'
  <2>1. \A s \in Slots : counter'[s].fd = counter[s].fd
    BY <1>4
  <2>2. Attached' = Attached
    BY <2>1, SlotKinds DEF Attached, ProcEvents
  <2>3. \A p \in PmuPids \ Attached' : \A e \in ProcEvents : counter'[<<"proc", p, e>>].fd = NoFd
    BY <2>1, <2>2, SlotKinds DEF SetUpInOrder
  <2>4. available' /\ initialized'
    BY <1>1 DEF SetUpInOrder
  <2>5. QED
    BY <1>1, <2>3, <2>4 DEF SetUpInOrder
<1>10. QED
  BY <1>4, <1>7, <1>8, <1>9

LEMMA PmuInvStep == PmuInv /\ [PmuNext]_pmuVars => PmuInv'
<1> SUFFICES ASSUME PmuInv, [PmuNext]_pmuVars PROVE PmuInv'
  OBVIOUS
<1>1. CASE UNCHANGED pmuVars
  <2>1. UNCHANGED <<HeldFds, Attached>> /\ \A s : Since(s)' = Since(s)
    BY <1>1 DEF pmuVars, HeldFds, Attached, Since
  <2>2. TotalsAreOwn'
    <3>1. TotalsAreOwn /\ totals' = totals /\ total' = total /\ counter' = counter /\ files' = files
      BY <1>1 DEF pmuVars, PmuInv
    <3>2. \A s \in CpuSlots : Since(s)' = Since(s)
      BY <2>1
    <3>3. QED
      BY <2>1, <3>1, <3>2, TotalsStay DEF TotalsAreOwn
  <2>3. QED
    BY <1>1, <2>1, <2>2 DEF pmuVars, PmuInv, PmuTypeOK, RoundsAreOver, ReadingsAreCounts, SetUpInOrder, FdsAreHeld
<1>2. CASE \E p \in PmuPids : ProcessStarts(p) \/ ProcessEnds(p)
  <2>1. PICK p \in PmuPids, c \in PmuCpus : ProcessStarts(p) \/ ProcessEnds(p)
    BY <1>2, PmuAssumption
  <2>2. FirstEvent \in CpuEvents \cup ProcEvents
    BY DEF ProcEvents
  <2>3. QED
    BY <2>1, <2>2, MachineStep
<1>3. CASE ListProcesses \/ PmuOver
  <2>1. CASE ListProcesses
    <3>1. PICK c \in PmuCpus : TRUE
      BY PmuAssumption
    <3>2. FirstEvent \in CpuEvents \cup ProcEvents
      BY DEF ProcEvents
    <3>3. CASE PmuPids = {}
      <4>1. listed' = {} /\ listed = {}
        BY <2>1, <3>3 DEF ListProcesses, PmuInv, PmuTypeOK
      <4>2. UNCHANGED pmuVars
        BY <2>1, <4>1 DEF ListProcesses, pmuVars
      <4>3. QED
        BY <1>1, <4>2
    <3>4. CASE PmuPids # {}
      BY <2>1, <3>1, <3>2, <3>4, MachineStep
    <3>5. QED
      BY <3>3, <3>4
  <2>2. QED
    BY <1>1, <1>3, <2>1 DEF PmuOver
<1>4. CASE \E p \in PmuPids, c \in PmuCpus, e \in CpuEvents \cup ProcEvents : PmuEvent(p, c, e)
  BY <1>4, MachineStep
<1>5. CASE \E p \in PmuPids : Attach(p)
  BY <1>5, AttachStep
<1>6. CASE \E c \in PmuCpus : OpenCpu(c)
  BY <1>6, OpenCpuStep
<1>7. CASE BeginTurn \/ BeginSample \/ OpenL3 \/ ReadProcesses \/ ReadCpus
  BY <1>7, BeginTurnStep, BeginSampleStep, OpenL3Step, ReadProcessesStep, ReadCpusStep
<1>8. QED
  BY <1>1, <1>2, <1>3, <1>4, <1>5, <1>6, <1>7 DEF PmuNext

\* PmuCollector: whichever opens and reads fail, every open counter is held by
\* the slot it was opened for, and every total is the sum of what its own
\* counters counted from their first readings on.
THEOREM PmuOwn == PmuSpec => []PmuIsOwn
<1>1. PmuInv => PmuIsOwn
  BY DEF PmuInv, PmuIsOwn
<1>2. QED
  BY <1>1, PmuInitStep, PmuInvStep, PTL DEF PmuSpec
=============================================================================
