------------------------- MODULE DoubleBufferProofs -------------------------
(***************************************************************************)
(* Proofs about DoubleBuffer, for any number of readers, members, values   *)
(* and publishes.                                                          *)
(***************************************************************************)
EXTENDS DoubleBuffer, TLAPS

USE DEF Buffers

\* What the zero-initialised Snapshot of either buffer is: a snapshot.
LEMMA EmptyType == Empty \in Snapshots
  BY BufferAssumption DEF Empty, Snapshots, Contents

\* Two snapshots with the same number and the same fields are the same.
LEMMA SnapshotEqual ==
  ASSUME NEW s \in Snapshots, NEW t \in Snapshots, s.seq = t.seq, s.data = t.data
  PROVE  s = t
<1>1. /\ s = [seq |-> s.seq, data |-> s.data]
      /\ t = [seq |-> t.seq, data |-> t.data]
  BY DEF Snapshots
<1>2. QED
  BY <1>1

\* A collector's write of one field leaves a snapshot a snapshot.
LEMMA SnapshotUpdate ==
  ASSUME NEW s \in Snapshots
  PROVE  /\ \A f \in Fields, v \in Values : [s EXCEPT !.data[f] = v] \in Snapshots
         /\ \A n \in Nat : [s EXCEPT !.seq = n] \in Snapshots
  BY DEF Snapshots, Contents

(***************************************************************************)
(* Every variable keeps its type: TypeOK is inductive on its own.          *)
(***************************************************************************)
THEOREM TypeCorrect == Spec => []TypeOK
<1>1. Init => TypeOK
  <2> SUFFICES ASSUME Init PROVE TypeOK
    OBVIOUS
  <2>1. Empty \in Snapshots
    BY EmptyType
  <2>2. buf \in [Buffers -> Snapshots]
    BY <2>1 DEF Init
  <2>3. rcopy \in [Readers -> Snapshots] /\ held \in [Readers -> Snapshots]
    BY <2>1 DEF Init
  <2>4. writeLocked \in BOOLEAN /\ excl \in [Buffers -> BOOLEAN]
    BY DEF Init
  <2>5. QED
    BY <2>2, <2>3, <2>4 DEF Init, TypeOK
<1>2. TypeOK /\ [Next]_vars => TypeOK'
  <2> SUFFICES ASSUME TypeOK, [Next]_vars PROVE TypeOK'
    OBVIOUS
  <2> USE DEF TypeOK, Snapshots, Contents
  <2>1. CASE BeginWrite
    <3>1. CASE writeLocked
      BY <2>1, <3>1 DEF BeginWrite, readerVars
    <3>2. CASE ~writeLocked
      <4>1. excl' = [excl EXCEPT ![back] = TRUE] /\ writeLocked' = TRUE
        BY <2>1, <3>2 DEF BeginWrite
      <4>2. excl' \in [Buffers -> BOOLEAN]
        BY <4>1
      <4>3. QED
        BY <2>1, <4>1, <4>2 DEF BeginWrite, readerVars
    <3>3. QED
      BY <3>1, <3>2
  <2>2. ASSUME NEW f \in Fields, NEW v \in Values, Fill(f, v) PROVE TypeOK'
    <3>1. buf[back] \in Snapshots
      OBVIOUS
    <3>2. [buf[back] EXCEPT !.data[f] = v] \in Snapshots
      BY <3>1, <2>2, SnapshotUpdate
    <3>3. buf' = [buf EXCEPT ![back] = [buf[back] EXCEPT !.data[f] = v]]
      BY <2>2 DEF Fill
    <3>4. buf' \in [Buffers -> Snapshots]
      BY <3>2, <3>3
    <3>5. QED
      BY <2>2, <3>4 DEF Fill, writerVars, lockVars, readerVars
  <2>3. CASE EndPass
    BY <2>3 DEF EndPass, lockVars, readerVars
  <2>4. CASE PublishStamp
    <3>1. buf[back] \in Snapshots
      OBVIOUS
    <3>2. [buf[back] EXCEPT !.seq = seq + 1] \in Snapshots
      BY <3>1, SnapshotUpdate, seq + 1 \in Nat
    <3>3. buf' = [buf EXCEPT ![back] = [buf[back] EXCEPT !.seq = seq + 1]]
      BY <2>4 DEF PublishStamp
    <3>4. buf' \in [Buffers -> Snapshots]
      BY <3>2, <3>3
    <3>5. QED
      BY <2>4, <3>4 DEF PublishStamp, lockVars, readerVars
  <2>5. CASE PublishSwap
    BY <2>5 DEF PublishSwap, lockVars, readerVars
  <2>6. CASE PublishNumber
    BY <2>6 DEF PublishNumber, lockVars, readerVars
  <2>7. CASE PublishUnlock
    BY <2>7 DEF PublishUnlock, readerVars
  <2>8. CASE PublishRetarget
    BY <2>8 DEF PublishRetarget, lockVars, readerVars
  <2>9. CASE StopWriter
    BY <2>9 DEF StopWriter, lockVars, readerVars
  <2>10. ASSUME NEW r \in Readers, LoadSeq(r) PROVE TypeOK'
    BY <2>10 DEF LoadSeq, writerVars, lockVars
  <2>11. ASSUME NEW r \in Readers, LoadFront(r) PROVE TypeOK'
    BY <2>11 DEF LoadFront, writerVars, lockVars
  <2>12. ASSUME NEW r \in Readers, LockShared(r) PROVE TypeOK'
    BY <2>12 DEF LockShared, writerVars
  <2>13. ASSUME NEW r \in Readers, CheckRetry(r) PROVE TypeOK'
    BY <2>13 DEF CheckRetry, writerVars
  <2>14. ASSUME NEW r \in Readers, CheckLive(r) PROVE TypeOK'
    BY <2>14, ZenonT(30) DEF CheckLive, writerVars, lockVars
  <2>15. ASSUME NEW r \in Readers, NEW f \in Fields, CopyField(r, f) PROVE TypeOK'
    <3>1. rptr[r] \in Buffers /\ buf[rptr[r]].data[f] \in Values
      BY <2>15
    <3>2. [rcopy[r] EXCEPT !.data[f] = buf[rptr[r]].data[f]] \in Snapshots
      BY <3>1, <2>15, SnapshotUpdate
    <3>3. rcopy' = [rcopy EXCEPT ![r] = [rcopy[r] EXCEPT !.data[f] = buf[rptr[r]].data[f]]]
      BY <2>15 DEF CopyField
    <3>4. rcopy' \in [Readers -> Snapshots]
      BY <3>2, <3>3
    <3>5. QED
      BY <2>15, <3>4 DEF CopyField, writerVars, lockVars
  <2>16. ASSUME NEW r \in Readers, Return(r) PROVE TypeOK'
    BY <2>16 DEF Return, writerVars
  <2>17. ASSUME NEW r \in Readers, StopReader(r) PROVE TypeOK'
    BY <2>17 DEF StopReader, writerVars, lockVars
  <2>18. CASE UNCHANGED vars
    BY <2>18 DEF vars, writerVars, lockVars, readerVars
  <2>19. QED
    BY <2>1, <2>2, <2>3, <2>4, <2>5, <2>6, <2>7, <2>8, <2>9, <2>10, <2>11,
       <2>12, <2>13, <2>14, <2>15, <2>16, <2>17, <2>18
       DEF Next, WriterStep, ReaderStep, ReadStep
<1>3. QED
  BY <1>1, <1>2, PTL DEF Spec

(***************************************************************************)
(* Locks, pointers and numbers: BufferInv is inductive relative to TypeOK. *)
(***************************************************************************)
LEMMA BufferInvInit == Init => BufferInv
  BY DEF Init, BufferInv, LockOwnership, WriterPhase, Numbering, ReaderProgress,
         CopyIsOneSnapshot, Empty

\* The reuse window: nobody copies the buffer the writer has locked.
LEMMA NoCopierOnBack ==
  ASSUME TypeOK, LockOwnership, WriterPhase, wpc \in {"fill", "swap"}
  PROVE  \A r \in Readers : rpc[r] \in {"check", "copy"} => rptr[r] # back
  BY DEF TypeOK, LockOwnership, WriterPhase

\* Every step of begin_write(), the collectors, publish() and read() keeps
\* the locks, the pointers and the numbers consistent.
LEMMA BufferInvStep == TypeOK /\ BufferInv /\ [Next]_vars => BufferInv'
<1> SUFFICES ASSUME TypeOK, BufferInv, [Next]_vars PROVE BufferInv'
  OBVIOUS
<1> USE DEF TypeOK, BufferInv
<1>1. CASE BeginWrite
  <2>1. LockOwnership'
    BY <1>1 DEF BeginWrite, writerVars, lockVars, readerVars, LockOwnership
  <2>2. WriterPhase'
    BY <1>1 DEF BeginWrite, writerVars, lockVars, readerVars, WriterPhase
  <2>3. Numbering'
    BY <1>1 DEF BeginWrite, writerVars, lockVars, readerVars, Numbering
  <2>4. ReaderProgress'
    BY <1>1 DEF BeginWrite, writerVars, lockVars, readerVars, ReaderProgress
  <2>5. CopyIsOneSnapshot'
    BY <1>1 DEF BeginWrite, writerVars, lockVars, readerVars, CopyIsOneSnapshot
  <2>6. QED
    BY <2>1, <2>2, <2>3, <2>4, <2>5
<1>2. ASSUME NEW f \in Fields, NEW v \in Values, Fill(f, v) PROVE BufferInv'
  <2>1. LockOwnership'
    BY <1>2 DEF Fill, writerVars, lockVars, readerVars, LockOwnership
  <2>2. WriterPhase'
    BY <1>2 DEF Fill, writerVars, lockVars, readerVars, WriterPhase
  <2>3. Numbering'
    BY <1>2 DEF Fill, writerVars, lockVars, readerVars, Numbering
  <2>4. ReaderProgress'
    BY <1>2 DEF Fill, writerVars, lockVars, readerVars, ReaderProgress
  <2>5. CopyIsOneSnapshot'
    <3>1. wpc = "fill" /\ \A q \in Readers : rpc[q] = "copy" => rptr[q] # back
      BY <1>2, NoCopierOnBack DEF Fill
    <3>2. \A b \in Buffers : b # back => buf'[b] = buf[b]
      BY <1>2 DEF Fill
    <3>3. UNCHANGED readerVars
      BY <1>2 DEF Fill
    <3>4. QED
      BY <3>1, <3>2, <3>3 DEF readerVars, CopyIsOneSnapshot
  <2>6. QED
    BY <2>1, <2>2, <2>3, <2>4, <2>5
<1>3. CASE EndPass
  <2>1. LockOwnership'
    BY <1>3 DEF EndPass, writerVars, lockVars, readerVars, LockOwnership
  <2>2. WriterPhase'
    BY <1>3 DEF EndPass, writerVars, lockVars, readerVars, WriterPhase
  <2>3. Numbering'
    BY <1>3 DEF EndPass, writerVars, lockVars, readerVars, Numbering
  <2>4. ReaderProgress'
    BY <1>3 DEF EndPass, writerVars, lockVars, readerVars, ReaderProgress
  <2>5. CopyIsOneSnapshot'
    BY <1>3 DEF EndPass, writerVars, lockVars, readerVars, CopyIsOneSnapshot
  <2>6. QED
    BY <2>1, <2>2, <2>3, <2>4, <2>5
<1>4. CASE PublishStamp
  <2>1. LockOwnership'
    BY <1>4 DEF PublishStamp, writerVars, lockVars, readerVars, LockOwnership
  <2>2. WriterPhase'
    BY <1>4 DEF PublishStamp, writerVars, lockVars, readerVars, WriterPhase
  <2>a. wpc = "fill" /\ \A q \in Readers : rpc[q] = "copy" => rptr[q] # back
    BY <1>4, NoCopierOnBack DEF PublishStamp
  <2>b. /\ \A b \in Buffers : b # back => buf'[b] = buf[b]
        /\ buf'[back].seq = seq + 1
    BY <1>4, SnapshotUpdate DEF PublishStamp, Snapshots
  <2>c. front # back
    BY <2>a DEF WriterPhase
  <2>3. Numbering'
    BY <1>4, <2>a, <2>b, <2>c DEF PublishStamp, Numbering
  <2>4. ReaderProgress'
    BY <1>4, <2>a, <2>b, <2>c DEF PublishStamp, readerVars, ReaderProgress
  <2>5. CopyIsOneSnapshot'
    BY <1>4, <2>a, <2>b DEF PublishStamp, readerVars, CopyIsOneSnapshot
  <2>6. QED
    BY <2>1, <2>2, <2>3, <2>4, <2>5
<1>5. CASE PublishSwap
  <2>1. LockOwnership'
    BY <1>5 DEF PublishSwap, writerVars, lockVars, readerVars, LockOwnership
  <2>2. WriterPhase'
    BY <1>5 DEF PublishSwap, writerVars, lockVars, readerVars, WriterPhase
  <2>3. Numbering'
    BY <1>5 DEF PublishSwap, writerVars, lockVars, readerVars, Numbering
  <2>4. ReaderProgress'
    <3>1. buf[back].seq = seq + 1 /\ buf[front].seq = seq
      BY <1>5 DEF PublishSwap, Numbering
    <3>2. \A r \in Readers : held[r].seq \in Nat
      BY DEF Snapshots
    <3>3. QED
      BY <1>5, <3>1, <3>2 DEF PublishSwap, readerVars, ReaderProgress
  <2>5. CopyIsOneSnapshot'
    BY <1>5 DEF PublishSwap, writerVars, lockVars, readerVars, CopyIsOneSnapshot
  <2>6. QED
    BY <2>1, <2>2, <2>3, <2>4, <2>5
<1>6. CASE PublishNumber
  <2>1. LockOwnership'
    BY <1>6 DEF PublishNumber, writerVars, lockVars, readerVars, LockOwnership
  <2>2. WriterPhase'
    BY <1>6 DEF PublishNumber, writerVars, lockVars, readerVars, WriterPhase
  <2>3. Numbering'
    <3>1. buf[oldFront].seq \in Nat
      BY DEF Snapshots
    <3>2. QED
      BY <1>6, <3>1 DEF PublishNumber, Numbering
  <2>4. ReaderProgress'
    BY <1>6 DEF PublishNumber, writerVars, lockVars, readerVars, ReaderProgress
  <2>5. CopyIsOneSnapshot'
    BY <1>6 DEF PublishNumber, writerVars, lockVars, readerVars, CopyIsOneSnapshot
  <2>6. QED
    BY <2>1, <2>2, <2>3, <2>4, <2>5
<1>7. CASE PublishUnlock
  <2>1. LockOwnership'
    BY <1>7 DEF PublishUnlock, writerVars, lockVars, readerVars, LockOwnership
  <2>2. WriterPhase'
    BY <1>7 DEF PublishUnlock, writerVars, lockVars, readerVars, WriterPhase
  <2>3. Numbering'
    BY <1>7 DEF PublishUnlock, writerVars, lockVars, readerVars, Numbering
  <2>4. ReaderProgress'
    BY <1>7 DEF PublishUnlock, writerVars, lockVars, readerVars, ReaderProgress
  <2>5. CopyIsOneSnapshot'
    BY <1>7 DEF PublishUnlock, writerVars, lockVars, readerVars, CopyIsOneSnapshot
  <2>6. QED
    BY <2>1, <2>2, <2>3, <2>4, <2>5
<1>8. CASE PublishRetarget
  <2>1. LockOwnership'
    BY <1>8 DEF PublishRetarget, lockVars, readerVars, LockOwnership, WriterPhase
  <2>2. WriterPhase'
    BY <1>8 DEF PublishRetarget, writerVars, lockVars, readerVars, WriterPhase
  <2>3. Numbering'
    BY <1>8 DEF PublishRetarget, writerVars, lockVars, readerVars, Numbering
  <2>4. ReaderProgress'
    BY <1>8 DEF PublishRetarget, writerVars, lockVars, readerVars, ReaderProgress
  <2>5. CopyIsOneSnapshot'
    BY <1>8 DEF PublishRetarget, writerVars, lockVars, readerVars, CopyIsOneSnapshot
  <2>6. QED
    BY <2>1, <2>2, <2>3, <2>4, <2>5
<1>9. CASE StopWriter
  <2>1. LockOwnership'
    BY <1>9 DEF StopWriter, writerVars, lockVars, readerVars, LockOwnership
  <2>2. WriterPhase'
    BY <1>9 DEF StopWriter, writerVars, lockVars, readerVars, WriterPhase
  <2>3. Numbering'
    BY <1>9 DEF StopWriter, writerVars, lockVars, readerVars, Numbering
  <2>4. ReaderProgress'
    BY <1>9 DEF StopWriter, writerVars, lockVars, readerVars, ReaderProgress
  <2>5. CopyIsOneSnapshot'
    BY <1>9 DEF StopWriter, writerVars, lockVars, readerVars, CopyIsOneSnapshot
  <2>6. QED
    BY <2>1, <2>2, <2>3, <2>4, <2>5
<1>10. ASSUME NEW r \in Readers, LoadSeq(r) PROVE BufferInv'
  <2>1. LockOwnership'
    BY <1>10 DEF LoadSeq, writerVars, lockVars, readerVars, LockOwnership
  <2>2. WriterPhase'
    BY <1>10 DEF LoadSeq, writerVars, lockVars, readerVars, WriterPhase
  <2>3. Numbering'
    BY <1>10 DEF LoadSeq, writerVars, lockVars, readerVars, Numbering
  <2>4. ReaderProgress'
    BY <1>10 DEF LoadSeq, writerVars, lockVars, readerVars, ReaderProgress
  <2>5. CopyIsOneSnapshot'
    BY <1>10 DEF LoadSeq, writerVars, lockVars, readerVars, CopyIsOneSnapshot
  <2>6. QED
    BY <2>1, <2>2, <2>3, <2>4, <2>5
<1>11. ASSUME NEW r \in Readers, LoadFront(r) PROVE BufferInv'
  <2>1. LockOwnership'
    BY <1>11 DEF LoadFront, writerVars, lockVars, readerVars, LockOwnership
  <2>2. WriterPhase'
    BY <1>11 DEF LoadFront, writerVars, lockVars, readerVars, WriterPhase
  <2>3. Numbering'
    BY <1>11 DEF LoadFront, writerVars, lockVars, readerVars, Numbering
  <2>4. ReaderProgress'
    BY <1>11 DEF LoadFront, writerVars, lockVars, readerVars, ReaderProgress
  <2>5. CopyIsOneSnapshot'
    BY <1>11 DEF LoadFront, writerVars, lockVars, readerVars, CopyIsOneSnapshot
  <2>6. QED
    BY <2>1, <2>2, <2>3, <2>4, <2>5
<1>12. ASSUME NEW r \in Readers, LockShared(r) PROVE BufferInv'
  <2>1. LockOwnership'
    BY <1>12 DEF LockShared, writerVars, lockVars, readerVars, LockOwnership
  <2>2. WriterPhase'
    BY <1>12 DEF LockShared, writerVars, lockVars, readerVars, WriterPhase
  <2>3. Numbering'
    BY <1>12 DEF LockShared, writerVars, lockVars, readerVars, Numbering
  <2>4. ReaderProgress'
    BY <1>12 DEF LockShared, writerVars, lockVars, readerVars, ReaderProgress
  <2>5. CopyIsOneSnapshot'
    BY <1>12 DEF LockShared, writerVars, lockVars, readerVars, CopyIsOneSnapshot
  <2>6. QED
    BY <2>1, <2>2, <2>3, <2>4, <2>5
<1>13. ASSUME NEW r \in Readers, CheckRetry(r) PROVE BufferInv'
  <2>1. LockOwnership'
    BY <1>13 DEF CheckRetry, writerVars, lockVars, readerVars, LockOwnership
  <2>2. WriterPhase'
    BY <1>13 DEF CheckRetry, writerVars, lockVars, readerVars, WriterPhase
  <2>3. Numbering'
    BY <1>13 DEF CheckRetry, writerVars, lockVars, readerVars, Numbering
  <2>4. ReaderProgress'
    BY <1>13 DEF CheckRetry, writerVars, lockVars, readerVars, ReaderProgress
  <2>5. CopyIsOneSnapshot'
    BY <1>13 DEF CheckRetry, writerVars, lockVars, readerVars, CopyIsOneSnapshot
  <2>6. QED
    BY <2>1, <2>2, <2>3, <2>4, <2>5
<1>14. ASSUME NEW r \in Readers, CheckLive(r) PROVE BufferInv'
  <2>1. LockOwnership'
    BY <1>14 DEF CheckLive, writerVars, lockVars, readerVars, LockOwnership
  <2>2. WriterPhase'
    BY <1>14 DEF CheckLive, writerVars, lockVars, readerVars, WriterPhase
  <2>3. Numbering'
    BY <1>14 DEF CheckLive, writerVars, lockVars, readerVars, Numbering
  <2>4. ReaderProgress'
    <3>1. rptr[r] = front /\ seq <= buf[front].seq
      BY <1>14 DEF CheckLive, Stale, Numbering
    <3>2. /\ seen[r] \in Nat /\ buf[front].seq \in Nat
          /\ seen[r] <= buf[front].seq
      BY <3>1 DEF ReaderProgress, Snapshots
    <3>3. QED
      BY <1>14, <3>1, <3>2 DEF CheckLive, writerVars, lockVars, ReaderProgress
  <2>5. CopyIsOneSnapshot'
    BY <1>14 DEF CheckLive, writerVars, lockVars, readerVars, CopyIsOneSnapshot
  <2>6. QED
    BY <2>1, <2>2, <2>3, <2>4, <2>5
<1>15. ASSUME NEW r \in Readers, NEW f \in Fields, CopyField(r, f) PROVE BufferInv'
  <2>1. LockOwnership'
    BY <1>15 DEF CopyField, writerVars, lockVars, readerVars, LockOwnership
  <2>2. WriterPhase'
    BY <1>15 DEF CopyField, writerVars, lockVars, readerVars, WriterPhase
  <2>3. Numbering'
    BY <1>15 DEF CopyField, writerVars, lockVars, readerVars, Numbering
  <2>4. ReaderProgress'
    BY <1>15 DEF CopyField, writerVars, lockVars, readerVars, ReaderProgress
  <2>5. CopyIsOneSnapshot'
    <3>1. /\ rcopy'[r].seq = rcopy[r].seq
          /\ rcopy'[r].data = [rcopy[r].data EXCEPT ![f] = buf[rptr[r]].data[f]]
          /\ \A q \in Readers : q # r => rcopy'[q] = rcopy[q] /\ copied'[q] = copied[q]
          /\ copied'[r] = copied[r] \cup {f}
      BY <1>15 DEF CopyField, Snapshots
    <3>2. \A g \in copied'[r] : rcopy'[r].data[g] = buf[rptr[r]].data[g]
      BY <1>15, <3>1 DEF CopyField, CopyIsOneSnapshot, Snapshots, Contents
    <3>3. UNCHANGED <<buf, rptr, rpc>>
      BY <1>15 DEF CopyField
    <3>4. QED
      BY <1>15, <3>1, <3>2, <3>3 DEF CopyField, CopyIsOneSnapshot
  <2>6. QED
    BY <2>1, <2>2, <2>3, <2>4, <2>5
<1>16. ASSUME NEW r \in Readers, Return(r) PROVE BufferInv'
  <2>1. LockOwnership'
    BY <1>16 DEF Return, writerVars, lockVars, readerVars, LockOwnership
  <2>2. WriterPhase'
    BY <1>16 DEF Return, writerVars, lockVars, readerVars, WriterPhase
  <2>3. Numbering'
    BY <1>16 DEF Return, writerVars, lockVars, readerVars, Numbering
  <2>4. ReaderProgress'
    <3>1. held'[r] = rcopy[r] /\ rcopy[r].seq = buf[rptr[r]].seq
      BY <1>16 DEF Return, CopyIsOneSnapshot
    <3>2. buf[rptr[r]].seq <= buf[front].seq
      <4>1. wpc = "swap" => rptr[r] # back
        BY <1>16, NoCopierOnBack DEF Return
      <4>2. rptr[r] \in Buffers /\ \A b \in Buffers : buf[b].seq \in Nat
        BY DEF Snapshots
      <4>3. QED
        BY <4>1, <4>2 DEF WriterPhase, Numbering
    <3>3. QED
      BY <1>16, <3>1, <3>2 DEF Return, writerVars, ReaderProgress
  <2>5. CopyIsOneSnapshot'
    BY <1>16 DEF Return, writerVars, lockVars, readerVars, CopyIsOneSnapshot
  <2>6. QED
    BY <2>1, <2>2, <2>3, <2>4, <2>5
<1>17. ASSUME NEW r \in Readers, StopReader(r) PROVE BufferInv'
  <2>1. LockOwnership'
    BY <1>17 DEF StopReader, writerVars, lockVars, readerVars, LockOwnership
  <2>2. WriterPhase'
    BY <1>17 DEF StopReader, writerVars, lockVars, readerVars, WriterPhase
  <2>3. Numbering'
    BY <1>17 DEF StopReader, writerVars, lockVars, readerVars, Numbering
  <2>4. ReaderProgress'
    BY <1>17 DEF StopReader, writerVars, lockVars, readerVars, ReaderProgress
  <2>5. CopyIsOneSnapshot'
    BY <1>17 DEF StopReader, writerVars, lockVars, readerVars, CopyIsOneSnapshot
  <2>6. QED
    BY <2>1, <2>2, <2>3, <2>4, <2>5
<1>18. CASE UNCHANGED vars
  BY <1>18 DEF vars, writerVars, lockVars, readerVars, LockOwnership, WriterPhase,
     Numbering, ReaderProgress, CopyIsOneSnapshot
<1>19. QED
  BY <1>1, <1>2, <1>3, <1>4, <1>5, <1>6, <1>7, <1>8, <1>9, <1>10, <1>11, <1>12, <1>13, <1>14, <1>15, <1>16, <1>17, <1>18
     DEF Next, WriterStep, ReaderStep, ReadStep

(***************************************************************************)
(* Who holds which lock, where the pointers are and which numbers the      *)
(* buffers carry at every point of begin_write(), publish() and read().    *)
(***************************************************************************)
THEOREM LocksAndNumbers == Spec => []BufferInv
  BY BufferInvInit, BufferInvStep, TypeCorrect, PTL DEF Spec

(***************************************************************************)
(* The writer never refills a buffer that a reader is copying, and what a  *)
(* reader has copied so far is part of one published snapshot.             *)
(***************************************************************************)
THEOREM NoReuse == Spec => [](NoReuseDuringCopy /\ CopyIsOneSnapshot)
<1>1. TypeOK /\ BufferInv => NoReuseDuringCopy /\ CopyIsOneSnapshot
  BY NoCopierOnBack DEF BufferInv, NoReuseDuringCopy
<1>2. QED
  BY <1>1, TypeCorrect, LocksAndNumbers, PTL

\* Only the last step of read() changes what a reader holds, and it is at
\* least as new as what the reader held and as the number it last saw.
LEMMA HeldStep ==
  ASSUME TypeOK, BufferInv, [Next]_vars, NEW r \in Readers, held'[r] # held[r]
  PROVE  held'[r].seq >= held[r].seq /\ held'[r].seq >= seen[r]
<1>1. PICK q \in Readers : Return(q)
  BY DEF Next, WriterStep, ReaderStep, ReadStep, vars, readerVars, BeginWrite, Fill,
         EndPass, PublishStamp, PublishSwap, PublishNumber, PublishUnlock,
         PublishRetarget, StopWriter, LoadSeq, LoadFront, LockShared, CheckRetry,
         CheckLive, CopyField, StopReader
<1>2. q = r /\ held'[r] = rcopy[r] /\ rpc[r] = "copy"
  BY <1>1 DEF Return, TypeOK
<1>3. rcopy[r].seq = buf[rptr[r]].seq /\ buf[rptr[r]].seq \in Nat
  BY <1>2 DEF BufferInv, CopyIsOneSnapshot, TypeOK, Snapshots
<1>4. held[r].seq <= buf[rptr[r]].seq /\ seen[r] <= buf[rptr[r]].seq
  BY <1>2 DEF BufferInv, ReaderProgress
<1>5. held[r].seq \in Nat /\ seen[r] \in Nat
  BY DEF TypeOK, Snapshots
<1>6. QED
  BY <1>2, <1>3, <1>4, <1>5

(***************************************************************************)
(* Successive read()s of a thread return snapshots in publication order.   *)
(***************************************************************************)
THEOREM Monotone == Spec => ReadsMonotone
<1>1. TypeOK /\ BufferInv /\ [Next]_vars =>
        [\A r \in Readers : held'[r].seq >= held[r].seq]_held
  <2> SUFFICES ASSUME TypeOK, BufferInv, [Next]_vars, NEW r \in Readers
               PROVE  held'[r].seq >= held[r].seq
    OBVIOUS
  <2>1. held[r].seq \in Nat
    BY DEF TypeOK, Snapshots
  <2>2. QED
    BY <2>1, HeldStep
<1>2. QED
  BY <1>1, TypeCorrect, LocksAndNumbers, PTL DEF Spec, ReadsMonotone

(***************************************************************************)
(* A read() begun after seq() returned n returns snapshot n or a later.    *)
(***************************************************************************)
THEOREM Covers == Spec => ReadCoversSeq
<1>1. TypeOK /\ BufferInv /\ [Next]_vars =>
        [\A r \in Readers : held'[r] # held[r] => held'[r].seq >= seen[r]]_held
  BY HeldStep
<1>2. QED
  BY <1>1, TypeCorrect, LocksAndNumbers, PTL DEF Spec, ReadCoversSeq

(***************************************************************************)
(* The double buffer implements SnapshotRegister: a publish takes effect   *)
(* when front_ is swapped, a read when front_ is found unchanged under the *)
(* lock, and every other step is invisible.                                *)
(***************************************************************************)
THEOREM Refinement == Spec => IsRegister
<1> USE DEF Register!RegisterNext, Register!RegisterPublish, Register!RegisterRead
<1>1. Init => Register!RegisterInit
  <2> SUFFICES ASSUME Init PROVE Register!RegisterInit
    OBVIOUS
  <2>1. buf[front] = Empty
    BY DEF Init
  <2>2. heldNow = [r \in Readers |-> Empty]
    BY DEF Init, heldNow
  <2>3. Empty \in [seq : {0}, data : Contents]
    BY BufferAssumption DEF Empty, Contents
  <2>4. QED
    BY <2>1, <2>2, <2>3 DEF Register!RegisterInit
<1>2. TypeOK /\ BufferInv /\ [Next]_vars =>
        [Register!RegisterNext]_<<buf[front], heldNow>>
  <2> SUFFICES ASSUME TypeOK, BufferInv, [Next]_vars
               PROVE  [Register!RegisterNext]_<<buf[front], heldNow>>
    OBVIOUS
  <2> DEFINE Stutter == buf'[front'] = buf[front] /\ heldNow' = heldNow
  <2> USE DEF TypeOK, BufferInv
  <2>1. CASE BeginWrite \/ EndPass \/ PublishNumber \/ PublishUnlock
             \/ PublishRetarget \/ StopWriter \/ UNCHANGED vars
    <3>1. Stutter
      BY <2>1 DEF BeginWrite, EndPass, PublishNumber, PublishUnlock, PublishRetarget,
                  StopWriter, vars, writerVars, readerVars, heldNow
    <3>2. QED
      BY <3>1
  <2>2. ASSUME NEW f \in Fields, NEW v \in Values, Fill(f, v) PROVE Stutter
    <3>1. wpc = "fill" /\ front # back
      BY <2>2 DEF Fill, WriterPhase
    <3>2. \A b \in Buffers : b # back => buf'[b] = buf[b]
      BY <2>2 DEF Fill
    <3>3. \A r \in Readers : rpc[r] = "copy" => rptr[r] # back
      BY <3>1, NoCopierOnBack
    <3>4. QED
      BY <2>2, <3>1, <3>2, <3>3 DEF Fill, writerVars, readerVars, heldNow
  <2>3. ASSUME PublishStamp PROVE Stutter
    <3>1. wpc = "fill" /\ front # back
      BY <2>3 DEF PublishStamp, WriterPhase
    <3>2. \A b \in Buffers : b # back => buf'[b] = buf[b]
      BY <2>3 DEF PublishStamp
    <3>3. \A r \in Readers : rpc[r] = "copy" => rptr[r] # back
      BY <3>1, NoCopierOnBack
    <3>4. QED
      BY <2>3, <3>1, <3>2, <3>3 DEF PublishStamp, readerVars, heldNow
  <2>4. ASSUME PublishSwap PROVE Register!RegisterPublish
    <3>1. buf'[front'] = buf[back] /\ heldNow' = heldNow
      BY <2>4 DEF PublishSwap, readerVars, heldNow
    <3>2. buf[back].seq = buf[front].seq + 1
      BY <2>4 DEF PublishSwap, Numbering
    <3>3. buf[back].data \in Contents /\ buf[back] = [seq |-> buf[back].seq, data |-> buf[back].data]
      BY DEF Snapshots
    <3>4. QED
      BY <3>1, <3>2, <3>3
  <2>5. ASSUME NEW r \in Readers, CheckLive(r) PROVE Register!RegisterRead(r)
    <3>1. rptr[r] = front
      BY <2>5 DEF CheckLive, Stale
    <3>2. UNCHANGED <<buf, front, rptr, held>> /\ rpc' = [rpc EXCEPT ![r] = "copy"]
      BY <2>5 DEF CheckLive, writerVars
    <3>3. heldNow' = [heldNow EXCEPT ![r] = buf[front]]
      BY <3>1, <3>2 DEF heldNow
    <3>4. QED
      BY <3>2, <3>3
  <2>6. ASSUME NEW r \in Readers, Return(r) PROVE Stutter
    <3>1. rcopy[r].seq = buf[rptr[r]].seq /\ rcopy[r].data = buf[rptr[r]].data
      BY <2>6 DEF Return, CopyIsOneSnapshot, Snapshots, Contents
    <3>2. rcopy[r] \in Snapshots /\ buf[rptr[r]] \in Snapshots
      OBVIOUS
    <3>3. rcopy[r] = buf[rptr[r]]
      BY <3>1, <3>2, SnapshotEqual
    <3>4. QED
      BY <2>6, <3>3 DEF Return, writerVars, heldNow
  <2>7. ASSUME NEW r \in Readers,
               LoadSeq(r) \/ LoadFront(r) \/ LockShared(r) \/ CheckRetry(r) \/ StopReader(r)
        PROVE  Stutter
    BY <2>7 DEF LoadSeq, LoadFront, LockShared, CheckRetry, StopReader, writerVars, heldNow
  <2>8. ASSUME NEW r \in Readers, NEW f \in Fields, CopyField(r, f) PROVE Stutter
    BY <2>8 DEF CopyField, writerVars, heldNow
  <2>9. QED
    BY <2>1, <2>2, <2>3, <2>4, <2>5, <2>6, <2>7, <2>8
       DEF Next, WriterStep, ReaderStep, ReadStep
<1>3. QED
  BY <1>1, <1>2, TypeCorrect, LocksAndNumbers, PTL DEF Spec, IsRegister, Register!RegisterSpec
=============================================================================
