---------------------------- MODULE DoubleBuffer ----------------------------
(***************************************************************************)
(* DoubleBuffer<T> (include/app/DoubleBuffer.hpp), the one piece of state  *)
(* the Producer thread shares with every consumer: the TUI loop, the       *)
(* metrics server, the log writer and the one-shot modes.  One writer      *)
(* fills the back buffer in place and publishes it by swapping pointers;   *)
(* readers copy the front buffer.  T owns heap memory, so a copy that      *)
(* overlaps the refill of the same buffer reads freed blocks, and each     *)
(* buffer has a shared_mutex against exactly that.                         *)
(*                                                                         *)
(* Every atomic access and every lock operation is a step of its own.      *)
(* front_ and seq_ are stored with release and loaded with acquire order,  *)
(* so the interleavings below are the outcomes the program can produce.    *)
(***************************************************************************)
EXTENDS Naturals, FiniteSets

CONSTANTS Readers,          \* consumer threads
          Fields,           \* the members of T, filled and copied one by one
          Values,           \* what a member can hold
          Zero,             \* the value T{} gives every member
          MaxSeq            \* bound: publishes

ASSUME BufferAssumption ==
  /\ Zero \in Values
  /\ MaxSeq \in Nat

VARIABLES buf,           \* a_ and b_
          front,         \* front_
          back,          \* back_, the writer's
          seq,           \* seq_
          writeLocked,   \* write_locked_
          excl,          \* which shared_mutex is held exclusively
          shared,        \* who holds each shared_mutex shared
          wpc,           \* where the writer is
          oldFront,      \* publish()'s local
          rpc,           \* where each reader is
          rptr,          \* read()'s local f
          copied,        \* the members fn has copied so far
          rcopy,         \* the copy under construction
          held,          \* the snapshot read() returned last
          seen           \* the last value seq() returned to the reader

writerVars == <<front, back, seq, writeLocked, wpc, oldFront>>
lockVars   == <<excl, shared>>
readerVars == <<rpc, rptr, copied, rcopy, held, seen>>
vars       == <<buf, writerVars, lockVars, readerVars>>

Buffers   == {"a", "b"}
Contents  == [Fields -> Values]
Snapshots == [seq : Nat, data : Contents]

\* a_ and b_ as the constructor leaves them.
Empty == [seq |-> 0, data |-> [f \in Fields |-> Zero]]

Init ==
  /\ buf = [b \in Buffers |-> Empty]
  /\ front = "a"
  /\ back = "b"
  /\ seq = 0
  /\ writeLocked = FALSE
  /\ excl = [b \in Buffers |-> FALSE]
  /\ shared = [b \in Buffers |-> {}]
  /\ wpc = "idle"
  /\ oldFront = "a"
  /\ rpc = [r \in Readers |-> "idle"]
  /\ rptr = [r \in Readers |-> "a"]
  /\ copied = [r \in Readers |-> {}]
  /\ rcopy = [r \in Readers |-> Empty]
  /\ held = [r \in Readers |-> Empty]
  /\ seen = [r \in Readers |-> 0]
-----------------------------------------------------------------------------
(***************************************************************************)
(* The writer.                                                             *)
(***************************************************************************)

\* begin_write(): the first call after a publish locks the back buffer,
\* waiting out any reader still on it; later calls find it locked already.
BeginWrite ==
  /\ wpc = "idle"
  /\ seq < MaxSeq
  /\ wpc' = "fill"
  /\ \/ /\ writeLocked
        /\ UNCHANGED <<writeLocked, excl>>
     \/ /\ ~writeLocked
        /\ ~excl[back] /\ shared[back] = {}
        /\ excl' = [excl EXCEPT ![back] = TRUE]
        /\ writeLocked' = TRUE
  /\ UNCHANGED <<buf, front, back, seq, oldFront, shared, readerVars>>

\* A collector writes its member of the back buffer in place.
Fill(f, v) ==
  /\ wpc = "fill"
  /\ buf' = [buf EXCEPT ![back].data[f] = v]
  /\ UNCHANGED <<writerVars, lockVars, readerVars>>

\* A pass of the Producer's loop in which nothing was due: no publish, and
\* the lock stays held into the next pass.
EndPass ==
  /\ wpc = "fill"
  /\ wpc' = "idle"
  /\ UNCHANGED <<buf, front, back, seq, writeLocked, oldFront, lockVars, readerVars>>

\* Mutant: the next number is sourced from the buffer being recycled.
PublishStampFromBuffer ==
  /\ wpc = "fill"
  /\ buf' = [buf EXCEPT ![back].seq = @ + 1]
  /\ wpc' = "swap"
  /\ UNCHANGED <<front, back, seq, writeLocked, oldFront, lockVars, readerVars>>

\* publish(), one step per access to what readers can see.
PublishStamp ==
  /\ wpc = "fill"
  /\ buf' = [buf EXCEPT ![back].seq = seq + 1]
  /\ wpc' = "swap"
  /\ UNCHANGED <<front, back, seq, writeLocked, oldFront, lockVars, readerVars>>

PublishSwap ==
  /\ wpc = "swap"
  /\ oldFront' = front
  /\ front' = back
  /\ wpc' = "number"
  /\ UNCHANGED <<buf, back, seq, writeLocked, lockVars, readerVars>>

PublishNumber ==
  /\ wpc = "number"
  /\ seq' = seq + 1
  /\ wpc' = "unlock"
  /\ UNCHANGED <<buf, front, back, writeLocked, oldFront, lockVars, readerVars>>

\* Mutant: publish() forgets the flag without releasing the lock.
PublishUnlockLeak ==
  /\ wpc = "unlock"
  /\ writeLocked' = FALSE
  /\ wpc' = "retarget"
  /\ UNCHANGED <<buf, front, back, seq, oldFront, lockVars, readerVars>>

PublishUnlock ==
  /\ wpc = "unlock"
  /\ writeLocked' = FALSE
  /\ excl' = [excl EXCEPT ![back] = IF writeLocked THEN FALSE ELSE @]
  /\ wpc' = "retarget"
  /\ UNCHANGED <<buf, front, back, seq, oldFront, shared, readerVars>>

\* Mutant: the writer keeps the buffer it has just published.
PublishRetargetKept ==
  /\ wpc = "retarget"
  /\ wpc' = "idle"
  /\ UNCHANGED <<buf, front, back, seq, writeLocked, oldFront, lockVars, readerVars>>

PublishRetarget ==
  /\ wpc = "retarget"
  /\ back' = oldFront
  /\ wpc' = "idle"
  /\ UNCHANGED <<buf, front, seq, writeLocked, oldFront, lockVars, readerVars>>

\* Producer::stop(): the loop leaves between two passes, whatever is locked.
StopWriter ==
  /\ wpc = "idle"
  /\ wpc' = "stopped"
  /\ UNCHANGED <<buf, front, back, seq, writeLocked, oldFront, lockVars, readerVars>>
-----------------------------------------------------------------------------
(***************************************************************************)
(* A reader.                                                               *)
(***************************************************************************)

\* seq()
LoadSeq(r) ==
  /\ rpc[r] = "idle"
  /\ seen' = [seen EXCEPT ![r] = seq]
  /\ UNCHANGED <<buf, writerVars, lockVars, rpc, rptr, copied, rcopy, held>>

\* read(): load front_ ...
LoadFront(r) ==
  /\ rpc[r] \in {"idle", "retry"}
  /\ rptr' = [rptr EXCEPT ![r] = front]
  /\ rpc' = [rpc EXCEPT ![r] = "lock"]
  /\ UNCHANGED <<buf, writerVars, lockVars, copied, rcopy, held, seen>>

\* ... take its lock shared ...
LockShared(r) ==
  /\ rpc[r] = "lock"
  /\ ~excl[rptr[r]]
  /\ shared' = [shared EXCEPT ![rptr[r]] = @ \cup {r}]
  /\ rpc' = [rpc EXCEPT ![r] = "check"]
  /\ UNCHANGED <<buf, writerVars, excl, rptr, copied, rcopy, held, seen>>

\* Mutant: no second look at front_.
StaleNever(r) == FALSE

\* ... retry when a publish came in between ...
Stale(r) == front # rptr[r]

CheckRetry(r) ==
  /\ rpc[r] = "check"
  /\ Stale(r)
  /\ shared' = [shared EXCEPT ![rptr[r]] = @ \ {r}]
  /\ rpc' = [rpc EXCEPT ![r] = "retry"]
  /\ UNCHANGED <<buf, writerVars, excl, rptr, copied, rcopy, held, seen>>

CheckLive(r) ==
  /\ rpc[r] = "check"
  /\ ~Stale(r)
  /\ rcopy' = [rcopy EXCEPT ![r].seq = buf[rptr[r]].seq]
  /\ copied' = [copied EXCEPT ![r] = {}]
  /\ rpc' = [rpc EXCEPT ![r] = "copy"]
  /\ UNCHANGED <<buf, writerVars, lockVars, rptr, held, seen>>

\* ... and let fn copy the buffer, member by member.
CopyField(r, f) ==
  /\ rpc[r] = "copy"
  /\ f \notin copied[r]
  /\ rcopy' = [rcopy EXCEPT ![r].data[f] = buf[rptr[r]].data[f]]
  /\ copied' = [copied EXCEPT ![r] = @ \cup {f}]
  /\ UNCHANGED <<buf, writerVars, lockVars, rpc, rptr, held, seen>>

Return(r) ==
  /\ rpc[r] = "copy"
  /\ copied[r] = Fields
  /\ held' = [held EXCEPT ![r] = rcopy[r]]
  /\ shared' = [shared EXCEPT ![rptr[r]] = @ \ {r}]
  /\ rpc' = [rpc EXCEPT ![r] = "idle"]
  /\ UNCHANGED <<buf, writerVars, excl, rptr, copied, rcopy, seen>>

\* The consumer's own stop(): it returns from its loop between two reads.
StopReader(r) ==
  /\ rpc[r] = "idle"
  /\ rpc' = [rpc EXCEPT ![r] = "stopped"]
  /\ UNCHANGED <<buf, writerVars, lockVars, rptr, copied, rcopy, held, seen>>
-----------------------------------------------------------------------------
WriterStep ==
  \/ BeginWrite
  \/ \E f \in Fields, v \in Values : Fill(f, v)
  \/ EndPass
  \/ PublishStamp \/ PublishSwap \/ PublishNumber \/ PublishUnlock \/ PublishRetarget
  \/ StopWriter

ReadStep(r) ==
  \/ LockShared(r) \/ CheckRetry(r) \/ CheckLive(r)
  \/ \E f \in Fields : CopyField(r, f)
  \/ Return(r)
  \/ rpc[r] = "retry" /\ LoadFront(r)

ReaderStep(r) == LoadSeq(r) \/ LoadFront(r) \/ ReadStep(r) \/ StopReader(r)

Next == WriterStep \/ \E r \in Readers : ReaderStep(r)

Spec == Init /\ [][Next]_vars

(***************************************************************************)
(* A thread inside begin_write(), publish() or read() keeps running.  The  *)
(* Producer publishes at least every pub_interval (250ms) while it runs,   *)
(* which is strong fairness of starting a publish.  Nothing is assumed of  *)
(* when reads begin or when anything is stopped.                           *)
(***************************************************************************)
Fairness ==
  /\ WF_vars(BeginWrite)
  /\ SF_vars(PublishStamp)
  /\ WF_vars(PublishSwap \/ PublishNumber \/ PublishUnlock \/ PublishRetarget)
  /\ \A r \in Readers : WF_vars(ReadStep(r))

FairSpec == Spec /\ Fairness
-----------------------------------------------------------------------------
(***************************************************************************)
(* Properties.                                                             *)
(***************************************************************************)

TypeOK ==
  /\ buf \in [Buffers -> Snapshots]
  /\ front \in Buffers /\ back \in Buffers /\ oldFront \in Buffers
  /\ seq \in Nat
  /\ writeLocked \in BOOLEAN
  /\ excl \in [Buffers -> BOOLEAN]
  /\ shared \in [Buffers -> SUBSET Readers]
  /\ wpc \in {"idle", "fill", "swap", "number", "unlock", "retarget", "stopped"}
  /\ rpc \in [Readers -> {"idle", "lock", "check", "retry", "copy", "stopped"}]
  /\ rptr \in [Readers -> Buffers]
  /\ copied \in [Readers -> SUBSET Fields]
  /\ rcopy \in [Readers -> Snapshots]
  /\ held \in [Readers -> Snapshots]
  /\ seen \in [Readers -> Nat]

(***************************************************************************)
(* The reuse window is closed: while a reader copies a buffer the writer   *)
(* is not filling that buffer, however many publishes happened since the   *)
(* reader loaded front_ (the hazard DoubleBuffer.hpp:14-21 describes).     *)
(***************************************************************************)
NoReuseDuringCopy ==
  \A r \in Readers : rpc[r] = "copy" => ~(wpc = "fill" /\ back = rptr[r])

(***************************************************************************)
(* No torn copy: the members read() has copied so far are those of one     *)
(* published snapshot, the one the reader found live.                      *)
(***************************************************************************)
CopyIsOneSnapshot ==
  \A r \in Readers : rpc[r] = "copy" =>
    /\ rcopy[r].seq = buf[rptr[r]].seq
    /\ \A f \in copied[r] : rcopy[r].data[f] = buf[rptr[r]].data[f]

(***************************************************************************)
(* Time never runs backwards for a consumer: successive read()s of one     *)
(* thread return snapshots in the order they were published.               *)
(***************************************************************************)
ReadsMonotone == [][\A r \in Readers : held'[r].seq >= held[r].seq]_held

(***************************************************************************)
(* A consumer that saw seq() = n (the LogWriter's and main's wait loops)   *)
(* gets snapshot n or a later one from the read() it then makes: front_ is *)
(* stored before seq_.                                                     *)
(***************************************************************************)
ReadCoversSeq ==
  [][\A r \in Readers : held'[r] # held[r] => held'[r].seq >= seen[r]]_held

(***************************************************************************)
(* A double buffer is an atomic register: SnapshotRegister's specification *)
(* holds with the live front as its value, and a reader holding what it    *)
(* found live from the moment it has checked it.                           *)
(***************************************************************************)
heldNow == [r \in Readers |-> IF rpc[r] = "copy" THEN buf[rptr[r]] ELSE held[r]]
Register == INSTANCE SnapshotRegister WITH current <- buf[front], held <- heldNow
IsRegister == Register!RegisterSpec

(***************************************************************************)
(* begin_write() is never blocked for good: readers that locked the back   *)
(* buffer by a stale pointer leave it.                                     *)
(***************************************************************************)
WriterAdvances == (wpc = "idle" /\ seq < MaxSeq) ~> (wpc \in {"fill", "stopped"})

(***************************************************************************)
(* Every read() returns, unless Producer::stop() ended the loop between    *)
(* begin_write() and publish() and left the back buffer locked (main() may *)
(* stop the Producer while the log writer and the metrics server run,      *)
(* main.cpp:689-693).                                                      *)
(***************************************************************************)
ReadsReturn ==
  \A r \in Readers : rpc[r] = "lock" ~> rpc[r] = "idle" \/ (wpc = "stopped" /\ writeLocked)
-----------------------------------------------------------------------------
(***************************************************************************)
(* The inductive invariant behind the theorems of DoubleBufferProofs.      *)
(***************************************************************************)

\* The writer's lock is the back buffer's, and the shared locks are those of
\* the readers between lock and return.
LockOwnership ==
  \A b \in Buffers :
    /\ excl[b] <=> (writeLocked /\ b = back)
    /\ shared[b] = {r \in Readers : rpc[r] \in {"check", "copy"} /\ rptr[r] = b}
    /\ excl[b] => shared[b] = {}

\* Where the two pointers and the lock are at each point of publish().
WriterPhase ==
  /\ wpc \in {"fill", "swap", "number", "unlock"} => writeLocked
  /\ wpc = "retarget" => ~writeLocked
  /\ wpc \in {"idle", "fill", "swap", "stopped"} => front # back
  /\ wpc \in {"number", "unlock", "retarget"} => front = back /\ oldFront # back

\* Which number each buffer carries.
Numbering ==
  /\ wpc # "number" => buf[front].seq = seq
  /\ wpc = "number" => buf[front].seq = seq + 1
  /\ wpc = "swap" => buf[back].seq = seq + 1
  /\ wpc \in {"idle", "fill", "stopped"} => buf[back].seq <= seq
  /\ wpc \in {"number", "unlock", "retarget"} => buf[oldFront].seq <= seq

\* What a reader has is never newer than what is live, nor what it is copying
\* older than what it has.
ReaderProgress ==
  \A r \in Readers :
    /\ seen[r] <= seq
    /\ held[r].seq <= buf[front].seq
    /\ rpc[r] = "copy" => /\ held[r].seq <= buf[rptr[r]].seq
                          /\ seen[r] <= buf[rptr[r]].seq

(***************************************************************************)
(* Who holds which lock, where the pointers are and which numbers the      *)
(* buffers carry, at every point of begin_write(), publish() and read().   *)
(***************************************************************************)
BufferInv ==
  LockOwnership /\ WriterPhase /\ Numbering /\ ReaderProgress /\ CopyIsOneSnapshot

\* Nobody waits for ever: neither the writer for a lock nor a reader for a copy.
Progress == WriterAdvances /\ ReadsReturn
=============================================================================
