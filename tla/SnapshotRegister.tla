-------------------------- MODULE SnapshotRegister --------------------------
(***************************************************************************)
(* What a DoubleBuffer promises its users, as one atomic register: the     *)
(* producer publishes whole snapshots, each one numbered after the last,   *)
(* and what a consumer ends up holding is always a snapshot that was the   *)
(* current one at some instant of its read.  DoubleBuffer is shown to      *)
(* implement this module.                                                  *)
(***************************************************************************)
EXTENDS Naturals

CONSTANTS Readers,   \* threads that read snapshots
          Contents   \* what a snapshot's payload can be

VARIABLES current,   \* the live snapshot
          held       \* the snapshot each reader obtained last

Snapshots == [seq : Nat, data : Contents]

RegisterInit ==
  /\ current \in [seq : {0}, data : Contents]
  /\ held = [r \in Readers |-> current]

RegisterPublish ==
  \E d \in Contents :
    /\ current' = [seq |-> current.seq + 1, data |-> d]
    /\ UNCHANGED held

RegisterRead(r) ==
  /\ held' = [held EXCEPT ![r] = current]
  /\ UNCHANGED current

RegisterNext == RegisterPublish \/ \E r \in Readers : RegisterRead(r)

RegisterSpec == RegisterInit /\ [][RegisterNext]_<<current, held>>
=============================================================================
