------------------------------ MODULE MCTables ------------------------------
(***************************************************************************)
(* One instance for the tables that several CPUs or threads share: the kernel *)
(* module's process table, the work-stealing deque, the maps and scratch      *)
(* slots of the I/O programs.  A behavior is of one of them, chosen at the    *)
(* start, and the others stay as they began.                                 *)
(***************************************************************************)
EXTENDS KernelTable, WsDeque, IoTrace

VARIABLE subject

MCIoThreads == {<<"p", 1>>, <<"q", 1>>}

\* processes are alike, and so are thieves
TableSymmetry == Permutations(Tgids) \cup Permutations(Thieves)

partVars == <<subject, tableVars, dequeVars, ioVars>>

PartInit ==
  /\ subject \in {"table", "deque", "io"}
  /\ ioTracked \in IF subject = "io" THEN SUBSET IoPids ELSE {{}}
  /\ KernelInit /\ DequeInit /\ IoInit

\* an unloaded module and threads that have made all their calls may rest
AtRest == subject \in {"table", "io"} /\ UNCHANGED partVars

PartNext ==
  \/ subject = "table" /\ KernelNext /\ UNCHANGED <<subject, dequeVars, ioVars>>
  \/ subject = "deque" /\ DequeNext /\ UNCHANGED <<subject, tableVars, ioVars>>
  \/ subject = "io" /\ IoNext /\ UNCHANGED <<subject, tableVars, dequeVars>>
  \/ AtRest

PartSpec == PartInit /\ [][PartNext]_partVars
=============================================================================
