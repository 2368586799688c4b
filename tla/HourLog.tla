------------------------------- MODULE HourLog -------------------------------
(***************************************************************************)
(* LogWriter: the thread of --log that appends one block per interval to a   *)
(* file named after the hour (src/src/app/LogWriter.cpp).  The wall clock     *)
(* may step either way between any two statements; opening and writing may    *)
(* fail.                                                                    *)
(***************************************************************************)
EXTENDS Integers, Sequences

CONSTANTS Hours,        \* the hours the clock may show
          MaxBlocks,    \* blocks written or lost
          MaxMoves      \* times the clock moves to another hour

ASSUME HourLogBounds == /\ Hours \subseteq Nat /\ Hours # {} /\ 0 \notin Hours
                        /\ MaxBlocks \in Nat /\ MaxMoves \in Nat

VARIABLES wall,     \* the hour the wall clock shows
          moves,     \* times it has moved
          first,     \* buffers_.seq() is not 0 any more
          lwAt,      \* where run() is
          lwStop,    \* the stop token
          stamp,     \* now, the stamp of the block
          need,      \* required_path
          current,   \* current_path, 0 before the first
          stream,    \* file: "closed", "good", or "bad" after a failed write
          disk,      \* blocks in the files: <<file, stamp>>
          lostIn,    \* required path of every block that was written nowhere
          blamed     \* paths a failed open or write was about
hourVars == <<wall, moves, first, lwAt, lwStop, stamp, need, current, stream, disk, lostIn, blamed>>

HourInit ==
    /\ wall \in Hours /\ moves = 0 /\ first = FALSE
    /\ lwAt = "wait" /\ lwStop = FALSE /\ stamp = 0 /\ need = 0 /\ current = 0
    /\ stream = "closed" /\ disk = <<>> /\ lostIn = <<>> /\ blamed = {}

ClockMoves ==
    /\ moves < MaxMoves /\ moves' = moves + 1 /\ wall' \in Hours \ {wall}
    /\ UNCHANGED <<first, lwAt, lwStop, stamp, need, current, stream, disk, lostIn, blamed>>

FirstPublish ==
    /\ ~first /\ first' = TRUE
    /\ UNCHANGED <<wall, moves, lwAt, lwStop, stamp, need, current, stream, disk, lostIn, blamed>>

LogStop ==
    /\ ~lwStop /\ lwStop' = TRUE
    /\ UNCHANGED <<wall, moves, first, lwAt, stamp, need, current, stream, disk, lostIn, blamed>>

\* polls every 5 ms
WaitFirst ==
    /\ lwAt = "wait" /\ (first \/ lwStop) /\ lwAt' = "loop"
    /\ UNCHANGED <<wall, moves, first, lwStop, stamp, need, current, stream, disk, lostIn, blamed>>

LoopHead ==
    /\ lwAt = "loop"
    /\ IF lwStop THEN lwAt' = "gone" /\ stream' = "closed" /\ UNCHANGED stamp
       ELSE lwAt' = "path" /\ stamp' = wall /\ UNCHANGED stream
    /\ UNCHANGED <<wall, moves, first, lwStop, need, current, disk, lostIn, blamed>>

\* chunk_path() reads the clock again
ChunkPath ==
    /\ lwAt = "path" /\ need' = wall
    /\ lwAt' = IF wall # current THEN "rotate" ELSE "write"
    /\ UNCHANGED <<wall, moves, first, lwStop, stamp, current, stream, disk, lostIn, blamed>>

\* Mutant: the stream's error state survives the opening of the next hour.
OpenSucceedsUncleared ==
    /\ stream' = IF stream = "bad" THEN "bad" ELSE "good"
    /\ current' = need /\ lwAt' = "write"
    /\ UNCHANGED blamed

\* the old file is closed first; a successful open clears the stream's error
OpenSucceeds ==
    /\ stream' = "good" /\ current' = need /\ lwAt' = "write"
    /\ UNCHANGED blamed

\* logs an error, sleeps for a second and starts over; current_path stays
OpenFails ==
    /\ stream' = "closed" /\ lwAt' = "loop" /\ blamed' = blamed \cup {need, current}
    /\ UNCHANGED current

Rotate ==
    /\ lwAt = "rotate" /\ (OpenSucceeds \/ OpenFails)
    /\ UNCHANGED <<wall, moves, first, lwStop, stamp, need, disk, lostIn>>

\* no write looks at the state of the stream
WriteBlock ==
    /\ lwAt = "write" /\ lwAt' = "loop"
    /\ Len(disk) + Len(lostIn) < MaxBlocks
    /\ \/ /\ stream = "good" /\ disk' = Append(disk, <<current, stamp>>)
          /\ UNCHANGED <<stream, lostIn, blamed>>
       \/ /\ stream = "good" /\ stream' = "bad" /\ lostIn' = Append(lostIn, need)
          /\ blamed' = blamed \cup {current} /\ UNCHANGED disk
       \/ /\ stream # "good" /\ lostIn' = Append(lostIn, need)
          /\ UNCHANGED <<stream, disk, blamed>>
    /\ UNCHANGED <<wall, moves, first, lwStop, stamp, need, current>>

LogOver ==
    /\ lwAt = "gone" \/ (lwAt = "write" /\ Len(disk) + Len(lostIn) = MaxBlocks)
    /\ UNCHANGED hourVars

HourNext == \/ ClockMoves \/ FirstPublish \/ LogStop \/ WaitFirst \/ LoopHead \/ ChunkPath
            \/ Rotate \/ WriteBlock \/ LogOver
HourSpec == HourInit /\ [][HourNext]_hourVars
-----------------------------------------------------------------------------
(***************************************************************************)
(* A fault of one file costs the blocks of that hour, or of the hour that     *)
(* was current when it happened, and of no other: once the clock names a      *)
(* third file the log goes on.  (Within those hours it stays silent even      *)
(* where the disk is well again: after a failed open the path is still the    *)
(* old one with the file closed, and a clock that steps back finds nothing    *)
(* to reopen.)                                                              *)
(***************************************************************************)
SilenceIsConfined == \A i \in DOMAIN lostIn : lostIn[i] \in blamed
=============================================================================
