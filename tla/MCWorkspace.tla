---------------------------- MODULE MCWorkspace ----------------------------
(* Small instances of Workspace for TLC. *)
EXTENDS Workspace, TLC

CONSTANTS r1, r2

New == [owner |-> None, mine |-> FALSE, others |-> FALSE]
Shared == [owner |-> Other, mine |-> TRUE, others |-> TRUE]

\* The second room is new, or both rooms are Other's with Me in them.
NewOrShared == {[r \in Rooms |-> IF r = r1 THEN Shared ELSE s] : s \in {New, Shared}}

AllShared == {[r \in Rooms |-> Shared]}

\* What a user comes to do: to manage rooms, to write, to talk, to share.
AllAgendas ==
    {[create |-> 1, join |-> 1, leave |-> 1, close |-> 1],
     [join |-> 1, direct |-> 2, send |-> 1],
     [join |-> 1, invite |-> 1, upload |-> 1],
     [join |-> 2, voice |-> 1],
     [join |-> 1, voice |-> 2, leave |-> 1],
     [join |-> 1, voice |-> 1, mic |-> 1, logout |-> 1],
     [join |-> 1, voice |-> 1, share |-> 1]}

Talk == {[join |-> 1, voice |-> 3, mic |-> 1]}

TwoCaptures == 1..2
=============================================================================
