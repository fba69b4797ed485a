---------------------------- MODULE LogFollower ----------------------------
(***************************************************************************)
(* What a follower of a log promises that remembers its position and may   *)
(* be restarted: every record is handled at least once before the position *)
(* moves past it, and in the end the position moves past every record.     *)
(* Module SolrUpdater is shown to implement it.                            *)
(***************************************************************************)
EXTENDS Naturals

CONSTANTS
    MaxLength,  \* bound: length of the log
    Lost        \* the position of a follower that has lost it

VARIABLES
    length,   \* records in the log
    handled,  \* records handled since the last restart, or before `passed'
    passed    \* the position a restart begins at

vars == <<length, handled, passed>>

Init == length = 0 /\ handled = 0 /\ passed = 0

Append ==
    /\ length' = length + 1
    /\ UNCHANGED <<handled, passed>>

Handle ==
    /\ passed # Lost
    /\ handled' \in (handled + 1)..length
    /\ UNCHANGED <<length, passed>>

Pass ==
    /\ passed # Lost
    /\ passed' = handled
    /\ UNCHANGED <<length, handled>>

\* What was handled and not passed is handled again.
Restart ==
    /\ handled' = passed
    /\ UNCHANGED <<length, passed>>

Lose ==
    /\ passed' = Lost
    /\ handled' = Lost
    /\ UNCHANGED length

Next == Append \/ Handle \/ Pass \/ Restart \/ Lose

Spec == Init /\ [][Next]_vars

\* Every record is passed in the end, unless the position is lost.
EveryRecordIsPassed ==
    \A n \in 1..MaxLength :
        length >= n ~> (passed = Lost \/ passed >= n)
=============================================================================
