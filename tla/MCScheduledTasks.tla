-------------------------- MODULE MCScheduledTasks --------------------------
(* Instances of ScheduledTasks for TLC.                                     *)
EXTENDS ScheduledTasks, TLC

CONSTANTS s1, s2, n1, n2

\* One schedule of a team that owns both nodes.
TeamTarget == [s \in Schedules |-> Nodes]

\* One schedule per node.
NodeTarget == (s1 :> {n1}) @@ (s2 :> {n2})

EveryMinute == [s \in Schedules |-> 1]

ScheduleSymmetry == Permutations(Processes) \cup Permutations(Requests)
=============================================================================
