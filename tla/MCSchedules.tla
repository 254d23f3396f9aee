----------------------------- MODULE MCSchedules -----------------------------
(***************************************************************************)
(* Instances of ScheduledTasks and Cadences for TLC.  They share no state: *)
(* in every behaviour one of them moves and the other one stays in an      *)
(* initial state.  part says which one moves.                              *)
(***************************************************************************)
EXTENDS MCScheduledTasks, Cadences

VARIABLE part

\* The clocks change on day 3: nowhere; at two in the morning, forwards and
\* back, west of Greenwich; at the end of a day; at midnight, east of
\* Greenwich; by two hours; and by half an hour, far east.
SomeZones ==
    LET Zone(b, a, c) == [before |-> b, after |-> a, change |-> 3 * Day + c]
        H == PerHour
    IN  {Zone(0, 0, 0),
         Zone(-5 * H, -4 * H, 7 * H), Zone(-4 * H, -5 * H, 6 * H),
         Zone(-2 * H, -1 * H, H), Zone(-1 * H, -2 * H, H),
         Zone(2 * H, 3 * H, -2 * H), Zone(3 * H, 2 * H, -3 * H),
         Zone(0, 2 * H, H), Zone(2 * H, 0, H),
         Zone(10 * H + H \div 2, 11 * H, -8 * H - H \div 2)}

\* All cadences, the wall-clock ones at the times at which clocks change.
SomeTimings ==
    LET Timing(c, m, h, d, i) == [cadence |-> c, minute |-> m, hour |-> h,
                                  dayOfWeek |-> d, intervalMinutes |-> i]
    IN  {Timing("minutely", 0, Null, Null, Null), Timing("custom", 0, Null, Null, 7)}
        \cup {Timing("hourly", m, Null, Null, Null) : m \in {0, 1}}
        \cup {Timing("daily", m, h, Null, Null) : m \in {0, 1}, h \in {Null, 1, 2, 3, 23}}
        \cup {Timing("weekly", 1, h, d, Null) : h \in {0, 2, 23}, d \in 2 .. 4}

AroundTheChange == 2 * Day + 12 * PerHour .. 3 * Day + 12 * PerHour

TwelveDays == 12 * Day

SchedulesInit ==
    /\ part \in {"runs", "clock"}
    /\ Init /\ CadInit
    /\ part = "runs" => /\ zone = CHOOSE z \in Zones : TRUE
                        /\ timing = CHOOSE t \in Timings : TRUE
                        /\ from = CHOOSE i \in Starts : TRUE

SchedulesNext ==
    \/ part = "runs" /\ Next /\ UNCHANGED <<part, cadVars>>
    \/ part = "clock" /\ Advance /\ UNCHANGED <<part, vars>>

SchedulesSpec == SchedulesInit /\ [][SchedulesNext]_<<part, vars, cadVars>>
=============================================================================
