------------------------------ MODULE Cadences ------------------------------
(***************************************************************************)
(* When a schedule runs: computeNextScheduledRun of                        *)
(* src/src/modules/tasks/scheduled-task.utils.ts, in zones whose clocks    *)
(* change.                                                                 *)
(*                                                                         *)
(* An instant is a number of minutes; what is below a minute plays no part *)
(* in the code.  What a clock shows is a number of minutes too, of which   *)
(* the day, the weekday and the minute of the hour are taken.  An hour has *)
(* PerHour minutes (60 in the code), the windows that the code searches    *)
(* are in hours.  Intl.DateTimeFormat is a zone: an offset, and another    *)
(* one from an instant on.                                                 *)
(***************************************************************************)
EXTENDS Integers, FiniteSets, FiniteSetsExt

CONSTANTS
    PerHour,      \* minutes in an hour
    Zones,        \* [before, after: offsets, change: instant]
    Timings,      \* [cadence, minute, hour, dayOfWeek, intervalMinutes]
    Null,         \* an hour, a day or an interval that is not given
    Starts,       \* when a schedule is created, enabled or recomputed
    Horizon       \* bound: later runs are not looked at

Day == 24 * PerHour
DayOf(local) == local \div Day
MinuteOf(local) == local % PerHour
DayOfWeek(local) == DayOf(local) % 7

\* What the windows of the code are enough for: offsets of 15 hours at most;
\* clocks that go back by up to two hours; and that go forward by up to one
\* hour west of Greenwich and up to three east of it, on one day with the hour
\* that follows, or by an hour west of Greenwich at any time.
ClocksAsToday(z) ==
    LET first == z.change + z.before   \* the times that the clock jumps over
        next == z.change + z.after     \* begin with first, end before next
        forward == z.after - z.before
    IN  /\ {z.before, z.after} \subseteq -15 * PerHour .. 15 * PerHour
        /\ -forward <= 2 * PerHour
        /\ forward > 0 =>
              \/ z.after <= 0 /\ forward = PerHour
              \/ /\ DayOf(next + PerHour - 1) = DayOf(first)
                 /\ \/ z.after <= 0 /\ forward <= PerHour
                    \/ z.before >= 0 /\ forward <= 3 * PerHour

ASSUME CadenceAssumption ==
    /\ PerHour \in Nat \ {0}
    /\ \A z \in Zones : z.change \in Int /\ ClocksAsToday(z)
    /\ \A t \in Timings : /\ t.minute \in Int
                          /\ {t.hour, t.dayOfWeek, t.intervalMinutes}
                                \subseteq Int \cup {Null}
    /\ Starts \subseteq Nat /\ Horizon \in Nat

VARIABLES
    zone, timing,
    from,         \* the instant from which nextRunAt was computed
    nextRunAt,
    chained       \* history: from was a nextRunAt itself

cadVars == <<zone, timing, from, nextRunAt, chained>>

Clamp(value, min, max) ==
    IF value < min THEN min ELSE IF value > max THEN max ELSE value

\* What is not given is left alone, and is replaced where it is used.
ClampOr(value, min, max, default) ==
    IF value = Null THEN default ELSE Clamp(value, min, max)

-----------------------------------------------------------------------------
(* Clocks.                                                                   *)

GetTimeZoneOffsetMinutes(z, i) == IF i < z.change THEN z.before ELSE z.after

GetZonedDateTimeParts(z, i) == i + GetTimeZoneOffsetMinutes(z, i)

\* findMatchingInstants: all within three hours of the guess.
FindMatchingInstants(z, target, guess) ==
    {i \in guess - 3 * PerHour .. guess + 3 * PerHour :
        GetZonedDateTimeParts(z, i) = target}

\* findGapFallbackInstant: later on the same day, for a time that the clock
\* jumps over.
FindGapFallbackInstants(z, target, guess, preserveMinute) ==
    {i \in guess .. guess + 4 * PerHour :
        LET parts == GetZonedDateTimeParts(z, i) IN
        /\ DayOf(parts) = DayOf(target)
        /\ preserveMinute => MinuteOf(parts) = MinuteOf(target)
        /\ parts > target}

\* Mutant: the offset at the wall-clock time taken for UTC is taken for right.
MutResolveLocalDateTime(z, target) == target - GetTimeZoneOffsetMinutes(z, target)

\* resolveLocalDateTime: the instant at which the clock shows target.
ResolveLocalDateTime(z, target) ==
    LET guess == target - GetTimeZoneOffsetMinutes(z, target)
        exact == FindMatchingInstants(z, target, guess)
        sameMinute == FindGapFallbackInstants(z, target, guess, TRUE)
        future == FindGapFallbackInstants(z, target, guess, FALSE)
    IN  IF exact # {} THEN Min(exact)
        ELSE IF sameMinute # {} THEN Min(sameMinute)
        ELSE IF future # {} THEN Min(future) ELSE guess

-----------------------------------------------------------------------------
(* Cadences.                                                                 *)

ComputeMinutelyRun(f) == f + 1

ComputeCustomIntervalRun(interval, f) == ComputeMinutelyRun(f) + (interval - 1)

\* computeHourlyRun: the first of the next three hours' minutes that fits.
ComputeHourlyRun(z, minute, f) ==
    Min({i \in f + 1 .. f + 3 * PerHour :
            MinuteOf(GetZonedDateTimeParts(z, i)) = minute})

ComputeDailyRun(z, hour, minute, f) ==
    LET reference == GetZonedDateTimeParts(z, f)
        target == DayOf(reference) * Day + hour * PerHour + minute
    IN  ResolveLocalDateTime(z, IF target <= reference THEN target + Day ELSE target)

ComputeWeeklyRun(z, dayOfWeek, hour, minute, f) ==
    LET reference == GetZonedDateTimeParts(z, f)
        dayOffset == (dayOfWeek - DayOfWeek(reference)) % 7
        target == (DayOf(reference) + dayOffset) * Day + hour * PerHour + minute
    IN  ResolveLocalDateTime(z, IF dayOffset = 0 /\ target <= reference
                                THEN target + 7 * Day ELSE target)

Hour(t) == ClampOr(t.hour, 0, 23, 0)
Minute(t) == Clamp(t.minute, 0, PerHour - 1)
Weekday(t) == ClampOr(t.dayOfWeek, 0, 6, 0)

ComputeNextScheduledRun(t, z, f) ==
    CASE t.cadence = "minutely" -> ComputeMinutelyRun(f)
      [] t.cadence = "custom" ->
            ComputeCustomIntervalRun(ClampOr(t.intervalMinutes, 1, 7 * Day, 1), f)
      [] t.cadence = "daily" -> ComputeDailyRun(z, Hour(t), Minute(t), f)
      [] t.cadence = "weekly" ->
            ComputeWeeklyRun(z, Weekday(t), Hour(t), Minute(t), f)
      [] OTHER -> ComputeHourlyRun(z, Minute(t), f)

-----------------------------------------------------------------------------
(* Creating, enabling and recomputing a schedule starts from the time of the *)
(* request, a run from the nextRunAt that it was for.                        *)

CadInit ==
    /\ zone \in Zones /\ timing \in Timings /\ from \in Starts
    /\ nextRunAt = ComputeNextScheduledRun(timing, zone, from)
    /\ chained = FALSE

\* triggerClaimedSchedule
Advance ==
    /\ nextRunAt < Horizon
    /\ from' = nextRunAt
    /\ nextRunAt' = ComputeNextScheduledRun(timing, zone, nextRunAt)
    /\ chained' = TRUE
    /\ UNCHANGED <<zone, timing>>

CadSpec == CadInit /\ [][Advance]_cadVars

-----------------------------------------------------------------------------
(* Properties.                                                               *)

\* The instants that may show a local time: no offset exceeds a day.
Around(target) == target - Day .. target + Day

\* The run that is due on day d of the zone's calendar: the first instant at
\* which the clock shows the time; if it jumps over it, the first one after
\* that with the same minute.
RunOfDay(z, t, d) ==
    LET target == d * Day + Hour(t) * PerHour + Minute(t)
        shown == {i \in Around(target) : GetZonedDateTimeParts(z, i) = target}
        later == {i \in Around(target) :
                     /\ GetZonedDateTimeParts(z, i) > target
                     /\ MinuteOf(GetZonedDateTimeParts(z, i)) = Minute(t)}
    IN  Min(IF shown # {} THEN shown ELSE later)

\* The days that a schedule is for, from the one before f to the next week.
DaysOf(t, z, f) ==
    LET today == DayOf(GetZonedDateTimeParts(z, f)) IN
    {d \in today - 1 .. today + 8 : t.cadence = "weekly" => d % 7 = Weekday(t)}

\* The change of the clocks lies two hours back: no hour is being repeated,
\* and what the clock has jumped over has been made up for.
Settled(z, f) == f < z.change \/ f >= z.change + 2 * PerHour

\* Runs follow each other, and a daily or weekly schedule runs on each of its
\* days, once, when the zone's clock shows its time, or made up for after a
\* jump: computeNextScheduledRun, applied to the run before or to a time at
\* which the clocks are settled, is the next entry of that calendar.
CalendarKept ==
    chained \/ Settled(zone, from) =>
        /\ nextRunAt > from
        /\ timing.cadence \in {"daily", "weekly"} =>
              nextRunAt = Min({r \in {RunOfDay(zone, timing, d) :
                                         d \in DaysOf(timing, zone, from)} : r > from})
        /\ timing.cadence = "hourly" =>
              /\ MinuteOf(GetZonedDateTimeParts(zone, nextRunAt)) = Minute(timing)
              /\ nextRunAt - from <= 2 * PerHour

\* A schedule that is created or enabled is for a time to come.
FirstRunAhead == nextRunAt > from
=============================================================================
