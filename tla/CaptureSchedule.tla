-------------------------- MODULE CaptureSchedule --------------------------
(***************************************************************************)
(* CaptureScheduleService: whether a session's schedule lets it capture at *)
(* an instant, and otherwise when it next will.                            *)
(*                                                                         *)
(* Instants and wall times are integers, counted from midnight of day 0 in *)
(* ticks of a length that divides everything.  A zone changes its offset   *)
(* once, at z.transition, by z.shift: forward (a gap of wall times that    *)
(* never show), backward (wall times that show twice), or not at all.      *)
(* Before that the wall clock shows the instant itself.                    *)
(***************************************************************************)
EXTENDS Integers, FiniteSetsExt

CONSTANTS
    DayLength,  \* ticks in a day
    WeekLength, \* days in a week (EvaluateRecurring looks eight days ahead)
    None        \* no instant, no wall time

ASSUME CalendarAssumption ==
    /\ DayLength \in Nat \ {0}
    /\ WeekLength \in 1..8
    /\ None \notin Int

Frequencies == {"None", "Once", "Daily", "Weekly"}

\* CaptureSchedule: WindowStartLocal and WindowEndLocal are wall times of day.
Schedules(startTimes, wallTimes, weekDays) ==
    [frequency: Frequencies, startAt: startTimes \cup {None},
     windowStart: wallTimes \cup {None}, windowEnd: wallTimes \cup {None},
     weeklyDay: weekDays]

AllSchedules == Schedules(Int, 0..(DayLength - 1), 0..(WeekLength - 1))

-----------------------------------------------------------------------------
(* TimeZoneInfo, as the service uses it.                                     *)

Zones == [transition: Int, shift: Int]

UtcOffset(z, utc) == IF utc < z.transition THEN 0 ELSE z.shift

WallTime(z, utc) == utc + UtcOffset(z, utc)

LocalDate(z, utc) == WallTime(z, utc) \div DayLength

\* The instants at which the clock shows a wall time: none, one or two.
Showings(z, wall) == {utc \in {wall, wall - z.shift}: WallTime(z, utc) = wall}

-----------------------------------------------------------------------------
\* WallTimeCandidates.  A wall time in the gap moves forward by the gap
\* (ConvertWallTimeToUtc), where the new offset applies: wall + shift - shift.
WallTimeCandidates(z, wall) ==
    IF Showings(z, wall) = {} THEN {wall} ELSE Showings(z, wall)

\* The bisection: the first instant after `earlier` with another offset.
FindOffsetTransition(z, earlier, later) ==
    Min({later} \cup {utc \in (earlier + 1)..later:
                          UtcOffset(z, utc) # UtcOffset(z, earlier)})

\* Mutant: a wall time that shows twice does not split the window.
IntervalsUnsplit(z, starts, ends) ==
    {[start |-> s, end |-> Min({e \in ends: e > s})]:
        s \in {s \in starts: \E e \in ends: e > s}}

\* The intervals that one day's window stands for.
Intervals(z, starts, ends) ==
    CASE Cardinality(starts) = 1 /\ Cardinality(ends) = 2 /\ Min(starts) < Min(ends)
           -> {[start |-> Min(starts), end |-> Min(ends)],
               [start |-> FindOffsetTransition(z, Min(ends), Max(ends)), end |-> Max(ends)]}
      [] Cardinality(starts) = 2 /\ Cardinality(ends) = 1 /\ Max(starts) < Min(ends)
           -> {[start |-> Min(starts), end |-> FindOffsetTransition(z, Min(starts), Max(starts))],
               [start |-> Max(starts), end |-> Min(ends)]}
      [] OTHER
           -> {[start |-> s, end |-> Min({e \in ends: e > s})]:
                  s \in {s \in starts: \E e \in ends: e > s}}

WindowStart(schedule) == IF schedule.windowStart = None THEN 0 ELSE schedule.windowStart
WindowEnd(schedule) == IF schedule.windowEnd = None THEN DayLength ELSE schedule.windowEnd

IncludesDate(schedule, date) ==
    schedule.frequency = "Daily" \/ date % WeekLength = schedule.weeklyDay

\* An end that is not after the start is the next day's.
StartWall(schedule, date) == date * DayLength + WindowStart(schedule)
EndWall(schedule, date) ==
    date * DayLength + WindowEnd(schedule)
        + IF WindowEnd(schedule) <= WindowStart(schedule) THEN DayLength ELSE 0

\* Mutant: a week ahead is not far enough.
RecurringIntervalsShort(z, schedule, utc) ==
    UNION {Intervals(z, WallTimeCandidates(z, StartWall(schedule, date)),
                        WallTimeCandidates(z, EndWall(schedule, date))):
           date \in {d \in (LocalDate(z, utc) - 1)..(LocalDate(z, utc) + 6):
                        IncludesDate(schedule, d)}}

\* EvaluateRecurring's intervals: those of yesterday to eight days ahead.
RecurringIntervals(z, schedule, utc) ==
    UNION {Intervals(z, WallTimeCandidates(z, StartWall(schedule, date)),
                        WallTimeCandidates(z, EndWall(schedule, date))):
           date \in {d \in (LocalDate(z, utc) - 1)..(LocalDate(z, utc) + 8):
                        IncludesDate(schedule, d)}}

EvaluateRecurring(z, schedule, utc) ==
    LET intervals == RecurringIntervals(z, schedule, utc)
        later == {i.start: i \in {i \in intervals: i.start > utc /\ i.start < i.end}}
    IN  IF \E i \in intervals: i.start <= utc /\ utc < i.end
        THEN [active |-> TRUE, next |-> None]
        ELSE [active |-> FALSE, next |-> IF later = {} THEN None ELSE Min(later)]

\* Only a weekly schedule, or a daily one with both its times, has windows.
Recurring(schedule) ==
    \/ schedule.frequency = "Weekly"
    \/ /\ schedule.frequency = "Daily"
       /\ schedule.windowStart # None
       /\ schedule.windowEnd # None

NotStarted(schedule, utc) == schedule.startAt # None /\ utc < schedule.startAt

GetAvailability(z, schedule, utc) ==
    IF NotStarted(schedule, utc) THEN [active |-> FALSE, next |-> schedule.startAt]
    ELSE IF Recurring(schedule) THEN EvaluateRecurring(z, schedule, utc)
    ELSE [active |-> TRUE, next |-> None]

-----------------------------------------------------------------------------
(* What the schedule means to somebody who looks at a clock on the wall, with *)
(* no instants and no candidates.                                            *)

MovedOutOfGap(z, wall) == IF Showings(z, wall) = {} THEN wall + z.shift ELSE wall

ShownInside(z, schedule, utc) ==
    \E date \in (LocalDate(z, utc) - 2)..(LocalDate(z, utc) + 1):
        /\ IncludesDate(schedule, date)
        /\ MovedOutOfGap(z, StartWall(schedule, date)) <= WallTime(z, utc)
        /\ WallTime(z, utc) < MovedOutOfGap(z, EndWall(schedule, date))

OpenByTheWallClock(z, schedule, utc) ==
    /\ ~NotStarted(schedule, utc)
    /\ Recurring(schedule) => ShownInside(z, schedule, utc)
=============================================================================
