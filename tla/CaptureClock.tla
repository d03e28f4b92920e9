---------------------------- MODULE CaptureClock ----------------------------
(***************************************************************************)
(* The time of one session: its active segments, the deadlines of its      *)
(* frames, and how long its loop sleeps, under a schedule.                 *)
(*                                                                         *)
(* Here a request takes effect at once and the loop it stops is gone:      *)
(* CaptureService has the interleavings.  What is hard here is the clock:  *)
(* the loop sees the time only when it wakes, a camera request takes as    *)
(* long as it takes, a turn saves the session before it sleeps for a delay *)
(* reckoned from the time it began, windows open and close meanwhile, and  *)
(* the process may be down for a while.                                    *)
(***************************************************************************)
EXTENDS CaptureSchedule

CONSTANTS
    Duration,       \* CaptureDurationSeconds, in ticks
    Interval,       \* CaptureIntervalSeconds (at least 1)
    NotDueSleep,    \* the 15 seconds a loop sleeps at most when no frame is due
    ClosedSleep,    \* the 30 seconds a loop sleeps at most outside its window
    MaxRequest,     \* the longest a camera request takes, its retries and saves
                    \* included (bound)
    MaxLag,         \* the longest a turn saves and tells the session (bound)
    Horizon,        \* the last instant (bound)
    MaxStops,       \* how often the user pauses or cancels (bound)
    ZoneChoices,    \* zones to check
    ScheduleChoices,\* schedules to check
    StartedChoices  \* those of them whose sessions the user starts (bound)

ASSUME ClockAssumption ==
    /\ Duration \in Nat \ {0}
    /\ Interval \in Nat \ {0}
    /\ NotDueSleep \in Nat \ {0}
    /\ ClosedSleep \in 1..DayLength
    /\ MaxRequest \in Nat
    /\ MaxLag \in Nat
    /\ Horizon \in Nat
    /\ MaxStops \in Nat
    /\ ZoneChoices \subseteq Zones
    /\ ScheduleChoices \subseteq AllSchedules
    /\ StartedChoices \subseteq ScheduleChoices

VARIABLES
    zone, schedule, \* the process's time zone and the session's schedule
    now,            \* the clock
    status,         \* Status
    accumulated,    \* AccumulatedCaptureSeconds
    segment,        \* ActiveSegmentStartedAt, or None
    started,        \* StartedAt, or None
    lastCapture,    \* LastCaptureAt, or None
    paused,         \* PausedAt, or None
    due,            \* NextCaptureAt, or None
    wake,           \* when the sleeping loop wakes
    shooting,       \* when the loop went into CaptureFrameWithRetriesAsync, or None
    stops,          \* pauses and cancellations so far
    spent,          \* ticks that passed Capturing while the schedule was open,
    overrun,        \* those that passed Capturing while it was closed,
    late            \* and how many of them since it closed

setting == <<zone, schedule>>
session == <<status, accumulated, segment, started, lastCapture, paused, due>>
account == <<spent, overrun, late>>
vars == <<setting, now, session, wake, shooting, stops, account>>

States == {"Ready", "Scheduled", "Capturing", "Paused",
           "Rendering", "Completed", "Failed", "Cancelled"}

Instant == 0..Horizon

TypeOK ==
    /\ zone \in ZoneChoices
    /\ schedule \in ScheduleChoices
    /\ now \in Instant
    /\ status \in States
    /\ accumulated \in Nat
    /\ segment \in Instant \cup {None}
    /\ started \in Instant \cup {None}
    /\ lastCapture \in Instant \cup {None}
    /\ paused \in Instant \cup {None}
    /\ due \in Nat \cup {None}
    /\ status = "Capturing" => due # None
    /\ wake \in Nat
    /\ shooting \in Instant \cup {None}
    /\ stops \in 0..MaxStops
    /\ spent \in Nat
    /\ overrun \in Nat
    /\ late \in Nat

-----------------------------------------------------------------------------
(* The session's own clockwork.                                              *)

\* GetAvailability for the instants of the model (tabulated once for TLC).
Answers ==
    [z \in ZoneChoices |-> [s \in ScheduleChoices |-> [t \in Instant |-> GetAvailability(z, s, t)]]]

Availability == Answers[zone][schedule][now]

Elapsed == IF segment = None THEN 0 ELSE Max({0, now - segment})

GetActiveCaptureSeconds == accumulated + IF status = "Capturing" THEN Elapsed ELSE 0

BeginActiveSegment ==
    /\ segment' = IF segment = None THEN now ELSE segment
    /\ started' = IF started = None THEN now ELSE started
    /\ paused' = None

\* Mutant: the segment is added, and stays open.
EndActiveSegmentOpen ==
    /\ accumulated' = accumulated + Elapsed
    /\ segment' = segment

EndActiveSegment ==
    /\ accumulated' = accumulated + Elapsed
    /\ segment' = None

\* Mutant: the next deadline is one interval after the request came back.
NextDeadlineFromNow(dueAt, utcNow) == utcNow + Interval

\* CaptureTimeline.GetNextDeadline.
GetNextDeadline(dueAt, utcNow) ==
    IF dueAt > utcNow THEN dueAt
    ELSE dueAt + ((utcNow - dueAt) \div Interval + 1) * Interval

\* Mutant: the loop does not ask when the window opens.
RecheckDelayFixed(next) == ClosedSleep

\* DelayForRecheckAsync.
RecheckDelay(next) ==
    IF next = None \/ next <= now \/ next - now > ClosedSleep
    THEN ClosedSleep ELSE next - now

\* A loop comes back at the earliest at t: it saves the session first.
NoSoonerThan(t) == t..(t + MaxLag)

\* Mutant: a start sets no deadline.
FirstDeadlineKept == due

\* The first deadline is the start; a resumed session keeps the one it had.
FirstDeadline == IF due = None THEN now ELSE due

-----------------------------------------------------------------------------
(* The user.                                                                 *)

\* StartSessionAsync accepts; its loop has its first turn right away.
Start ==
    /\ schedule \in StartedChoices
    /\ status \in {"Ready", "Paused", "Failed"}
    /\ \/ /\ Availability.active
          /\ status' = "Capturing"
          /\ BeginActiveSegment
          /\ due' = FirstDeadline
          /\ UNCHANGED accumulated
       \/ /\ ~Availability.active
          /\ status' = "Scheduled"
          /\ EndActiveSegment
          /\ UNCHANGED <<started, paused, due>>
    /\ wake' \in NoSoonerThan(now)
    /\ UNCHANGED <<setting, now, lastCapture, shooting, stops, account>>

\* PauseSessionAsync and CancelSessionAsync; the loop's sleep or camera request
\* ends with it.
Stop ==
    /\ schedule \in StartedChoices
    /\ stops < MaxStops
    /\ \/ /\ status \in {"Capturing", "Scheduled"}
          /\ status' = "Paused"
          /\ paused' = now
       \/ /\ status' = "Cancelled"
          /\ UNCHANGED paused
    /\ EndActiveSegment
    /\ shooting' = None
    /\ stops' = stops + 1
    /\ UNCHANGED <<setting, now, started, lastCapture, due, wake, account>>

-----------------------------------------------------------------------------
(* The loop: RunCaptureLoopAsync wakes and has one turn.                     *)

Awake == status \in {"Capturing", "Scheduled"} /\ shooting = None /\ wake <= now

\* The delay is reckoned from the time the turn began, and begins when the session
\* is saved.
TurnOutsideWindow ==
    /\ Awake
    /\ ~Availability.active
    /\ status' = "Scheduled"
    /\ IF status = "Capturing" THEN EndActiveSegment ELSE UNCHANGED <<accumulated, segment>>
    /\ wake' \in NoSoonerThan(now + RecheckDelay(Availability.next))
    /\ UNCHANGED <<setting, now, started, lastCapture, paused, due, shooting, stops, account>>

\* The turn goes on from here in the same instant.
TurnResumes ==
    /\ Awake
    /\ Availability.active
    /\ status = "Scheduled"
    /\ status' = "Capturing"
    /\ BeginActiveSegment
    /\ due' = now
    /\ UNCHANGED <<setting, now, accumulated, lastCapture, wake, shooting, stops, account>>

InsideWindow == Awake /\ Availability.active /\ status = "Capturing"

\* CompleteSessionAsync.
TurnCompletes ==
    /\ InsideWindow
    /\ GetActiveCaptureSeconds >= Duration
    /\ EndActiveSegment
    /\ status' = "Rendering"
    /\ UNCHANGED <<setting, now, started, lastCapture, paused, due, wake, shooting, stops, account>>

TurnNotDue ==
    /\ InsideWindow
    /\ GetActiveCaptureSeconds < Duration
    /\ due > now
    /\ wake' = now + Min({due - now, NotDueSleep})
    /\ UNCHANGED <<setting, now, session, shooting, stops, account>>

TurnShoots ==
    /\ InsideWindow
    /\ GetActiveCaptureSeconds < Duration
    /\ due <= now
    /\ shooting' = now
    /\ UNCHANGED <<setting, now, session, wake, stops, account>>

\* The camera answered, or all attempts failed and are tolerated.
ShotEnds ==
    /\ shooting # None
    /\ lastCapture' \in {lastCapture, now}
    /\ due' = GetNextDeadline(due, now)
    /\ shooting' = None
    /\ wake' \in NoSoonerThan(now)
    /\ UNCHANGED <<setting, now, status, accumulated, segment, started, paused, stops, account>>

\* FailSessionAsync: storage, the camera's profile, or too many failures.
ShotFails ==
    /\ shooting # None
    /\ EndActiveSegment
    /\ status' = "Failed"
    /\ shooting' = None
    /\ UNCHANGED <<setting, now, started, lastCapture, paused, due, wake, stops, account>>

RenderingEnds ==
    /\ status = "Rendering"
    /\ status' \in {"Completed", "Failed"}
    /\ UNCHANGED <<setting, now, accumulated, segment, started, lastCapture, paused, due,
                   wake, shooting, stops, account>>

-----------------------------------------------------------------------------
\* The clock does not pass a loop that is awake, nor a request's time limit.
Tick ==
    /\ now < Horizon
    /\ ~Awake
    /\ shooting # None => now < shooting + MaxRequest
    /\ now' = now + 1
    /\ spent' = spent + IF status = "Capturing" /\ Availability.active THEN 1 ELSE 0
    /\ IF status = "Capturing" /\ ~Availability.active
       THEN overrun' = overrun + 1 /\ late' = late + 1
       ELSE overrun' = overrun /\ late' = 0
    /\ UNCHANGED <<setting, session, wake, shooting, stops>>

\* NormalizeLoadedSession: what the process finds when it is back at some later
\* time.  A session that has started but has no active seconds gets the time from
\* its start to its last sign of life; the poller gives a scheduled one a loop.
LastActive(utcNow) ==
    CASE lastCapture # None -> lastCapture
      [] lastCapture = None /\ paused # None -> paused
      [] OTHER -> utcNow

Restart ==
    /\ now' \in now..Horizon
    /\ accumulated' = IF accumulated = 0 /\ started # None /\ status # "Ready"
                      THEN Min({Duration, Max({0, LastActive(now') - started})})
                      ELSE accumulated
    /\ segment' = None
    /\ IF status \in {"Capturing", "Rendering"}
       THEN status' = "Paused" /\ paused' = now'
       ELSE UNCHANGED <<status, paused>>
    /\ wake' = now'
    /\ shooting' = None
    /\ UNCHANGED <<setting, started, lastCapture, due, stops, account>>

Init ==
    /\ zone \in ZoneChoices
    /\ schedule \in ScheduleChoices
    /\ now = 0
    /\ status = "Ready"
    /\ accumulated = 0
    /\ segment = None /\ started = None /\ lastCapture = None /\ paused = None
    /\ due = None
    /\ wake = 0
    /\ shooting = None
    /\ stops = 0
    /\ spent = 0 /\ overrun = 0 /\ late = 0

Next ==
    \/ Start \/ Stop
    \/ TurnOutsideWindow \/ TurnResumes \/ TurnCompletes \/ TurnNotDue \/ TurnShoots
    \/ ShotEnds \/ ShotFails \/ RenderingEnds
    \/ Tick

\* While the process lives.
Spec == Init /\ [][Next]_vars

\* When it may also be restarted.
RestartSpec == Init /\ [][Next \/ Restart]_vars

-----------------------------------------------------------------------------
\* At every instant, on both sides of a change of offset, the schedule is open
\* exactly when the clock on the wall shows a time inside a window.
OpenAsTheWallClockShows ==
    Availability.active <=> OpenByTheWallClock(zone, schedule, now)

\* The next start that the user is shown and the loop sleeps until is kept: it
\* does not move while the schedule is closed, and the schedule opens then.
NextStartIsKept ==
    [][now' = now + 1 /\ ~Availability.active =>
          LET later == Answers[zone][schedule][now']
          IN  IF later.active THEN Availability.next = now'
                              ELSE later.next = Availability.next]_now

\* A loop is late by no more than the saving of one turn: when a window has opened
\* for a Scheduled session, or a frame is due for a Capturing one, no sleep that is
\* still to end goes on for longer than that.
NothingIsOverslept ==
    \/ status = "Scheduled" /\ Availability.active
    \/ status = "Capturing" /\ shooting = None /\ due <= now
    => wake <= now + MaxLag

\* Progress is the time spent Capturing inside the windows and what a loop goes on
\* for when its window closes, neither more nor less: not that of pauses, of waiting
\* and of failures.  And it never goes on for longer than the sleep or the camera
\* request it was in took, and the saving after it.
LongestOverrun == Max({NotDueSleep, MaxRequest}) + MaxLag

ActiveTimeIsTimeInWindows ==
    /\ GetActiveCaptureSeconds = spent + overrun
    /\ late < LongestOverrun

\* Frames stay on the timeline of the first one since the schedule last opened:
\* a slow request skips slots, but never shifts one and never repeats one.
DeadlinesKeepTheTimeline ==
    [][due # None /\ status = "Capturing" /\ due' # due =>
          due' > now /\ due' <= now + Interval /\ (due' - due) % Interval = 0]_due

\* "wall-clock time spent paused or waiting for a schedule does not advance
\* progress" (docs/ARCHITECTURE.md), also when the pause is a restart.
DowntimeDoesNotCount == GetActiveCaptureSeconds <= spent
=============================================================================
