--------------------------- MODULE MCCaptureClock ---------------------------
EXTENDS CaptureClock

\* A zone that does not change, one with a gap and one with a repeated stretch.
MCZones == {[transition |-> 4, shift |-> s]: s \in {-2, 0, 2}}

Windows(frequencies, walls, days) ==
    {s \in Schedules({}, walls, days): s.frequency \in frequencies
                                       /\ s.windowStart # None /\ s.windowEnd # None}

\* Every window of every length, at every position against the change.
MCSchedules ==
    Windows({"Daily"}, 0..(DayLength - 1), {1})
    \cup Windows({"Weekly"}, 0..(DayLength - 1), {0, 1})
    \cup {s \in Schedules({5}, {}, {1}):
               \/ s.frequency = "None" /\ s.startAt = None
               \/ s.frequency = "Once" /\ s.startAt = 5
               \/ s.frequency = "Weekly" /\ s.startAt = None}

\* Sessions are started with a window that the change of offset falls into.
MCStarted ==
    {s \in MCSchedules: s.frequency = "Daily" /\ s.windowStart = 2 /\ s.windowEnd = 6}

\* No schedule at all.
MCAlways == {s \in Schedules({}, {}, {1}): s.frequency = "None"}
=============================================================================
