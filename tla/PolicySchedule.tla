--------------------------- MODULE PolicySchedule ---------------------------
(***************************************************************************)
(* The weekly schedules that limit a policy rule: Schedule of               *)
(* application/policy.  An instant is a position in the week of UTC, a time *)
(* zone its offset from UTC at that instant (the zone database is external).*)
(***************************************************************************)
EXTENDS Naturals, FiniteSets

CONSTANTS
    DayLen,     \* time units in a day
    Offsets     \* offsets of the time zones from UTC, as non-negative units

Weekday == 0 .. 6                \* time.Sunday is 0
Week == 7 * DayLen
Instant == 0 .. Week - 1
TimeWindow == [from : 0 .. DayLen - 1, to : 0 .. DayLen - 1]
Schedule == [timezone : Offsets, weekdays : SUBSET Weekday, windows : SUBSET TimeWindow]

ASSUME ScheduleAssumption == DayLen \in Nat \ {0} /\ Offsets \subseteq Nat

\* Schedule.Validate
Validate(sc) == sc.windows # {} /\ \A w \in sc.windows : w.from # w.to

\* ApplyPreset, in half hours: bedtime and school day.
Preset(id, tz) ==
    [timezone |-> tz,
     weekdays |-> IF id = "bedtime" THEN 0 .. 4 ELSE 1 .. 5,
     windows  |-> IF id = "bedtime" THEN {[from |-> 40, to |-> 14]} ELSE {[from |-> 16, to |-> 31]}]

isWeekdayActive(sc, wd) == sc.weekdays = {} \/ wd \in sc.weekdays

\* Mutant: the morning of an overnight window asks for its own weekday.
IsActiveSameDay(sc, now) ==
    LET local == (now + sc.timezone) % Week
        wd == local \div DayLen
        tod == local % DayLen
    IN \E w \in sc.windows :
        /\ isWeekdayActive(sc, wd)
        /\ IF w.from <= w.to THEN tod >= w.from /\ tod < w.to ELSE tod >= w.from \/ tod < w.to

\* Schedule.IsActive: the morning part of an overnight window belongs to the
\* weekday before.
IsActive(sc, now) ==
    LET local == (now + sc.timezone) % Week
        wd == local \div DayLen
        tod == local % DayLen
        prevWd == (wd + 6) % 7
    IN \E w \in sc.windows :
        \/ w.from <= w.to /\ tod >= w.from /\ tod < w.to /\ isWeekdayActive(sc, wd)
        \/ w.from > w.to /\ tod >= w.from /\ isWeekdayActive(sc, wd)
        \/ w.from > w.to /\ tod < w.from /\ tod < w.to /\ isWeekdayActive(sc, prevWd)

\* The same, told forward: a window opens at its start on each day of the
\* schedule and stays open for its length, across midnight and Saturday night.
OpenWindow(sc, now) ==
    \E w \in sc.windows, wd \in Weekday :
        LET length == (w.to + DayLen - w.from) % DayLen
            start == wd * DayLen + w.from
        IN  isWeekdayActive(sc, wd) /\ (now + sc.timezone + Week - start) % Week < length

=============================================================================
