------------------------------ MODULE Calendar ------------------------------
(***************************************************************************)
(* The calendar: the MC146818 of src/core/device/ap_mc146818.c as the      *)
(* board starts it (src/core/board/ap_calendar.c), as operators on a       *)
(* record.  An hour has Sixty minutes of Sixty seconds and a second has    *)
(* Second units of time; a day keeps its 24 hours and a year its months,   *)
(* because the rules the part keeps are about those.                       *)
(***************************************************************************)
EXTENDS Integers

CONSTANTS Sixty,      \* 60 in the part
          Second      \* the units of time in a second

ASSUME SixtyAssumption  == Sixty \in 1..60
ASSUME SecondAssumption == Second \in Nat \ {0, 1}

Flags == {"PF", "AF", "UF"}

\* Register A: the divider's choice and the rate, as the periodic
\* interrupt's period in units of time; 0 is no periodic interrupt.
RegisterA == [divider : {"running", "reset"}, period : 0..Second]

\* Register B.
RegisterB == [set : BOOLEAN, enabled : SUBSET Flags, binary : BOOLEAN,
              full : BOOLEAN,                   \* 24 hours rather than 12
              dse : BOOLEAN]

ClockTimes == [second : Nat, minute : Nat, hour : Nat]
Byte8 == 0..255
DateRegisters == [hour : Byte8, minute : Byte8, second : Byte8, weekday : Byte8,
                  day : Byte8, month : Byte8, year : Byte8]
Dates == [year : Nat, month : Nat, day : Nat, weekday : Nat,
          hour : Nat, minute : Nat, second : Nat]

\* ap_mc146818_t
Calendars == [date : Dates, a : RegisterA, b : RegisterB, c : SUBSET Flags,
              alarm : ClockTimes,
              updated : Nat, periodic : Nat, held : BOOLEAN,
              tick : 0..Second,                 \* periodic_clock's period
              shifted : BOOLEAN, cycles : Nat]

\* ap_calendar_reset: the board's battery holds binary and 24-hour.
BatteryB == [set |-> FALSE, enabled |-> {}, binary |-> TRUE, full |-> TRUE, dse |-> FALSE]
CalendarReset(start) ==
    [date |-> start, a |-> [divider |-> "running", period |-> 0], b |-> BatteryB,
     c |-> {}, alarm |-> [second |-> 0, minute |-> 0, hour |-> 0],
     updated |-> 0, periodic |-> 0, held |-> FALSE, tick |-> 0,
     shifted |-> FALSE, cycles |-> 0]

LeapYear(y) == y % 400 = 0 \/ (y % 100 # 0 /\ y % 4 = 0)

\* Mutant of DaysInMonth: every fourth year is a leap year.
DaysInMonthJulian(y, m) ==
    CASE m = 2 /\ y % 4 = 0           -> 29
      [] m = 2 /\ y % 4 # 0           -> 28
      [] m \in {4, 6, 9, 11}          -> 30
      [] OTHER                        -> 31

DaysInMonth(y, m) ==
    CASE m = 2 /\ LeapYear(y)         -> 29
      [] m = 2 /\ ~LeapYear(y)        -> 28
      [] m \in {4, 6, 9, 11}          -> 30
      [] OTHER                        -> 31

\* to_format and from_format: binary, or two decimal digits of four bits.  What is
\* read is a byte, whatever the value.
ToFormat(b, v)   == (IF b.binary THEN v ELSE (v \div 10) * 16 + (v % 10)) % 256
FromFormat(b, v) == IF b.binary THEN v ELSE (v \div 16) * 10 + (v % 16)

\* Mutant of HoursByte: midnight and noon read as zero.
HoursByteFromZero(b, h) ==
    IF b.full THEN ToFormat(b, h)
    ELSE ToFormat(b, h % 12) + (IF h > 12 THEN 128 ELSE 0)

\* hours_byte: twelve hours are 12, 1..11, with the top bit for the afternoon.
HoursByte(b, h) ==
    IF b.full THEN ToFormat(b, h)
    ELSE ToFormat(b, IF h % 12 = 0 THEN 12 ELSE h % 12)
           + (IF h >= 12 THEN 128 ELSE 0)

HoursFromByte(b, v) ==
    LET twelve == FromFormat(b, v % 128) IN
    IF b.full THEN FromFormat(b, v)
    ELSE (IF twelve = 12 THEN 0 ELSE twelve) + (IF v >= 128 THEN 12 ELSE 0)

\* An alarm byte with its two top bits set matches anything.
AlarmByteMatches(alarm, v) == alarm >= 192 \/ alarm = v

AlarmMatches(r) ==
    /\ AlarmByteMatches(r.alarm.second, ToFormat(r.b, r.date.second))
    /\ AlarmByteMatches(r.alarm.minute, ToFormat(r.b, r.date.minute))
    /\ AlarmByteMatches(r.alarm.hour, HoursByte(r.b, r.date.hour))

\* The chain of carries that starts with the second.
Carried(d) ==
    LET s == [d EXCEPT !.second = @ + 1]
        n == IF s.second >= Sixty
             THEN [s EXCEPT !.second = 0, !.minute = @ + 1] ELSE s
        h == IF n.minute >= Sixty
             THEN [n EXCEPT !.minute = 0, !.hour = @ + 1] ELSE n
        y == IF h.hour >= 24
             THEN [h EXCEPT !.hour = 0, !.day = @ + 1,
                            !.weekday = (@ % 7) + 1] ELSE h
        m == IF y.day > DaysInMonth(y.year, y.month)
             THEN [y EXCEPT !.day = 1, !.month = @ + 1] ELSE y
    IN  IF m.month > 12 THEN [m EXCEPT !.month = 1, !.year = @ + 1] ELSE m

\* Two in the morning of the month's last Sunday.
AtTheShift(d) ==
    /\ d.hour = 2 /\ d.minute = 0 /\ d.second = 0 /\ d.weekday = 1
    /\ d.day + 7 > DaysInMonth(d.year, d.month)

\* Mutant of DaylightSaving: the clock goes back whenever it is two o'clock.
DaylightSavingEachTime(r) ==
    CASE r.b.dse /\ AtTheShift(r.date) /\ r.date.month = 4 ->
           [r EXCEPT !.date.hour = 3]
      [] r.b.dse /\ AtTheShift(r.date) /\ r.date.month = 10 ->
           [r EXCEPT !.date.hour = 1]
      [] OTHER -> r

\* Daylight saving: forward in April and back in October, once each.
DaylightSaving(r) ==
    CASE r.b.dse /\ AtTheShift(r.date) ->
           IF r.date.month \in {4, 10} /\ ~r.shifted
           THEN [r EXCEPT !.date.hour = IF r.date.month = 4 THEN 3 ELSE 1,
                          !.shifted = TRUE]
           ELSE r
      [] ~(r.b.dse /\ AtTheShift(r.date)) /\ r.date.hour \notin {1, 2} ->
           [r EXCEPT !.shifted = FALSE]
      [] OTHER -> r

\* update_cycle
UpdateCycle(r) ==
    LET q == DaylightSaving([r EXCEPT !.date = Carried(@)])
    IN  [q EXCEPT !.c = @ \cup {"UF"} \cup (IF AlarmMatches(q) THEN {"AF"} ELSE {}),
                  !.cycles = @ + 1]

\* The seconds that have passed are counted or, with SET, only consumed.
Seconds(r, at) ==
    LET n == (at - r.updated) \div Second
        f[k \in 0..n] == IF k = 0 THEN r ELSE UpdateCycle(f[k - 1])
    IN  [IF r.b.set THEN r ELSE f[n] EXCEPT !.updated = r.updated + n * Second]

\* Mutant of Ticks: the flag is raised but the time not consumed exactly.
TicksLoose(r, at) ==
    IF r.a.period = 0 THEN [r EXCEPT !.periodic = at]
    ELSE IF at - r.periodic < r.a.period THEN [r EXCEPT !.tick = r.a.period]
    ELSE [r EXCEPT !.tick = r.a.period, !.c = @ \cup {"PF"}, !.periodic = at]

\* The periodic interrupt, at register A's rate; the period it ran at is
\* kept when the rate is turned off.
Ticks(r, at) ==
    IF r.a.period = 0 THEN [r EXCEPT !.periodic = at]
    ELSE LET n == (at - r.periodic) \div r.a.period
             q == [r EXCEPT !.tick = r.a.period]
         IN  IF at <= r.periodic \/ n = 0 THEN q
             ELSE [q EXCEPT !.c = @ \cup {"PF"},
                            !.periodic = @ + n * r.a.period]

\* The divider let go: the first second is half over.
Released(r, at) ==
    [r EXCEPT !.held = FALSE, !.periodic = at,
              !.updated = IF at > Second \div 2 THEN at - Second \div 2 ELSE 0]

\* ap_mc146818_advance
CalendarAdvance(r, at) ==
    IF r.a.divider = "reset"
    THEN [r EXCEPT !.updated = IF at > @ THEN at ELSE @, !.held = TRUE]
    ELSE LET q == IF r.held THEN Released(r, at) ELSE r
         IN  IF at <= q.updated THEN q ELSE Ticks(Seconds(q, at), at)

\* Mutant of CalendarNextChange: only the seconds are looked at.
CalendarNextSecond(r) == r.updated + Second

\* ap_mc146818_interrupt_next_change
CalendarNextChange(r) ==
    LET second == r.updated + Second
        tick   == r.periodic + r.tick
    IN  IF r.tick # 0 /\ tick < second THEN tick ELSE second

\* ap_mc146818_irq
CalendarIrq(r) == r.c \cap r.b.enabled # {}

\* Setting SET takes the update interrupt's enable away.
WriteB(r, b) ==
    [r EXCEPT !.b = IF b.set /\ ~r.b.set
                    THEN [b EXCEPT !.enabled = @ \ {"UF"}] ELSE b]
WriteA(r, a) == [r EXCEPT !.a = a]
ReadC(r)     == [r EXCEPT !.c = {}]

\* ap_mc146818_read and ap_mc146818_write of the date, by register.
ReadDate(r) ==
    [hour |-> HoursByte(r.b, r.date.hour),
     minute |-> ToFormat(r.b, r.date.minute),
     second |-> ToFormat(r.b, r.date.second),
     weekday |-> ToFormat(r.b, r.date.weekday),
     day |-> ToFormat(r.b, r.date.day), month |-> ToFormat(r.b, r.date.month),
     year |-> ToFormat(r.b, r.date.year % 100)]
DateFrom(b, d) ==
    [hour |-> HoursFromByte(b, d.hour), minute |-> FromFormat(b, d.minute),
     second |-> FromFormat(b, d.second), weekday |-> FromFormat(b, d.weekday),
     day |-> FromFormat(b, d.day), month |-> FromFormat(b, d.month),
     year |-> FromFormat(b, d.year)]
WriteDate(r, d) ==
    LET w == DateFrom(r.b, d)
    IN  [r EXCEPT !.date = [w EXCEPT !.year = (r.date.year \div 100) * 100 + @]]
WriteAlarm(r, l) == [r EXCEPT !.alarm = l]

\* What an access to the calendar can leave behind, over the values offered.
CalendarAccess(r, AS, BS, LS, DS) ==
         {WriteA(r, a) : a \in AS} \cup {WriteB(r, b) : b \in BS} \cup {ReadC(r)}
    \cup {WriteAlarm(r, l) : l \in LS} \cup {WriteDate(r, d) : d \in DS}
=============================================================================
