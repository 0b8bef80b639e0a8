------------------------------- MODULE Clocks -------------------------------
(***************************************************************************)
(* The devices that keep time, each run by the machine's loop: at an       *)
(* instruction's boundary the board samples interrupts if the last promise *)
(* has run out (ap_machine.c and ap_board_sample_interrupts), the          *)
(* instruction may reach the device's registers or reset the board, and at *)
(* its end the board is advanced by the time it took.                      *)
(*                                                                         *)
(* A behaviour has one device, chosen at the start, because the board      *)
(* takes the earliest of the promises and nothing else joins them; of the  *)
(* serial chip it is the counter (Serial has its characters), and the      *)
(* 8254 belongs to the ring controller, which clocks it once for a byte.   *)
(***************************************************************************)
EXTENDS Ptm, Calendar, Pit, SioCounter, Sequences

CONSTANTS Devices,      \* which devices are looked at
          StartDates,   \* dates the battery may hold
          ControlWords, \* what is written to the timers' controls
          RatesA, SetsB, Alarms, \* and to the calendar's registers
          WrittenDates,
          MaxStep,      \* the longest an instruction takes
          MaxAccess,    \* register accesses in a behaviour, by device
          MaxNow        \* the end of time, by device

ASSUME ClocksAssumption ==
    /\ Devices \subseteq {"timer", "calendar", "sio", "pit"}
    /\ MaxStep \in Nat \ {0} /\ Never \in Nat
    /\ \A d \in Devices : MaxAccess[d] \in Nat /\ MaxNow[d] \in Nat /\ MaxNow[d] < Never

\* An hour of the day, and for the rest what two decimal digits can show.
Legible(d) == /\ d.hour < 24 /\ d.minute < 100 /\ d.second < 100
              /\ d.weekday < 100 /\ d.day < 100 /\ d.month < 100

\* What is written fits the registers, and the battery and the host keep to dates that
\* the registers can show, in whichever format the host has chosen: a value of 160 or
\* more loses its top digit to the byte when it is read in decimal.
ASSUME WrittenAssumption ==
    /\ ControlWords \subseteq Controls
    /\ RatesA \subseteq RegisterA /\ SetsB \subseteq RegisterB /\ Alarms \subseteq ClockTimes
    /\ StartDates \subseteq Dates /\ \A d \in StartDates : Legible(d)
    /\ WrittenDates \subseteq DateRegisters
    /\ \A d \in WrittenDates, b \in SetsB \cup {BatteryB} :
         Legible(DateFrom(b, d))

VARIABLES which,    \* the device
          dev,      \* its state
          now,      \* the machine's time
          until,    \* interrupt_valid_until
          phase,    \* what the loop does next
          left,     \* accesses left
          origin    \* the last start: see DateIsNth and WaveRight

vars == <<which, dev, now, until, phase, left, origin>>

\* A promise, a line and an advance for each kind of device.
Irq(w, d) == CASE w = "timer"    -> TimerIrq(d)
               [] w = "calendar" -> CalendarIrq(d)
               [] w = "sio"      -> SioIrq(d)
               [] OTHER          -> FALSE
NextChange(w, d) == CASE w = "timer"    -> TimerNextPulse(d)
                      [] w = "calendar" -> CalendarNextChange(d)
                      [] w = "sio"      -> SioNextChange(d)
                      [] OTHER          -> Never
Advance(w, d, at) == CASE w = "timer"    -> BoardAdvanceTimer(d, at)
                       [] w = "calendar" -> CalendarAdvance(d, at)
                       [] w = "sio"      -> SioAdvance(d, at)
                       [] OTHER          -> d

(***************************************************************************)
(* The date by itself: the number of seconds since the first day of year   *)
(* one, counted from the lengths of years and months and not by carrying.  *)
(***************************************************************************)
HourLength == Sixty * Sixty
DaysBefore == <<0, 31, 59, 90, 120, 151, 181, 212, 243, 273, 304, 334>>
DayNumber(y, m, d) ==
    365 * (y - 1) + (y - 1) \div 4 - (y - 1) \div 100 + (y - 1) \div 400
      + DaysBefore[m] + (IF m > 2 /\ LeapYear(y) THEN 1 ELSE 0) + d
SecondNumber(d) ==
    DayNumber(d.year, d.month, d.day) * 24 * HourLength
      + d.hour * HourLength + d.minute * Sixty + d.second

\* Day 1 was a Monday, and Sunday is 1.
Weekday(d) == (DayNumber(d.year, d.month, d.day) % 7) + 1

\* The month has the day.
OnCalendar(d) ==
    /\ d.month \in 1..12 /\ d.day >= 1
    /\ DayNumber(d.year, d.month, d.day)
         < IF d.month = 12 THEN DayNumber(d.year + 1, 1, 1)
                           ELSE DayNumber(d.year, d.month + 1, 1)

\* Two in the morning of the last Sunday of a month of 30 + x days.
ShiftOf(y, m, x) ==
    LET last == DayNumber(y, m, 30 + x)
    IN  (last - (last % 7)) * 24 * HourLength + 2 * HourLength

\* The number the date should have n seconds after number s of year y.
Expected(y, s, n, dse) ==
    LET spring == ShiftOf(y, 4, 0)
        autumn == ShiftOf(y, 10, 1)
    IN  CASE dse /\ s < spring /\ s + n >= spring                   -> s + n + HourLength
          [] dse /\ spring <= s /\ s < autumn /\ s + n >= autumn -> s + n - HourLength
          [] OTHER -> s + n

\* A date and a time of day that exist.
Proper(d) == OnCalendar(d) /\ d.hour < 24 /\ d.minute < Sixty /\ d.second < Sixty

\* Where counting starts from: anew whenever the date or the mode is written.
\* It is clean if a date is written, with its day of the week.
CalendarOrigin(r) == [year |-> r.date.year, at |-> SecondNumber(r.date),
                      cycles |-> r.cycles, dse |-> r.b.dse,
                      clean |-> /\ ~r.shifted /\ Proper(r.date)
                                /\ r.date.weekday = Weekday(r.date)]

(***************************************************************************)
(* The machine.                                                            *)
(***************************************************************************)
Init ==
    /\ which \in Devices
    /\ dev \in CASE which = "timer"    -> {TimerReset}
                 [] which = "calendar" -> {CalendarReset(s) : s \in StartDates}
                 [] which = "sio"      -> {SioReset}
                 [] which = "pit"      -> {WriteMode(m, rw, 0) : m \in PitModes,
                                                  rw \in {"lsb", "msb", "both"}}
    /\ origin = CASE which = "calendar" -> CalendarOrigin(dev)
                  [] OTHER              -> [n |-> 0, k |-> 0]
    /\ now = 0 /\ until = 0 /\ phase = "boundary" /\ left = MaxAccess[which]

\* ap_machine.c's boundary: sample only when the promise has run out.
Sample ==
    /\ which # "pit" /\ phase = "boundary"
    /\ until' = IF now >= until THEN NextChange(which, dev) ELSE until
    /\ phase' = "execute"
    /\ UNCHANGED <<which, dev, now, left, origin>>

\* An instruction that reaches the device, which the end of the last one has
\* brought up to date: the promise is withdrawn.
Accesses(w, d) ==
    CASE w = "timer"    -> TimerAccess(d, ControlWords, 0..Byte - 1)
      [] w = "calendar" -> CalendarAccess(d, RatesA, SetsB, Alarms, WrittenDates)
      [] w = "sio"      -> SioAccess(d, 0..Byte - 1)

Access ==
    /\ which # "pit" /\ phase = "execute" /\ left > 0
    /\ \E d \in Accesses(which, dev) :
         /\ dev' = d
         /\ origin' = IF which = "calendar" /\ (d.date # dev.date \/ d.b.dse # dev.b.dse)
                      THEN CalendarOrigin(d) ELSE origin
    /\ until' = 0 /\ left' = left - 1 /\ phase' = "advance"
    /\ UNCHANGED <<which, now>>

\* One that does not.
Other ==
    /\ which # "pit" /\ phase = "execute" /\ phase' = "advance"
    /\ UNCHANGED <<which, dev, now, until, left, origin>>

\* The RESET instruction: ap_board_reset_devices, which reaches the timers.
ResetDevices ==
    /\ which = "timer" /\ phase = "execute" /\ left > 0
    /\ dev' = TimerReset
    /\ left' = left - 1 /\ phase' = "advance"
    /\ UNCHANGED <<which, now, until, origin>>

\* The end of the instruction: ap_board_advance.
Advanced ==
    /\ which # "pit" /\ phase = "advance" /\ now < MaxNow[which]
    /\ \E step \in 1..MaxStep :
         /\ now + step <= MaxNow[which]
         /\ now' = now + step
         /\ dev' = Advance(which, dev, now + step)
    /\ phase' = "boundary"
    /\ UNCHANGED <<which, until, left, origin>>

\* The ring controller writes a counter, and clocks it.
PitWrite ==
    /\ which = "pit" /\ left > 0 /\ left' = left - 1
    /\ \E v \in 0..Byte - 1 :
         /\ dev' = WriteByte(dev, v)
         /\ origin' = IF ~dev.counting /\ ~dev.load
                      THEN [n |-> IF dev'.latch = 0 THEN Word ELSE dev'.latch,
                            k |-> 0]
                      ELSE [n |-> 0, k |-> 0]
    /\ UNCHANGED <<which, now, until, phase>>

PitCount ==
    /\ which = "pit" /\ now < MaxNow["pit"]
    /\ now' = now + 1
    /\ dev' = PitClock(dev)
    /\ origin' = IF dev.load \/ dev.counting THEN [origin EXCEPT !.k = @ + 1]
                                             ELSE origin
    /\ UNCHANGED <<which, until, phase, left>>

Next == \/ Sample \/ Access \/ Other \/ ResetDevices \/ Advanced
        \/ PitWrite \/ PitCount

Spec == Init /\ [][Next]_vars

(***************************************************************************)
(* What is checked.                                                        *)
(***************************************************************************)

Board == INSTANCE Promised WITH line <- Irq(which, dev)

\* The board may skip its sampling: what a device promises for does not come
\* before the instant it gave (ap_board_interrupt_next_change), through any mix of
\* register accesses, resets and instructions of any length.  The timers and the
\* calendar promise for their whole line, the serial chip for its counter alone:
\* the characters that ap_board_advance brings it and takes from it move its line
\* too, unasked (Interrupts has them among its Unasked).
PromiseKept == Board!Spec

\* Time is not a function of how often it is looked at: advancing a device in
\* two steps leaves it as one step does (ap_timer_advance and
\* ap_mc146818_advance carry the remainder of a period).  A divider about to
\* be let go is the exception, since the release counts from that moment.
CutInvisible ==
    which \in {"timer", "calendar"} =>
      \A a \in 1..MaxStep :
        (which = "calendar" => ~dev.held) =>
          \A once \in {Advance(which, dev, now + a)} :
            Advance(which, once, now + a + 1) = Advance(which, dev, now + a + 1)

\* The date is the one that many seconds after the start, over every month's
\* and year's end, and with daylight saving an hour more or less from the
\* last Sunday's two o'clock on, exactly once (update_cycle).
DateIsNth ==
    which = "calendar" /\ origin.clean =>
      /\ OnCalendar(dev.date)
      /\ SecondNumber(dev.date) =
           Expected(origin.year, origin.at, dev.cycles - origin.cycles, origin.dse)

\* What the date registers read, written back, is the date that was there,
\* in binary and in decimal, on a clock of 12 or of 24 hours, though the format
\* has changed since it was written and the carries have run through it
\* (to_format, hours_byte and hours_from_byte).
ReadBack == which = "calendar" => WriteDate(dev, ReadDate(dev)).date = dev.date

\* A counter's output is the wave its mode draws, from the write of the
\* count on (ap_i8254_clock_counter).
WaveRight ==
    which = "pit" /\ origin.n >= 2 /\ dev.counting =>
      dev.out = Wave(dev.mode, origin.n, origin.k)
=============================================================================
