-------------------------------- MODULE Ptm ---------------------------------
(***************************************************************************)
(* The three interval timers: the MC6840 of src/core/device/ap_mc6840.c    *)
(* and the clocks src/core/board/ap_timer.c runs it by, as operators on a  *)
(* record.                                                                 *)
(*                                                                         *)
(* A byte holds one of Byte values, so a counter runs through Byte^2.  The *)
(* gates stay low, because nothing on the board drives them: a timer in a  *)
(* measuring mode therefore never counts, and neither does one that is     *)
(* told to use the internal clock.  The output pins, which nothing on the  *)
(* board reads, and what only they depend on are left out.                 *)
(***************************************************************************)
EXTENDS Bytes

Timers == 1..3

\* The rates: 250, 125 and 62.5 kHz, in periods of the fastest.
Period == <<1, 2, 4>>

\* A control register.  Bit 0 presets all timers in the first, chooses
\* between the first and the third in the second, and prescales the third.
Controls == [bit0 : BOOLEAN, internal : BOOLEAN, dual : BOOLEAN,
             measure : BOOLEAN, bit4 : BOOLEAN, irq : BOOLEAN]
CleanControl == [bit0 |-> FALSE, internal |-> FALSE, dual |-> FALSE,
                 measure |-> FALSE, bit4 |-> FALSE, irq |-> FALSE]

PtmTimers == [latch : 0..Word - 1, counter : 0..Word - 1,
              lsb : 0..Byte - 1, prescale : 0..7, flag : BOOLEAN,
              control : Controls]

\* ap_mc6840_t with the times its timers have been clocked up to.
Ptms == [timer : [Timers -> PtmTimers], msb : 0..Byte - 1, select : BOOLEAN,
         seen : SUBSET Timers, read : BOOLEAN, to : [Timers -> Nat]]

\* ap_timer_reset and ap_mc6840_reset: everything, the times included.
TimerReset ==
    [timer |-> [i \in Timers |->
                  [latch |-> Word - 1, counter |-> Word - 1,
                   lsb |-> 0, prescale |-> 0, flag |-> FALSE,
                   control |-> CleanControl]],
     msb |-> 0, select |-> FALSE, seen |-> {}, read |-> FALSE,
     to |-> [i \in Timers |-> 0]]

TimersPreset(p) == p.timer[1].control.bit0

Counting(p, i) ==
    /\ ~TimersPreset(p)
    /\ ~p.timer[i].control.measure

\* reload
Reload(t) == [t EXCEPT !.counter = t.latch, !.lsb = t.latch % Byte, !.prescale = 0]

\* The end of ap_mc6840_clock_pin: the count starts again.
TimeOut(t) == [t EXCEPT !.flag = TRUE, !.counter = t.latch, !.lsb = t.latch % Byte]

\* One count, in sixteen bits or in two nested bytes.
CountDown(t) ==
    IF t.control.dual
    THEN CASE t.lsb # 0 -> [t EXCEPT !.lsb = @ - 1]
           [] t.lsb = 0 /\ t.counter \div Byte # 0 ->
                [t EXCEPT !.counter = (@ \div Byte - 1) * Byte + (t.latch % Byte),
                          !.lsb = t.latch % Byte]
           [] OTHER -> TimeOut(t)
    ELSE IF t.counter # 0 THEN [t EXCEPT !.counter = @ - 1] ELSE TimeOut(t)

\* ap_mc6840_clock_external and ap_mc6840_clock_pin
Clock(p, i) ==
    LET t   == p.timer[i]
        pre == (t.prescale + 1) % 8
    IN  IF t.control.internal \/ ~Counting(p, i) THEN p
        ELSE CASE i = 3 /\ t.control.bit0 /\ pre # 0 ->
                    [p EXCEPT !.timer[i].prescale = pre]
               [] i = 3 /\ t.control.bit0 /\ pre = 0 ->
                    [p EXCEPT !.timer[i] = CountDown([t EXCEPT !.prescale = 0])]
               [] OTHER -> [p EXCEPT !.timer[i] = CountDown(t)]

\* Mutant of ClockedTo: the remainder of a period is thrown away.
ClockedToNow(p, i, at) == at

\* Advance by whole pulses only; the remainder is carried.
ClockedTo(p, i, at) == p.to[i] + ((at - p.to[i]) \div Period[i]) * Period[i]

\* ap_timer_advance: the timers in turn, each by the pulses of its own clock.
TimerAdvance(p, at) ==
    LET n  == [i \in Timers |-> (at - p.to[i]) \div Period[i]]
        of(k) == IF k <= n[1] THEN 1 ELSE IF k <= n[1] + n[2] THEN 2 ELSE 3
        f[k \in 0..n[1] + n[2] + n[3]] ==
            IF k = 0 THEN p ELSE Clock(f[k - 1], of(k))
    IN  [f[n[1] + n[2] + n[3]] EXCEPT
            !.to = [i \in Timers |-> ClockedTo(p, i, at)]]

\* ap_timer_next_pulse
TimerNextPulse(p) ==
    LET due == {p.to[i] + Period[i] : i \in Timers}
    IN  CHOOSE t \in due : \A u \in due : t <= u

\* ap_board_advance: the timers are left alone until a pulse is due.
BoardAdvanceTimer(p, at) ==
    IF at >= TimerNextPulse(p) THEN TimerAdvance(p, at) ELSE p

\* ap_mc6840_irq
TimerIrq(p) == \E i \in Timers : p.timer[i].flag /\ p.timer[i].control.irq

\* A write to the first register: control 1 or control 3.  Entering the
\* preset state clears the flags and leaving it loads the counters.
WriteControl13(p, c) ==
    LET target == IF p.select THEN 1 ELSE 3
        q      == [p EXCEPT !.timer[target].control = c]
    IN  CASE ~TimersPreset(p) /\ TimersPreset(q) ->
               [q EXCEPT !.timer = [i \in Timers |-> [@[i] EXCEPT !.flag = FALSE]]]
          [] TimersPreset(p) /\ ~TimersPreset(q) ->
               [q EXCEPT !.timer = [i \in Timers |-> Reload(@[i])]]
          [] OTHER -> q

WriteControl2(p, c) == [p EXCEPT !.select = c.bit0, !.timer[2].control = c]

WriteMsb(p, v) == [p EXCEPT !.msb = v]

\* A write of a latch's low byte, which takes the high one with it.
WriteLatch(p, i, v) ==
    LET t == [p.timer[i] EXCEPT !.latch = p.msb * Byte + v]
        u == IF t.control.bit4 THEN t ELSE Reload(t)
    IN  [p EXCEPT !.timer[i] =
           IF t.control.bit4 \/ t.control.measure THEN u
           ELSE [u EXCEPT !.flag = FALSE]]

\* Reading the status notes which flags it shows.
ReadStatus(p) ==
    [p EXCEPT !.seen = {i \in Timers : p.timer[i].flag}, !.read = TRUE]

\* Reading a counter clears its flag when the last status read showed it.
ReadCounter(p, i) ==
    IF p.read /\ i \in p.seen
    THEN [p EXCEPT !.timer[i].flag = FALSE, !.read = FALSE]
    ELSE p

\* What an access to the timers can leave behind, over the values offered.
TimerAccess(p, CS, VS) ==
         {WriteControl13(p, c) : c \in CS} \cup {WriteControl2(p, c) : c \in CS}
    \cup {WriteMsb(p, v) : v \in VS} \cup {ReadStatus(p)}
    \cup {WriteLatch(p, i, v) : i \in Timers, v \in VS}
    \cup {ReadCounter(p, i) : i \in Timers}
=============================================================================
