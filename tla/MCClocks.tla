------------------------------ MODULE MCClocks ------------------------------
EXTENDS Clocks

TheDevices == {"timer", "calendar", "sio", "pit"}

OneDate(y, m, d, h) ==
    [year |-> y, month |-> m, day |-> d, weekday |-> (DayNumber(y, m, d) % 7) + 1, hour |-> h,
     minute |-> Sixty - 1, second |-> Sixty - 1]

\* The last second of centuries and of Februaries, and the two nights of the
\* year on which the clock is moved; and noon.
TheStartDates ==
    {OneDate(1999, 12, 31, 23), OneDate(1900, 2, 28, 23),
     OneDate(2000, 2, 28, 23), OneDate(2004, 2, 29, 23),
     OneDate(2000, 4, 30, 1), OneDate(2000, 10, 29, 1),
     OneDate(2000, 10, 22, 1), OneDate(2001, 1, 1, 11)}

Control(bits) == [bit0 |-> "b0" \in bits, internal |-> "ext" \notin bits,
                  dual |-> "dual" \in bits, measure |-> "measure" \in bits,
                  bit4 |-> "b4" \in bits, irq |-> "irq" \in bits]
TheControlWords ==
    {Control({"ext", "irq"}), Control({"ext", "irq", "b0"}),
     Control({"ext", "dual", "irq", "b4", "b0"}), Control({}),
     Control({"ext", "measure", "irq"})}

TheRatesA == {[divider |-> d, period |-> p] : d \in {"running", "reset"}, p \in {0, 2}}
TheSetsB ==
    {[set |-> FALSE, enabled |-> {"PF", "AF"}, binary |-> TRUE, full |-> TRUE, dse |-> TRUE],
     [set |-> TRUE, enabled |-> {"UF"}, binary |-> FALSE, full |-> TRUE, dse |-> FALSE],
     [set |-> FALSE, enabled |-> {"UF"}, binary |-> FALSE, full |-> FALSE, dse |-> TRUE],
     [set |-> FALSE, enabled |-> {"PF"}, binary |-> TRUE, full |-> FALSE, dse |-> FALSE]}
TheAlarms == {[second |-> 192, minute |-> 0, hour |-> 192]}
TheWrittenDates ==
    {[hour |-> 1, minute |-> 1, second |-> 1, weekday |-> 1, day |-> 29,
      month |-> 10, year |-> 0]}

TheMaxAccess == [timer |-> 3, calendar |-> 2, sio |-> 4, pit |-> 3]
TheMaxNow == [timer |-> 9, calendar |-> 24, sio |-> 10, pit |-> 12]
=============================================================================
