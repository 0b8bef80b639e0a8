-------------------------------- MODULE Pit ---------------------------------
(***************************************************************************)
(* One counter of the 8254 that counts a ring controller's bytes,          *)
(* src/core/device/ap_i8254.c, as operators on a record.  A byte holds one *)
(* of Byte values.  Nothing on the board drives a gate, so all of them     *)
(* stay high and the modes that wait for a trigger, 1 and 5, never load.   *)
(* Binary counts only; the output latches are not modelled.                *)
(***************************************************************************)
EXTENDS Bytes

PitModes == 0..5

\* ap_i8254_counter_t
PitCounters ==
    [mode : PitModes, rw : {"lsb", "msb", "both"}, counter : 0..Word - 1,
     latch : 0..Word - 1, out : BOOLEAN, null : BOOLEAN, counting : BOOLEAN,
     load : BOOLEAN, expired : BOOLEAN, second : BOOLEAN]

\* ap_i8254_reset: all zero, and a control of zero is no way to be written.
\* A control word always comes first.
\*
\* write_control with a mode word
WriteMode(m, rw, counter) ==
    [mode |-> m, rw |-> rw, counter |-> counter, latch |-> 0, out |-> m # 0,
     null |-> TRUE, counting |-> FALSE, load |-> FALSE, expired |-> FALSE,
     second |-> FALSE]

\* count_written: in modes 2 and 3 a running count is not disturbed.
CountWritten(c) ==
    LET q == [c EXCEPT !.null = TRUE] IN
    CASE c.mode = 0               -> [q EXCEPT !.out = FALSE, !.load = TRUE]
      [] c.mode = 4               -> [q EXCEPT !.load = TRUE]
      [] c.mode \in {2, 3}        -> [q EXCEPT !.load = @ \/ ~c.counting]
      [] OTHER                    -> q

\* first_byte_written
FirstByteWritten(c) ==
    IF c.mode = 0 THEN [c EXCEPT !.counting = FALSE, !.out = FALSE] ELSE c

\* ap_i8254_write to a counter.
WriteByte(c, v) ==
    LET low  == [c EXCEPT !.latch = (@ \div Byte) * Byte + v]
        high == [c EXCEPT !.latch = v * Byte + (@ % Byte)]
    IN  CASE c.rw = "lsb"  -> CountWritten(low)
          [] c.rw = "msb"  -> CountWritten(high)
          [] c.rw = "both" /\ ~c.second ->
               FirstByteWritten([low EXCEPT !.second = TRUE])
          [] c.rw = "both" /\ c.second ->
               CountWritten([high EXCEPT !.second = FALSE])

\* transfer
Transfer(c) == [c EXCEPT !.counter = c.latch, !.null = FALSE, !.load = FALSE,
                         !.counting = TRUE, !.expired = FALSE]

Down(c, n) == [c EXCEPT !.counter = (@ - n + Word) % Word]

Odd(c) == c.latch % 2 = 1

\* load_square
LoadSquare(c) == IF Odd(c) THEN Down(Transfer(c), 1) ELSE Transfer(c)

\* Modes 0 and 4: the pin moves when the count first expires.
Expiring(c, level) ==
    LET d == Down(c, 1)
    IN  IF d.counter = 0 /\ ~d.expired
        THEN [d EXCEPT !.expired = TRUE, !.out = level] ELSE d

RateGenerator(c) ==
    IF c.counter = 1 THEN [Transfer(c) EXCEPT !.out = TRUE]
    ELSE LET d == Down(c, 1)
         IN  [d EXCEPT !.out = @ /\ d.counter # 1]

\* Mutant of SquareWave: an odd count is split as an even one.
SquareWaveEven(c) ==
    LET d == Down(c, 2)
    IN  IF d.counter = 0 THEN [LoadSquare(d) EXCEPT !.out = ~c.out] ELSE d

\* An odd count is one clock longer high than low.
SquareWave(c) ==
    IF Odd(c) /\ c.out /\ c.counter = 0
    THEN [LoadSquare(c) EXCEPT !.out = FALSE]
    ELSE LET d == Down(c, 2)
         IN  IF d.counter = 0 /\ (~Odd(c) \/ ~c.out)
             THEN [LoadSquare(d) EXCEPT !.out = ~c.out] ELSE d

\* ap_i8254_clock_counter.  The strobe of mode 4 ends with the next clock.
PitClock(c) ==
    LET p == IF c.mode \in {4, 5} THEN [c EXCEPT !.out = TRUE] ELSE c IN
    CASE p.load /\ p.mode = 3       -> [LoadSquare(p) EXCEPT !.out = TRUE]
      [] p.load /\ p.mode = 2       -> [Transfer(p) EXCEPT !.out = TRUE]
      [] p.load /\ p.mode \in {0, 4} -> Transfer(p)
      [] ~p.load /\ ~p.counting     -> p
      [] ~p.load /\ p.counting /\ p.mode = 2 -> RateGenerator(p)
      [] ~p.load /\ p.counting /\ p.mode = 3 -> SquareWave(p)
      [] OTHER                      -> Expiring(p, p.mode = 0)

\* What OUT is k clocks after a count of n was written to a counter at rest,
\* as the part's data sheet draws it; a written 0 is the largest count.
Wave(m, n, k) ==
    CASE m = 0 -> k >= n + 1
      [] m = 4 -> k # n + 1
      [] m = 2 -> k = 0 \/ (k - 1) % n # n - 1
      [] m = 3 -> k = 0 \/ (k - 1) % n < (n + 1) \div 2
      [] OTHER -> TRUE
=============================================================================
