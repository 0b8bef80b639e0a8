---------------------------- MODULE SioCounter ------------------------------
(***************************************************************************)
(* The counter/timer and the input change detector of the first serial     *)
(* part, src/core/device/ap_mc68681.c, clocked by src/core/board/ap_sio.c, *)
(* as operators on a record.  The counter's output is wired back to input  *)
(* pin 0, which is the only input that moves.                              *)
(***************************************************************************)
EXTENDS Bytes

CONSTANTS X1,         \* the units of time in a pulse of the part's clock
          Samples,    \* AP_MC68681_INPUT_SAMPLE_DIVIDER
          Never       \* AP_TIME_NEVER

ASSUME X1Assumption      == X1 \in Nat \ {0}
ASSUME SamplesAssumption == Samples \in Nat \ {0}

\* The counter's part of ap_mc68681_t.  acr holds the two bits of ACR that
\* matter: timer mode, and the interrupt of pin 0.
SioCounters == [counter : 0..Word - 1, preload : 0..Word - 1,
                running : BOOLEAN, acr : SUBSET {"timer", "pin"},
                output : BOOLEAN, second : BOOLEAN,
                isr : SUBSET {"input", "counter"},
                imr : SUBSET {"input", "counter"},
                divider : 0..Samples - 1, sampled : BOOLEAN, detected : BOOLEAN,
                input : BOOLEAN, to : Nat]

SioReset == [counter |-> 0, preload |-> 0, running |-> FALSE, acr |-> {},
             output |-> FALSE, second |-> FALSE, isr |-> {}, imr |-> {},
             divider |-> 0, sampled |-> FALSE, detected |-> FALSE,
             input |-> FALSE, to |-> 0]

CountsDown(u) == u.running \/ "timer" \in u.acr

\* sample_input_port: a level counts once two samples agree.
SampleInput(u) ==
    LET q == [u EXCEPT !.sampled = u.input] IN
    IF u.input # u.sampled \/ u.input = u.detected THEN q
    ELSE [q EXCEPT !.detected = u.input,
                   !.isr = @ \cup (IF "pin" \in u.acr THEN {"input"} ELSE {})]

\* Terminal count: the output inverts each time, the flag is set every
\* second time.
Terminal(u) ==
    [u EXCEPT !.output = ~@, !.second = ~@, !.counter = u.preload,
              !.isr = @ \cup (IF u.second THEN {"counter"} ELSE {})]

\* ap_mc68681_clock
Pulse(u) ==
    LET d == IF u.divider + 1 >= Samples
             THEN SampleInput([u EXCEPT !.divider = 0])
             ELSE [u EXCEPT !.divider = @ + 1]
        n == IF d.counter > 0 THEN d.counter - 1 ELSE 0
    IN  IF ~CountsDown(d) THEN d
        ELSE IF n # 0 THEN [d EXCEPT !.counter = n]
        ELSE Terminal([d EXCEPT !.counter = 0])

\* ap_sio_advance: the pulses that are due, and then the pin follows the
\* counter's output.
SioAdvance(u, at) ==
    LET n == (at - u.to) \div X1
        f[k \in 0..n] == IF k = 0 THEN u ELSE Pulse(f[k - 1])
    IN  [f[n] EXCEPT !.to = u.to + n * X1, !.input = f[n].output]

\* ap_mc68681_irq
SioIrq(u) == u.isr \cap u.imr # {}

\* Mutant of SioNextChange: the bound is of the second terminal count.
SioNextInterrupt(u) ==
    IF ~CountsDown(u) THEN Never
    ELSE u.to + ((IF u.counter > 0 THEN u.counter ELSE 1)
                   + (IF u.second THEN 0 ELSE u.preload)) * X1

\* ap_sio_interrupt_next_change: the next sample when a change that may
\* interrupt is waiting for one, and the terminal count of a counter that
\* counts.
SioNextChange(u) ==
    LET sample == IF u.input # u.detected /\ "pin" \in u.acr
                  THEN u.to + (Samples - u.divider) * X1 ELSE Never
        count  == IF CountsDown(u)
                  THEN u.to + (IF u.counter > 0 THEN u.counter ELSE 1) * X1
                  ELSE Never
    IN  IF sample < count THEN sample ELSE count

\* The registers: start and stop are reads, the rest are writes.
StartCounter(u) == [u EXCEPT !.running = TRUE, !.output = ~@, !.second = FALSE,
                             !.counter = u.preload]
StopCounter(u)  == [u EXCEPT !.isr = @ \ {"counter"},
                             !.running = @ /\ "timer" \in u.acr]
ReadInputChange(u) == [u EXCEPT !.isr = @ \ {"input"}]
WriteAcr(u, a)     == [u EXCEPT !.acr = a]
WriteImr(u, m)     == [u EXCEPT !.imr = m]
WriteUpper(u, v)   == [u EXCEPT !.preload = v * Byte + (@ % Byte)]
WriteLower(u, v)   == [u EXCEPT !.preload = (@ \div Byte) * Byte + v]

SioAccess(u, VS) ==
         {StartCounter(u), StopCounter(u), ReadInputChange(u)}
    \cup {WriteAcr(u, a) : a \in SUBSET {"timer", "pin"}}
    \cup {WriteImr(u, m) : m \in SUBSET {"input", "counter"}}
    \cup {WriteUpper(u, v) : v \in VS} \cup {WriteLower(u, v) : v \in VS}
=============================================================================
