------------------------------ MODULE RingSched -----------------------------
(***************************************************************************)
(* The multi-node scheduler, src/core/ring/ap_ring_sched.c, with the exact *)
(* clocks of src/core/time/ap_time.c.  Each node has its own period, the   *)
(* ring has its bit clock, and run_until plays their events back in time   *)
(* order: the bit clock before the nodes of the same instant, the nodes in *)
(* slot order.                                                             *)
(***************************************************************************)
EXTENDS Integers

CONSTANTS
    Base,        \* AP_TIME_BASE_HZ
    BitPeriod,   \* AP_RING_BIT_CELL_TICKS
    MaxNodes,    \* AP_RING_MAX_NODES
    Rates,       \* the frequencies callers ask for
    Targets      \* the instants callers run to

ASSUME ClockAssumption == /\ Base \in Nat \ {0}
                          /\ BitPeriod \in Nat \ {0}
                          /\ MaxNodes \in Nat
                          /\ Rates \subseteq Nat
                          /\ Targets \subseteq Nat

Slots == 0 .. MaxNodes - 1

\* Stands where a slot would for the ring's own bit clock: the code's who = -1.
Bit == -1

VARIABLES
    used,      \* slots handed out; they are never freed
    period,    \* participant[i].period
    next,      \* participant[i].next
    nextBit,   \* next_bit
    bitTime,   \* medium.bit_time
    now,       \* now
    running,   \* inside ap_ring_sched_run_until
    until,     \* its argument
    rate,      \* history: the frequency node i was added with
    joined,    \* history: when node i was added
    steps,     \* history: how often node i has been stepped
    last       \* history: instant and owner of the last event

vars == <<used, period, next, nextBit, bitTime, now, running, until, rate,
          joined, steps, last>>

Present == 0 .. used - 1

-----------------------------------------------------------------------------
\* Mutant of BaseDivides: a frequency is rounded instead of refused.
BaseDividesRoughly(hz) == hz # 0 /\ hz <= Base

\* ap_time_base_divides
BaseDivides(hz) == hz # 0 /\ Base % hz = 0

\* ap_clock_init's period
ClockPeriod(hz) == Base \div hz

\* ap_ring_sched_init
Init ==
    /\ used = 0
    /\ period = [i \in Slots |-> 0]
    /\ next = [i \in Slots |-> 0]
    /\ nextBit = BitPeriod
    /\ bitTime = 0
    /\ now = 0
    /\ running = FALSE
    /\ until = 0
    /\ rate = [i \in Slots |-> 0]
    /\ joined = [i \in Slots |-> 0]
    /\ steps = [i \in Slots |-> 0]
    /\ last = [when |-> 0, who |-> Bit]

\* When a node added now first falls due.
FirstDue(hz) == now + ClockPeriod(hz)

\* ap_ring_medium_attach has a slot left.
HasRoom == used < MaxNodes

\* ap_ring_sched_add: refused, with nothing changed, when the time base cannot
\* represent the frequency or the segment is full.
Add(hz) ==
    /\ ~running
    /\ BaseDivides(hz)
    /\ HasRoom
    /\ period' = [period EXCEPT ![used] = ClockPeriod(hz)]
    /\ next' = [next EXCEPT ![used] = FirstDue(hz)]
    /\ rate' = [rate EXCEPT ![used] = hz]
    /\ joined' = [joined EXCEPT ![used] = now]
    /\ steps' = [steps EXCEPT ![used] = 0]
    /\ used' = used + 1
    /\ UNCHANGED <<nextBit, bitTime, now, running, until, last>>

\* ap_ring_sched_run_until is entered; a caller never asks for the past.
RunUntil(t) ==
    /\ ~running
    /\ t >= now
    /\ running' = TRUE
    /\ until' = t
    /\ UNCHANGED <<used, period, next, nextBit, bitTime, now, rate, joined,
                   steps, last>>

\* The event scan: who is picked, and whether the pick is still within the run.
PicksBit == /\ nextBit <= until
            /\ \A j \in Present : nextBit <= next[j]

\* Mutant of PicksNode: the scan compares with <= and keeps the last of equals.
PicksNodeLast(i) == /\ next[i] <= until
                    /\ next[i] < nextBit
                    /\ \A j \in Present : \/ next[i] < next[j]
                                          \/ next[i] = next[j] /\ j <= i

PicksNode(i) == /\ next[i] <= until
                /\ next[i] < nextBit
                /\ \A j \in Present : \/ next[i] < next[j]
                                      \/ next[i] = next[j] /\ i <= j

PicksNothing == /\ nextBit > until
                /\ \A j \in Present : next[j] > until

\* Mutant of BitStep: the bit clock is not set for its next bit.
BitStepUnarmed ==
    /\ running
    /\ PicksBit
    /\ now' = nextBit
    /\ last' = [when |-> nextBit, who |-> Bit]
    /\ UNCHANGED <<used, period, next, nextBit, bitTime, running, until, rate,
                   joined, steps>>

\* One bit time: ap_ring_medium_advance and the next one's instant.
BitStep ==
    /\ running
    /\ PicksBit
    /\ now' = nextBit
    /\ nextBit' = nextBit + BitPeriod
    /\ bitTime' = bitTime + 1
    /\ last' = [when |-> nextBit, who |-> Bit]
    /\ UNCHANGED <<used, period, next, running, until, rate, joined, steps>>

\* A node's cycle boundary: its next is set and then its callback runs.
NodeStep(i) ==
    /\ running
    /\ PicksNode(i)
    /\ now' = next[i]
    /\ next' = [next EXCEPT ![i] = @ + period[i]]
    /\ steps' = [steps EXCEPT ![i] = @ + 1]
    /\ last' = [when |-> next[i], who |-> i]
    /\ UNCHANGED <<used, period, nextBit, bitTime, running, until, rate, joined>>

\* Nothing is left within the run: the clock ends where it was asked to.
Return ==
    /\ running
    /\ PicksNothing
    /\ now' = until
    /\ running' = FALSE
    /\ UNCHANGED <<used, period, next, nextBit, bitTime, until, rate, joined,
                   steps, last>>

Loop == BitStep \/ (\E i \in Present : NodeStep(i)) \/ Return

Next == \/ \E hz \in Rates : Add(hz)
        \/ \E t \in Targets : RunUntil(t)
        \/ Loop

\* The loop of run_until is one thread's straight run: it does not stop.
Fairness == WF_vars(Loop)

Spec == Init /\ [][Next]_vars /\ Fairness

-----------------------------------------------------------------------------
\* Every variable keeps the type of the C field it stands for, and a present
\* node has a clock.
TypeOK ==
    /\ used \in 0 .. MaxNodes
    /\ period \in [Slots -> Nat]
    /\ next \in [Slots -> Nat]
    /\ nextBit \in Nat
    /\ bitTime \in Nat
    /\ now \in Nat
    /\ running \in BOOLEAN
    /\ until \in Nat
    /\ rate \in [Slots -> Nat]
    /\ joined \in [Slots -> Nat]
    /\ steps \in [Slots -> Nat]
    /\ last \in [when : Nat, who : Slots \cup {Bit}]

\* Event (w1, o1) comes before (w2, o2): by time, the bit clock before the
\* nodes of the same instant, the nodes by slot.
Before(w1, o1, w2, o2) == w1 < w2 \/ (w1 = w2 /\ o1 < o2)

\* Every clock's next event is after the last one played: nothing is overdue
\* and nothing is skipped, at any instant of a run.
NothingOverdue ==
    /\ Before(last.when, last.who, nextBit, Bit)
    /\ \A i \in Present : Before(last.when, last.who, next[i], i)

\* Each node falls due at its joining instant plus a whole number of its own
\* periods, and the ring at a whole number of bit times: no phase is lost.
OnPhase ==
    /\ nextBit = BitPeriod * (bitTime + 1)
    /\ \A i \in Present : next[i] = joined[i] + period[i] * (steps[i] + 1)

\* Between two runs a node added at hz has been stepped exactly
\* floor(elapsed * hz / Base) times and the medium advanced floor(now / bit
\* period) times, however the interval was cut into runs: no drift, and the
\* same state for the same instant.
ExactCounts ==
    ~running =>
        /\ bitTime * BitPeriod <= now /\ now < (bitTime + 1) * BitPeriod
        /\ \A i \in Present :
              LET elapsed == now - joined[i]
              IN  /\ steps[i] * Base <= elapsed * rate[i]
                  /\ elapsed * rate[i] < (steps[i] + 1) * Base

\* Events are played in strictly increasing (time, slot) order across runs,
\* and time never runs backwards.
EventsInOrder ==
    [][/\ now' >= now
       /\ last' # last => Before(last.when, last.who, last'.when, last'.who)]_vars

\* Every run ends.
RunsEnd == running ~> ~running
=============================================================================
