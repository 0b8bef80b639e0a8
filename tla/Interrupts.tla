----------------------------- MODULE Interrupts -----------------------------
(***************************************************************************)
(* Interrupt delivery on the board: the devices' lines, the sampling of    *)
(* them before an instruction and its skipping while a promise holds       *)
(* (src/core/board/ap_board.c, src/core/machine/ap_machine.c), the cascade *)
(* of two controllers (src/core/board/ap_intr.c, Pic) and the processor    *)
(* that takes interrupts and ends them.                                    *)
(***************************************************************************)
EXTENDS Pic, Sequences

CONSTANTS
    Cascade,     \* AP_INTR_CASCADE_LINE
    Order,       \* the devices, as ap_board_sample_interrupts visits them
    Irq,         \* the request line of each device: 0 .. 2 * Levels - 1
    Timed,       \* the devices ap_board_interrupt_next_change asks
    Unasked,     \* the devices whose lines time also moves without their having
                 \* said so: the ring's, which is not asked, and the serial
                 \* chip's, whose counter alone answers
    BitAfter,    \* how many lines are driven before the cache register's bit
    Triggers,    \* the trigger modes software programs, TRUE for level
    Masks,       \* the masks software writes
    MaxDelay,    \* bound: how far ahead a device's next change may be
    MaxCommands, \* bound: how often software initializes a controller, changes
                 \* its priorities or special mask, or polls it
    MaxNest      \* bound: how deep interrupt service nests

Devices == {Order[k] : k \in DOMAIN Order}

ASSUME BoardAssumption ==
    /\ Cascade \in Level /\ Cascade # Levels - 1
    /\ Order \in Seq(Devices)
    /\ Irq \in [Devices -> (0 .. 2 * Levels - 1) \ {Cascade}]
    /\ \A c, d \in Devices : Irq[c] = Irq[d] => c = d
    /\ Timed \subseteq Devices /\ Unasked \subseteq Devices
    /\ BitAfter \in DOMAIN Order
    /\ Triggers \subseteq BOOLEAN /\ Masks \subseteq SUBSET Level
    /\ MaxDelay \in Nat \ {0} /\ MaxCommands \in Nat /\ MaxNest \in Nat

Chips == {"master", "slave"}

\* Delays run from now.  AP_TIME_NEVER is one that does not run.
Never == MaxDelay + 1

\* A handler on its way: what it was acknowledged with, on each controller, and
\* the controllers it owes an end of interrupt.
Frames == [level : [Chips -> Level \cup {NoLevel}], owes : SUBSET Chips]

VARIABLES
    pic,      \* the two controllers
    line,     \* each device's interrupt output
    due,      \* when each timed device next changes its line by itself
    valid,    \* interrupt_valid_until
    at,       \* where ap_machine_run is: at an instruction boundary, about to
              \* step the processor, or about to advance the board
    level,    \* cpu.interrupt_level: whether the controllers interrupt
    masked,   \* the status register's mask holds the interrupt off
    bit,      \* registers.interrupt_pending
    frames,   \* interrupts in service, innermost last
    plain,    \* history: software never rotated priorities or masked specially
    spent,    \* history: the cascade's edge went to a poll or was flushed by
              \* ICW1 and the cascade has been high ever since
    commands  \* such commands so far

vars == <<pic, line, due, valid, at, level, masked, bit, frames, plain, spent,
          commands>>

Phases == {"boundary", "step", "advance"}

-----------------------------------------------------------------------------
(* ap_intr.c                                                               *)

\* Mutant of UpdateCascade: a dropped slave output is not passed on.
UpdateCascadeRisesOnly(p) ==
    IF Pending(p["slave"])
    THEN [p EXCEPT !["master"] = SetRequest(@, Cascade, TRUE)] ELSE p

\* update_cascade
UpdateCascade(p) ==
    [p EXCEPT !["master"] = SetRequest(@, Cascade, Pending(p["slave"]))]

\* A register access that leaves a controller as q; the slave's updates the
\* cascade.  (ap_intr_read, ap_intr_write)
WithChip(p, chip, q) ==
    LET changed == [p EXCEPT ![chip] = q]
    IN  IF chip = "slave" THEN UpdateCascade(changed) ELSE changed

\* ap_intr_set_request
IntrSetRequest(p, irq, asserted) ==
    IF irq < Levels
    THEN [p EXCEPT !["master"] = SetRequest(@, irq, asserted)]
    ELSE LET l     == irq - Levels
             drove == [p EXCEPT !["slave"] = SetRequest(@, l, asserted)]
         IN  IF Moved(p["slave"], l, asserted) THEN UpdateCascade(drove) ELSE drove

\* ap_intr_acknowledge
IntrAcknowledge(p) ==
    LET first == [p EXCEPT !["master"] = Acknowledge(@)]
    IN  IF AcknowledgedLevel(p["master"]) # Cascade THEN first
        ELSE UpdateCascade([first EXCEPT !["slave"] = Acknowledge(@)])

\* What the handler finds in service: its level on the master, and on the slave
\* if the master acknowledged the cascade.
FrameOf(p) ==
    LET lm == Resolve(p["master"])
        ls == IF lm = Cascade THEN Resolve(p["slave"]) ELSE NoLevel
        lv == [c \in Chips |-> IF c = "master" THEN lm ELSE ls]
    IN  [level |-> lv,
         owes  |-> {c \in Chips : lv[c] # NoLevel /\ ~p[c].aeoi}]

-----------------------------------------------------------------------------
Init ==
    /\ pic = [c \in Chips |-> PicInit]
    /\ line = [d \in Devices |-> FALSE]
    /\ due \in [Devices -> {Never}]
    /\ valid = 0 /\ at = "boundary" /\ level = FALSE /\ masked = TRUE /\ bit = FALSE
    /\ frames = <<>> /\ plain = TRUE /\ spent = FALSE /\ commands = 0

\* ap_board_interrupt_next_change
NextChange(t) == IF Timed = {} THEN Never
                 ELSE CHOOSE v \in {t[d] : d \in Timed} : \A d \in Timed : v <= t[d]

StillSpent(p) == spent /\ Cascade \in p["master"].pins

\* The controllers once the first k lines of l have been driven, in order.
Driven(l) ==
    [k \in 0 .. Len(Order) |->
        LET r[j \in 0 .. k] ==
              IF j = 0 THEN pic
              ELSE IntrSetRequest(r[j - 1], Irq[Order[j]], l[Order[j]])
        IN  r[k]]

\* ap_board_sample_interrupts: every line is driven, the cache register's bit
\* is set on the way, and the sample promises to hold until the next change.
Sample ==
    /\ at = "boundary" /\ valid = 0
    /\ pic' = Driven(line)[Len(Order)]
    /\ bit' = Pending(Driven(line)[BitAfter]["master"])
    /\ valid' = NextChange(due)
    /\ level' = Pending(pic'["master"])
    /\ spent' = StillSpent(pic')
    /\ at' = "step"
    /\ UNCHANGED <<line, due, masked, frames, plain, commands>>

\* While the promise holds the sample is skipped and only the level is asked.
SkipSample ==
    /\ at = "boundary" /\ valid # 0
    /\ level' = Pending(pic["master"])
    /\ at' = "step"
    /\ UNCHANGED <<pic, line, due, valid, masked, bit, frames, plain, spent, commands>>

\* ap_m68030_take_interrupt and the acknowledge it runs.
TakeInterrupt ==
    /\ at = "step" /\ level /\ ~masked
    /\ pic' = IntrAcknowledge(pic)
    /\ frames' = Append(frames, FrameOf(pic))
    /\ masked' = TRUE
    /\ spent' = StillSpent(pic')
    /\ at' = "advance"
    /\ UNCHANGED <<line, due, valid, level, bit, plain, commands>>

\* An instruction that is not an interrupt.
Executes == at = "step" /\ at' = "advance" /\ (level => masked)

\* It touches no device: it computes, or changes the processor's mask.
Compute(m) ==
    /\ Executes
    /\ m \/ Len(frames) < MaxNest
    /\ masked' = m
    /\ UNCHANGED <<pic, line, due, valid, level, bit, frames, plain, spent, commands>>

\* Mutant of Discard: an access keeps the promise of the last sample.
DiscardNothing(v) == v

\* ap_board_read, ap_board_write: an access that can reach a device ends the
\* promise that only time would have kept.
Discard(v) == 0

\* An access to a device, which may raise or drop its line and start something.
TouchDevice(d) ==
    /\ Executes
    /\ \E l \in BOOLEAN : line' = [line EXCEPT ![d] = l]
    /\ \E t \in IF d \in Timed THEN {MaxDelay, Never} ELSE {Never} :
          due' = [due EXCEPT ![d] = t]
    /\ valid' = Discard(valid)
    /\ UNCHANGED <<pic, level, masked, bit, frames, plain, spent, commands>>

\* An access to a controller's registers that leaves it as q.
TouchChip(chip, q) ==
    /\ Executes
    /\ pic' = WithChip(pic, chip, q)
    /\ valid' = Discard(valid)
    /\ UNCHANGED <<line, due, level, masked, bit>>

\* ICW1, in the cascaded configuration with ICW4 to follow.
WriteIcw1(chip, ltim) ==
    /\ commands < MaxCommands
    /\ TouchChip(chip, Icw1(pic[chip], ltim, FALSE, TRUE))
    /\ frames' = [k \in DOMAIN frames |-> [frames[k] EXCEPT !.owes = @ \ {chip}]]
    /\ spent' = (StillSpent(pic') \/ (chip = "master" /\ Cascade \in pic'[chip].pins))
    /\ commands' = commands + 1
    /\ UNCHANGED plain

\* ICW2, ICW3, ICW4 without automatic EOI, and then the mask.
WriteOddAddress(chip, mask) ==
    /\ TouchChip(chip, WriteOdd(pic[chip], mask, FALSE, FALSE))
    /\ spent' = StillSpent(pic')
    /\ UNCHANGED <<frames, plain, commands>>

Innermost == frames[Len(frames)]

\* A handler ends its interrupt, on the slave before the master.
WriteEoi(chip, specific, rotate) ==
    /\ rotate => commands < MaxCommands
    /\ frames # <<>> /\ chip \in Innermost.owes
    /\ chip = "master" => "slave" \notin Innermost.owes
    /\ TouchChip(chip, Eoi(pic[chip], specific, Innermost.level[chip], rotate))
    /\ frames' = [frames EXCEPT ![Len(frames)].owes = @ \ {chip}]
    /\ plain' = (plain /\ ~rotate)
    /\ spent' = StillSpent(pic')
    /\ commands' = commands + (IF rotate THEN 1 ELSE 0)

\* Set priority and the special mask.
WriteMode(chip, q) ==
    /\ commands < MaxCommands
    /\ TouchChip(chip, q)
    /\ plain' = FALSE
    /\ spent' = StillSpent(pic')
    /\ commands' = commands + 1
    /\ UNCHANGED frames

\* The poll command and the read that serves a level by it.
WritePoll(chip) ==
    /\ commands < MaxCommands
    /\ TouchChip(chip, PollCommand(pic[chip]))
    /\ spent' = StillSpent(pic')
    /\ commands' = commands + 1
    /\ UNCHANGED <<frames, plain>>

ReadPoll(chip) ==
    /\ pic[chip].poll
    /\ Len(frames) + 1 < MaxNest \/ (masked /\ Len(frames) < MaxNest)
    /\ TouchChip(chip, PollRead(pic[chip]))
    /\ LET l == Resolve(pic[chip])
       IN  /\ frames' = IF l = NoLevel THEN frames
                        ELSE Append(frames,
                               [level |-> [c \in Chips |-> IF c = chip THEN l ELSE NoLevel],
                                owes  |-> {chip}])
           /\ spent' = (StillSpent(pic')
                          \/ (chip = "master" /\ l = Cascade))
    /\ UNCHANGED <<plain, commands>>

\* RTE: a handler that owes nothing returns to what it interrupted.
ReturnFromException ==
    /\ Executes
    /\ frames # <<>> /\ Innermost.owes = {}
    /\ frames' = SubSeq(frames, 1, Len(frames) - 1)
    /\ masked' = FALSE
    /\ UNCHANGED <<pic, line, due, valid, level, bit, plain, spent, commands>>

\* The RESET instruction: ap_board_reset_devices.  It is not an access, so the
\* promise of the last sample stands.
ResetDevices ==
    /\ Executes
    /\ commands < MaxCommands
    /\ pic' = UpdateCascade([c \in Chips |-> PicInit])
    /\ frames' = [k \in DOMAIN frames |-> [frames[k] EXCEPT !.owes = {}]]
    /\ spent' = FALSE
    /\ commands' = commands + 1
    /\ UNCHANGED <<line, due, valid, level, masked, bit, plain>>

Software ==
    \/ \E m \in BOOLEAN : Compute(m)
    \/ \E d \in Devices : TouchDevice(d)
    \/ \E chip \in Chips :
          \/ \E ltim \in Triggers : WriteIcw1(chip, ltim)
          \/ \E mask \in Masks : WriteOddAddress(chip, mask)
          \/ \E specific, rotate \in BOOLEAN : WriteEoi(chip, specific, rotate)
          \/ WriteMode(chip, SetPriority(pic[chip], 0))
          \/ \E on \in BOOLEAN : WriteMode(chip, SpecialMask(pic[chip], on))
          \/ WritePoll(chip)
          \/ ReadPoll(chip)
    \/ ReturnFromException
    \/ ResetDevices

\* ap_board_advance and the bus ticks of the instruction: a timed device whose
\* moment has come changes its line, one that is unasked may, and a DMA cycle,
\* which ends the promise, may change any.
Advance ==
    /\ at = "advance"
    /\ at' = "boundary"
    /\ \E dma \in BOOLEAN, l \in [Devices -> BOOLEAN] :
          /\ \A d \in Devices : line[d] # l[d] => dma \/ due[d] = 1 \/ d \in Unasked
          /\ line' = l
          /\ valid' = IF dma THEN Discard(valid)
                      ELSE IF valid \in {0, Never} THEN valid ELSE valid - 1
    /\ due' = [d \in Devices |-> IF due[d] = Never \/ due[d] = 1 THEN Never
                                 ELSE due[d] - 1]
    /\ UNCHANGED <<pic, level, masked, bit, frames, plain, spent, commands>>

Next == Sample \/ SkipSample \/ TakeInterrupt \/ Software \/ Advance

Spec == Init /\ [][Next]_vars

-----------------------------------------------------------------------------

\* How the last sample left a request line.
Wire(irq) == IF irq < Levels THEN irq \in pic["master"].pins
             ELSE irq - Levels \in pic["slave"].pins

\* The lines a promise is about: where they are, and for an unasked device where
\* the last sample found it.
Promised == [d \in Devices |-> IF d \in Unasked THEN Wire(Irq[d]) ELSE line[d]]

\* A skipped sample misses no line that was promised to stand: whenever an
\* instruction executes, the level it was given is the one a fresh sample of those
\* lines would have given.  (A line time moves without its device having said so is
\* seen at the next sample only, and that is all that skipping may hide.)
SkippingIsInvisible ==
    at = "step" => level = Pending(Driven(Promised)[Len(Order)]["master"])

\* No interrupt of the slave is lost at the master: while the cascade input is
\* high it is latched there, though the master may latch edges and the slave's
\* output may stay high from one interrupt to the next.
NoLostCascade ==
    Cascade \in pic["master"].pins /\ ~spent => Cascade \in pic["master"].irr

\* Every acknowledge finds a request, on the slave too if the master forwards
\* it: no handler ever runs for the spurious last level.
NeverSpurious ==
    at = "step" /\ level =>
        /\ Pending(pic["master"])
        /\ Resolve(pic["master"]) = Cascade => Pending(pic["slave"])

\* The highest level in service is the one acknowledged last, so that a
\* non-specific EOI ends the interrupt of the handler that sends it.
EoiEndsInnermost ==
    plain /\ frames # <<>> =>
        \A c \in Innermost.owes : HighestInService(pic[c]) = Innermost.level[c]

=============================================================================
