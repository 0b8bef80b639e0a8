-------------------------------- MODULE Bus ---------------------------------
(***************************************************************************)
(* The shared bus of one node: the processor's external cycles             *)
(* (src/core/cpu/m68030/ap_m68030_access.c, ap_m68030_cache.c and the      *)
(* hooks of src/core/machine/ap_machine.c), the bus tick of                *)
(* src/core/board/ap_board.c with its arbiter and its two DMA controllers, *)
(* and the devices wired to a DMA channel.                                 *)
(*                                                                         *)
(* Everything runs on one thread, but not in the order of the hardware:    *)
(* the processor's accesses run the rest of the machine from inside        *)
(* themselves, a clock at a time.  An instruction is the sequence of what  *)
(* its accesses do: reach memory (fill, store), wait for the bus           *)
(* (acquire), spend a clock of a cycle (clock), pay the clocks owed (owed) *)
(* and negate RMC (end).  Every step of this module is one of these.       *)
(***************************************************************************)
EXTENDS BusArbiter, Dma, Sequences

CONSTANTS
    StallLimit,       \* AP_MACHINE_STALL_LIMIT
    CycleTicks,       \* the clocks of one external cycle
    TransferTicks,    \* dma_transfer_ticks
    RefreshTicks,     \* refresh_interval_ticks
    Block,            \* the units a command moves
    Count,            \* <<low, high>>: the word count the driver loads
    Autoinit,         \* whether it programs autoinitialise
    Stores            \* what the processor's writes may be

ASSUME BusAssumption ==
    /\ StallLimit \in Nat /\ CycleTicks \in Nat \ {0} /\ TransferTicks \in Nat
    /\ RefreshTicks \in Nat /\ Block \in Nat \ {0} /\ Autoinit \in BOOLEAN
    /\ Count \in (0 .. Byte - 1) \X (0 .. Byte - 1)

VARIABLES
    arbiter,     \* board->arbiter
    dma,         \* board->dma.controller[0], [1]
    possible,    \* board->dma_possible
    ticksLeft,   \* board->dma_transfer_ticks_left
    refresh,     \* board->refresh_ticks_left, refresh_holding
    disk,        \* what is left of each disk's data phase: DREQ while it is not 0
    tape,        \* what is left of the tape's read, and whether a byte is ready
    todo,        \* what the instruction in execution still has to do
    stalled,     \* machine_bus_acquire's count of clocks waited
    ran,         \* history: the channel whose transfer the last step made
    rmw,         \* history: the read-modify-write's hold on the bus
    finished,    \* history: the one-shot channels that have reached their count
    waited       \* history: clocks without RMC a selected channel has waited

cpu     == <<todo, stalled, rmw>>
devices == <<disk, tape>>
vars    == <<arbiter, dma, possible, ticksLeft, refresh, devices, cpu, ran, finished,
             waited>>

\* The wiring of ap_dma.h: unit 1 channel 0 carries unit 0.
Units       == {0, 1}
CascadeUnit == 1
Disks       == {"floppy", "winchester"}
Peripheral(u, c) == CASE <<u, c>> = <<0, 1>> -> "tape"
                      [] <<u, c>> = <<0, 2>> -> "floppy"
                      [] <<u, c>> = <<1, 3>> -> "winchester"
                      [] OTHER               -> "none"
DmaLine == 0     \* DMA_ARBITER_LINE
NoRun   == <<>>

ASSUME StoresAssumption ==
    Stores \subseteq [to : {"ram"}]
                      \cup [to : {"mask", "request"}, unit : Units, ch : Channels, on : BOOLEAN]
                      \cup [to : {"command"}, dev : Disks \cup {"tape"}]

-----------------------------------------------------------------------------
(* The instructions.                                                       *)

Fill           == [do |-> "fill"]
Store(e)       == [do |-> "store", what |-> e]
Acquire(phase) == [do |-> "acquire", rmc |-> phase]
Clock(phase)   == [do |-> "clock", rmc |-> phase]
Owed           == [do |-> "owed"]
End            == [do |-> "end"]

Steps == [do : {"store"}, what : Stores \cup {[to |-> "ram"]}]
           \cup [do : {"acquire", "clock"}, rmc : Phases] \cup [do : {"fill", "owed", "end"}]

Cycle(phase)    == <<Acquire(phase)>> \o [k \in 1 .. CycleTicks |-> Clock(phase)]
Ram             == [to |-> "ram"]
Read(phase)     == <<Fill>> \o Cycle(phase)
Write(phase, e) == <<Store(e)>> \o Cycle(phase)

\* begin_table_search, one descriptor_cycle, end_table_search: the last puts
\* the phase of the operation the search ran inside back.
Search(after) == <<Acquire("first"), Acquire("locked")>> \o Cycle("locked")
                   \o <<Acquire(after)>>
Finish == <<Owed, End>>

Load       == Read("none") \o Finish
SearchLoad == Search("none") \o Load
Poke(e)    == Write("none", e) \o Finish

\* A write finds RMC asserted only after a read, so it is never the first cycle.
Tas       == Read("first") \o Write("locked", Ram) \o Finish
SearchTas == Search("locked") \o Tas
TasSearch == Read("first") \o Search("locked") \o Write("locked", Ram) \o Finish

Programs == {Load, SearchLoad, Tas, SearchTas, TasSearch} \cup {Poke(e) : e \in Stores}

-----------------------------------------------------------------------------
(* The board's bus tick.                                                   *)

TapeAsks == tape.left > 0 /\ tape.ready

\* The request pins, and unit 0's request on the cascade channel of unit 1.
Pinned0 == SetRequestPin(SetRequestPin(dma[0], 1, TapeAsks), 2, disk["floppy"] > 0)
Pinned1 == SetRequestPin(SetRequestPin(dma[1], 3, disk["winchester"] > 0),
                         0, ServicePending(Pinned0) # NoChannel)
Selected == ServicePending(Pinned1)

\* The poll stays on while any pin or software request is up, masked or not,
\* and while the tape is reading.
StillPossible ==
    \/ Selected # NoChannel
    \/ \E d \in {Pinned0, Pinned1} : d.dreq # {} \/ d.request # {}
    \/ tape.left > 0

Refreshed ==
    IF RefreshTicks = 0 THEN [refresh EXCEPT !.holding = FALSE]
    ELSE IF refresh.left = 1 THEN [left |-> RefreshTicks, holding |-> TRUE]
    ELSE [left |-> refresh.left - 1, holding |-> FALSE]

\* ap_master_tick with the port nothing drives: after every tick it lowers
\* line 0, which is its zeroed drq.  It lowers channel 0 of unit 0 too, which
\* nothing raises.
MasterTick(x) == SetLine(x, DmaLine, FALSE)

\* The unit that runs the cycle: unit 0 only through a channel programmed for
\* cascade.
RunningUnit == IF Selected = 0 /\ Pinned1.ch[0].mode = "cascade" THEN 0 ELSE CascadeUnit

\* The device's side of a cycle: a byte given or taken.
DeviceMoves(u, c) ==
    LET p     == Peripheral(u, c)
        moves == dma[u].ch[c].transfer \in {"read", "write"}
    IN  /\ disk' = IF moves /\ p \in Disks /\ disk[p] > 0
                   THEN [disk EXCEPT ![p] = @ - 1] ELSE disk
        /\ tape' = IF moves /\ p = "tape" /\ TapeAsks
                   THEN [left |-> tape.left - 1, ready |-> FALSE] ELSE tape

\* Mutant of TicksToPay: the clock of the transfer itself is paid again.
TicksToPayAll == TransferTicks

\* The clocks a transfer holds the bus for, beside its own.
TicksToPay == IF TransferTicks > 1 THEN TransferTicks - 1 ELSE ticksLeft

\* One transfer by the controllers d, which hold the bus.
Transfer(d) ==
    LET u == RunningUnit
        c == ServicePending(d[u])
    IN  IF Runs(d[u])
        THEN /\ dma' = [d EXCEPT ![u] = Counted(@, c)]
             /\ ticksLeft' = TicksToPay
             /\ DeviceMoves(u, c)
             /\ ran' = <<u, c>>
             /\ finished' = IF Expires(d[u], c) /\ ~d[u].ch[c].auto
                            THEN finished \cup {<<u, c>>} ELSE finished
        ELSE /\ dma' = d
             /\ ran' = NoRun
             /\ UNCHANGED <<ticksLeft, devices, finished>>

\* A tick with the poll off: the arbiter and the master port only.
QuietTick(x) ==
    /\ ~possible
    /\ arbiter' = MasterTick(ArbiterTick(x))
    /\ ran' = NoRun /\ waited' = 0
    /\ UNCHANGED <<dma, possible, ticksLeft, devices, finished>>

PolledTick(x) ==
    LET asked == ArbiterTick(SetLine(x, DmaLine, Selected # NoChannel))
        d     == [u \in Units |-> IF u = 0 THEN Pinned0 ELSE Pinned1]
    IN  /\ possible
        /\ possible' = StillPossible
        /\ arbiter' = MasterTick(asked)
        /\ IF asked.master = DmaLine /\ ticksLeft = 0
           THEN Transfer(d)
           ELSE /\ dma' = d
                /\ ticksLeft' = IF asked.master = DmaLine THEN ticksLeft - 1
                                                          ELSE ticksLeft
                /\ ran' = NoRun
                /\ UNCHANGED <<devices, finished>>
        /\ waited' = IF Selected = NoChannel \/ ran' # NoRun THEN 0
                     ELSE IF x.rmc = "none" THEN waited + 1 ELSE waited

\* ap_board_bus_tick, with the arbiter as the processor has just driven it.
BusTick(x) == refresh' = Refreshed /\ (QuietTick(x) \/ PolledTick(x))

\* Two clocks in BR's synchroniser and one for the state that grants, and the
\* clocks the last transfer left to pay.
Latency == 3 + IF TransferTicks > 1 THEN TransferTicks - 1 ELSE 0

BoardMayRun(x) == ~refresh.holding /\ MayRun(x)

-----------------------------------------------------------------------------
(* The processor.                                                          *)

Next1(kind) == todo # <<>> /\ Head(todo).do = kind
Quiet       == ran' = NoRun /\ UNCHANGED <<refresh, ticksLeft, waited>>

Issue(p) ==
    /\ todo = <<>>
    /\ todo' = p
    /\ Quiet
    /\ UNCHANGED <<arbiter, dma, possible, devices, stalled, rmw, finished>>

\* A read's data is fetched before the bus is asked for.
DoFill ==
    /\ Next1("fill")
    /\ todo' = Tail(todo)
    /\ Quiet
    /\ UNCHANGED <<arbiter, dma, possible, devices, stalled, rmw, finished>>

\* ap_board_write: an access to a region that can start a transfer re-arms the
\* poll.
Rearmed(e) == possible \/ e.to # "ram"

\* What the write does to the controllers and the devices.
Stored(e) ==
    /\ dma' = CASE e.to = "mask"    -> [dma EXCEPT ![e.unit] = WriteMask(@, e.ch, e.on)]
                [] e.to = "request" -> [dma EXCEPT ![e.unit] = WriteRequest(@, e.ch, e.on)]
                [] OTHER            -> dma
    /\ disk' = IF e.to = "command" /\ e.dev \in Disks
               THEN [disk EXCEPT ![e.dev] = Block] ELSE disk
    /\ tape' = IF e.to = "command" /\ e.dev = "tape"
               THEN [left |-> Block, ready |-> FALSE] ELSE tape
    /\ finished' = IF e.to \in {"mask", "request"} /\ (e.on = (e.to = "request"))
                   THEN finished \ {<<e.unit, e.ch>>} ELSE finished

\* The write reaches memory or the device before its cycle asks for the bus.
DoStore ==
    /\ Next1("store")
    /\ todo' = Tail(todo)
    /\ Stored(Head(todo).what)
    /\ possible' = Rearmed(Head(todo).what)
    /\ Quiet
    /\ UNCHANGED <<arbiter, stalled, rmw>>

\* What driving RMC, at the end of a wait, leaves of the hold on the bus.
HoldAfter(phase) ==
    IF phase = "none" THEN "out"
    ELSE IF rmw = "broken" \/ arbiter.master # Processor THEN "broken"
    ELSE "held"

\* machine_bus_acquire, the clocks waited for the bus.
Stall ==
    LET x == SetRmc(arbiter, Head(todo).rmc)
    IN  /\ Next1("acquire")
        /\ ~BoardMayRun(x)
        /\ stalled < StallLimit
        /\ stalled' = stalled + 1
        /\ BusTick(x)
        /\ rmw' = IF Head(todo).rmc = "none" THEN "out" ELSE rmw
        /\ UNCHANGED todo

\* machine_bus_acquire, its return: the bus is the processor's, or it has
\* waited long enough and goes on as if it were.
Take ==
    LET x == SetRmc(arbiter, Head(todo).rmc)
    IN  /\ Next1("acquire")
        /\ BoardMayRun(x) \/ stalled >= StallLimit
        /\ arbiter' = x
        /\ todo' = Tail(todo)
        /\ stalled' = 0
        /\ rmw' = HoldAfter(Head(todo).rmc)
        /\ Quiet
        /\ UNCHANGED <<dma, possible, devices, finished>>

\* machine_bus_clock: one clock of the processor's own cycle.
DoClock ==
    /\ Next1("clock")
    /\ todo' = Tail(todo)
    /\ BusTick(SetRmc(arbiter, Head(todo).rmc))
    /\ rmw' = IF Head(todo).rmc = "none" THEN "out" ELSE rmw
    /\ UNCHANGED stalled

\* machine_cycle_catch_up: internal time, with RMC as the last cycle left it.
DoOwed ==
    /\ Next1("owed")
    /\ todo' = Tail(todo)
    /\ BusTick(arbiter)
    /\ UNCHANGED <<stalled, rmw>>

\* The instruction ends and RMC with it.
DoEnd ==
    /\ Next1("end")
    /\ todo' = Tail(todo)
    /\ arbiter' = SetRmc(arbiter, "none")
    /\ rmw' = "out"
    /\ Quiet
    /\ UNCHANGED <<dma, possible, devices, stalled, finished>>

\* The tape drive has its next byte: next_byte_at has come.
TapeByte ==
    /\ tape.left > 0 /\ ~tape.ready
    /\ tape' = [tape EXCEPT !.ready = TRUE]
    /\ Quiet
    /\ UNCHANGED <<arbiter, dma, possible, disk, cpu, finished>>

Execute == DoFill \/ DoStore \/ Stall \/ Take \/ DoClock \/ DoOwed \/ DoEnd

Next == (\E p \in Programs : Issue(p)) \/ Execute \/ TapeByte

\* The driver has set the modes and loaded the counts, and unmasked the cascade
\* and the tape's channel.
Loaded(d, c, mode) == WriteCount(WriteCount(WriteMode(d, c, mode, "write", Autoinit),
                                            c, Count[1]), c, Count[2])
Programmed ==
    <<WriteMask(Loaded(Loaded(DmaReset, 1, "demand"), 2, "block"), 1, FALSE),
      WriteMask(WriteMode(Loaded(DmaReset, 3, "demand"), 0, "cascade", "verify", FALSE),
                0, FALSE)>>

Init ==
    /\ arbiter = ArbiterReset
    /\ dma = [u \in Units |-> Programmed[u + 1]]
    /\ possible = TRUE
    /\ ticksLeft = 0
    /\ refresh = [left |-> RefreshTicks, holding |-> FALSE]
    /\ disk = [p \in Disks |-> 0]
    /\ tape = [left |-> 0, ready |-> FALSE]
    /\ todo = <<>> /\ stalled = 0
    /\ ran = NoRun /\ rmw = "out" /\ finished = {} /\ waited = 0

Spec == Init /\ [][Next]_vars

-----------------------------------------------------------------------------
\* Every variable keeps the type of the C field it stands for.
ProcessorTypeOK ==
    /\ arbiter \in Arbiters
    /\ todo \in Seq(Steps)
    /\ stalled \in 0 .. StallLimit
    /\ rmw \in {"out", "held", "broken"}

\* While a device is master of the bus the processor's arbitration unit keeps
\* its drivers off, across every pattern of requests, locks and releases: the
\* two-clock delay of BGACK never lets the unit fall back to state 0.
DriversOff == arbiter.master # Processor => ThreeState(arbiter)

\* Once the processor has the bus with RMC asserted, no device becomes master
\* and no channel transfers until RMC is negated, even though a request may
\* walk the arbitration unit to its grant states meanwhile.  A processor that
\* stopped waiting with a device still master never had the bus ("broken").
LockHeld == rmw = "held" => arbiter.master = Processor /\ ran = NoRun

\* A one-shot channel that has reached its count moves nothing more until
\* software unmasks it or requests it, whatever its device goes on asking.
StopsAtCount == [][ran' # NoRun => ran' \notin finished]_vars

\* A channel selected for service has its transfer before more than Latency
\* clocks have passed with RMC negated: however the processor's cycles, locks
\* and refresh fall, the bus reaches the controllers.
ServedSoon == waited <= Latency

=============================================================================
