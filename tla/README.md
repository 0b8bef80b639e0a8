# A TLA+ development for the Apollo workstation emulator

The repository emulates Apollo workstations: a 68020/030/040 processor with its
MMU, caches and floating point, the board with its AT-bus devices, and the
Apollo Token Ring that joins several emulated nodes. Everything runs in one
thread, in simulated time. What is hard about it is not threads but *simulated*
concurrency: many devices with their own clocks, state that is evaluated lazily
or skipped because "nothing can have changed", handshakes that span many calls,
caches that must agree with what they copy, and a ring on which every node acts
in the same bit time.

The modules here model that core at the level of its state changes; TLC checks
them on small instances, and TLAPS proves, for every instance, properties of the
token ring, its framing and its scheduler, the interrupts, the bus with its DMA, the
keyboard's line, the clocks, the storage controllers, translation with the data cache,
and the link between processes. Paths below are relative to the
repository's `src/core` unless they say otherwise.

## 1. Inventory

| Component | State it keeps | Operations | Interacts with | Hard because |
|---|---|---|---|---|
| ring medium (`ring/ap_ring_medium.c`) | per node: what it drives, what it received, its cable's cells, its relays | attach, set_bypass, transmit, advance | stations, scheduler | a relay cuts a frame in two |
| ring station (`ring/ap_ring_station.c`) | transmit frame and position, ring ownership, stripping, loss timer, receive state machine | queue_frame, originate_token, drive, receive | medium below, controller above | ownership is a bit flipped in passing; timeouts; the acknowledge is rewritten in flight |
| framing (`ring/ap_ring_mac.c`, `ap_ring_framer.c`) | run of ones, character shift register | put/get bit, put/get control character, emit | station | zero insertion across boundaries |
| scheduler, time base (`ring/ap_ring_sched.c`, `time/ap_time.c`) | every node's period and next instant, the bit clock | add, run_until | medium, nodes | order of simultaneous events, drift |
| ring link (`frontend/common/ap_ring_link.c`) | the two socket buffers, batches sent and seen | exchange | two emulator processes | short writes and reads, a peer that exits |
| ring controller (`device/ap_ring_ctl.c`) | registers, deferred completion, receive buffer | register reads and writes, poll_ring, board reset | station, interrupts | one command answered many bit times later |
| 8259 pair (`device/ap_i8259.c`, `board/ap_intr.c`) | IRR, ISR, IMR, pins, modes, the cascade copy | register accesses, set_request, acknowledge | every device, processor | a copy that must follow; nesting and EOI |
| interrupt sampling (`board/ap_board.c`, `machine/ap_machine.c`) | lines, the instant until which a sample is valid | sample, skip, take, advance | processor, every device | a promise about the future |
| bus arbitration, DMA (`cpu/m68030/ap_m68030_arb.c`, `board/ap_arbiter.c`, `board/ap_master.c`, `device/ap_i8237.c`) | arbiter state and synchronisers, channels' counts and addresses | bus_tick, programming, transfer | processor, tape, disk, Ethernet | two masters; locked sequences; a poll that switches itself off |
| timers, calendar (`device/ap_mc6840.c`, `ap_i8254.c`, `ap_mc68681.c`, `ap_mc146818.c`) | counters, flags, date, when last evaluated | register accesses, advance, next_change | sampling | lazy evaluation, read-to-clear, carries |
| serial, keyboard (`device/ap_mc68681.c`, `ap_kbd.c`) | FIFOs, held character, queues, modes | receive, transmit, commands | sampling, the typing frontend | queues at their limits |
| disk, diskette (`device/ap_omti.c`) | phase, command block, deadlines, sector buffer, the media | register accesses, advance, DMA | bus, interrupts | deadline against reset; transfers that stop halfway |
| cartridge tape (`device/ap_sc499.c`, `ap_qic.c`, `board/ap_tape.c`) | handshake lines and their deadlines, stream position, the block under way | commands, data, DMA, advance | bus, interrupts | streaming against a slow host; the end of a read at a mark |
| SCSI (`device/ap_wd7000.c`, `ap_scsi.c`, `ap_exb8200.c`) | mailboxes, interrupt queue, reset pulse, the drive's records and sense | register accesses, commands, advance | host memory, interrupts | mailboxes reused, a queue at its limit |
| MMU and data cache (`cpu/m68030/ap_m68030_walk.c`, `ap_m68030_atc.c`, `ap_m68030_tt.c`, `ap_m68030_cache.c`, `ap_m68030_access.c`) | translation entries, cache lines, roots; tables in memory | access, flush, preload, search | memory, other masters | copies that go stale; history bits |
| Ethernet (`device/ap_3c505.c`) | command blocks, rings, burst counter | register accesses, DMA | bus | demand-mode pauses |
| processor (`cpu/`) | registers, pipeline, frames | step, exceptions | bus, board | faults in mid-instruction |
| graphics, board registers, images, model table, probes, frontends | registers, bitmaps, files | accesses | board | mostly data |

What makes each correct: the ring never loses or doubles its token, delivers a
frame once, tells its sender the truth and always answers; the scheduler plays
every clock exactly and in order; the framing is transparent to every byte; a
link between processes is a cable; an interrupt is neither lost, invented nor
ended by the wrong handler, and optimised sampling cannot be told from the plain
one; a transfer moves exactly the programmed count with one master at a time on
the bus; time is the same however often it is looked at; no character is lost
without a count of it; data lands on the medium where it was addressed and
nowhere else, and a controller that is busy becomes free; a cached translation or
a cached long word is what the tables and memory hold.

`PROJECT.json` lists every component with its status, and the hazards, each at
the line where it bites.

## 2. Plan

Done, in this order: the ring, its scheduler and framing; the interrupt
controllers and the sampling promise; the bus and DMA; the keyboard's line; the
timers and the calendar; the storage controllers (fixed disk, diskette, cartridge
tape, SCSI adapter with its 8 mm tape); the link between processes; translation
and the data cache. Two abstract specifications are implemented by the detailed
ones: `Promised` (what a device promises the board) by `Clocks` and `Storage`, and
`Cable` (what a link is) by `RingLink`.

Left, in the order of worth:

1. Proofs: the bytes of a transfer (`DataRight`), device by device, and the date
   after so many seconds (`DateIsNth`).
2. The processor's exceptions: faults in the middle of an instruction, their
   frames and restarts; the instruction cache; the 68040's accesses.
3. The Ethernet adapter with its demand-mode channel in `Bus`.
4. The ring controller's receive buffer and diagnostics.

## 3. Modules

### RingMedium, RingStation, TokenRing, TokenRingProofs
`RingMedium` is the segment: each node's driven and received symbol, the cable
behind it and its relay. `Advance` is `ap_ring_medium_advance`, with the walk
from the first node in the ring and the loop a bypassed node hears itself on.
`RingStation` is one station as a record and the two halves of its bit time,
`Drive` and, for the reception, `Sampled` and `Track`, in the order of the code's text.
`TokenRing` composes the segment, one station per node and the ring side of the node's
controller. `BitTime` is the scheduler's bit event followed by every node's step, which
ends in `PollRing`; `TransmitCmd`, `ReceiveCmd`, `MiscCmd` and `BoardReset` are the
host's register writes.

A late acknowledge is eight bit times long, and the station looks at its receive enable
in three of them: at the copied bit, at the wait-acknowledge bit and at the last, where
it takes the frame (`ring/ap_ring_station.c:448,450,487-493`). The host's RCV_CMD writes
the enable at any of them (`device/ap_ring_ctl.c:1880`). In `BitTime` the first look is
the enable as the symbol begins, and the others, `wackOn` and `copyOn`, are free for
every node whose late acknowledge is passing. The history `torn` keeps whose frame was
answered with looks that differ.

Abstractions. A symbol stands for a nine-bit control character or for a whole
field, so a bit time of the model is a character time of the code; frame
lengths, timeouts and cables are in symbols, and the timeouts keep the code's
order (longer than any frame's round trip). Relays switch at symbol boundaries.
Biphase errors and the packet-error bit are left out. A character that a
bypassed station forwards round its own two-cell loop does not survive
(`ShortLoop`). Histories: `taken[j][i]` counts how often `i` copied `j`'s
current frame; `cut` is set by a relay that moves while a frame is on the ring or a
station strips. Inputs not enumerated: a frame addressed to its own sender, and
an XMIT_CMD in the one bit time between a completion and the end of stripping
(the guard `~strip` of `TransmitCmd`: a host takes longer to answer), or while a
transmit is still deferred.

### RingMac, RingBaseProofs
The same path bit by bit: the transmitter's framer (`ap_ring_frame_emit` over
`ap_ring_mac.c`'s zero insertion and control characters), and the receiving
station's `window`, its removal of stuffed zeros, its header capture, and the
rewriting of the early and late acknowledge with its parity. `Bytes` holds
values whose runs of ones end on, cross and begin at byte boundaries.

### RingSched, RingBaseProofs
`ap_ring_sched_add` and the loop of `ap_ring_sched_run_until`, one action per
event, with `ap_time.c`'s rule that a frequency must divide the time base.
`rate`, `joined`, `steps` and `last` are histories for the properties.

### RingLink, Cable, RingBaseProofs
`RingLink` is `ap_ring_link_exchange` at each of two processes: the batch is
written in as many pieces as the socket takes (`SendSome`) and read in as many as
come (`ReceiveSome`), a process may end at any moment, and a byte with reserved
bits set fails the link. The socket is external: a buffer of `Room` bytes each
way. `Cable` says what that is for: each end sees what the other drove over the
same stretch, neither runs ahead. `LinkIsACable` is the refinement.

### Pic, Interrupts, InterruptsProofs
`Pic` is one 8259 as a record and operators: pins, request, service and mask
registers, triggering, priority rotation, special mask, poll and the ICW
sequence. `Interrupts` composes master, slave, the devices' lines in the order
`ap_board_sample_interrupts` drives them, the `valid` promise of the last
sample, and the processor's handlers as a stack of frames. An instruction is
three steps: `Sample` or `SkipSample`, then an interrupt or an action of the
software, then `Advance` of the devices. Delays are relative: `due[d]` is how
long until a timed device's line may change, `Never` that nothing is pending. `Timed`
are the devices `ap_board_interrupt_next_change` asks; `Unasked` are those whose lines
time moves without their having said so, the ring's, which is not asked, and the serial
chip's, whose counter alone answers (section 6). `Advance` may move such a line at any
instruction. What skipping a sample must not hide is a line that was promised to stand:
`Promised` is every line as it is, but an unasked device's as the last sample left its
`Wire`, and `SkippingIsInvisible` compares with a sample of those.
Not modelled: level 7 (parity, NMI), vector values, automatic EOI, special fully
nested and buffered modes, which Apollo software does not program.

### BusArbiter, Dma, Bus, BusProofs
`BusArbiter` is one record for `ap_arbiter_t` and the processor's arbitration
unit inside it (`ap_m68030_arb_t`): the request lines, the master, the unit's
five states, the three phases of RMC and the two-bit synchronisers of BR and
BGACK. `Dma` is one `ap_i8237_t`: request pins, software requests, masks, modes
and word counts, with the service cycle's count and its terminal count.

`Bus` composes them as the emulator does on its one thread. The processor does
not run beside the board; its accesses run the board from inside themselves.
An instruction is therefore a sequence `todo` of what its accesses do, in the
code's order: reach memory (`DoFill`, `DoStore`), wait for the bus
(`machine_bus_acquire`: `Stall` for each clock waited, `Take` for its return),
spend a clock of a cycle (`DoClock`, `machine_bus_clock`), pay the clocks owed
(`DoOwed`) and negate RMC (`DoEnd`). `Programs` are the sequences that matter:
loads, stores to memory and to the controllers and devices, TAS, and each of the
two with a table search before or inside it. `BusTick` is `ap_board_bus_tick`
whole: refresh, the pins, the cascade, the poll, the arbiter, the transfer with
its clocks to pay, and the master port's tick, which lowers line 0 after every
tick.

Abstractions. A register of four bits is a set of channels; a word is two bytes
of `Byte` values, so that it wraps. What a channel reads or writes is a unit
of its device's data phase (`disk`, `tape`); addresses, memory's contents and
the direction are left out. An internal clock is `DoOwed`, one per instruction.
The command a disk is given asks for its data at once; the tape's next byte comes
at any time. The driver has programmed the modes and counts before `Init`; masks,
requests and commands are written at any time after.

### Duart, Keyboard, Serial, SerialProofs
`Duart` is one channel of the 68681 (`ap_mc68681.c`): receiver with shift
register, FIFO and held character, transmitter, modes, commands, loop-backs.
`Keyboard` is `ap_kbd.c`: modes, the ring that keys and replies share, repeat,
the mouse. `Serial` composes them as `ap_sio.c` and the board's step do, with the
processor's accesses and the frontend that types a script and sends again what
the machine says it dropped (`frontend/headless/main.c`). A byte carries the value
a command is known by, the order in which it was made and who made it.
Left out: bit rates, the input port, the second channel's device.

### Ptm, Pit, SioCounter, Calendar, Clocks, Promised, ClocksProofs
Four devices that keep time: the 6840 with the pulses `ap_timer.c` feeds it, the
8254 of the ring controller, the 68681's counter and the MC146818. Each is a
record with `advance`, register accesses, its line and its promised next change.
`Clocks` runs one of them, chosen at the start, in the machine's loop: sample if
the promise has run out, run an instruction that may reach a register or reset the
board, advance. A clock is long: a minute has `Sixty` = 2 seconds, so that a
midnight, a month's or a year's end and both daylight-saving Sundays are near.
`Promised` is the abstract side: from a sample to the promised instant the line
does not move unless the device is reached. For the serial chip it is about the counter's
part of the line alone: the characters that come and go move the line too, and the chip
does not promise for them (section 6); `Serial` has those.

### Omti, Fdc, Cartridge, Wd7000, Exb8200, Storage, StorageProofs
`Omti` is the winchester half of the disk controller with its drive, `Fdc` the
diskette half, `Cartridge` the tape card's handshake (`ap_sc499.c`), the drive and the
board's joining of the two (`ap_tape.c`), `Exb8200` the 8 mm drive on its SCSI bus
and `Wd7000` the adapter. `Storage` puts one of the four devices on the board, with
the same loop as `Clocks`: a register access (one action per register and per kind
of access, DMA cycles among them) withdraws the promise; `Sample` and `Pass` are
the machine's. A word or long word at the fixed disk's data port is served on a path of
its own, which leaves the promise standing (`Word`; `DiskWordOut`, `DiskWordIn` and the
words of a `DiskCommand`). `missed` is set by it and cleared by the next sample or byte,
and `PromiseKept` is about `Standing`, the promise while nothing is missed.

Abstractions. A sector has two bytes and an ECC byte, a block of the cartridge two
bytes, a record of the 8 mm tape one or two. A disk's command block is its first
byte, by which the controller knows how long it is, and the rest together; an
address is flat. A status phase has one byte. The tape's media are a cartridge with
a file mark inside, a protected one without, and none. The 8 mm drive's data for the
host and from it is the buffer whole, and a SCSI command runs to its end within the
register write that starts it, as it does in the code. The outgoing and incoming
mailboxes are the host's memory; a command block is known by its tag. The driver
fills the first empty outgoing mailbox when the adapter is initialised and READY,
and acknowledges what it has read. Histories: `job` (the medium before the command
and the bytes moved), `last` (the last SCSI command with the drive before it) and
`posted` (completions not acknowledged). `job.op` also notes a READ into which the host
wrote (`mixed`) and a reset too short to be one (`narrow`), after both of which less is
promised (section 6). Discipline that is assumed of the host: no RSTDMA while REQUEST
stands.

### TableSearch, Caches, Mmu, MmuProofs
`TableSearch` is the walk: short and long descriptors, early termination,
indirection, limits, and the history updates written back. `Caches` is the
translation cache with insertion, replacement by history, and the flushes by
address and by mask, and the data cache's lines with per-long validity, requests for
bursts, freeze and write-allocate. `Mmu` is a data access in the code's order (cache, transparent
range, translation cache, search, memory) with a system beside it that edits its
tables, flushes, preloads, switches trees and writes the cache control register,
and another master that writes memory.

Abstractions. One page size; translation on; an edit of a descriptor is one step;
table updates pass the data cache by; a long word is two halves. Descriptors are
records of kind, address, limit and marks; a write turns a half of memory over, so
that stale data can be told from fresh.

The machine's memory never acknowledges a burst (`machine/ap_machine.c:177,195`), yet a
read that requests one has already moved its address to the first long word of the line
(`cpu/m68030/ap_m68030_cache.c:351-356`), and what comes back is kept and answered as
the long word that was wanted (`:414,426`). `Asked` and `Filled` do the same, and the
history `strayed` has the long words filled so with another; `CacheTrue` does not speak
of those. Nor does it of `Mixed` spaces, in which a transparent range passes reads or
writes only: the two then go to different frames, and the data cache, looked up before
translation, has one entry for both.

`MCTokenRing`, `MCInterrupts`, `MCBus`, `MCSerial`, `MCClocks`, `MCStorage` and
`MCMmu` hold constants for TLC; `MCTokenRing` also states the bit clock's fairness as
a parity that goes on ticking, which TLC checks without computing a whole bit time.

## 4. Runs

| Run | Checks | Shows |
|---|---|---|
| ring_warm | TokenConserved, NoOrphans, NoTimeouts, DeliveredOnce, AckTruth | three nodes, all sending to two of them, whose receivers open and shut at any moment: the protocol is sound while no relay moves |
| ring_cold | ClaimedHasOwner, CommandsFinish | a dead ring comes up by one sender's forced token, relays open and close at any moment, and a command that never ends is behind a frame that a relay cut |
| ring_sched | NothingOverdue, ExactCounts, EventsInOrder, RunsEnd | the scheduler is exact, and its loop ends |
| ring_mac | CapturedAsSent, LateAckRight | framing is transparent |
| irq_board | SkippingIsInvisible, NoLostCascade, NeverSpurious, EoiEndsInnermost | interrupts under every interleaving of devices and software |
| bus | DriversOff, LockHeld, ServedSoon, StopsAtCount | one driver at a time, locks that hold, bounded waiting, exact counts |
| serial | NothingLostUnseen, InOrder, KeyboardSane | no byte lost without a counter to say so, none out of order, the keyboard's ring within its allowances |
| clocks | CutInvisible, DateIsNth, ReadBack, WaveRight, PromiseKept | lazy evaluation is not seen, the date is the right one, nothing promised comes before its instant |
| storage | LinesTrue, DataRight, OnlyWhatWasAsked, BusyEnds, PromiseKept | data lands where it was addressed and nowhere else, the lines agree with the phase, busy ends, the promise holds |
| link | LinkIsACable, ExchangeEnds | the link implements a cable, and no exchange waits for ever on a peer that sends or is gone |
| mmu | OneEntry, AnswersTrue, WrittenIsModified, CacheTrue | cached translations and cached data are true, a page written is marked |
| mmu_indirect | IndirectIsFollowed (violated) | an indirect descriptor is unpacked as a pointer to a table |

`storage` groups by property what holds of four devices. `LinesTrue` is the disk's
handshake lines and the SCSI adapter's interrupt, which stands exactly while one is
queued and shows the oldest. `DataRight` is what reads gave and writes left, in
order, for each device, and that a completion the host has not acknowledged is still
in the mailbox named to it. `OnlyWhatWasAsked` is about commands that fail, are refused
or are cut short, and protected media. `BusyEnds` is the absence of states no driver
gets out of: a diskette unit busy with no seek and no interrupt to come, a tape card
with READY, DONE and exception all down and nothing due, an adapter whose READY does
not return, an incoming mailbox held with no interrupt to free it. The first two of the
handshake's claims are not made after a reset pulse that was too short: such a pulse has
already taken READY and the shown interrupt down, and nothing brings them back
(section 6).

Bounds. The ring has two or three nodes, one long cable so that cable bits and
node bits differ, and timeouts above a frame's round trip; three nodes are the
least with a node that is neither sender nor receiver. Relay changes are capped
by `MaxRelays`, 4 in `ring_cold`: two nodes connect, and a relay opens and closes again;
only the boards of `Resettable` nodes may be reset. `ring_warm` sends to nodes 1 and 2,
node 0 being the one that had the token first, and lets the last frames of two senders
(`MaxTorn`) be answered with torn looks at once. The
scheduler runs with frequencies that divide, do not divide and are zero, and
targets on, before and after events. `RingMac` has a header of four bytes and up
to one data byte, which covers every boundary at which a run of ones can end.
`Interrupts` has three levels per controller, a disk on the slave that promises for its
whole line and a serial chip on the master that does not (with its counter stopped it
stands for the ring, whose line is moved by time alone), `MaxDelay` 3 (the least for which
a finite promise is ever skipped under), one command outstanding per boundary
and two nested handlers; `MaxNest` is kept by not unmasking the processor
further. `Bus` has two clocks a cycle, two a transfer, refresh every other
clock, a stall limit of 6 (more than a transfer takes, less than a block, so
that both ways out of the wait happen), blocks of two units and a programmed
count of one, which moves two, with `Byte` 2 so that a count wraps at four; the
winchester's channel starts masked, software unmasks it and its terminal count
masks it again. `Serial` makes five bytes (`MaxBytes`) through a FIFO of two with two
control writes (`MaxControl`), the least that overruns the held character. `Clocks`
starts at the last second before each kind of carry and ends (`MaxNow`) after it,
with `MaxAccess` register accesses. `Storage` has, by device, two or three commands
(`MaxCommands`), of which the first is any and the others tell what it left behind;
two or three writes of a control register or a reset (`MaxControls`); one block
written to the tape (`MaxWritten`, two bytes); and an end of time (`MaxNow`) after which deadlines armed late are not seen to fall due, while
every order of two deadlines still is. The SCSI adapter has two mailboxes each way
and a queue of two, so that it is full with three completions; it is looked at from
six set-ups (`ScsiSetups`): as it starts, with three control writes; initialised, with
two of them and commands that fail in the adapter or write; and with none of them
and any command on a drive that is loaded, protected, empty, or in variable block
mode in the middle of the tape. `Mmu` has two translation entries, two set-ups (a
paging system that edits and flushes with the cache off, and three names of one
frame with the cache on), one edit (`MaxChanges`) and at most one foreign write
(`MaxWrites`). `RingLink` has batches of two cells and buffers of three bytes, so
that a write is cut.

Deadlock is checked in every run but `serial`, `clocks` and `storage`, where a
behaviour ends with the bound on time or bytes, and `link`, where both processes may
have exited.

Fairness. `WF_vars(BitTime)`: `run_until` always comes to the next bit event. The
live ring run adds nothing for the hosts: they may stop issuing commands, and every
command they did issue must still finish. `WF_vars(Loop)` in `RingSched`: the loop is
one thread's straight run. `RingLink`'s `FairSpec` is weak fairness of each end's
`SendSome` and `ReceiveSome`: a process that has begun an exchange is in that call,
and a socket delivers what it took; nothing is fair about starting an exchange or
exiting, and `ExchangeEnds` speaks only of exchanges the other end has begun too or
has left. The other modules state no fairness; `ServedSoon` and `BusyEnds` are safety
properties that bound or exclude a wait.

## 5. Proofs

`RingBaseProofs`, which holds the proofs of the three modules a ring stands on,
proves of `RingSched`, for every time base, bit period, capacity, set of
frequencies and set of targets (`ClockAssumption` says only that they are
naturals and the first two not zero): `TypeCorrect`, `NeverOverdue`,
`KeepsPhase`, `CountsAreExact` and `PlaysInOrder`.

The inductive invariant is `IInv == TypeOK /\ NothingOverdue /\ OnPhase /\
Clocks /\ Ahead`. `OnPhase` alone is inductive but says nothing of the clock;
`ExactCounts` speaks only of moments between runs and must be carried through
one. `Clocks` adds that a present node's period times its rate is the base and
that its next instant is at most one period away; `Ahead` that inside a run the
clock has not passed any pending event, and outside it is strictly before all.
Each action has its lemma; multiplication is confined to four lemmas on
products, because the solver does not find them inside a larger goal. Exactness
then follows from `next = joined + period * (steps + 1)` and `now < next <=
now + period` by multiplying with the rate.

It also proves `LinkImplementsCable`, that the link is a cable, for every
batch length up to the 64 cells a batch may have, every size of buffer and number of
exchanges (`LinkAssumption`; the two ends are the only constant it fixes). The
cable's rule that an end sees the batch the other drove is not inductive: it says
nothing of the bytes between. `Kept` does: what is `Due` to an end, two batches at
most, is what it has read, what waits in the buffer and what is still to be written
or is lost, joined in that order. An exchange adds a batch at the far end of that, a
write and a read only move a cut (`Cut`, `Joined`), and a read that completes a batch
takes the first of the two, since two equal sequences cut at one length are equal in
both parts (`SameCut`, `Given`). An end that closes turns the last part into bytes
lost. `InStep` bounds how far an end may be ahead. `StepIsWire` maps each step to the
cable's or to a stutter; fairness is not used.

`BusProofs` proves `DriversStayOff` and `LockStaysHeld` for every number of
request lines, set of writes, device data, transfer and refresh time and stall
limit (`BusAssumption`, `RequestersAssumption`). The invariant is `IInv`: the
types of the arbiter and of the instruction, `Owns` and the lock. `DriversOff`
is not inductive: a device could be master with the unit in state 4 and no
acknowledge in the synchroniser, and the next clock would turn the drivers on.
`Owns` adds that while a device is master its BGACK is asserted and already in
the synchroniser, that the unit is not in state 0, and that in state 4 the
acknowledge has come through. `TickKeeps` shows that a tick of the arbiter keeps
this (a grant is only given from states 1 and 2, which leave themselves time)
and, if the processor is master with RMC asserted, keeps it master;
`BusTickKeeps` carries that through the board's tick, whatever the controllers
and devices do, with the remark that only line 0's master may transfer. Each
action has its lemma over `QuietStep` or `TickStep`. That every program is a
sequence of steps (`ProgramsType`) is what types RMC's phases.

Above the arbiter, `BusProofs` proves three facts about the DMA controllers, for any
word width, counts, devices and writes (`StoresAssumption` says only that what software
stores names a unit, a channel and a value). `ControllersTyped` and `CountsAreFinal`
(`StopsAtCount`) rest on `KInv`: the controllers are of their type, the cascade's channel
alone is in cascade mode, and a channel that has finished is masked and has no software
request (`Over`). A tick of the bus drives pins and counts down; both only tighten
(`Tighter`), so what is over stays over, and only a write of the mask or of the request
register takes a channel out of `finished`. `ChannelsServedSoon` (`ServedSoon`) rests on
`WInv`: the arbiter is in one of its rest positions between steps (`Handed`), and the
clocks a selected channel has waited, together with those it must still wait (`ToGo`, and
the clocks owed by the last transfer), never exceed the bound (`Waits`). The wait grows
only in a clock that brings the grant one clock nearer or pays one owed clock.
`SelectedRuns` closes the gap between the cascade's line and a channel that really moves.

`InterruptsProofs` proves `TypeCorrect`, `CascadeNeverLost`, `SpuriousNever`, `EoiRight`
and `SkipInvisible` for every number of levels, place of the cascade, set of devices
with distinct lines, order, trigger mode, mask, delay and depth of nesting
(`BoardAssumption`). None of the four properties is inductive. `IInv` adds, to the
types: `Sound` (the slave's output stands wherever the master sees the cascade's wire
up, and only devices' wires rise on the slave), `PromiseHolds` (no asked device is due
before the sample's promise ends), `Ready` (while the promise stands the slave's
level-triggered wires are all latched, and an instruction runs with the level the
controllers really give) and `Latched`, which is `NoLostCascade` with the word "unless
software threw it away" as the history `spent`. `Settled` says that while a promise
stands every line the promise is about is where the last sample left it, unless a RESET
has masked the master; a second sample of those lines would then be a stutter, which is
what `SkippingIsInvisible` says. Nothing is assumed of the unasked devices: their lines
may move at any instruction, and `PromisedStay` says that their wires, which is what the
processor's level was computed from, do not. `Nested` ties what is in service to the
handlers on the stack: the levels in service are those of the handlers that owe an end,
innermost highest, so a non-specific end of interrupt ends the top one's. A sample
drives the lines one after the other; its loop is proved by `LoopRuns` with an invariant
of its own.

`MmuProofs` proves `NeverTwoEntries`: the translation cache never holds two valid
entries of one page under one function code, for every number of entries, set of
pages, codes, tables and systems (`AtcAssumption`, `MmuAssumption`). The invariant is
`WellFormed` (every slot is an entry) and `Distinct`. `Distinct` is kept because an
insertion flushes the page before it takes a slot (`ap_m68030_atc_insert`); every
other step yields a cache with `Fewer` entries, each one in its old place, and
`FewerDistinct` says that cannot make two of one page. Which slot is replaced does
not matter to the proof.

`Truth` adds the tables to that: `TInv` says that they fit their addresses (`Fitting`),
that every cached translation of a page not waiting for a flush is what a search of them
would give (`AllTrue`), and that every page written is marked. It holds because a search
depends on nothing but the kinds, addresses, limits and flags of the descriptors on its
path, which a history update leaves alone and only adds marks to (`MarkedIsKept`); an
edit puts every page whose path it touches among those that wait for a flush, and a
flush, a switch of trees or an insertion removes or replaces entries. `CachedIsTrue`
(`AnswersTrue`) and `WritesAreMarked` (`WrittenIsModified`) follow. `CacheIsTrue`
(`CacheTrue`) needs `CInv`, which adds `Holds`: what the data cache answers for a page is
what memory has in the frame the page ends in, but for spaces mapped elsewhere since,
long words written behind the cache's back, those a refused burst filled with another of
their line (`strayed`), and `Mixed` spaces, in which reads and writes go to different
frames (`OneKind` is the other case). It has no assumption of its own.

`SerialProofs` proves `LossIsCounted`, `ReadInOrder`, `RingRight` and `TypeCorrect` for
every depth of the FIFO, rooms of the keyboard's ring, times, scripts, programming of the
channel and numbers of bytes (`FifoAssumption`, `KeyboardAssumption`, `SerialAssumption`,
and `StartsAssumption`: the channel starts reset and programmed by its mode and command
registers). The invariant is `Sound`. Its count of bytes, `made = got + mirrored +
Answered + Len(queue)`, is inductive only with the channel's shape: a character is held
in the shift register only behind a full FIFO (`Channel`), or a read would pull one in
that is not the next. Order needs a cut: there is a number `h` such that the keyboard's
bytes in the channel rise from `last` to at most `h` and those in the ring rise from above
`h` to `made` (`InLine`); delivering a byte moves the cut, and a loopback or a new key
takes a number above all. The keyboard's two allowances are the cardinalities of the two
kinds of places in its one ring (`Ring`), which a removal at the head shifts; that is
where finite sets come in. `drain_keyboard` and a burst of key data are loops: `Gone` and
`Stored` say what they have done after `i` turns, `LoopRuns` carries them to the end,
and the loops' recursive functions are shown to have the values the invariant speaks of.

Of `RingMac`, `RingBaseProofs` proves `CapturesWhatWasSent` (`CapturedAsSent`) for every
length of header, data and frame check, set of byte values and size of the station's buffer
(`FrameAssumption`; the code's own are 4 bytes of check and a header of which the sixth
byte decides). The property speaks of two counters; the invariant must say where in the
stream the station is. `Writing` is the transmitter's own account: a zero is owed after
five ones and only then. `Quiet` says that, from the frame start on, the station's window
ends in the ones the transmitter counts, so that a zero and six ones stand nowhere but in
the characters: with `QuietIsNoSymbol` no bit of a field is taken for a character. `Prefix`
is the other half: in a character the window ends in as much of it as was written,
wherever the station was before, so that every character is recognised. `InSequence` then
keeps the station's sequence with the writer's part, its run of ones with the
transmitter's, so that exactly the zeros that were stuffed are dropped, and its byte with
the bits written of it (`ByteGrows`); a separator is too short to complete a byte, because
its second zero is dropped as stuffing. Before the frame start nothing is asked of the
station but `Prefix`, which is why a frame cut off in the middle leaves no trace.

It also proves `LateAcknowledgeIsRight` (`LateAckRight`) of the two stations in line;
its invariant is `LateInv`. The second station hears what the first sends on, one bit
later and altered in places, so the argument above does not apply to it as it stands. It
does once the altered stream is seen to be one that a transmitter could write:
`Behind(u, z, x, f, r)` says that the station follows a transmitter `u` one bit behind
the real one, where `u` writes any byte whose bits already sent stay (`Writable`, of
which the real transmitter's bytes are a case) and stuffs where the real one does
(`Alike`: the altered bits lie in bytes whose ones are few, whatever is set in them, so
no zero is owed there). That the first station alters nothing else (`Forwarded`) needs
it to know where it is in the header and whether it is the addressee (`Understood`), and
needs it calm when the frame starts: a frame cut off may leave it in the middle of an
acknowledge. The claimed token's eight ones see to that (`Level`, `Calm`): they saturate
its count, carry a header past the parity bit it might still flip, and fill a late
acknowledge so that its parity comes out a one, and the frame start then passes whole.
From there `HasLate` has the field bit by bit, the parity taken over bits already
rewritten included.

`TokenRingProofs` proves five safety properties of the token ring for every number of
nodes, every length of cable, every traffic and every host: `TokenIsConserved`,
`NothingIsOrphaned`, `NothingTimesOut`, `FramesDeliveredOnce` and `AcksAreTrue`. None is
inductive, and counting tokens least of all: with several stations stripping at once, a
token is lost or doubled as soon as one frame reaches its node later than the token
behind it, so the invariant must order everything on the ring. `RingInv` does it by
distance. It counts each cell's distance to the free token or, while a node owns the
ring, to the place where it will put one; a symbol and the token move together, so
distances change only when a node claims the token and a frame, `Size(j) + 1` symbols
with its claimed token, comes between the two. With the token at place `a` and `v`
symbols of a frame still to be driven, `RingInv` says of every node: whose cells are
whose (`Segment`, `Owning`); that a stripping node's own frame lies where it will reach
it before the token that follows does, behind the next stripping node's (`Lasts`,
`Linked`, with the distances `e` and the frames' places `o`); what each cell on the
cable and each symbol about to be driven must therefore be, idle where no frame is
(`LineTrue`, `HoldTrue`); and what each receiver has understood of the frame passing it
(`Taken`, `Passed`). `Timely` bounds the loss timer by the next token, free or claimed.
`NodeStep` shows that a node does with the symbol it hears what this asks, and
`MediumStep` that the shift of the cables keeps it. TLC checked `RingInv` on the
instance of `ring_warm`, with witnesses for `a`, `v`, `e` and `o` computed from the
state, before it was proved.

The hypotheses: `Warm`, the ring starts with every relay closed and its token on it;
`NctValues` within `{TRUE}`, hosts may write `nct` but never open a relay, since an
opening relay drops what is passing it (`ring_cold` looks at that); and `RingFits`, that
neither timeout is shorter than a round of the ring and a frame (`Loop <= LossTimeout`,
`MaxFrame + 1 <= LossTimeout`, `Loop + MaxFrame <= StripTimeout`). The code's two
timeouts are 131072 bit times; its longest ring, 64 nodes each with two cells of its own
and at most 64 of cable, has 4224 cells, and the longest frame with every stuffed zero
has fewer than 50000 bits. `AcksAreTrue` says nothing of a frame whose receiver was
enabled or shut between the looks of its acknowledge (`torn`); for every other it must
know that the three looks were one. It leaves broadcasts out: a broadcast's sender is
addressed by it as well and sets bits of its own frame.

`ClocksProofs` proves four properties of the devices that keep time, for every length
of the instructions and of the behaviour, and whatever fits the registers is written
(`ClocksAssumption`, `WrittenAssumption`, `ByteAssumption`: a byte has an even number of
values). The code's loops (a timer's pulses, the calendar's seconds and periods, the
counter's samples) are recursive functions as long as the time to catch up; each is shown
to agree with a run, a function on the naturals from one state (`LoopRuns`), so that the
turns of two advances can be added up (`LoopAdds`).

- `CutsAreInvisible` (`CutInvisible`): whole periods and remainders add up
  (`PeriodsAdd`), a timer's run depends on the others by the preset alone (`ClockIs`),
  and the periodic clock and the seconds pass each other by (`DatedAside`).
- `PromiseIsKept` (`PromiseKept`), the refinement of `Promised`: the whole lines of the
  timers and the calendar, and of the serial chip the counter's part. It needs `PromiseHolds`:
  the promise that stands is no later than any instant the device would give now. An
  access withdraws the promise, and no advance before the promised instant moves the
  line. For the serial part's counter that is two deadlines that one pulse serves, the
  count and the pin's sample (`Before`, `PulsesUnseen`); for the calendar the next second
  and the next period, and a divider whose release has not been seen has no promise
  standing (`Settled`).
- `DatesReadBack` (`ReadBack`): decimal digits, the century and the two formats of hours
  are undone by their inverses (`FormatsInvert`, `HoursInvert`). A register is a byte: a
  value of 160 or more loses its top digit to it in decimal, and an hour has its own code.
  So it needs `Shown`: the date is `Legible`, the hour below 24 and the rest what two
  decimal digits can show, whatever seconds, shifts of daylight saving, changes of format
  and writes went before. That what is written is legible in every format the software
  sets, and so is the battery's date, is the assumption (`WrittenAssumption`); the part
  stores whatever it is given.
- `WavesAreRight` (`WaveRight`): `Counter` says, clock by clock, what is left of the count
  at each place of the wave's period (`Drawn`), one formula to a mode. An odd count in
  mode 3 is loaded one short and counts through zero while high; that the largest count
  is even, a word being a byte squared, is what keeps zero from being odd.

`StorageProofs` proves four of `Storage`'s five properties, `LinesAreTrue`,
`NothingElseIsWritten`, `WaitsEnd` and `StoragePromiseIsKept`, for every volume, cartridge
and drive, every set of commands, masks and control words, and steps of any length. Its
invariant `StorageInv` is `Timed` (the clock within its bound) and one invariant for each
device, each with three parts:

- Sound, what the registers can be together. The disk's (`DiskSound`) has the lines by
  phase (`Lined`) and `Owed`: while the controller takes bytes from the host, what it will
  do with them is what the command said, so a WRITE's next sector and its remaining count
  end where the command ends, and none of it starts on a protected medium. The diskette's
  (`FdcSound`) has each drive's seek at an instant that comes, which is a bound on its
  cylinder (`Near`). The tape's (`TapeSound`, `Live`) has READY, an exception or a deadline
  that will raise one of them, whatever mix of requests, resets and timers is under way.
  The SCSI adapter's (`WdSound`) has the queue of interrupts: what is shown is its head,
  and the mailboxes in use are those named in it, no box twice (`Boxed`), which is what a
  completion's search for a box that is not in use must keep.
- Did, what the medium may differ in from when the command began (`DiskDid`, `FdcDid`,
  `TapeDid`; `Fitting` for the 8 mm tape, whose records are a sequence that may only
  be cut where the tape stands). A command is followed from its first byte: `Kin` is one
  under way, `Performed` one that has come to a data phase or its end, and each kind of
  command has its lemma (`PerformRead`, `PerformCopy`, ...).
- The promise: while it stands it is no later than the device's own next change, and an
  advance before that changes nothing at all, not only the line. The tape needs more
  (`TapeCalm`, `TapePromised`): its card settles some flags at its first advance after an
  access, so that an access must be followed by a sample before a promise is made. The
  SCSI adapter promises nothing and needs nothing: time never moves its line.

A reset too short to take is a state of its own (`WdTrue`, the `narrow` of `TapeSafe`), and
what it loses the theorems do not claim; nor do they of a READ into which the host wrote.
A word of the fixed disk's data port reaches the device without withdrawing the promise
(`Reaches`); until the next sample or byte `Standing` is then zero and `PromiseKept` is
silent. The copy, the scan of mailboxes and the filling
of sectors are loops that are followed as runs.

What is assumed (`StorageAssumption`, `ScsiAssumption`, `CartridgeAssumption`): command
blocks have the fields a driver's do; no bound on time reaches the instant that stands for
never, which in the code is the largest 64-bit number of time units; and a SCSI session
starts at power on or after one that left nothing queued, with a tape that stands among
its records. `DataRight` is left to TLC:
that the bytes moved are the right ones needs the place in a sector to be followed with
the host's history, for which the invariant is not written.

Only model-checked: liveness (`RunsEnd`, `CommandsFinish`, `ExchangeEnds`), which is
out of the prover's reach; `ClaimedHasOwner`, which is about the cold ring whose relays
move (of a ring that starts warm it is a part of `NoOrphans`, proved); and, because their
invariants are not written, `DateIsNth` and `DataRight`. What an unbounded recursive
definition computes for every input is out of the prover's reach too; the loops met so
far are bounded or follow a run, and are proved turn by turn by induction on a set of
naturals.

## 6. Seen on the way

One disagreement has a run, `mmu_indirect`; `PROJECT.json` quotes both sides. The
others were met while the code was translated. The models keep what the code does,
or leave the case out with a guard that says so.

Ring, interrupts, bus. Two tokens forced at once strand a transmit
(`ring/ap_ring_station.c:280`): a station that takes the start of a stray frame for its
own stops stripping before it has sent its frame (`Abandoned`). A relay opened under a
claimed token leaves it without an owner, circling (`:309`, `Ownerless`), and it holds off
every station's loss timer. `ring_cold` reaches both, and `CommandsFinish` says that there
is no third way for a command to wait for ever. A receiver enabled or shut within the
eight bits of a late acknowledge answers with looks that differ: a frame can be reported
copied and not be, or be both copied and refused (`ring/ap_ring_station.c:448,450,487-493`,
`device/ap_ring_ctl.c:1880`).

Lines move that nobody promised. The ring controller's is not in the next-change query
(`board/ap_board.c:635-643`), and `ap_board_advance` moves it (`:1443`, driven at `:715`);
of the serial chip the query has the counter's deadline, and the same function brings it
characters and takes them, which sets RxRDY and TxRDY (`:1513`, `:1525-1586`,
`board/ap_sio.c:142`). The comment at `board/ap_board.c:717-718` has every device whose
line time moves asked. Their interrupts are sampled late: at the next access, DMA cycle or
end of the promise made by the others, which may be never. `irq_board` has such a device
and shows that nothing else is late.

The register bit of a line is set in the middle of the sample (`board/ap_board.c:669`).
A DMA transfer can fall between a TAS's fill and its store
(`cpu/m68030/ap_m68030_cache.c:356`). A TAS can wait the whole stall limit for a bus
nobody holds (`machine/ap_machine.c:434`), and a winchester data phase holds its request
longer than that limit. BOARD_RESET clears `connected` and leaves the relay closed
(`device/ap_ring_ctl.c`). An automatic-EOI slave could drop a cascade edge. The RESET
instruction leaves the sampling promise standing, which is harmless because the reset
lines are all low. A station that strips its own broadcast marks it copied by its own
address match (`ring/ap_ring_station.c:446-453`). A level-triggered slave requests a
steady line again after ICW1 without the cascade's being updated (`board/ap_intr.c:99`).

Serial line. The frontend takes a full keyboard buffer for a character no key produces
(`frontend/headless/main.c:3747`). A parity error is attached to the next character; a
held or dropped character's status overwrites the newest entry's; the transmitter sets
TxRDY while it is disabled; a write of MR1 does not refresh the interrupt status.

Clocks. `ap_timer_reset` zeroes `clocked_to`, so the next advance replays every pulse
since power-on (`board/ap_timer.c:5-7`, `:59-90`). The 6840's status snapshot survives
a write (`device/ap_mc6840.c:438`), and a status read clears one flag only. The 8254's
two-byte count can be loaded torn.

Disk and diskette. A word access to the fixed disk's data port
(`board/ap_board.c:2736-2743`, `:2814-2822`) leaves `interrupt_valid_until` and
`dma_possible` as they are, where a byte access ends both (`:1978`, `:2201`): the last
word of a programmed READ arms the completion of the command
(`device/ap_omti.c:600-606`) under a promise made before it, against the comment at
`machine/ap_machine.c:1182`. The result bytes of a command start with the last one's ST2
(`device/ap_omti.c:2882`). Recalibrate's failure survives into a later seek; a seek of
no distance on a busy unit gives a second completion; the reset's interrupt overwrites
unit 0's seek; REQUEST SENSE overwrites the sector buffer; a mask re-enabled after the
completion does not bring its interrupt back; a data write in the status phase clears
REQ.

Cartridge tape. READ does not end WRITE (`device/ap_qic.c:254` clears nothing, WRITE at
`:301` clears `reading`), though `board/ap_tape.c:404-406` says the buffer is safe to
share because "`ap_qic_command` clears one when it arms the other": a byte written then
lands in the block being read (the `mixed` of `Storage`; `DataRight` says nothing of
such a read). While the drive writes, a command byte written before REQUEST is taken as
tape data (`board/ap_tape.c:639`). The DMA request is never made for a write (`:653`).
Selecting another drive during a read leaves `reading` and the request up. A reset pulse
that is too short leaves the card with neither READY nor exception until a command or a
longer one (`BusyEnds` excludes it). A REQUEST released early lets READY return before
the command ends. An exception raised during READ STATUS outlives the status that
reports it.

SCSI. An illegal request given while a unit attention is pending overwrites its sense,
and the next command is then checked with the wrong one, against
`device/ap_exb8200.c:1088-1090` ("the condition is reported exactly once while the
sense it built stays for the REQUEST SENSE that follows"). A reset pulse below the
minimum has already cleared READY and the shown interrupt at its rising edge
(`device/ap_wd7000.c:366-373`), against "a narrower one is not a reset and leaves the
part as it was" (`:376`); `LinesTrue` and `BusyEnds` exclude it. Start and scan are
accepted in pseudo idle (`:223`), though "accepting only reset and abort commands"
is what `device/ap_wd7000.h:434-436` says of it. A completion is written to its mailbox before the
queue refuses it. A register access advances the card and not the SCSI bus's clock
(`board/ap_board.c:1359`).

Translation, data cache. A read that requests a burst is answered with the first long word
of its line, and the data cache keeps that as the long word asked for, because the address
has been moved to the line's base before the machine's memory refuses the burst
(`cpu/m68030/ap_m68030_cache.c:351-356`, `:414`, `:426`; `machine/ap_machine.c:177,195`).
It takes a program that enables bursts in the CACR.

Link, Ethernet. An end whose link failed on a foreign byte stays open, and the other's
next exchange waits for ever (`ExchangeEnds` excludes it); different `cable_bits` drift
silently. Between the last data byte of a 3c505 response and its length byte, nothing
says that one is pending, and a new command's response overwrites it, against the
comment at `device/ap_3c505.c:878-883`.

## 7. Not modelled

The instruction set, floating point and graphics are data transformation out of
TLC's reach; image formats, the model table, probes and the state hash are
stateless or observers; the frontends, but for typing and the link, are host I/O.
Address decode and the board's registers only route or store. Of the bus,
memory-to-memory transfers, addresses and page registers, the Ethernet's channel
(whose pause between bursts may leave the poll off with data still to come,
`device/ap_3c505.c:301`), the 68040's and 68020's accesses, instruction fetches and
wait states are not modelled; a fetch takes the bus as a `Load` does. Of translation,
several page sizes at once, bus errors, the instruction cache and narrow inhibited
reads. Of the clocks, gates, the 6840's outputs, the 8254's BCD, latch and read-back
commands, the update-in-progress bit and the calendar's RAM. Of the disk, geometry and
ECC beyond a byte, motors and data rates. Of the cartridge tape, ejecting at run time,
the soft lock and error counters. Of SCSI, status and vue bytes, residual counts, mode
pages beyond the block length, messages, the eject button, reservation and unsolicited
interrupts. `ap_ring_frame_parse` is used by the tests only. The reasons are with the
components in `PROJECT.json`.
