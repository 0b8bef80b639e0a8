------------------------------ MODULE Storage -------------------------------
(***************************************************************************)
(* The two halves of the disk controller, the cartridge tape and the SCSI  *)
(* adapter with its 8 mm tape on the board: the processor, or a DMA cycle, *)
(* moves a byte at a time through a register (ap_disk.c, ap_tape.c,        *)
(* ap_wd7000.c), time moves what is under way, and the board samples the   *)
(* interrupt lines only when the devices' promise has run out.             *)
(*                                                                         *)
(* A behaviour has one device, chosen at the start: they share nothing but *)
(* the promise, which is the earliest of theirs.                           *)
(***************************************************************************)
EXTENDS Omti, Fdc, Cartridge, Wd7000

CONSTANTS DiskCommands, FloppyCommands, \* what the drivers ask for,
          Following,                    \* and, by device, after the first command
          TapeCommands, TapeControls,   \* what is written to the tape's registers
          TapeBytes,                    \* and, while it writes, to its data
          ScsiSetups,                   \* the adapter and its drive at a time, what is
                                        \* asked in turn, and the controls left
          ScsiOpcodes, ScsiControls,    \* what is written to the adapter's registers
          Masks,                        \* what is written to the disk's mask
          ScanBytes,                    \* what a scan compares with
          MaxCommands,                  \* commands, and writes of a control, in a
          MaxControls,                  \* behaviour, and the end of time, by device:
          MaxNow,                       \* bounds of the model
          MaxWritten, MaxStep           \* (the longest step, by device)

ASSUME StorageAssumption ==
    /\ \A w \in {"disk", "floppy", "tape", "scsi"} : MaxNow[w] < Never
    /\ Never = NeverDue /\ Never = Unset /\ Never = Forever
    /\ Following["disk"] \subseteq DiskCommands /\ Following["floppy"] \subseteq FloppyCommands
    /\ Following["tape"] \subseteq TapeCommands
    /\ DiskCommands \subseteq CommandBlocks /\ FloppyCommands \subseteq FdcBlocks
    /\ \A w \in {"disk", "floppy", "tape", "scsi"} : MaxNow[w] \in Nat /\ MaxStep[w] \in Nat
    /\ \A n \in {0} \cup {c.at \div PerTrack : c \in FloppyCommands} : \* no seek is for ever
         MaxNow["floppy"] + n * StepTime + Settling < NeverDue
    /\ \A n \in {ExceptionTime, DirectionTime, CommandTime, BlockTime, ReopenTime,
                 CloseTime + ReopenTime} : \* nor does READY stay away for ever
         MaxNow["tape"] + n < Unset
    /\ \A v \in TapeControls : ~({"reset", "request"} \subseteq v)

\* The adapter and its drive as they start, or after what a session may have done to
\* them; and what is asked has counts.
ASSUME ScsiAssumption ==
    /\ \A v \in ScsiOpcodes : v.box \in Nat
    /\ \A s \in ScsiSetups :
         LET d == s.dev
             t == d.drive
         IN  /\ s.now \in 0 .. MaxNow["scsi"]
             /\ d = [Fresh(t, 0) EXCEPT !.diagnosing = d.diagnosing, !.ready = d.ready,
                                        !.shown = d.shown, !.initialized = d.initialized,
                                        !.ctl = d.ctl, !.readyAt = d.readyAt]
             /\ d.diagnosing \in BOOLEAN /\ d.ready = ~d.diagnosing
             /\ t = [DriveStart(t.present, t.writable, t.recs)
                       EXCEPT !.block = t.block, !.where = t.where, !.at = t.at,
                              !.attention = t.attention, !.sense = t.sense]
             /\ t.recs \in Seq({t.recs[i] : i \in DOMAIN t.recs})
             /\ Len(t.recs) <= MaxRecords /\ t.at \in 0 .. Len(t.recs) /\ t.block \in Nat
             /\ Len(s.asks) \in Nat
             /\ \A i \in 1 .. Len(s.asks) : \A c \in s.asks[i] :
                  IF c.op = "space" THEN c.count \in Int ELSE c.count \in Nat

VARIABLES which,    \* the device
          dev,      \* its state
          now,      \* the machine's time
          until,    \* interrupt_valid_until
          missed,   \* a word went round it, and no sample or byte has come since
          turn,     \* what the machine's loop does next: "sample" or "run"
          job,      \* the medium before the command, and the bytes moved since
          commands, controls \* counted so far

vars == <<which, dev, now, until, missed, turn, job, commands, controls>>

Irq(w, d) ==
    CASE w = "disk" -> DiskIrq(d) [] w = "floppy" -> FdcIrq(d)
      [] w = "tape" -> CardIrq(d.card) [] OTHER -> WdIrq(d)

\* The SCSI adapter promises nothing: its line moves with register accesses only.
NextChange(w, d) ==
    CASE w = "disk" -> DiskNextChange(d) [] w = "floppy" -> FdcNextChange(d)
      [] w = "tape" -> CardNextChange(d.card) [] OTHER -> Forever
Advance(w, d, at) ==
    CASE w = "disk" -> DiskAdvance(d, at) [] w = "floppy" -> FdcAdvance(d, at)
      [] w = "tape" -> TapeAdvance(d, at) [] OTHER -> WdAdvance(d, at)

\* A command of the tape: where it began, and whether a reset's second handing
\* over of a block was still to come.
TapeJob(d, op) ==
    [before |-> d.vol, moved |-> <<>>, op |-> op, from |-> d.pos, twice |-> d.first]

Init ==
    /\ until = 0 /\ missed = FALSE /\ turn = "sample" /\ commands = 0
    /\ \/ /\ \/ which = "disk" /\ dev \in {DiskStart(w) : w \in BOOLEAN}
             \/ which = "floppy" /\ dev \in {FdcStart(TRUE, w) : w \in BOOLEAN} \cup {FdcStart(FALSE, FALSE)}
             \/ which = "tape" /\ dev \in {TapeStart(c) : c \in Cartridges \cup {NoCartridge}}
          /\ now = 0 /\ controls = 0
          /\ job = IF which = "tape" THEN TapeJob(dev, "reset") ELSE [before |-> dev.vol, moved |-> <<>>]
       \/ /\ which = "scsi"
          /\ \E s \in ScsiSetups :
               /\ dev = s.dev /\ now = s.now /\ controls = MaxControls["scsi"] - s.left
               /\ job = [op |-> "reset", before |-> s.dev.drive.recs, asks |-> s.asks]

-----------------------------------------------------------------------------
(* A register access: the promise is withdrawn. *)

Access(w) ==
    /\ which = w /\ turn = "run" /\ until' = 0 /\ missed' = FALSE
    /\ UNCHANGED <<which, now, turn>>

\* But not by a word of the fixed disk's data port, which is one cycle and so does
\* not go through the byte's (ap_board_write_access, ap_board_read_access).
Word ==
    /\ which = "disk" /\ turn = "run" /\ missed' = TRUE
    /\ UNCHANGED <<which, now, turn, until>>

Control == controls < MaxControls[which] /\ controls' = controls + 1 /\ UNCHANGED <<job, commands>>

DiskSelect ==
    /\ Access("disk") /\ dev.phase = "idle"
    /\ dev' = SelectDisk(dev)
    /\ UNCHANGED <<job, commands, controls>>

DiskMask(m) == Access("disk") /\ Control /\ dev' = WriteMask(dev, m)

DiskStatusWrite == Access("disk") /\ Control /\ dev' = DiskReset(dev, now)

\* A byte of a command block.  The last one starts the command.
DiskCommand(c) ==
    /\ Access("disk") \/ Word
    /\ dev.phase \in {"idle", "command"} /\ commands < MaxCommands[which]
    /\ commands > 0 => c \in Following["disk"]
    /\ (dev.phase = "command" /\ dev.taken = 1) => c.op = dev.cmd.op
    /\ dev' = TakeCommand(dev, now, c)
    /\ IF dev'.phase # "command"
       THEN commands' = commands + 1 /\ job' = [before |-> dev.vol, moved |-> <<>>]
       ELSE UNCHANGED <<commands, job>>
    /\ UNCHANGED controls

Moved(v) == job' = [job EXCEPT !.moved = Append(@, v)] /\ UNCHANGED <<commands, controls>>

\* Bytes of data that can be told from one another, or an alternate's address.
Datum == IF dev.assigning THEN 0 .. Total ELSE {10 + Len(job.moved)}

DiskByteOut ==
    /\ Access("disk") /\ dev.phase = "out"
    /\ \E v \in Datum : dev' = TakeData(dev, now, v) /\ Moved(v)

DiskByteIn ==
    /\ Access("disk") /\ dev.phase \in {"in", "status"}
    /\ dev' = GiveByte(dev, now)
    /\ IF dev.phase = "in" THEN Moved(dev.buf[dev.i + 1])
       ELSE UNCHANGED <<job, commands, controls>>

\* A word is two bytes, the second heard or given in whatever phase the first has
\* left: take_byte ignores it where the controller talks or works.
MovedAll(bytes) ==
    job' = [job EXCEPT !.moved = @ \o bytes] /\ UNCHANGED <<commands, controls>>

DiskWordOut ==
    /\ Word /\ dev.phase = "out"
    /\ \E v \in Datum :
         LET e == TakeData(dev, now, v)
         IN  IF e.phase = "out" THEN dev' = TakeData(e, now, v + 1) /\ MovedAll(<<v, v + 1>>)
                                ELSE dev' = e /\ MovedAll(<<v>>)

Given(d) == IF d.phase = "in" THEN <<d.buf[d.i + 1]>> ELSE <<>>

DiskWordIn ==
    /\ Word /\ dev.phase \in {"in", "status"}
    /\ LET e == GiveByte(dev, now)
       IN  dev' = GiveByte(e, now) /\ MovedAll(Given(dev) \o Given(e))

FloppyDor(running, lines) ==
    Access("floppy") /\ Control /\ dev' = WriteDor(dev, now, running, lines)

FloppyCommand(c) ==
    /\ Access("floppy") /\ dev.running /\ dev.phase \in {"idle", "command"}
    /\ dev.phase = "command" => c.op = dev.cmd.op
    /\ commands < MaxCommands[which]
    /\ commands > 0 => c \in Following["floppy"]
    /\ dev' = FdcCommand(dev, now, c)
    /\ IF dev'.phase # "command"
       THEN commands' = commands + 1 /\ job' = [before |-> dev.vol, moved |-> <<>>]
       ELSE UNCHANGED <<commands, job>>
    /\ UNCHANGED controls

FloppyByteOut ==
    /\ Access("floppy") /\ dev.running /\ dev.phase = "out"
    /\ \E v \in IF dev.cmd.op \in Scans THEN ScanBytes ELSE {10 + Len(job.moved)} :
         dev' = FdcTakeData(dev, now, v) /\ Moved(v)

FloppyByteIn ==
    /\ Access("floppy") /\ dev.running /\ dev.phase \in {"in", "status"}
    /\ dev' = FdcGiveByte(dev, now)
    /\ IF dev.phase = "in" THEN Moved(dev.buf[dev.bi + 1])
       ELSE UNCHANGED <<job, commands, controls>>

-----------------------------------------------------------------------------
(* The tape.  A register access advances it first (ap_board_advance_region). *)

Tape == TapeAdvance(dev, now)

May(op) == commands < MaxCommands["tape"] /\ (commands > 0 => op \in Following["tape"])

Command(d, op) ==
    /\ commands' = commands + 1
    /\ job' = IF Refuses(d, op) THEN job ELSE TapeJob(d, op)
    /\ UNCHANGED controls

\* What a write of the control register is counted as.  A reset is noted when it
\* was too short to be one: it has cleared the card and starts nothing.
TapeControl(v) ==
    LET was == dev.card.ctl
        asks == "request" \in v \ was /\ ~dev.svalid
        other == v \ {"request"} # was \ {"request"}
    IN  /\ Access("tape") /\ v # was
        /\ asks => May(dev.card.data)
        /\ other => controls < MaxControls["tape"]
        /\ LET d == Tape
           IN  /\ dev' = WriteCtl(d, now, v)
               /\ IF asks THEN Command(d, d.card.data)
                  ELSE /\ controls' = controls + (IF other THEN 1 ELSE 0)
                       /\ job' = IF "reset" \in v THEN TapeJob(dev', "reset")
                                 ELSE IF "reset" \in was /\ ~Wide(d.card, now)
                                 THEN [job EXCEPT !.op = "narrow"] ELSE job
                       /\ UNCHANGED commands

\* The data register is a command while REQUEST stands.
Asking == "request" \in dev.card.ctl /\ ~dev.svalid

TapeData(v) ==
    /\ Access("tape") /\ May(v)
    /\ dev.writing => Asking
    /\ LET d == Tape
       IN  /\ dev' = WriteData(d, now, v)
           /\ IF Asking THEN Command(d, v) ELSE UNCHANGED <<job, commands, controls>>

\* A READ after a WRITE leaves the drive writing as well (ap_qic_command), and what
\* is written then goes into the block being read: that is noted.
TapeByteOut(v) ==
    /\ Access("tape") /\ dev.writing /\ ~Asking
    /\ Len(job.moved) < MaxWritten
    /\ dev' = WriteData(Tape, now, v)
    /\ job' = [job EXCEPT !.moved = Append(@, v),
                          !.op = IF @ = "read" THEN "mixed" ELSE @]
    /\ UNCHANGED <<commands, controls>>

TapeDmaGo ==
    /\ Access("tape") /\ dev' = [Tape EXCEPT !.card = DmaGo(@)]
    /\ UNCHANGED <<job, commands, controls>>

\* Not while REQUEST stands, which the handshake leaves to the control register, nor
\* during a reset.
TapeRstDma ==
    /\ Access("tape") /\ dev.card.ctl \cap {"request", "reset"} = {}
    /\ dev' = [Tape EXCEPT !.card = RstDma(@, now)]
    /\ UNCHANGED <<job, commands, controls>>

\* A DMA cycle, which may be the last of the channel's count.
TapeDmaCycle(last) ==
    /\ Access("tape") /\ TapeDmaRequest(dev, now)
    /\ LET r == DmaByte(dev, now)
       IN  /\ dev' = IF last THEN DmaOver(r.dev) ELSE r.dev
           /\ IF job.op = "read" THEN Moved(r.byte) ELSE UNCHANGED <<job, commands, controls>>

-----------------------------------------------------------------------------
(* The SCSI adapter.  The driver puts a command block in the first empty mailbox  *)
(* and says so, and acknowledges an interrupt when it has read the mailbox it     *)
(* names.                                                                         *)

Scsi == WdAdvance(dev, now)

\* A reset is noted when it was too short to be one: it has taken READY and the
\* request down all the same.
ScsiControl(v) ==
    /\ Access("scsi") /\ v # dev.ctl /\ controls < MaxControls["scsi"]
    /\ dev' = WdControl(Scsi, now, v)
    /\ job' = IF "reset" \in dev.ctl \ v
              THEN [job EXCEPT !.op = IF dev'.diagnosing THEN "reset" ELSE "narrow"] ELSE job
    /\ controls' = controls + 1 /\ UNCHANGED commands

ScsiFill(n) ==
    /\ Access("scsi") /\ dev.initialized /\ dev.ready
    /\ dev.ogmb[n] = NoBlock /\ \A m \in 0 .. n - 1 : dev.ogmb[m] # NoBlock
    /\ commands < Len(job.asks)
    /\ \E c \in job.asks[commands + 1] :
         dev' = [dev EXCEPT !.ogmb[n] = [tag |-> commands + 1, cmd |-> c]]
    /\ commands' = commands + 1 /\ UNCHANGED <<job, controls>>

\* An opcode or, in a sequence, a parameter.  Those a driver must give are not counted.
ScsiByte(v) ==
    /\ Access("scsi") /\ dev' = WriteCommand(Scsi, now, v)
    /\ IF \/ dev.parameters > 0 \/ v.op \in {"init", "scan"}
          \/ v.op = "start" /\ dev.ogmb[v.box] # NoBlock
       THEN UNCHANGED controls
       ELSE controls < MaxControls["scsi"] /\ controls' = controls + 1
    /\ UNCHANGED <<job, commands>>

ScsiAcknowledge ==
    /\ Access("scsi") /\ dev.interrupt
    /\ LET d == Acknowledge(Scsi)
       IN  dev' = IF Head(dev.queue).form = "icmb" THEN [d EXCEPT !.posted = Tail(@)] ELSE d
    /\ UNCHANGED <<job, commands, controls>>

-----------------------------------------------------------------------------
\* The machine's loop: the lines are sampled before an instruction, if the promise
\* has run out, and the devices advanced after it.
Sample ==
    /\ turn = "sample" /\ turn' = "run"
    /\ until' = IF now >= until THEN NextChange(which, dev) ELSE until
    /\ missed' = (missed /\ now < until)
    /\ UNCHANGED <<which, dev, now, job, commands, controls>>

Pass(dt) ==
    /\ turn = "run" /\ turn' = "sample"
    /\ now + dt <= MaxNow[which]
    /\ now' = now + dt
    /\ dev' = Advance(which, dev, now + dt)
    /\ UNCHANGED <<which, until, missed, job, commands, controls>>

Next ==
    \/ DiskSelect \/ DiskStatusWrite \/ DiskByteOut \/ DiskByteIn \/ DiskWordOut \/ DiskWordIn
    \/ \E m \in Masks : DiskMask(m)
    \/ \E c \in DiskCommands : DiskCommand(c)
    \/ \E running, lines \in BOOLEAN : FloppyDor(running, lines)
    \/ \E c \in FloppyCommands : FloppyCommand(c)
    \/ FloppyByteOut \/ FloppyByteIn
    \/ \E v \in TapeControls : TapeControl(v)
    \/ \E op \in TapeCommands : TapeData(op)
    \/ \E v \in TapeBytes : TapeByteOut(v)
    \/ TapeDmaGo \/ TapeRstDma
    \/ \E last \in BOOLEAN : TapeDmaCycle(last)
    \/ \E v \in ScsiControls : ScsiControl(v)
    \/ \E n \in 0 .. Ogmbs - 1 : ScsiFill(n)
    \/ \E v \in ScsiOpcodes : ScsiByte(v)
    \/ ScsiAcknowledge
    \/ Sample
    \/ \E dt \in 1 .. MaxStep[which] : Pass(dt)

Spec == Init /\ [][Next]_vars

-----------------------------------------------------------------------------
\* The promise, but for a word that went round it.
Standing == IF missed THEN 0 ELSE until

Board == INSTANCE Promised WITH line <- Irq(which, dev), until <- Standing

\* The board may skip its sampling: no interrupt line moves before the instant
\* the controller gave, whatever a reset, a new command or a second seek did to
\* the deadlines (ap_omti_interrupt_next_change), unless a register was accessed
\* in between.  After a word of the fixed disk's data port the board does not
\* know that one was, and may skip a sample it should take: until the next sample
\* or byte nothing is said.
PromiseKept == Board!Spec

\* What the driver waits for and the DMA controller follows agree with the phase
\* the controller is in, however it got there: no request for data is left up
\* when the status byte is next, and no interrupt without one (complete, feed,
\* transfer and the mask register).  The SCSI adapter's interrupt stands for as
\* long as one is queued, and shows the oldest (post_interrupt, acknowledge).
\* That is not said after a reset too short to be one, and until the next: its
\* rising edge takes the request down and its falling edge leaves the queue
\* (ap_wd7000_control), so that what is queued is no longer asked for.
LinesTrue ==
  /\ which = "scsi" /\ ~dev.inReset /\ job.op # "narrow" =>
      /\ dev.interrupt <=> dev.queue # <<>>
      /\ dev.interrupt => dev.shown = Head(dev.queue)
  /\ which = "disk" =>
      /\ "dreq" \in dev.st => dev.phase \in {"in", "out"} /\ "dma" \in dev.mask
      /\ "ireq" \in dev.st => dev.phase = "status" /\ "int" \in dev.mask
      /\ "cd" \in dev.st <=> dev.phase \in {"command", "status"}
      /\ "io" \in dev.st <=> dev.phase \in {"in", "status"}

\* The bytes of n sectors of the medium as it was.
Was(n, width) == Gathered(job.before, dev.cmd.lba, n, width)

\* A disk command that ends well did what it was asked: the bytes read are those
\* of its sectors in order, the sectors written hold the bytes given, and a copy
\* that does not overlap itself holds its source.
DiskDataRight ==
    which = "disk" /\ dev.phase \in {"executing", "status"} /\ ~dev.error =>
      LET c == dev.cmd
          n == Blocks(c)
      IN  CASE c.op = "read"              -> job.moved = Was(n, 2)
            [] c.op = "read_long"         -> job.moved = Was(n, 3)
            [] c.op = "read_to_buffer"    -> SubSeq(dev.buf, 1, 2 * n) = Was(n, 2)
            [] c.op = "write"             -> Gathered(dev.vol, c.lba, n, 2) = job.moved
            [] c.op = "write_long"        -> Gathered(dev.vol, c.lba, n, 3) = job.moved
            [] c.op = "write_from_buffer" ->
                 Gathered(dev.vol, c.lba, n, 2) = SubSeq(dev.buf, 1, 2 * n)
            [] c.op = "copy" -> c.to >= c.lba + n \/ c.lba >= c.to + n =>
                                  Gathered(dev.vol, c.to, n, 2) = Was(n, 2)
            [] OTHER -> TRUE

FloppyDataRight ==
    which = "floppy" /\ dev.phase \in {"executing", "status"} /\ dev.result.st0 = "normal" =>
      CASE dev.cmd.op \in {"read_data", "read_deleted"} -> job.moved = job.before[dev.cmd.at]
        [] dev.cmd.op \in Writes                        -> dev.vol[dev.cmd.at] = job.moved
        [] OTHER -> TRUE

\* The blocks a read of the cartridge finds before a mark or the medium's end.
Found ==
    {b \in job.from .. End(dev) - 1 : \A a \in job.from .. b : job.before[a] # Mark}

\* Their bytes, the first block's twice when it is the first since a reset and has
\* another after it.
Stream ==
    LET n == Cardinality(Found)
        flat == [k \in 1 .. n * BlockBytes |->
                   job.before[job.from + (k - 1) \div BlockBytes][((k - 1) % BlockBytes) + 1]]
    IN  IF job.twice /\ n > 1 THEN job.before[job.from] \o flat ELSE flat

Marked == job.from + Cardinality(Found) < End(dev)

\* A read gives the cartridge's bytes in order and stops behind the mark, and whole
\* blocks written are on the cartridge.  A read into which the host wrote says nothing:
\* the two share one block (accept_byte, ap_tape_read).
TapeDataRight ==
    /\ which = "tape" /\ job.op = "read" =>
         /\ \/ Len(job.moved) <= Len(Stream) /\ job.moved = SubSeq(Stream, 1, Len(job.moved))
            \/ Marked /\ job.moved = Append(Stream, MarkByte)
         /\ ~dev.reading =>
              /\ Len(job.moved) >= Len(Stream)
              /\ dev.pos = job.from + Cardinality(Found) + (IF Marked THEN 1 ELSE 0)
    /\ which = "tape" /\ job.op = "write" =>
         \A b \in 0 .. Len(job.moved) \div BlockBytes - 1 :
           job.from + b < End(dev) =>
             dev.vol[job.from + b] = SubSeq(job.moved, BlockBytes * b + 1, BlockBytes * (b + 1))

\* A completion the host has not acknowledged is still in the mailbox that was
\* named to it, whatever completed since (post_icmb, acknowledge).
MailKept ==
    which = "scsi" =>
      LET named == SelectSeq(dev.queue, LAMBDA q : q.form = "icmb")
      IN  [i \in DOMAIN named |-> dev.icmb[named[i].box]] = dev.posted

\* A write that ends well put its bytes where the 8 mm tape was, and left nothing
\* behind them of what was there (cmd_write, truncate_here).  A read that ends well
\* gave whole records from where the tape was.
ScsiDataRight ==
    which = "scsi" /\ dev.last # <<>> =>
      LET t == dev.last[1]
          from == t.before.at + 1
          asked == t.cmd.count * (IF t.cmd.fixed THEN t.before.block ELSE 1)
      IN  t.result.status = "good" =>
            /\ t.cmd.op = "read" /\ ~t.cmd.sili =>
                 t.result.bytes = Flat(SubSeq(t.before.recs, from, t.result.drive.at))
            /\ t.cmd.op = "write" /\ asked > 0 =>
                 Flat(SubSeq(dev.drive.recs, from, Len(dev.drive.recs)))
                   = SubSeq(HostBytes(t.tag), 1, asked)

DataRight == DiskDataRight /\ FloppyDataRight /\ TapeDataRight /\ MailKept /\ ScsiDataRight

\* The sectors a disk command may write.
Target(d) ==
    LET c == d.cmd
    IN  CASE c.op \in {"write", "write_long", "write_from_buffer"} ->
               c.lba .. c.lba + Blocks(c) - 1
          [] c.op = "copy"         -> c.to .. c.to + Blocks(c) - 1
          [] c.op = "format_drive" -> {a \in Addr : a \div Sectors >= c.lba \div Sectors}
          [] c.op \in {"format_track", "format_bad_track"} -> TrackOf(c.lba)
          [] c.op = "assign"       -> Addr
          [] OTHER                 -> {}

\* The 8 mm tape: what stands before the place where the last command began is as
\* it was, and so is everything unless the command writes and was taken.
OnlyBeyond ==
    dev.last # <<>> =>
      LET t == dev.last[1]
          was == t.before.recs
          upTo == IF /\ t.cmd.op \in {"write", "marks", "erase"} /\ t.before.writable
                     /\ t.result.status = "good" \/ t.result.drive.where = "peot"
                  THEN t.before.at ELSE Len(was)
      IN  /\ SubSeq(dev.drive.recs, 1, upTo) = SubSeq(was, 1, upTo)
          /\ upTo = Len(was) /\ t.cmd.op \notin {"write", "marks"} => dev.drive.recs = was

\* A command that fails halfway, is refused, or is cut short by a reset has
\* written nothing but sectors it was asked to, and nothing at all on a medium
\* that is protected (writable, addressed, and the tests of the diskette's).
OnlyWhatWasAsked ==
    LET changed == {a \in DOMAIN dev.vol : dev.vol[a] # job.before[a]}
    IN  /\ which = "disk" /\ dev.phase \in {"out", "executing", "status"} =>
             changed \subseteq Target(dev)
        /\ which = "floppy" /\ dev.phase \in {"executing", "status"}
             /\ dev.cmd.op # "format" => changed \subseteq {dev.cmd.at}
        /\ which = "tape" =>
             CASE job.op = "write" -> changed \subseteq job.from .. dev.pos - 1
               [] job.op = "mark"  -> changed \subseteq {job.from}
               [] OTHER            -> dev.writing \/ changed = {}
        /\ which # "scsi" => changed = {} \/ dev.writable
        /\ which = "scsi" =>
             /\ OnlyBeyond
             /\ dev.drive.writable \/ dev.drive.recs = job.before

\* A driver never waits for ever.  A diskette drive the main status register shows
\* as busy has an end coming: a seek under way or an interrupt to be cleared
\* (fdc_begin_seek, SENSE INTERRUPT and the reset).  READY that is down, with
\* nothing asked of the card, comes back or an exception does; DONE that is down
\* comes with the next byte, an exception or the blocks the host still writes
\* (ap_tape_advance).  The SCSI adapter's READY comes back, and every mailbox it
\* holds has an interrupt to free it, one each.
\* Of READY nothing is said after a reset of the card or the adapter that was too
\* short to be one: its rising edge has taken READY down, its falling edge starts
\* nothing that would raise it, and the card stays as busy as the edge left it until
\* a reset that is long enough or, the tape, a command (ap_sc499_write, ap_wd7000_control).
BusyEnds ==
    /\ which = "floppy" =>
         \A u \in Units : dev.unit[u].busy => dev.unit[u].done \/ dev.unit[u].at # NeverDue
    /\ which = "tape" /\ turn = "sample" /\ dev.card.ctl \cap {"request", "reset"} = {} =>
         \/ dev.card.ready \/ dev.card.exception \/ dev.card.arming \/ dev.card.testing
         \/ Executing(dev.card) \/ dev.card.reopenAt # Unset \/ job.op = "narrow"
    /\ which = "tape" /\ turn = "sample" /\ ~dev.card.done =>
         \/ dev.card.exception \/ dev.writing
         \/ dev.reading /\ (now >= dev.byteAt => TapeDmaRequest(dev, now))
    /\ which = "scsi" =>
         /\ \/ dev.ready \/ dev.busy \/ dev.diagnosing \/ dev.inReset \/ job.op = "narrow"
         /\ LET naming == {i \in DOMAIN dev.queue : dev.queue[i].form = "icmb"}
            IN  /\ dev.inUse = {dev.queue[i].box : i \in naming}
                /\ Cardinality(dev.inUse) = Cardinality(naming)

-----------------------------------------------------------------------------
=============================================================================
