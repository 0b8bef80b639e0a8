-------------------------------- MODULE Omti --------------------------------
(***************************************************************************)
(* The fixed disk half of the OMTI 8621 (ap_omti.c) and the drive behind   *)
(* it (ap_awd.c): a command phase, a data phase that the processor or a    *)
(* DMA channel runs byte by byte, a time in which the command executes,    *)
(* and a status byte.                                                      *)
(*                                                                         *)
(* A sector has two bytes and a long one an ECC byte more.  A command      *)
(* block is its first byte, by which the controller knows its length, and  *)
(* all the rest together.  Cylinder, head and sector are one address, and  *)
(* an address off the disk is any from Total on.                           *)
(***************************************************************************)
EXTENDS Integers, Sequences

CONSTANTS Sectors,      \* sectors on a track
          Tracks,       \* tracks, one head to a cylinder
          BufferBlocks, \* AP_OMTI_MAX_BUFFER_BLOCKS
          ZeroBlocks,   \* what a count of zero means
          Seek, Spin,   \* durations: a command on the surface, and of each block
          Timeout,      \* AP_OMTI_READY_TIMEOUT
          ResetTime,    \* AP_OMTI_RESET_TIME
          Never         \* AP_TIME_NEVER

ASSUME OmtiAssumption == /\ Sectors \in Nat \ {0, 1} /\ Tracks \in Nat \ {0}
                         /\ BufferBlocks \in Nat \ {0} /\ ZeroBlocks \in Nat \ {0}
                         /\ {Seek, Spin, Timeout, ResetTime, Never} \subseteq Nat \ {0}

Total    == Sectors * Tracks
Addr     == 0 .. Total - 1
TrackOf(a) == {b \in Addr : b \div Sectors = a \div Sectors}
Fill     == 99              \* what a format writes
Lowest(a, b) == IF a < b THEN a ELSE b

\* The controller's own errors, as the codes REQUEST SENSE gives.
NoFault == 0         NotReady == 4        Protected == 23     BadTrack == 25
BadInterleave == 26  Alternate == 28      Invalid == 32       Illegal == 33
Function == 34       Overflow == 35

Lines == {"bsy", "cd", "io", "req", "ireq", "dreq"}
Phases == {"reset", "idle", "command", "in", "out", "executing", "status"}

Drive == [i \in Addr |-> [data |-> <<i, i>>, flag |-> "none", ecc |-> 0]]

Put(buf, at, bytes) ==
    [i \in DOMAIN buf |-> IF i - at \in DOMAIN bytes THEN bytes[i - at] ELSE buf[i]]

NoCommand == [op |-> "none", lun |-> 0, lba |-> 0, count |-> 1, to |-> 0, control |-> {}]

\* ap_omti_disk_reset, at a time that ap_omti_advance has noted.  The drive,
\* the last address and the sense bytes are left as they are.
DiskReset(d, now) ==
    [d EXCEPT !.phase = "reset", !.st = {}, !.mask = {}, !.taken = 0, !.i = 0,
              !.buf = [k \in DOMAIN d.buf |-> 0], !.ends = now + ResetTime]

\* ap_omti_reset with a drive attached
DiskStart(writable) ==
    [phase |-> "reset", st |-> {}, mask |-> {}, taken |-> 0, cmd |-> NoCommand,
     buf |-> [k \in 1 .. 3 * BufferBlocks |-> 0], i |-> 0, len |-> 0, left |-> 0,
     next |-> 0, long |-> [at |-> 0, blocks |-> 0], assigning |-> FALSE,
     ends |-> ResetTime, error |-> FALSE, sense |-> <<NoFault, 0>>, last |-> -1,
     vol |-> Drive, writable |-> writable]

DiskIrq(d) == "int" \in d.mask /\ "ireq" \in d.st

-----------------------------------------------------------------------------
(* The end of a command. *)

Selected(d) == d.cmd.lun = 0

Surface == {"recalibrate", "seek", "read", "write", "verify", "read_to_buffer",
            "write_from_buffer", "read_long", "write_long", "copy", "format_drive",
            "format_track", "format_bad_track", "check_track", "assign"}

\* command_duration, whose count of zero takes no time to transfer
Duration(d) ==
    CASE d.cmd.op = "ready"    -> IF Selected(d) THEN 0 ELSE Timeout
      [] d.cmd.op \in Surface  -> Seek + Spin * d.cmd.count
      [] OTHER                 -> 0

\* Mutant of Complete: the DMA request is left up.
CompleteAsking(d) ==
    [d EXCEPT !.phase = "status", !.i = 0, !.left = 0,
              !.st = @ \cup {"cd", "io", "req"}
                       \cup (IF "int" \in d.mask THEN {"ireq"} ELSE {})]

\* complete
Complete(d) ==
    [d EXCEPT !.phase = "status", !.i = 0, !.left = 0,
              !.st = (@ \ {"dreq"}) \cup {"cd", "io", "req"}
                       \cup (IF "int" \in d.mask THEN {"ireq"} ELSE {})]

Ended(d, now) ==
    IF Duration(d) = 0 THEN Complete(d)
    ELSE [d EXCEPT !.phase = "executing", !.ends = now + Duration(d), !.st = {"bsy"}]

\* finish: a success leaves the last address in the sense bytes, an error
\* none, unless it was refused for its address.
Finish(d, now, fault) ==
    Ended([d EXCEPT !.error = fault # NoFault,
                    !.sense = <<fault, IF fault = NoFault /\ d.last >= 0 /\ Selected(d)
                                       THEN d.last ELSE 0>>], now)
Refuse(d, now, fault, at) ==
    [Finish(d, now, fault) EXCEPT !.sense = <<fault, at>>]

-----------------------------------------------------------------------------
(* The data phases. *)

DataPhase(d, phase) ==
    [d EXCEPT !.phase = phase, !.i = 0,
              !.st = (@ \ {"cd", "io"}) \cup {"req"}
                       \cup (IF phase = "in" THEN {"io"} ELSE {})
                       \cup (IF "dma" \in d.mask THEN {"dreq"} ELSE {})]

\* transfer
Transfer(d, n, phase) == [DataPhase(d, phase) EXCEPT !.len = n, !.left = 0]

\* feed: the next sector of a READ, or its end.
Feed(d, now) ==
    IF d.left = 0 THEN Finish(d, now, NoFault)
    ELSE IF d.next \notin Addr THEN Refuse(d, now, Overflow, d.next)
    ELSE [DataPhase(d, "in") EXCEPT
            !.buf = Put(d.buf, 0, d.vol[d.next].data),
            !.last = d.next, !.next = d.next + 1, !.left = d.left - 1, !.len = 2]

\* format_track: each sector filled, from the buffer if the control bit says
\* so, and flagged.
Formatted(d, sectors, bytes, flag) ==
    [d EXCEPT !.vol = [a \in Addr |-> IF a \in sectors
                                      THEN [d.vol[a] EXCEPT !.data = bytes, !.flag = flag]
                                      ELSE d.vol[a]]]
FormatBytes(d) == IF "buffer" \in d.cmd.control THEN SubSeq(d.buf, 1, 2) ELSE <<Fill, Fill>>

-----------------------------------------------------------------------------
(* execute: what a command needs before it starts, in the order the code   *)
(* looks, and what it does.                                                *)

Needs == [read |-> {"addr"}, write |-> {"write", "addr"}, verify |-> {"addr"},
          read_id |-> {"addr"}, read_to_buffer |-> {"fits", "addr"},
          write_from_buffer |-> {"fits", "write", "addr"},
          read_buffer |-> {"fits"}, write_buffer |-> {"fits"},
          read_long |-> {"fits", "addr"}, write_long |-> {"fits", "write", "addr"},
          copy |-> {"write", "addr"}, format_drive |-> {"write", "addr", "skew"},
          format_track |-> {"write", "addr", "skew"},
          format_bad_track |-> {"write", "addr", "skew"},
          assign |-> {"write", "addr"}, check_track |-> {"addr", "skew"},
          seek |-> {"addr"}, recalibrate |-> {"addr"}, ready |-> {"drive"},
          configuration |-> {"drive"}, diagnose_drive |-> {"drive"},
          defects |-> {"drive"}, start_stop |-> {"drive"}, sense |-> {},
          ecc_length |-> {}, diagnose |-> {}, cartridge |-> {}, unknown |-> {}]
Ops == DOMAIN Needs

\* The blocks a host may give.
CommandBlocks == [op : Ops, lun : Nat, lba : Nat, count : Nat, to : Nat,
                  control : SUBSET {"convert", "buffer"}]

\* block_count, and a count too large for the buffer
Blocks(c) == IF c.count = 0 THEN ZeroBlocks ELSE c.count
TooMany(c) == "fits" \in Needs[c.op] /\ Blocks(c) > BufferBlocks

\* writable, addressed, interleave_ok and the buffer's size.  An address that is
\* converted is not looked up among the bad tracks.
Fault(d) ==
    LET c == d.cmd
        needs == Needs[c.op]
        flag == IF c.lba \in Addr /\ "convert" \notin c.control
                THEN d.vol[c.lba].flag ELSE "none"
    IN  IF c.op = "cartridge" THEN Function
        ELSE IF c.op = "unknown" THEN Invalid
        ELSE IF TooMany(c) THEN Illegal
        ELSE IF needs \cap {"write", "addr", "drive"} # {} /\ ~Selected(d) THEN NotReady
        ELSE IF "write" \in needs /\ ~d.writable THEN Protected
        ELSE IF "addr" \in needs /\ c.lba \notin Addr THEN Illegal
        ELSE IF "addr" \in needs /\ flag = "bad" THEN BadTrack
        ELSE IF "addr" \in needs /\ flag = "alternate" THEN Alternate
        ELSE IF "skew" \in needs /\ c.count >= Sectors THEN BadInterleave
        ELSE NoFault

\* A command that runs over its blocks stops at the end of the drive: the
\* blocks it reaches, and its end.
Reached(d, from) == Lowest(Blocks(d.cmd), Total - from)
Ending(d, now, n) ==
    IF n = Blocks(d.cmd) THEN Finish(d, now, NoFault) ELSE Refuse(d, now, Overflow, d.cmd.lba)

\* The bytes of n sectors from `at` on, each with `width` of them.
Gathered(vol, at, n, width) ==
    [k \in 1 .. n * width |->
       LET s == vol[at + (k - 1) \div width]
           b == ((k - 1) % width) + 1
       IN  IF b = 3 THEN s.ecc ELSE s.data[b]]

\* n sectors from `at` on, written with these bytes.
Spread(vol, at, n, width, bytes) ==
    [a \in Addr |-> IF a \in at .. at + n - 1
                    THEN [vol[a] EXCEPT
                            !.data = SubSeq(bytes, (a - at) * width + 1, (a - at) * width + 2),
                            !.ecc = IF width = 3 THEN bytes[(a - at) * width + 3] ELSE @]
                    ELSE vol[a]]

\* Mutant of Copied: the destination runs one ahead.
CopiedAhead(d, n) ==
    LET f[k \in 0 .. n] ==
          IF k = 0 THEN d.vol
          ELSE LET v == f[k - 1]
               IN  [v EXCEPT ![d.cmd.to + k].data = v[d.cmd.lba + k - 1].data]
    IN  f[n]

\* Sector by sector, so that a copy onto itself repeats.
Copied(d, n) ==
    LET f[k \in 0 .. n] ==
          IF k = 0 THEN d.vol
          ELSE LET v == f[k - 1]
               IN  [v EXCEPT ![d.cmd.to + k - 1].data = v[d.cmd.lba + k - 1].data]
    IN  f[n]

Answer(d, bytes) == Transfer([d EXCEPT !.buf = Put(@, 0, bytes)], Len(bytes), "in")

Perform(d, now) ==
    LET c == d.cmd
        n == Reached(d, c.lba)
        read == [d EXCEPT !.last = c.lba + n - 1]
    IN
    CASE c.op = "read" -> Feed([d EXCEPT !.next = c.lba, !.left = Blocks(c)], now)
      [] c.op = "write" ->
           [DataPhase(d, "out") EXCEPT !.next = c.lba, !.left = Blocks(c)]
      [] c.op = "sense"         -> Answer(d, d.sense)
      [] c.op = "configuration" -> Answer(d, <<Tracks - 1, Sectors - 1>>)
      [] c.op = "read_id"       -> Answer(d, <<c.lba>>)
      [] c.op = "ecc_length"    -> Answer(d, <<0>>)
      [] c.op = "defects"       -> Answer(d, <<0>>)
      [] c.op = "read_buffer"   -> Transfer(d, 2 * Blocks(c), "in")
      [] c.op = "write_buffer"  -> Transfer(d, 2 * Blocks(c), "out")
      [] c.op = "verify" ->
           Ending([d EXCEPT !.last = Lowest(c.lba + Blocks(c) - 1, Total),
                            !.buf = Put(@, 0, d.vol[c.lba + n - 1].data)], now, n)
      [] c.op = "read_to_buffer" ->
           Ending([read EXCEPT !.buf = Put(@, 0, Gathered(d.vol, c.lba, n, 2))], now, n)
      [] c.op = "write_from_buffer" ->
           Ending([d EXCEPT !.vol = Spread(@, c.lba, n, 2, d.buf)], now, n)
      [] c.op = "read_long" ->
           LET all == [d EXCEPT !.last = Lowest(c.lba + Blocks(c) - 1, Total),
                                !.buf = Put(Put(@, 0, [k \in 1 .. 3 * Blocks(c) |-> 0]),
                                            0, Gathered(d.vol, c.lba, n, 3))]
           IN  IF n = Blocks(c) THEN Transfer(all, 3 * n, "in") ELSE Ending(all, now, n)
      [] c.op = "write_long" ->
           Transfer([d EXCEPT !.long = [at |-> c.lba, blocks |-> Blocks(c)]],
                    3 * Blocks(c), "out")
      [] c.op = "copy" ->
           IF c.to \notin Addr THEN Refuse(d, now, Illegal, c.to)
           ELSE LET m == Lowest(n, Reached(d, c.to))
                    r == Lowest(c.lba + m, c.lba + n - 1)
                IN  Ending([d EXCEPT !.vol = Copied(d, m),
                                     !.last = Lowest(c.lba + m, c.lba + Blocks(c) - 1),
                                     !.buf = Put(@, 0, Copied(d, m)[r].data)], now, m)
      [] c.op = "format_drive" ->
           Finish(Formatted(d, {a \in Addr : a \div Sectors >= c.lba \div Sectors},
                            FormatBytes(d), "none"), now, NoFault)
      [] c.op \in {"format_track", "format_bad_track"} ->
           Finish(Formatted(d, TrackOf(c.lba), FormatBytes(d),
                            IF c.op = "format_track" THEN "none" ELSE "bad"), now, NoFault)
      [] c.op = "assign" -> Transfer([d EXCEPT !.assigning = TRUE], 1, "out")
      [] c.op = "check_track" ->
           LET end == (c.lba \div Sectors + 1) * Sectors - 1
           IN  Finish([d EXCEPT !.last = end, !.buf = Put(@, 0, d.vol[end].data)], now, NoFault)
      [] c.op = "diagnose_drive" ->
           LET end == (Tracks - 1) * Sectors + 1
           IN  Finish([d EXCEPT !.last = end, !.buf = Put(@, 0, d.vol[end].data)], now, NoFault)
      [] OTHER -> Finish(d, now, NoFault)

Execute(d, now) ==
    LET e == [d EXCEPT !.long.blocks = 0, !.assigning = FALSE]
        f == Fault(e)
    IN  CASE f = NoFault -> Perform(e, now)
          [] f = Illegal /\ ~TooMany(e.cmd) -> Refuse(e, now, f, e.cmd.lba)
          [] OTHER -> Finish(e, now, f)

-----------------------------------------------------------------------------
(* The registers, and time. *)

\* take_byte in the command phase: the first byte, and then the rest.
TakeCommand(d, now, c) ==
    IF d.phase = "idle" \/ d.taken = 0
    THEN [d EXCEPT !.phase = "command", !.cmd.op = c.op, !.taken = 1,
                   !.st = (@ \ (IF d.phase = "idle" THEN {"req"} ELSE {})) \cup {"cd"}]
    ELSE Execute([d EXCEPT !.cmd = [c EXCEPT !.op = d.cmd.op], !.taken = 2,
                           !.st = @ \ {"req", "cd"}], now)

\* The end of the bytes a transfer takes: an alternate's address, long sectors,
\* or the buffer's own.
Taken(d, now) ==
    LET n == Lowest(d.long.blocks, Total - d.long.at)
        alternate == d.buf[1]
    IN  CASE d.assigning /\ alternate \in Addr ->
               Finish(Formatted([d EXCEPT !.assigning = FALSE], TrackOf(alternate),
                                <<Fill, Fill>>, "alternate"), now, NoFault)
          [] d.assigning /\ alternate \notin Addr -> Refuse([d EXCEPT !.assigning = FALSE], now, Illegal, alternate)
          [] ~d.assigning /\ n < d.long.blocks ->
               Refuse([d EXCEPT !.vol = Spread(@, d.long.at, n, 3, d.buf), !.long.blocks = 0],
                      now, Overflow, d.long.at + n)
          [] OTHER -> Finish([d EXCEPT !.vol = Spread(@, d.long.at, n, 3, d.buf),
                                       !.long.blocks = 0], now, NoFault)

\* Mutant of SectorTaken: the next sector goes on behind the last one.
SectorTakenBehind(d, now) ==
    LET e == [d EXCEPT !.vol[d.next].data = SubSeq(d.buf, 1, 2), !.next = @ + 1,
                       !.left = @ - 1]
    IN  CASE d.next \notin Addr -> Refuse(d, now, Overflow, d.next)
          [] d.next \in Addr /\ e.left = 0 -> Finish(e, now, NoFault)
          [] OTHER -> [e EXCEPT !.st = @ \cup {"req"}]

\* A sector of a WRITE is complete.
SectorTaken(d, now) ==
    LET e == [d EXCEPT !.vol[d.next].data = SubSeq(d.buf, 1, 2), !.next = @ + 1,
                       !.left = @ - 1, !.i = 0]
    IN  CASE d.next \notin Addr -> Refuse(d, now, Overflow, d.next)
          [] d.next \in Addr /\ e.left = 0 -> Finish(e, now, NoFault)
          [] OTHER -> [e EXCEPT !.st = @ \cup {"req"}]

\* take_byte in the data phase
TakeData(d, now, v) ==
    LET e == [d EXCEPT !.buf[d.i + 1] = v, !.i = @ + 1, !.st = @ \ {"req"}]
    IN  IF e.i < (IF d.left = 0 THEN d.len ELSE 2) THEN [e EXCEPT !.st = @ \cup {"req"}]
        ELSE IF d.left = 0 THEN Taken(e, now)
        ELSE SectorTaken(e, now)

\* give_byte
GiveByte(d, now) ==
    LET e == [d EXCEPT !.i = @ + 1, !.st = @ \ {"req"}]
        more == e.i < d.len
    IN  CASE d.phase = "in" /\ more -> [e EXCEPT !.st = @ \cup {"req"}]
          [] d.phase = "in" /\ ~more /\ d.left > 0 -> Feed(e, now)
          [] d.phase = "in" /\ ~more /\ d.left = 0 -> Finish(e, now, NoFault)
          [] d.phase = "status" -> [d EXCEPT !.phase = "idle", !.st = {}]
          [] OTHER -> d

\* ap_omti_disk_write: the register that selects the controller, heard only when
\* it is idle, and the mask, which takes back what it disables.
SelectDisk(d) ==
    IF d.phase # "idle" THEN d
    ELSE [d EXCEPT !.phase = "command", !.taken = 0, !.st = {"bsy", "cd", "req"}]
WriteMask(d, m) ==
    [d EXCEPT !.mask = m, !.st = @ \ ((IF "int" \in m THEN {} ELSE {"ireq"})
                                      \cup (IF "dma" \in m THEN {} ELSE {"dreq"}))]

\* Mutant of DiskNextChange: only a reset is waited for.
DiskNextChangeReset(d) == IF d.phase = "reset" THEN d.ends ELSE Never

\* ap_omti_interrupt_next_change and ap_omti_advance, for the disk
DiskNextChange(d) == IF d.phase \in {"executing", "reset"} THEN d.ends ELSE Never
DiskAdvance(d, now) ==
    CASE d.phase = "reset" /\ now >= d.ends     -> [d EXCEPT !.phase = "idle"]
      [] d.phase = "executing" /\ now >= d.ends -> Complete(d)
      [] OTHER -> d
=============================================================================
