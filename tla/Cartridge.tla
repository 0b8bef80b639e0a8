------------------------------ MODULE Cartridge -----------------------------
(***************************************************************************)
(* The cartridge tape, in two parts.  First the SC-499 controller card     *)
(* (ap_sc499.c): the handshake of REQUEST and READY with the drive, the    *)
(* exception that stands until it is answered, the DMA latch and the reset *)
(* a host must hold long enough.  A deadline that is not running is Unset, *)
(* which stands for the code's flag beside it.                             *)
(*                                                                         *)
(* Then the QIC drive (ap_qic.c) and the board's tape (ap_tape.c) that     *)
(* joins it to the card, block by block.  A block holds BlockBytes bytes   *)
(* and the medium is the blocks the image has; a file mark is a block of a *)
(* value of its own.  A status block is StatusBytes long and is told apart *)
(* only by the conditions it reports.                                      *)
(***************************************************************************)
EXTENDS Naturals, Sequences, FiniteSets

CONSTANTS ExceptionTime, DirectionTime, CommandTime, BlockTime, \* READY's return
          TestTime,            \* from a reset to its exception
          HoldTime,            \* the least width of a reset
          CloseTime, ReopenTime, \* READY after REQUEST is released
          Unset                \* AP_TIME_NEVER

ASSUME Sc499Assumption ==
    {ExceptionTime, DirectionTime, CommandTime, BlockTime, TestTime, HoldTime,
     CloseTime, ReopenTime, Unset} \subseteq Nat \ {0}

Controls == {"reset", "request", "ien", "dnien"}

\* ap_sc499_reset
CardReset ==
    [ctl |-> {}, data |-> "unknown", ready |-> FALSE, exception |-> FALSE, done |-> TRUE,
     direction |-> FALSE, dma |-> FALSE, entry |-> "ready", readyAt |-> Unset,
     arming |-> FALSE, testing |-> FALSE, exceptionAt |-> 0,
     dating |-> FALSE, since |-> Unset, closeAt |-> Unset, reopenAt |-> Unset]

PowerOnTest(c) == [c EXCEPT !.arming = TRUE]

Raised(c) == [c EXCEPT !.exception = TRUE, !.ready = FALSE]
DmaEnded(c) == [c EXCEPT !.dma = FALSE, !.done = TRUE]
Executing(c) == c.readyAt # Unset

-----------------------------------------------------------------------------
(* The handshake. *)

Entry(c) == IF c.exception THEN "exception" ELSE IF c.direction THEN "direction" ELSE "ready"

Handshake(entry) ==
    CASE entry = "exception" -> ExceptionTime
      [] entry = "direction" -> DirectionTime
      [] entry = "block"     -> BlockTime
      [] OTHER               -> CommandTime

Accepted(c, now) ==
    [c EXCEPT !.entry = Entry(c), !.ready = FALSE,
              !.readyAt = now + Handshake(Entry(c)), !.closeAt = Unset, !.reopenAt = Unset]

BlockBoundary(c, now) ==
    [c EXCEPT !.entry = "block", !.ready = FALSE, !.readyAt = now + BlockTime]

\* REQUEST as the acknowledge of a byte, and its release.
ByteTaken(c) == [c EXCEPT !.ready = FALSE, !.closeAt = Unset, !.reopenAt = Unset]

\* Mutant of RequestReleased: READY comes back only if it was up.
RequestReleasedIfReady(c, now) ==
    IF c.ready THEN [c EXCEPT !.closeAt = now + CloseTime,
                              !.reopenAt = now + CloseTime + ReopenTime]
               ELSE c

RequestReleased(c, now) ==
    IF c.ready THEN [c EXCEPT !.closeAt = now + CloseTime,
                              !.reopenAt = now + CloseTime + ReopenTime]
               ELSE [c EXCEPT !.closeAt = Unset, !.reopenAt = now + ReopenTime]

-----------------------------------------------------------------------------
(* ap_sc499_advance, in its order. *)

Dated(c, now) == IF c.dating THEN [c EXCEPT !.dating = FALSE, !.since = now] ELSE c

Tested(c, now) ==
    IF c.arming THEN [c EXCEPT !.arming = FALSE, !.testing = TRUE,
                               !.exceptionAt = now + TestTime]
    ELSE IF c.testing /\ now >= c.exceptionAt
         THEN [c EXCEPT !.testing = FALSE, !.exception = TRUE] ELSE c

\* The exception and the direction a command found are taken down as it completes.
Completed(c, now) ==
    IF now < c.readyAt THEN c
    ELSE LET standing == c.exception /\ c.entry # "exception"
         IN  [c EXCEPT !.exception = standing,
                       !.direction = @ /\ c.entry # "direction",
                       !.ready = @ \/ ~standing, !.readyAt = Unset]

Closed(c, now) ==
    IF now < c.closeAt THEN c ELSE [c EXCEPT !.closeAt = Unset, !.ready = FALSE]

Reopened(c, now) ==
    IF now < c.reopenAt THEN c
    ELSE [c EXCEPT !.reopenAt = Unset, !.ready = @ \/ ~c.exception]

CardAdvance(c, now) ==
    Reopened(Closed(Completed(Tested(Dated(c, now), now), now), now), now)

-----------------------------------------------------------------------------
(* The registers. *)

CardIrq(c) ==
    /\ "ien" \in c.ctl
    /\ \/ c.exception
       \/ IF "dnien" \in c.ctl THEN c.done ELSE c.ready

\* Mutant of CardNextChange: the fall of READY that a release causes is forgotten.
CardNextChangeNoFall(c) ==
    LET times == {c.readyAt, c.reopenAt, IF c.exceptionAt = 0 THEN Unset ELSE c.exceptionAt}
    IN  CHOOSE t \in times : \A u \in times : t <= u

CardNextChange(c) ==
    LET times == {c.readyAt, c.closeAt, c.reopenAt,
                  IF c.exceptionAt = 0 THEN Unset ELSE c.exceptionAt}
    IN  CHOOSE t \in times : \A u \in times : t <= u

Wide(c, now) == "reset" \in c.ctl /\ c.since # Unset /\ now - c.since > HoldTime

Hold(c, v) ==
    IF "reset" \in c.ctl
    THEN [CardReset EXCEPT !.ctl = v, !.dating = c.dating, !.since = c.since]
    ELSE [CardReset EXCEPT !.ctl = v, !.dating = TRUE]

WriteControl(c, v, now) ==
    CASE "reset" \in v -> Hold(c, v)
      [] "reset" \in c.ctl \ v ->
           [c EXCEPT !.ctl = v, !.dating = FALSE, !.since = Unset,
                     !.exception = @ /\ ~Wide(c, now), !.arming = @ \/ Wide(c, now)]
      [] OTHER -> [c EXCEPT !.ctl = v]

DmaGo(c) == [c EXCEPT !.dma = TRUE, !.done = FALSE]

RstDma(c, now) ==
    [c EXCEPT !.dma = FALSE, !.ctl = {}, !.dating = FALSE, !.since = Unset,
              !.done = TRUE, !.arming = @ \/ Wide(c, now)]

-----------------------------------------------------------------------------
(* The drive and the medium. *)

CONSTANTS Cartridges, \* what may be in the drive: the blocks of each in order, and
                      \* whether it may be written
          ByteTime,  \* AP_SC499_T_BYTE
          MarkByte, StatusBytes

BlockBytes == 2    \* AP_CT_BLOCK_SIZE
Mark == [i \in 1 .. BlockBytes |-> MarkByte]

ASSUME CartridgeAssumption ==
    /\ ByteTime \in Nat \ {0} /\ StatusBytes \in Nat \ {0}
    /\ \A c \in Cartridges : /\ Len(c.blocks) \in Nat /\ c.writable \in BOOLEAN
                            /\ \A i \in DOMAIN c.blocks : Len(c.blocks[i]) = BlockBytes

TapeOps == {"bot", "retension", "format", "erase", "read", "write", "mark", "read_mark",
            "status", "select", "other", "unknown"}

\* ap_tape_init and ap_qic_load.
NoCartridge == [blocks |-> <<>>, writable |-> FALSE]

TapeStart(c) ==
    [card |-> PowerOnTest(CardReset), loaded |-> c # NoCartridge, writable |-> c.writable,
     vol |-> [b \in 0 .. Len(c.blocks) - 1 |-> c.blocks[b + 1]],
     pos |-> 0, selected |-> TRUE, reading |-> FALSE, writing |-> FALSE, pending |-> FALSE,
     latches |-> {"power"}, buf |-> Mark, off |-> 0, valid |-> FALSE,
     status |-> {}, soff |-> 0, svalid |-> FALSE,
     byteAt |-> 0, first |-> TRUE, markSent |-> FALSE]

End(d) == Cardinality(DOMAIN d.vol) \* ap_ct_blocks

NeedsBlock(d) == ~d.valid \/ d.off >= BlockBytes

\* Whether a read finds a mark, or the end of the medium, where the tape is.
DriveReady(d) == d.selected /\ d.loaded
AtMark(d) == d.reading /\ DriveReady(d) /\ d.pos < End(d) /\ d.vol[d.pos] = Mark
Exhausted(d) == d.reading /\ DriveReady(d) /\ (d.pos < End(d) => d.vol[d.pos] = Mark)

Except(d) == [d EXCEPT !.card = Raised(@)]
DmaOver(d) == [d EXCEPT !.card = DmaEnded(@)]

-----------------------------------------------------------------------------
(* ap_qic.c. *)

DriveReset(d) ==
    [d EXCEPT !.selected = TRUE, !.pos = 0, !.reading = FALSE, !.writing = FALSE,
              !.pending = FALSE, !.latches = {"power"}]

Refuses(d, op) ==
    CASE op = "unknown" -> TRUE
      [] op = "other"   -> d.selected /\ d.pos # 0
      [] op = "erase"   -> TRUE
      [] op \in {"read", "read_mark"} -> ~DriveReady(d)
      [] op = "write"   -> ~(DriveReady(d) /\ d.writable)
      [] op = "mark"    -> ~(DriveReady(d) /\ d.writable /\ d.pos < End(d))
      [] op \in {"bot", "retension", "format"} -> ~d.selected
      [] OTHER -> FALSE

Refused(d, op) ==
    IF op \in {"unknown", "other"} THEN [d EXCEPT !.latches = @ \cup {"illegal"}] ELSE d

\* Past the next mark, or to the end of the medium.
ToMark(d) ==
    LET marks == {b \in d.pos .. End(d) - 1 : d.vol[b] = Mark}
        over == [d EXCEPT !.reading = FALSE, !.writing = FALSE]
    IN  IF marks = {}
        THEN [over EXCEPT !.pos = IF @ < End(d) THEN End(d) ELSE @,
                          !.latches = @ \cup {"nodata"}]
        ELSE [over EXCEPT !.pos = 1 + CHOOSE b \in marks : \A m \in marks : b <= m,
                          !.latches = @ \cup {"mark"}]

Obeyed(d, op) ==
    CASE op \in {"bot", "retension"} -> [d EXCEPT !.pos = 0, !.reading = FALSE]
      [] op = "read"      -> [d EXCEPT !.reading = TRUE]
      [] op = "write"     -> [d EXCEPT !.writing = TRUE, !.reading = FALSE]
      [] op = "mark"      -> [d EXCEPT !.vol[d.pos] = Mark, !.pos = @ + 1,
                                       !.reading = FALSE, !.writing = FALSE]
      [] op = "read_mark" -> ToMark(d)
      [] op = "status"    -> [d EXCEPT !.pending = TRUE]
      [] op = "select"    -> [d EXCEPT !.selected = TRUE]
      [] op = "other"     -> [d EXCEPT !.selected = FALSE]
      [] OTHER            -> d

EndRead(d) ==
    IF AtMark(d) THEN [d EXCEPT !.latches = @ \cup {"mark"}, !.pos = @ + 1, !.reading = FALSE]
                 ELSE [d EXCEPT !.latches = @ \cup {"nodata"}, !.reading = FALSE]

\* ap_qic_exception_word
Conditions(d) ==
    d.latches \cup
      IF ~d.selected THEN {"none", "unselected", "protected"}
      ELSE IF ~d.loaded THEN {"none"}
      ELSE (IF d.writable THEN {} ELSE {"protected"})
             \cup (IF d.pos = 0 THEN {"beginning"} ELSE {})
             \cup (IF d.pos >= End(d) THEN {"end"} ELSE {})

-----------------------------------------------------------------------------
(* ap_tape.c. *)

\* ap_tape_advance
TapeAdvance(d, now) ==
    LET e == [d EXCEPT !.card = CardAdvance(@, now)]
        mark == AtMark(e)
        over == Except(EndRead([e EXCEPT !.markSent = FALSE]))
        ended == IF ~(NeedsBlock(e) /\ Exhausted(e)) THEN e
                 ELSE IF mark THEN [over EXCEPT !.card.direction = FALSE]
                 ELSE DmaOver(over)
    IN  IF NeedsBlock(e) /\ mark /\ e.card.dma /\ ~e.markSent THEN e
        ELSE IF ended.card.dma /\ ~ended.reading /\ ~ended.writing /\ ~ended.card.exception
        THEN DmaOver(ended) ELSE ended

\* issue_command
IssueCommand(d, now, op) ==
    IF Refuses(d, op) THEN Except(Refused(d, op))
    ELSE [Obeyed(d, op) EXCEPT
            !.card = Accepted(@, now), !.valid = FALSE, !.off = 0,
            !.svalid = FALSE, !.soff = 0,
            !.pending = @ /\ op = "status",
            !.first = @ /\ op \notin {"bot", "retension"}]

\* accept_byte.  A byte written behind a block that was read to its end is not in
\* the block, which is full all the same.
AcceptByte(d, now, v) ==
    LET at == IF d.valid THEN d.off ELSE 0
        e == [d EXCEPT !.valid = TRUE, !.off = at + 1,
                       !.buf = IF at < BlockBytes THEN [@ EXCEPT ![at + 1] = v] ELSE @]
        full == [e EXCEPT !.off = 0, !.valid = FALSE]
        kept == DriveReady(e) /\ e.writable /\ e.pos < End(e)
        done == IF kept THEN [full EXCEPT !.vol[e.pos] = e.buf, !.pos = @ + 1] ELSE Except(full)
    IN  IF at + 1 < BlockBytes THEN e
        ELSE [done EXCEPT !.card = BlockBoundary(@, now)]

\* A write of the data register.
WriteData(d, now, v) ==
    IF ~d.svalid /\ "request" \in d.card.ctl THEN IssueCommand(d, now, v)
    ELSE IF d.writing THEN AcceptByte(d, now, v)
    ELSE [d EXCEPT !.card.data = v]

StatusByteTaken(d) ==
    [d EXCEPT !.soff = IF @ < StatusBytes THEN @ + 1 ELSE @, !.card = ByteTaken(@)]

\* request_released
RequestDown(d, now) ==
    LET given == IF d.svalid
                 THEN IF d.soff < StatusBytes THEN d
                      ELSE [d EXCEPT !.svalid = FALSE, !.soff = 0, !.card.direction = FALSE]
                 ELSE IF d.pending /\ ~Executing(d.card)
                 THEN [d EXCEPT !.status = Conditions(d), !.latches = {}, !.pending = FALSE,
                                !.svalid = TRUE, !.soff = 0, !.card.direction = TRUE]
                 ELSE d
    IN  [given EXCEPT !.card = RequestReleased(@, now)]

\* A write of the control register, and the edge of REQUEST that it makes.  A reset
\* has the card's clock start again, until the next time it is advanced.
WriteCtl(d, now, v) ==
    LET cleared == IF "reset" \notin v THEN d
                   ELSE [DriveReset(d) EXCEPT !.svalid = FALSE, !.soff = 0, !.valid = FALSE,
                                              !.off = 0, !.first = TRUE, !.byteAt = 0]
        e == [cleared EXCEPT !.card = WriteControl(@, v, now)]
        at == IF "reset" \in v THEN 0 ELSE now
    IN  CASE "request" \in v \ d.card.ctl ->
               IF e.svalid THEN StatusByteTaken(e) ELSE IssueCommand(e, at, e.card.data)
          [] "request" \in d.card.ctl \ v -> RequestDown(e, at)
          [] OTHER -> e

\* Mutant of TapeDmaRequest: the line stays up at the end of the medium.
TapeDmaRequestAtEnd(d, now) ==
    /\ d.reading /\ now >= d.byteAt
    /\ NeedsBlock(d) /\ AtMark(d) => d.card.dma /\ ~d.markSent

\* ap_tape_dma_request
TapeDmaRequest(d, now) ==
    /\ d.reading /\ now >= d.byteAt
    /\ IF ~NeedsBlock(d) THEN TRUE
       ELSE IF AtMark(d) THEN d.card.dma /\ ~d.markSent ELSE ~Exhausted(d)

\* The first block after a reset is handed over twice.
EnsureBlock(d, now) ==
    IF ~NeedsBlock(d) THEN d
    ELSE IF d.first /\ d.valid
    THEN [d EXCEPT !.first = FALSE, !.off = 0, !.card = BlockBoundary(@, now)]
    ELSE IF Exhausted(d) THEN EndRead([d EXCEPT !.valid = FALSE])
    ELSE IF ~DriveReady(d) THEN [d EXCEPT !.valid = FALSE]
    ELSE [d EXCEPT !.buf = d.vol[d.pos], !.pos = @ + 1, !.off = 0, !.valid = TRUE,
                   !.card = BlockBoundary(@, now)]

\* What a DMA cycle reads, and what it leaves: a status byte, the mark's one byte,
\* a byte of a block, or an invented one.
Invented == "FF"

DmaByte(d, now) ==
    IF d.svalid THEN [byte |-> Invented, dev |-> d]
    ELSE IF NeedsBlock(d) /\ ~d.markSent /\ d.card.dma /\ AtMark(d)
    THEN [byte |-> MarkByte,
          dev |-> [d EXCEPT !.markSent = TRUE, !.card.direction = TRUE, !.byteAt = now + ByteTime]]
    ELSE LET e == EnsureBlock(d, now)
         IN  IF NeedsBlock(e) THEN [byte |-> Invented, dev |-> DmaOver(Except(e))]
             ELSE [byte |-> e.buf[e.off + 1],
                   dev |-> [e EXCEPT !.off = @ + 1, !.card.direction = TRUE,
                                     !.byteAt = now + ByteTime]]
=============================================================================
