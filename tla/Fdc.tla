-------------------------------- MODULE Fdc ---------------------------------
(***************************************************************************)
(* The diskette half of the OMTI 8621 (ap_omti.c): a 765, with a command   *)
(* phase, a data phase of one sector, a latency, and result bytes; seeks   *)
(* that go on beside it and are reported one by one by SENSE INTERRUPT     *)
(* STATUS; and the output register that holds it in reset.                 *)
(*                                                                         *)
(* A command is its first byte and all the rest, as in Omti.  A sector has *)
(* two bytes, and of a result st0, st1 and st2 are kept.                   *)
(***************************************************************************)
EXTENDS Integers, Sequences

CONSTANTS FloppySectors, \* sectors on the diskette, on one side
          PerTrack,      \* of which these are on one cylinder
          StepTime, Settling, Latency, PerSector, ResetInterrupt, \* durations
          FarthestStep,  \* AP_OMTI_FDC_RECALIBRATE_STEPS
          NeverDue       \* AP_TIME_NEVER

ASSUME FdcAssumption ==
    /\ FloppySectors \in Nat \ {0} /\ PerTrack \in 1 .. FloppySectors
    /\ {StepTime, Settling, Latency, PerSector, ResetInterrupt, NeverDue} \subseteq Nat \ {0}
    /\ FarthestStep \in Nat

Units == {0, 1}
OnDisk == 0 .. FloppySectors - 1
Reads  == {"read_data", "read_deleted", "read_track"}
Scans  == {"scan_equal", "scan_low", "scan_high"}
Writes == {"write_data", "write_deleted"}
FdcOps == Reads \cup Scans \cup Writes
            \cup {"read_id", "format", "specify", "seek", "sense_drive", "recalibrate",
                  "sense_interrupt", "unknown"}

\* The blocks a host may give.
FdcBlocks == [op : FdcOps, unit : Units, at : Nat, sk : BOOLEAN, mt : BOOLEAN, fill : Nat]

NoResult == [st0 |-> "none", st1 |-> {}, st2 |-> {}]
Ready == [at |-> NeverDue, done |-> FALSE, busy |-> FALSE, fail |-> FALSE,
          st0 |-> "none", end |-> FALSE, cylinder |-> 0]

\* ap_omti_reset with a diskette in the drive
FdcStart(inserted, writable) ==
    [phase |-> "idle", cmd |-> [op |-> "unknown", unit |-> 0, at |-> 0, sk |-> FALSE,
                                mt |-> FALSE, fill |-> 0],
     len |-> 0, ri |-> 0, bi |-> 0, result |-> NoResult, nd |-> FALSE,
     ends |-> 0, buf |-> <<0, 0>>, unit |-> [u \in Units |-> Ready],
     reset |-> NeverDue, running |-> FALSE, lines |-> FALSE,
     vol |-> [a \in OnDisk |-> <<a, a>>], inserted |-> inserted, writable |-> writable]

\* ap_omti_fdc_irq and ap_omti_fdc_dma_request
FdcIrq(f) == f.lines /\ (\/ f.phase = "status" /\ f.ri < f.len
                         \/ \E u \in Units : f.unit[u].done)

\* fdc_idle
Idle(f) == [f EXCEPT !.phase = "idle", !.len = 0, !.ri = 0, !.bi = 0]

-----------------------------------------------------------------------------
(* Seeks. *)

\* fdc_seek_duration
SeekTime(from, to) ==
    IF from = to THEN 0
    ELSE (IF from > to THEN from - to ELSE to - from) * StepTime + Settling

\* fdc_begin_seek, and the end of one that found no track 0 (fdc_begin_recalibrate).
\* A seek that moves nothing is done at once.
BeginSeek(f, u, to, now, fail) ==
    LET s == f.unit[u]
        t == SeekTime(s.cylinder, to)
    IN  [f EXCEPT !.unit[u] =
           IF t = 0 THEN [s EXCEPT !.cylinder = to, !.busy = TRUE, !.done = TRUE, !.end = TRUE,
                                   !.st0 = IF fail THEN "abrupt" ELSE "normal",
                                   !.fail = IF fail THEN FALSE ELSE @]
           ELSE [s EXCEPT !.cylinder = to, !.busy = TRUE, !.at = now + t,
                          !.fail = @ \/ fail]]

Recalibrate(f, u, now) ==
    LET from == f.unit[u].cylinder
    IN  IF from <= FarthestStep THEN BeginSeek(f, u, 0, now, FALSE)
        ELSE BeginSeek(f, u, from - FarthestStep, now, TRUE)

\* The interrupt of a seek's end blocks every command but the one that clears it.
SeekPending(f) == \E u \in Units : f.unit[u].done /\ f.unit[u].end

-----------------------------------------------------------------------------
(* Results. *)

\* fdc_command_duration
FdcDuration(f) ==
    CASE f.cmd.op \in Scans \cup {"read_data"} -> Latency + PerSector
      [] f.cmd.op = "format"                   -> Latency + PerSector * PerTrack
      [] OTHER                                 -> 0

\* fdc_complete
FdcComplete(f) ==
    IF f.len = 0 THEN [Idle(f) EXCEPT !.ends = 0]
    ELSE [f EXCEPT !.phase = "status", !.ri = 0, !.ends = 0]

\* fdc_result
Result(f, now) ==
    IF FdcDuration(f) = 0 THEN FdcComplete(f)
    ELSE [f EXCEPT !.phase = "executing", !.ends = now + FdcDuration(f)]

\* fdc_data_result and fdc_result
DataResult(f, now, st0, st1, st2) ==
    Result([f EXCEPT !.len = 7,
                     !.result = [st0 |-> st0, st1 |-> st1, st2 |-> st2]], now)

Short(f, now, n, st0) == Result([f EXCEPT !.len = n, !.result.st0 = st0], now)

-----------------------------------------------------------------------------
(* fdc_execute *)

CanLoad(f, at) == f.inserted /\ at \in OnDisk
NotLoaded(f) == IF f.inserted THEN {"no_data"} ELSE {"no_data", "missing_mark"}

\* fdc_load_sector, and the data phase it opens.
Loaded(f, at, phase) == [f EXCEPT !.phase = phase, !.buf = f.vol[at], !.bi = 0]

ResultBytes(op) ==
    CASE op \in {"specify", "seek", "recalibrate"} -> 0
      [] op \in {"sense_drive", "unknown"}         -> 1
      [] op = "sense_interrupt"                    -> 2
      [] OTHER                                     -> 7

\* READ DATA, READ DELETED, READ A TRACK and the scans.  The flags a successful
\* one ends with are set now.
Load(f, now) ==
    LET c == f.cmd
        at == IF c.op = "read_track" THEN (c.at \div PerTrack) * PerTrack ELSE c.at
    IN  IF c.op = "read_track" /\ (c.mt \/ c.sk) THEN Short(f, now, 1, "invalid")
        ELSE IF c.op = "read_deleted" /\ c.sk THEN DataResult(f, now, "abrupt", {"no_data"}, {})
        ELSE IF ~CanLoad(f, at) THEN DataResult(f, now, "abrupt", NotLoaded(f), {})
        ELSE
               [Loaded(f, at, IF c.op \in Scans THEN "out" ELSE "in") EXCEPT
                  !.result.st2 = CASE c.op = "read_deleted" -> {"control_mark"}
                                   [] c.op \in Scans        -> {"scan_hit"}
                                   [] OTHER                 -> @,
                  !.nd = IF c.op = "read_track" THEN at # c.at ELSE @]

\* WRITE DATA and WRITE DELETED
Store(f, now) ==
    CASE ~(f.inserted /\ f.writable) -> DataResult(f, now, "abrupt", {"not_writable"}, {})
      [] f.inserted /\ f.writable /\ f.cmd.at \notin OnDisk ->
           DataResult(f, now, "abrupt", {"no_data"}, {})
      [] OTHER -> [f EXCEPT !.phase = "out", !.bi = 0]

\* FORMAT A TRACK, at the cylinder the head is on.
Format(f, now) ==
    LET first == f.unit[f.cmd.unit].cylinder * PerTrack
        all == first .. first + PerTrack - 1
        g == [f EXCEPT !.vol = [a \in OnDisk |-> IF a \in all THEN <<f.cmd.fill, f.cmd.fill>>
                                                  ELSE f.vol[a]],
                       !.buf = <<f.cmd.fill, f.cmd.fill>>]
    IN  CASE ~(f.inserted /\ f.writable) -> DataResult(f, now, "abrupt", {"not_writable"}, {})
          [] f.inserted /\ f.writable /\ ~(all \subseteq OnDisk) ->
               DataResult(g, now, "abrupt", {"no_data"}, {})
          [] OTHER -> DataResult(g, now, "normal", {}, {})

\* SENSE INTERRUPT STATUS: one seek at a time, unit 0 first.
SenseInterrupt(f, now) ==
    IF \A u \in Units : ~f.unit[u].done THEN Short(f, now, 2, "invalid")
    ELSE LET u == IF f.unit[0].done THEN 0 ELSE 1
         IN  Short([f EXCEPT !.unit[u].done = FALSE, !.unit[u].busy = FALSE],
                   now, 2, f.unit[u].st0)

FdcExecute(f, now) ==
    LET c == f.cmd
        n == [f EXCEPT !.len = ResultBytes(c.op)]
    IN  CASE SeekPending(f) /\ c.op # "sense_interrupt" -> Short(n, now, 1, "invalid")
          [] c.op = "sense_interrupt" -> SenseInterrupt(n, now)
          [] c.op \in Reads \cup Scans /\ ~SeekPending(f) -> Load(n, now)
          [] c.op \in Writes /\ ~SeekPending(f) -> Store(n, now)
          [] c.op = "format" /\ ~SeekPending(f) -> Format(n, now)
          [] c.op = "read_id" /\ ~SeekPending(f) ->
               DataResult(n, now, IF f.inserted THEN "normal" ELSE "abrupt",
                          IF f.inserted THEN {} ELSE NotLoaded(f), {})
          [] c.op = "seek" /\ ~SeekPending(f) ->
               Result(BeginSeek(n, c.unit, c.at \div PerTrack, now, FALSE), now)
          [] c.op = "recalibrate" /\ ~SeekPending(f) -> Result(Recalibrate(n, c.unit, now), now)
          [] c.op = "sense_drive" /\ ~SeekPending(f) -> Short(n, now, 1, "none")
          [] c.op = "unknown" /\ ~SeekPending(f) -> Short(n, now, 1, "invalid")
          [] OTHER -> Result(n, now)

-----------------------------------------------------------------------------
(* The registers, and time. *)

\* fdc_take_byte, of a command: SENSE INTERRUPT STATUS has no second byte.
FdcCommand(f, now, c) ==
    IF f.phase = "idle"
    THEN LET g == [f EXCEPT !.phase = "command", !.cmd.op = c.op]
         IN  IF c.op \in {"sense_interrupt", "unknown"} THEN FdcExecute(g, now) ELSE g
    ELSE FdcExecute([f EXCEPT !.cmd = [c EXCEPT !.op = f.cmd.op]], now)

Matches(op, media, v) == CASE op = "scan_low"   -> media <= v
                           [] op = "scan_high"  -> media >= v
                           [] op = "scan_equal" -> media = v

\* fdc_take_byte, of data, for a write and for a scan.
FdcTakeData(f, now, v) ==
    LET i == f.bi + 1
        w == [f EXCEPT !.buf[i] = v, !.bi = i]
        s == [f EXCEPT !.bi = i, !.result.st2 = IF Matches(f.cmd.op, f.buf[i], v) THEN @
                                                ELSE {"scan_not_satisfied"}]
    IN  IF f.cmd.op \in Writes
        THEN IF i < 2 THEN w
             ELSE DataResult([w EXCEPT !.vol[f.cmd.at] = w.buf], now, "normal", {}, {})
        ELSE IF i < 2 THEN s ELSE DataResult(s, now, "normal", {}, s.result.st2)

\* fdc_give_byte.  The last byte of a read ends with the flags that were set.
FdcGiveByte(f, now) ==
    CASE f.phase = "in" ->
           IF f.bi = 0 THEN [f EXCEPT !.bi = 1]
           ELSE DataResult([f EXCEPT !.bi = 2, !.nd = FALSE], now, "normal",
                           IF f.nd THEN {"no_data"} ELSE {}, f.result.st2)
      [] f.phase = "status" -> IF f.ri + 1 < f.len THEN [f EXCEPT !.ri = @ + 1] ELSE Idle(f)
      [] OTHER -> f

\* Mutant of Abandon: the drives stay busy.
AbandonQuietly(f) ==
    [f EXCEPT !.phase = "idle", !.ends = 0, !.reset = NeverDue,
              !.unit = [u \in Units |-> [f.unit[u] EXCEPT !.at = NeverDue, !.done = FALSE,
                                           !.fail = FALSE, !.st0 = "none", !.end = FALSE]]]

\* What going into reset gives up.
Abandon(f) ==
    [f EXCEPT !.phase = "idle", !.ends = 0, !.reset = NeverDue,
              !.unit = [u \in Units |-> [Ready EXCEPT !.cylinder = f.unit[u].cylinder]]]

\* A write of the output register.
WriteDor(f, now, running, lines) ==
    LET g == [f EXCEPT !.running = running, !.lines = lines]
    IN  CASE ~f.running /\ running -> [Idle(g) EXCEPT !.reset = now + ResetInterrupt]
          [] f.running /\ ~running -> Abandon(g)
          [] OTHER -> g

Earliest(S) == CHOOSE t \in S : \A s \in S : t <= s

\* Mutant of FdcNextChange: the interrupt a reset ends with is forgotten.
FdcNextChangeOfCommands(f) ==
    Earliest({f.unit[u].at : u \in Units} \cup (IF f.phase = "executing" THEN {f.ends} ELSE {}))

\* ap_omti_interrupt_next_change, for the diskette
FdcNextChange(f) ==
    Earliest({f.unit[u].at : u \in Units} \cup {f.reset}
               \cup (IF f.phase = "executing" THEN {f.ends} ELSE {}))

\* ap_omti_advance, for the diskette: the interrupt of the reset, which takes
\* unit 0's place, the seeks that have arrived, and the command's end.
SeekEnded(s) == [s EXCEPT !.at = NeverDue, !.done = TRUE, !.end = TRUE, !.fail = FALSE,
                          !.st0 = IF s.fail THEN "abrupt" ELSE "normal"]
FdcAdvance(f, now) ==
    LET r == IF now < f.reset THEN f
             ELSE [f EXCEPT !.reset = NeverDue, !.unit[0].done = TRUE, !.unit[0].end = FALSE,
                            !.unit[0].st0 = "not_ready"]
        s == [r EXCEPT !.unit = [u \in Units |-> IF now < r.unit[u].at THEN r.unit[u]
                                                 ELSE SeekEnded(r.unit[u])]]
    IN  IF s.phase = "executing" /\ now >= s.ends THEN FdcComplete(s) ELSE s
=============================================================================
