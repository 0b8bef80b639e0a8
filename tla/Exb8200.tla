------------------------------ MODULE Exb8200 -------------------------------
(***************************************************************************)
(* The 8 mm tape drive (ap_exb8200.c) on its SCSI bus (ap_scsi.c): records *)
(* of data and file marks, the position among them, the sense kept for a   *)
(* command that failed, and the unit attention that answers the first      *)
(* command after a reset.                                                  *)
(*                                                                         *)
(* A command runs to its end when it is given.  The host's buffer is large *)
(* enough for what it asks.                                                *)
(***************************************************************************)
EXTENDS Integers, SequencesExt

CONSTANTS MaxRecords, \* what the medium holds
          BlockMax,  \* AP_EXB8200_BLOCK_MAX
          Silence    \* AP_SCSI_T_RESET_SILENCE

ASSUME ExbAssumption == MaxRecords \in Nat /\ BlockMax \in Nat \ {0} /\ Silence \in Nat \ {0}

Data(bytes) == [kind |-> "data", bytes |-> bytes]
LongMark == [kind |-> "long", bytes |-> <<>>]
ShortMark == [kind |-> "short", bytes |-> <<>>]
IsMark(r) == r.kind # "data"

NoSense == [key |-> "none", flag |-> "none", info |-> 0]
Attention == [NoSense EXCEPT !.key = "unit_attention"]

\* ap_exb8200_reset: the medium stays, at its beginning.
ExbReset(d) ==
    [d EXCEPT !.prevented = FALSE, !.block = 1,
              !.where = IF d.loaded THEN "lbot" ELSE "data", !.at = 0,
              !.sense = Attention, !.attention = TRUE]

\* Power on, and a cartridge inserted or not.
DriveStart(present, writable, recs) ==
    ExbReset([present |-> present, loaded |-> present, writable |-> writable,
                recs |-> recs, prevented |-> FALSE, block |-> 1, where |-> "data", at |-> 0,
                sense |-> NoSense, attention |-> FALSE, quiet |-> 0])

\* ap_scsi_reset, and who answers a selection.
BusReset(d, now) == [ExbReset(d) EXCEPT !.quiet = now + Silence]
Selectable(d, c, now) == c.id = "drive" /\ now >= d.quiet

-----------------------------------------------------------------------------
(* What a command comes to: the drive, its status, the bytes for the host. *)

Outcome(d, bytes) == [drive |-> d, status |-> "good", bytes |-> bytes, short |-> FALSE]
Good(d) == Outcome(d, <<>>)

FailWith(d, bytes, key, flag, info) ==
    [Outcome([d EXCEPT !.sense = [key |-> key, flag |-> flag, info |-> info]], bytes)
       EXCEPT !.status = "check"]
Fail(d, key, flag, info) == FailWith(d, <<>>, key, flag, info)
IllegalRequest(d) == Fail(d, "illegal_request", "none", 0)
MediumNotReady(d) == Fail(d, "not_ready", "none", 0)
DataProtect(d) == Fail(d, "data_protect", "none", 0)
VolumeOverflow(d, left) == Fail([d EXCEPT !.where = "peot"], "volume_overflow", "eom", left)

WritableHere(d) ==
    \/ d.where \in {"lbot", "written"}
    \/ d.where = "data" /\ (d.at >= Len(d.recs) \/ d.recs[d.at + 1].kind = "long")

\* Mutant of Truncated: what follows is left on the tape.
TruncatedMarkOnly(d) ==
    [d EXCEPT !.recs = IF d.at < Len(@) /\ IsMark(@[d.at + 1]) THEN SubSeq(@, 1, d.at) ELSE @]

Truncated(d) == [d EXCEPT !.recs = SubSeq(@, 1, d.at)]

Appended(d, more) ==
    LET all == d.recs \o more
        fit == SubSeq(all, 1, IF Len(all) < MaxRecords THEN Len(all) ELSE MaxRecords)
    IN  [d EXCEPT !.recs = fit, !.at = Len(fit)]

Flat(recs) == FlattenSeq([i \in DOMAIN recs |-> recs[i].bytes])

\* cmd_read.  The records it passes are whole ones of the length asked for; it
\* stops at the first that is not.
DoRead(d, c) ==
    LET asked  == IF c.fixed THEN d.block ELSE c.count
        wanted == IF c.fixed THEN c.count ELSE 1
        whole  == {n \in 0 .. wanted :
                     /\ d.at + n <= Len(d.recs)
                     /\ \A i \in d.at + 1 .. d.at + n :
                          ~IsMark(d.recs[i]) /\ Len(d.recs[i].bytes) = asked}
        done   == CHOOSE n \in whole : \A m \in whole : m <= n
        got    == Flat(SubSeq(d.recs, d.at + 1, d.at + done))
        past   == IF done = 0 THEN d ELSE [d EXCEPT !.at = @ + done, !.where = "data"]
        left   == wanted - done
        next   == d.recs[past.at + 1]
        beyond == [past EXCEPT !.at = @ + 1, !.where = "data"]
        taken  == got \o SubSeq(next.bytes, 1, IF asked < Len(next.bytes) THEN asked
                                               ELSE Len(next.bytes))
    IN  IF (c.fixed /\ c.sili) \/ (c.fixed = (d.block = 0)) THEN IllegalRequest(d)
        ELSE IF c.count = 0 THEN Good(d)
        ELSE IF d.where = "written" THEN Fail(d, "illegal_request", "none", wanted)
        ELSE IF left = 0 THEN Outcome(past, got)
        ELSE IF past.at >= Len(d.recs) THEN
               FailWith(past, got, "blank_check",
                        IF past.where = "lbot" THEN "eom" ELSE "none", left)
        ELSE IF IsMark(next) THEN FailWith(beyond, got, "no_sense", "fmk", left)
        ELSE IF c.sili THEN [Outcome(beyond, taken) EXCEPT !.short = Len(next.bytes) < asked]
        ELSE FailWith(beyond, taken, "no_sense", "ili", asked - Len(next.bytes))

\* cmd_write.  What does not fit is reported, and what did is on the tape.
DoWrite(d, c, bytes) ==
    LET length == IF c.fixed THEN d.block ELSE c.count
        blocks == IF c.fixed THEN c.count ELSE 1
        given  == [i \in 1 .. blocks |->
                     Data([k \in 1 .. length |-> bytes[length * (i - 1) + k]])]
        here   == Truncated(d)
        room   == MaxRecords - Len(here.recs)
    IN  IF ~d.writable THEN DataProtect(d)
        ELSE IF c.fixed = (d.block = 0) THEN IllegalRequest(d)
        ELSE IF c.count = 0 THEN Good(d)
        ELSE IF ~WritableHere(d) THEN IllegalRequest(d)
        ELSE IF ~c.fixed /\ length > BlockMax THEN IllegalRequest(d)
        ELSE IF blocks > room THEN VolumeOverflow(Appended(here, given), blocks - room)
        ELSE Good([Appended(here, given) EXCEPT !.where = "written"])

\* cmd_write_filemarks.
DoMarks(d, c) ==
    LET here == IF d.where = "written" THEN d ELSE Truncated(d)
        room == MaxRecords - Len(here.recs)
        marks == [i \in 1 .. c.count |-> IF c.sili THEN ShortMark ELSE LongMark]
    IN  IF ~d.writable THEN DataProtect(d)
        ELSE IF c.count = 0 THEN Good([d EXCEPT !.where = IF d.at = 0 THEN "lbot" ELSE "data"])
        ELSE IF ~WritableHere(d) THEN IllegalRequest(d)
        ELSE IF c.count > room THEN VolumeOverflow(Appended(here, marks), c.count - room)
        ELSE Good([Appended(here, marks) EXCEPT !.where = "data"])

\* cmd_space over records or marks, forward (a positive count) or back.  Records
\* end at the first mark, which is passed; nothing is passed beyond the data.
DoSpace(d, c) ==
    LET n      == IF c.count > 0 THEN c.count ELSE -c.count
        here   == IF d.where = "written" THEN [d EXCEPT !.where = "data"] ELSE d
        marks  == {i \in DOMAIN d.recs : IsMark(d.recs[i])}
        ahead  == {i \in marks : i > d.at}
        behind == {i \in marks : i <= d.at}
        Moved(at) == [here EXCEPT !.at = at,
                                  !.where = IF at > d.at THEN "data"
                                            ELSE IF at < d.at THEN (IF at = 0 THEN "lbot" ELSE "data")
                                            ELSE @]
        Nth(s, k, first) == \* the k-th of a set, from its first or its last
            CHOOSE i \in s : Cardinality({j \in s : IF first THEN j <= i ELSE j >= i}) = k
    IN  CASE n = 0 -> Good(d)
          [] c.count > 0 /\ c.marks ->
               IF Cardinality(ahead) >= n THEN Good(Moved(Nth(ahead, n, TRUE)))
               ELSE Fail([Moved(Len(d.recs)) EXCEPT !.where = "peot"],
                         "medium_error", "eom", n - Cardinality(ahead))
          [] c.count > 0 /\ ~c.marks ->
               IF ahead # {} /\ Nth(ahead, 1, TRUE) <= d.at + n
               THEN LET m == Nth(ahead, 1, TRUE)
                    IN  Fail(Moved(m), "no_sense", "fmk", n - (m - 1 - d.at))
               ELSE IF d.at + n <= Len(d.recs) THEN Good(Moved(d.at + n))
               ELSE Fail(Moved(Len(d.recs)), "blank_check", "none", n - (Len(d.recs) - d.at))
          [] c.count < 0 /\ c.marks ->
               IF Cardinality(behind) >= n THEN Good(Moved(Nth(behind, n, FALSE) - 1))
               ELSE Fail([Moved(0) EXCEPT !.where = "lbot"],
                         "no_sense", "eom", -(n - Cardinality(behind)))
          [] OTHER ->
               IF behind # {} /\ Nth(behind, 1, FALSE) > d.at - n
               THEN LET m == Nth(behind, 1, FALSE)
                    IN  Fail(Moved(m - 1), "no_sense", "fmk", -(n - (d.at - m)))
               ELSE IF n <= d.at THEN Good(Moved(d.at - n))
               ELSE Fail([Moved(0) EXCEPT !.where = "lbot"], "no_sense", "eom", -(n - d.at))

Rewound(d) == [d EXCEPT !.at = 0, !.where = "lbot"]

DoLoad(d) == IF d.present THEN Good([Rewound(d) EXCEPT !.loaded = TRUE]) ELSE MediumNotReady(d)

DoUnload(d) ==
    Good([d EXCEPT !.loaded = FALSE, !.at = 0, !.where = "data",
                   !.present = @ /\ d.prevented])

DoErase(d, c) ==
    IF ~d.writable THEN DataProtect(d)
    ELSE IF c.count = 0 THEN Good(d)
    ELSE IF ~WritableHere(d) THEN IllegalRequest(d)
    ELSE Good(Rewound(Truncated(d)))

\* cmd_send_diagnostic: a test wants the tape, or wants none.
DoDiagnose(d, c) ==
    IF c.op = "test_tape" /\ ~d.loaded THEN IllegalRequest(d)
    ELSE IF c.op = "test_no_tape" /\ d.present THEN IllegalRequest(d)
    ELSE IF c.op = "test_tape" /\ c.fixed /\ ~d.writable THEN DataProtect(d)
    ELSE IF c.op = "test_tape" THEN Good(Rewound(d))
    ELSE Good(d)

NeedsMedium == {"read", "write", "marks", "space", "rewind", "erase", "tur"}

Executed(d, c, bytes) ==
    IF c.op \in NeedsMedium /\ ~d.loaded THEN MediumNotReady(d)
    ELSE CASE c.op = "read"    -> DoRead(d, c)
           [] c.op = "write"   -> DoWrite(d, c, bytes)
           [] c.op = "marks"   -> DoMarks(d, c)
           [] c.op = "space"   -> DoSpace(d, c)
           [] c.op = "rewind"  -> Good(Rewound(d))
           [] c.op = "load"    -> DoLoad(d)
           [] c.op = "unload"  -> DoUnload(d)
           [] c.op = "erase"   -> DoErase(d, c)
           [] c.op = "select"  -> Good([d EXCEPT !.block = c.count])
           [] c.op = "prevent" -> Good([d EXCEPT !.prevented = c.count = 1])
           [] c.op \in {"test_tape", "test_no_tape"} -> DoDiagnose(d, c)
           [] c.op = "refused" -> IllegalRequest(d) \* a parameter out of range
           [] OTHER -> Good(d) \* mode sense, block limits, reserve, release

\* exb_execute.  A reserved or unsupported operation, a logical unit that is not
\* there and a linked command are "bad"; a command that succeeds clears the sense.
ExbExecute(d, c, bytes) ==
    IF c.op = "bad" THEN IllegalRequest(d)
    ELSE IF c.op = "inquiry" THEN Good(d)
    ELSE IF c.op = "sense" THEN Outcome(d, <<d.sense>>)
    ELSE IF d.attention THEN [Good([d EXCEPT !.attention = FALSE]) EXCEPT !.status = "check"]
    ELSE
           LET r == Executed(d, c, bytes)
           IN  IF r.status = "good" THEN [r EXCEPT !.drive.sense = NoSense] ELSE r
=============================================================================
