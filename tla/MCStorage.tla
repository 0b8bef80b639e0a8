----------------------------- MODULE MCStorage ------------------------------
EXTENDS Storage

Ask(op, lba, count) ==
    [op |-> op, lun |-> 0, lba |-> lba, count |-> count, to |-> 0, control |-> {}]

\* Every operation on good sectors, at the drive's end, and beyond it; counts of
\* one, of two, of none, and more than the buffer holds; a drive that is not
\* there; a copy apart from, onto and past its source; formats that make bad
\* tracks and reads that do and do not find them.
TheDiskCommands ==
    {Ask(op, 1, 1) : op \in Ops}
      \cup {Ask(op, Total - 1, 2) : op \in {"read", "write", "verify", "read_to_buffer",
                                            "write_from_buffer", "read_long", "write_long"}}
      \cup {Ask("read", Total, 1), Ask("write", 0, 0), Ask("read_long", 0, 3),
            Ask("format_track", 1, 2)}
      \cup {[Ask("copy", 0, n) EXCEPT !.to = a] : n \in {2}, a \in {1, 2, Total - 1, Total}}
      \cup {[Ask(op, 1, 1) EXCEPT !.lun = 1] : op \in {"read", "ready"}}
      \cup {[Ask("read", 1, 1) EXCEPT !.control = {"convert"}],
            [Ask("format_track", 2, 1) EXCEPT !.control = {"buffer"}]}

AskFloppy(op, unit, at) ==
    [op |-> op, unit |-> unit, at |-> at, sk |-> FALSE, mt |-> FALSE, fill |-> 7]

TheFloppyCommands ==
    {AskFloppy(op, 0, 1) : op \in FdcOps}
      \cup {AskFloppy("seek", 1, 2), AskFloppy("seek", 0, FloppySectors + 2),
            AskFloppy("recalibrate", 1, 0), AskFloppy("read_data", 0, FloppySectors)}
      \cup {[AskFloppy(op, 0, 1) EXCEPT !.sk = TRUE] : op \in {"read_deleted", "read_track"}}

Cdb(op, count) ==
    [op |-> op, id |-> "drive", count |-> count, fixed |-> TRUE, sili |-> FALSE, marks |-> FALSE]

\* Every operation; counts of none, one, two and more than the tape holds, forward
\* and back, over records and over marks; a drive that is not there; a reserved
\* operation, and one the adapter does not have.
TheScsiCommands ==
    {Cdb(op, 1) : op \in {"bad", "inquiry", "sense", "tur", "load", "unload", "prevent",
                          "rewind", "erase", "test_tape", "test_no_tape", "refused", "icb"}}
      \cup {Cdb(op, n) : op \in {"read", "write"}, n \in {0, 1, 2, 4}}
      \cup {[Cdb("space", n) EXCEPT !.marks = m] : n \in {-1, 1, 2}, m \in BOOLEAN}
      \cup {[Cdb("marks", n) EXCEPT !.sili = s] : n \in {0, 1}, s \in BOOLEAN}
      \cup {Cdb("erase", 0), Cdb("select", 0), Cdb("select", 2), Cdb("marks", 4),
            [Cdb("tur", 1) EXCEPT !.id = "nobody"]}
      \cup {[Cdb(op, 2) EXCEPT !.fixed = FALSE] : op \in {"read", "write"}}

\* What tells what the first command left behind.
TheFollowing ==
  [disk |->
    {Ask(op, 1, 1) : op \in {"read", "sense", "write_from_buffer"}}
      \cup {[Ask("read", 1, 1) EXCEPT !.control = {"convert"}]},
   floppy |->
    {AskFloppy(op, 0, 1) : op \in {"read_data", "seek", "recalibrate", "sense_interrupt"}},
   tape |-> {"read"}]

TheMaxCommands == [disk |-> 2, floppy |-> 3, tape |-> 2]
TheMaxControls == [disk |-> 2, floppy |-> 2, tape |-> 2, scsi |-> 3]
TheMaxNow == [disk |-> 3, floppy |-> 4, tape |-> 3, scsi |-> 5]
TheMaxStep == [disk |-> 2, floppy |-> 2, tape |-> 2, scsi |-> 1]

\* A cartridge with a mark and two blocks after it, and one to its end with none.
TheCartridges ==
    {[blocks |-> <<<<"a", "b">>, <<"m", "m">>, <<"c", "d">>, <<"e", "f">>>>, writable |-> TRUE],
     [blocks |-> <<<<"a", "b">>, <<"c", "d">>>>, writable |-> FALSE]}
TheTapeControls == {{"ien"}, {"ien", "request"}, {"reset"}, {"ien", "dnien"}}
TheTapeCommands == \* those left out do as bot, as unknown, or nothing
    TapeOps \ {"retension", "erase", "select", "format"}
TheTapeBytes == {"w", "m"}

\* A cartridge with a record, a mark and a record of two.  The drive as it starts,
\* with all that can happen to the adapter; adapters set up, with a few of it; and,
\* with none of it, a drive protected, empty, and as a session left it, asked for
\* everything.
Tape8 == <<Data(<<1>>), LongMark, Data(<<2, 3>>)>>
Told(d) == [d EXCEPT !.attention = FALSE, !.sense = NoSense]
Set(d) == \* initialised and enabled
    [Fresh(d, 0) EXCEPT !.diagnosing = FALSE, !.ready = TRUE, !.shown = Diagnostic("ok"),
                        !.initialized = TRUE, !.ctl = {"dma", "irq"}, !.readyAt = 3]
TheScsiSetups ==
    LET Fed(w) == Told(DriveStart(TRUE, w, Tape8))
        Then   == {Cdb("read", 1), Cdb("write", 1)}
    IN  {[dev |-> Fresh(DriveStart(TRUE, TRUE, Tape8), 0), now |-> 0, left |-> 3,
          asks |-> <<{Cdb("bad", 1)}>>],
         [dev |-> Set(Fed(TRUE)), now |-> 3, left |-> 2,
          asks |-> <<{Cdb("icb", 1), Cdb("write", 1)}, {[Cdb("tur", 1) EXCEPT !.id = "nobody"]},
                     {Cdb("write", 1)}>>]}
          \cup {[dev |-> Set(d), now |-> 3, left |-> 0, asks |-> <<TheScsiCommands, Then>>] :
                  d \in {Fed(TRUE), [Fed(TRUE) EXCEPT !.block = 0, !.at = 2, !.where = "data"]}}
          \cup {[dev |-> Set(d), now |-> 3, left |-> 0, asks |-> <<TheScsiCommands>>] :
                  d \in {Fed(FALSE), DriveStart(FALSE, FALSE, <<>>)}}
TheScsiControls == {{"dma", "irq"}, {"dma", "irq", "scsi"}, {"reset"}}
TheScsiOpcodes ==
    {[op |-> op, box |-> n] : op \in {"start"}, n \in {0, 1}}
      \cup {[op |-> op, box |-> 0] : op \in {"nop", "init", "scan", "on_free", "soft_reset",
                                            "hard_reset"}}

TheMasks == {{}, {"int", "dma"}}
=============================================================================
