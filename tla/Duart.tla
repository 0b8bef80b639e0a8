------------------------------- MODULE Duart --------------------------------
(***************************************************************************)
(* One channel of a serial port, src/core/device/ap_mc68681.c, and the     *)
(* part's counter and input port, as operators on records.                 *)
(*                                                                         *)
(* A channel record stands for ap_mc68681_channel_t with the bits of the   *)
(* part that belong to the channel: its three interrupt status bits and    *)
(* its request-to-send output.  A register is the set of the bits that are *)
(* set.  What the receiver does depends on the far end only by whether the *)
(* two agree, so the clock select is whether the rates match and MR1's     *)
(* parity is "none", "same" or "other" than the sender's.                  *)
(***************************************************************************)
EXTENDS Integers, Sequences

CONSTANT Fifo   \* AP_MC68681_RX_FIFO

ASSUME FifoAssumption == Fifo \in Nat \ {0}

FifoErrors == {"parity", "framing", "break"}
StatusBits == FifoErrors \cup {"rxrdy", "ffull", "txrdy", "txemt", "overrun"}
Modes      == {"normal", "echo", "local", "remote"}

Mr1 == [full : BOOLEAN,                      \* RXRDY_IS_FFULL
        block : BOOLEAN,                     \* ERROR_BLOCK
        rts : BOOLEAN,                       \* RX_RTS
        parity : {"none", "same", "other"}]
Mr2 == [mode : Modes, cts : BOOLEAN, rts : BOOLEAN]

\* A channel of bytes taken from the set B.
Channels(B) ==
    [mr1 : Mr1, mr2 : Mr2, second : BOOLEAN, rate : BOOLEAN,
     sr : SUBSET StatusBits, isr : SUBSET {"txrdy", "rxrdy", "break"},
     fifo : Seq([b : B, st : SUBSET FifoErrors]),   \* of Fifo at most
     shift : Seq(B), pending : SUBSET FifoErrors,
     rx : BOOLEAN, tx : BOOLEAN, hold : Seq(B), brk : BOOLEAN,
     rts : BOOLEAN, flushed : Nat, drops : Nat]

\* ap_mc68681_reset and reset_channel.
ResetChannel ==
    [mr1 |-> [full |-> FALSE, block |-> FALSE, rts |-> FALSE, parity |-> "same"],
     mr2 |-> [mode |-> "normal", cts |-> FALSE, rts |-> FALSE],
     second |-> FALSE, rate |-> FALSE, sr |-> {}, isr |-> {}, fifo |-> <<>>,
     shift |-> <<>>, pending |-> {}, rx |-> FALSE, tx |-> FALSE, hold |-> <<>>,
     brk |-> FALSE, rts |-> FALSE, flushed |-> 0, drops |-> 0]

With(S, bits, on) == IF on THEN S \cup bits ELSE S \ bits

\* refresh_channel_interrupts
RefreshChannelInterrupts(c) ==
    LET ready == IF c.mr1.full THEN "ffull" ELSE "rxrdy"
    IN  [c EXCEPT !.isr = With(With(@, {"txrdy"}, "txrdy" \in c.sr),
                               {"rxrdy"}, ready \in c.sr)]

\* In character mode the status shows the errors of the character at the top.
ShowTop(c) ==
    IF c.mr1.block THEN c
    ELSE [c EXCEPT !.sr = (@ \ FifoErrors)
                            \cup (IF c.fifo = <<>> THEN {} ELSE c.fifo[1].st)]

\* Mutant of Receive: the character after a full FIFO is lost at once.
ReceiveWithoutShift(c, b) ==
    CASE ~c.rx                 -> [c EXCEPT !.drops = @ + 1]
      [] c.rx /\ Len(c.fifo) >= Fifo -> [c EXCEPT !.sr = @ \cup {"overrun"},
                                            !.pending = {}]
      [] OTHER ->
           RefreshChannelInterrupts(
             [c EXCEPT !.fifo = Append(@, [b |-> b, st |-> {}]),
                       !.sr = @ \cup {"rxrdy"}
                                \cup (IF Len(c.fifo) + 1 >= Fifo THEN {"ffull"} ELSE {}),
                       !.rts = @ /\ ~(c.mr1.rts /\ Len(c.fifo) + 1 >= Fifo)])

\* ap_mc68681_receive.  One character beyond the FIFO is held in the shift
\* register; the next one overruns.
Receive(c, b) ==
    CASE ~c.rx -> [c EXCEPT !.drops = @ + 1]
      [] c.rx /\ Len(c.fifo) >= Fifo /\ c.shift # <<>> ->
           [c EXCEPT !.sr = @ \cup {"overrun"}, !.flushed = @ + 1, !.pending = {}]
      [] c.rx /\ Len(c.fifo) >= Fifo /\ c.shift = <<>> ->
           [c EXCEPT !.shift = <<b>>, !.pending = {}]
      [] OTHER ->
           RefreshChannelInterrupts(
             [c EXCEPT !.fifo = Append(@, [b |-> b, st |-> {}]),
                       !.sr = @ \cup {"rxrdy"}
                                \cup (IF Len(c.fifo) + 1 >= Fifo THEN {"ffull"} ELSE {}),
                       !.rts = @ /\ ~(c.mr1.rts /\ Len(c.fifo) + 1 >= Fifo)])

\* ap_mc68681_receive_at.  The echoing modes put the character in the holding
\* register, and remote loopback keeps nothing.  The errors found since the
\* last call are stored with the newest character of the FIFO.
ReceiveAt(c, b) ==
    LET echo == [c EXCEPT !.hold = IF c.mr2.mode \in {"echo", "remote"}
                                   THEN <<b>> ELSE @]
        r    == Receive(echo, b)
        bad  == r.rx /\ ~r.rate
        e    == r.pending \cup (IF bad THEN {"framing"} ELSE {})
        sr   == r.sr \cup (IF bad THEN {"framing"} ELSE {})
        n    == Len(r.fifo)
    IN  IF c.mr2.mode = "remote" THEN echo
        ELSE IF n = 0 THEN [r EXCEPT !.sr = sr, !.pending = {}]
        ELSE ShowTop([r EXCEPT !.sr = sr, !.fifo[n].st = e, !.pending = {}])

\* ap_mc68681_receive_framed
ReceiveFramed(c, b) ==
    LET r == ReceiveAt(c, b)
    IN  IF r.rx /\ r.mr1.parity = "other"
        THEN [r EXCEPT !.sr = @ \cup {"parity"}, !.pending = @ \cup {"parity"}]
        ELSE r

\* ap_mc68681_transmit: whether the holding register's character goes out, and
\* the channel after it has.
Transmits(c, cts) == c.hold # <<>> /\ ~(c.mr2.cts /\ cts)

Transmitted(c) ==
    RefreshChannelInterrupts([c EXCEPT !.hold = <<>>, !.sr = @ \cup {"txrdy", "txemt"},
                                       !.rts = @ /\ ~c.mr2.rts])

\* Mutant of ReadBuffer: the held character is left where it is.
ReadBufferNoShift(c) ==
    IF c.fifo = <<>> THEN c
    ELSE LET f == Tail(c.fifo)
         IN  RefreshChannelInterrupts(ShowTop(
               [c EXCEPT !.fifo = f,
                         !.sr = With(With(@, {"ffull"}, Len(f) >= Fifo),
                                     {"rxrdy"}, f # <<>>),
                         !.rts = @ \/ (c.mr1.rts /\ Len(f) < Fifo)]))

\* A read of the receive buffer: the FIFO moves up and takes the held character.
ReadBuffer(c) ==
    IF c.fifo = <<>> THEN c
    ELSE LET f == Tail(c.fifo) \o [i \in 1 .. Len(c.shift) |->
                                     [b |-> c.shift[i], st |-> {}]]
         IN  RefreshChannelInterrupts(ShowTop(
               [c EXCEPT !.fifo = f, !.shift = <<>>,
                         !.sr = With(With(@, {"ffull"}, Len(f) >= Fifo),
                                     {"rxrdy"}, f # <<>>),
                         !.rts = @ \/ (c.mr1.rts /\ Len(f) < Fifo)]))

\* A write of the mode register the pointer selects.
WriteMode(c, one, two) ==
    IF c.second THEN [c EXCEPT !.mr2 = two]
                ELSE [c EXCEPT !.mr1 = one, !.second = TRUE]

\* loop_break: in local loopback the receiver sees the transmitter's break.
LoopBreak(c, starting) ==
    IF c.mr2.mode # "local" \/ ~c.rx THEN c
    ELSE [c EXCEPT !.sr = With(@, {"break"}, starting), !.isr = @ \cup {"break"}]

\* Mutant of ResetReceiver: what the reset throws away is not counted.
ResetReceiverQuietly(c) ==
    [c EXCEPT !.fifo = <<>>, !.shift = <<>>, !.rx = FALSE, !.sr = @ \ {"rxrdy", "ffull"}]

\* The reset receiver command: neither the errors nor the status of the
\* character on its way are touched.
ResetReceiver(c) ==
    [c EXCEPT !.flushed = @ + Len(c.fifo) + Len(c.shift), !.fifo = <<>>,
              !.shift = <<>>, !.rx = FALSE, !.sr = @ \ {"rxrdy", "ffull"}]

MiscCommands == {"none", "reset pointer", "reset receiver", "reset transmitter",
                 "reset error", "reset break", "start break", "stop break"}

\* The miscellaneous command of a write to CR.
Misc(c, command) ==
    CASE command = "none"              -> c
      [] command = "reset pointer"     -> [c EXCEPT !.second = FALSE]
      [] command = "reset receiver"    -> ResetReceiver(c)
      [] command = "reset transmitter" -> [c EXCEPT !.tx = FALSE, !.hold = <<>>,
                                                    !.sr = @ \ {"txrdy", "txemt"}]
      [] command = "reset error"       -> [c EXCEPT !.sr = @ \ (FifoErrors \cup {"overrun"})]
      [] command = "reset break"       -> [c EXCEPT !.isr = @ \ {"break"}]
      [] command = "start break"       -> IF c.tx THEN LoopBreak([c EXCEPT !.brk = TRUE], TRUE)
                                                  ELSE c
      [] command = "stop break"        -> [(IF c.brk THEN LoopBreak(c, FALSE) ELSE c)
                                             EXCEPT !.brk = FALSE]

\* A write to CR: the command first, then the enables, and disable wins.
WriteCommand(c, command, enables) ==
    LET m == Misc(c, command)
        r == [m EXCEPT !.rx = ("enable rx" \in enables \/ @) /\ "disable rx" \notin enables,
                       !.tx = ("enable tx" \in enables \/ @) /\ "disable tx" \notin enables,
                       !.sr = @ \cup (IF "enable tx" \in enables THEN {"txrdy"} ELSE {})]
    IN  RefreshChannelInterrupts(
          IF "disable tx" \in enables THEN [r EXCEPT !.sr = @ \ {"txrdy", "txemt"}]
          ELSE r)

\* A write of the transmit buffer; local loopback hands it to the receiver.
WriteBuffer(c, b) ==
    CASE ~c.tx                          -> c
      [] c.tx /\ c.mr2.mode = "local"   -> Receive(c, b)
      [] OTHER -> RefreshChannelInterrupts(
                    [c EXCEPT !.hold = <<b>>, !.sr = @ \ {"txrdy", "txemt"}])
=============================================================================
