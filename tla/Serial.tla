------------------------------- MODULE Serial -------------------------------
(***************************************************************************)
(* The keyboard's line: the keyboard, the serial channel it is wired to,   *)
(* the board's step that moves bytes between them (ap_board.c), the        *)
(* processor's accesses to the channel, and the headless frontend that     *)
(* types a script and sends again what the machine threw away (main.c).    *)
(*                                                                         *)
(* A byte carries the value a command is recognised by, the order in which *)
(* it was made, and who made it.  Bytes are made when the keyboard queues  *)
(* them and when a channel in local loopback sends to itself.              *)
(***************************************************************************)
EXTENDS Duart, Keyboard, FiniteSets

CONSTANTS MaxBytes,   \* the number of bytes ever made: a bound of the model
          MaxControl, \* the number of control writes: a bound of the model
          MaxStep,    \* the longest time between two steps of the board
          Script,     \* the number of bytes of each character typed
          Starts,     \* how the processor has programmed the channel at first
          Commands, Miscs, Enables, Mr1s, Mr2s   \* what it writes later

ASSUME SerialAssumption ==
    /\ MaxBytes \in Nat /\ MaxControl \in Nat
    /\ MaxStep \in 1 .. RepeatPeriod
    /\ Script \in Seq({1, 2})
    /\ Miscs \subseteq MiscCommands /\ Mr1s \subseteq Mr1 /\ Mr2s \subseteq Mr2

VARIABLES ch,     \* the channel
          kbd,    \* the keyboard
          made,   \* the bytes made so far
          got,    \* the bytes the processor has read
          mirrored, \* the bytes remote loopback has sent back
          last,   \* the keyboard byte the processor read last
          typed,  \* the state of typed_deliver
          control \* the control writes so far

vars == <<ch, kbd, made, got, mirrored, last, typed, control>>

Values == {"FF", "00", "01", "11", "12", "16", "17", "21", "81", "82", "id", "key"}
Bytes  == [v : Values, n : Nat, by : {"keyboard", "loopback", "processor"}]

Byte(v, n, by) == [v |-> v, n |-> n, by |-> by]

Typing == [sent : 0 .. Len(Script), wait : Int, pending : BOOLEAN,
           read : BOOLEAN, flushed : BOOLEAN]

\* The channel after a reset and the writes that program it and enable it.
Programmed(one, two, matches) ==
    WriteCommand([WriteMode(WriteMode(ResetChannel, one, two), one, two)
                    EXCEPT !.rate = matches],
                 "none", {"enable rx", "enable tx"})

ASSUME StartsAssumption ==
    /\ Starts \subseteq {Programmed(one, two, matches) :
                            one \in Mr1, two \in Mr2, matches \in BOOLEAN}
    /\ Commands \subseteq Values

Init ==
    /\ ch \in Starts /\ kbd = KbdReset
    /\ made = 0 /\ got = 0 /\ mirrored = 0 /\ last = 0 /\ control = 0
    /\ typed = [sent |-> 0, wait |-> 0, pending |-> FALSE, read |-> FALSE,
                flushed |-> FALSE]

-----------------------------------------------------------------------------
(* The host side: keys, the mouse and the typed script. *)

\* keyboard_room
KeyboardRoom(k) == KeyRoom - k.keys

\* The first n bytes of key data, buffered one after the other.
Buffered(k, n) ==
    LET f[i \in 0 .. n] == IF i = 0 THEN k
                           ELSE Buffer(f[i - 1], Byte("key", made + i, "keyboard"))
    IN  f[n]

\* Mutant of Deliver: the room for a whole packet is not asked for.
DeliverUnchecked(k, n) ==
    /\ ~BufferFull(kbd)
    /\ kbd' = Buffered(k, n)
    /\ made' = made + n /\ made' <= MaxBytes

\* deliver_key, n times, after the caller has asked for the room.
Deliver(k, n) ==
    /\ KeyboardRoom(kbd) >= n
    /\ kbd' = Buffered(k, n)
    /\ made' = made + n /\ made' <= MaxBytes

\* ap_board_key_press
KeyPress(key) ==
    /\ MayPress(kbd, key)
    /\ Deliver(Press(kbd, key), 1)
    /\ UNCHANGED <<ch, got, mirrored, last, typed, control>>

\* ap_board_key_release
KeyRelease(key) ==
    /\ MayRelease(kbd, key)
    /\ Deliver(Release(kbd, key), 1)
    /\ UNCHANGED <<ch, got, mirrored, last, typed, control>>

\* ap_board_mouse_move and ap_board_mouse_move_absolute: a packet or nothing.
MouseMove(absolute) ==
    /\ Deliver(kbd, MousePacket(kbd, absolute))
    /\ UNCHANGED <<ch, got, mirrored, last, typed, control>>

\* The start of typed_deliver: a character read is done with, one flushed
\* unread is to be sent again.
Looked ==
    CASE typed.pending /\ typed.read ->
           [typed EXCEPT !.pending = FALSE, !.read = FALSE, !.flushed = FALSE]
      [] typed.pending /\ ~typed.read /\ typed.flushed ->
           [typed EXCEPT !.pending = FALSE, !.flushed = FALSE, !.sent = @ - 1]
      [] OTHER -> typed

\* The rest of it: a character goes when the machine waits for one, and is
\* skipped when the keyboard does not take it (ap_board_key_type).  The gates on
\* the program counter, the polls and the firmware's own slot are a choice.
TypedDeliver ==
    /\ typed.sent < Len(Script)
    /\ \/ /\ typed' = Looked
          /\ UNCHANGED <<kbd, made>>
       \/ /\ Looked.wait <= 0
          /\ ~("rxrdy" \in ch.sr) /\ ch.rx
          /\ LET n == Script[Looked.sent + 1]
             IN  \/ /\ Deliver(kbd, n)
                    /\ typed' = [sent |-> Looked.sent + 1, wait |-> TxCharacter,
                                 pending |-> TRUE, read |-> FALSE, flushed |-> FALSE]
                 \/ /\ KeyboardRoom(kbd) < n
                    /\ typed' = [Looked EXCEPT !.sent = @ + 1]
                    /\ UNCHANGED <<kbd, made>>
    /\ UNCHANGED <<ch, got, mirrored, last, control>>

-----------------------------------------------------------------------------
(* A step of the board. *)

\* How many bytes at the head of the queue have come due.
DueCount(k) ==
    IF ~Due(k) THEN 0
    ELSE LET n == (-k.tx) \div TxCharacter + 1
         IN  IF n < Len(k.queue) THEN n ELSE Len(k.queue)

\* drain_keyboard
Drained(k, c) ==
    LET f[i \in 0 .. DueCount(k)] ==
          IF i = 0 THEN [kbd |-> k, ch |-> c]
          ELSE LET d == f[i - 1]
               IN  [kbd |-> Sent(d.kbd), ch |-> ReceiveFramed(d.ch, Head(d.kbd.queue).b)]
    IN  f[DueCount(k)]

\* The bytes of a reply, numbered as they are queued.
Numbered(vs, n) == [i \in 1 .. Len(vs) |-> Byte(vs[i], n + i, "keyboard")]

\* The serial part of ap_board_advance: the repeat of a held key, the bytes that
\* have come due, the byte the channel sends, its answer, and the bytes due again.
Advance(dt, cts) ==
    \E k1 \in {Passed(kbd, dt)} :
    \E k2 \in {IF Repeats(k1) THEN Buffer(Repeated(k1), Byte("key", made + 1, "keyboard"))
               ELSE k1} :
    \E d \in {Drained(k2, ch)} :
    \E r \in {IF Transmits(d.ch, cts) THEN KbdReceive(d.kbd, d.ch.hold[1].v)
              ELSE [kbd |-> d.kbd, reply |-> <<>>]} :
    \E k3 \in {QueueReply(r.kbd, Numbered(r.reply, made + Len(k2.queue) - Len(k1.queue)))} :
    \E e \in {Drained(k3, IF Transmits(d.ch, cts) THEN Transmitted(d.ch) ELSE d.ch)} :
        /\ ch' = e.ch
        /\ kbd' = [e.kbd EXCEPT !.tx = IF e.kbd.queue = <<>> THEN 0 ELSE @,
                                !.repeat = IF e.kbd.held = NoKey THEN 0 ELSE @]
        /\ made' = made + (Len(k2.queue) - Len(k1.queue)) + (Len(k3.queue) - Len(d.kbd.queue))
        /\ made' <= MaxBytes
        /\ mirrored' = mirrored + IF ch.mr2.mode # "remote" THEN 0
                                  ELSE made' - made + Len(kbd.queue) - Len(e.kbd.queue)
        /\ typed' = [typed EXCEPT !.wait = IF @ > dt THEN @ - dt ELSE 0,
                                  !.flushed = @ \/ (typed.pending /\ ch'.flushed # ch.flushed)]
        /\ UNCHANGED <<got, last, control>>

-----------------------------------------------------------------------------
(* The processor's accesses to the channel. *)

\* A read of the receive buffer is counted even when it finds nothing.
ReadRb ==
    /\ ch' = ReadBuffer(ch)
    /\ typed' = [typed EXCEPT !.read = @ \/ typed.pending]
    /\ IF ch.fifo = <<>> THEN UNCHANGED <<got, last>>
       ELSE /\ got' = got + 1
            /\ last' = IF ch.fifo[1].b.by = "keyboard" THEN ch.fifo[1].b.n ELSE last
    /\ UNCHANGED <<kbd, made, mirrored, control>>

WriteTb(v) ==
    LET loop == ch.tx /\ ch.mr2.mode = "local"
    IN  /\ made' = IF loop THEN made + 1 ELSE made
        /\ made' <= MaxBytes
        /\ ch' = WriteBuffer(ch, IF loop THEN Byte(v, made + 1, "loopback")
                                 ELSE Byte(v, 0, "processor"))
        /\ typed' = [typed EXCEPT !.flushed = @ \/ (typed.pending /\ ch'.flushed # ch.flushed)]
        /\ UNCHANGED <<kbd, got, mirrored, last, control>>

Controls == control < MaxControl /\ control' = control + 1

WriteCr(command, enables) ==
    /\ Controls
    /\ ch' = WriteCommand(ch, command, enables)
    /\ typed' = [typed EXCEPT !.flushed = @ \/ (typed.pending /\ ch'.flushed # ch.flushed)]
    /\ UNCHANGED <<kbd, made, got, mirrored, last>>

WriteMr(one, two) ==
    /\ Controls
    /\ ch' = WriteMode(ch, one, two)
    /\ UNCHANGED <<kbd, made, got, mirrored, last, typed>>

\* A write of the clock select register.
WriteCsr(matches) ==
    /\ Controls
    /\ ch' = [ch EXCEPT !.rate = matches]
    /\ UNCHANGED <<kbd, made, got, mirrored, last, typed>>

Next ==
    \/ \E key \in Keys : KeyPress(key) \/ KeyRelease(key)
    \/ \E absolute \in BOOLEAN : MouseMove(absolute)
    \/ TypedDeliver
    \/ \E dt \in 1 .. MaxStep, cts \in BOOLEAN : Advance(dt, cts)
    \/ ReadRb
    \/ \E v \in Commands : WriteTb(v)
    \/ \E command \in Miscs, enables \in Enables : WriteCr(command, enables)
    \/ \E one \in Mr1s, two \in Mr2s : WriteMr(one, two)
    \/ \E matches \in BOOLEAN : WriteCsr(matches)

Spec == Init /\ [][Next]_vars

-----------------------------------------------------------------------------
\* No byte is lost unseen: each one made was read, sent back by remote loopback,
\* or counted as flushed or dropped, or waits in the keyboard's ring, the FIFO or
\* the shift register.  The frontend's retry reads those counters.
NothingLostUnseen ==
    made = got + mirrored + ch.flushed + ch.drops
             + Len(kbd.queue) + Len(ch.fifo) + Len(ch.shift)

\* The bytes on their way to the processor, the next one to be read first.
Wire == [i \in 1 .. Len(ch.fifo) |-> ch.fifo[i].b] \o ch.shift
          \o [i \in 1 .. Len(kbd.queue) |-> kbd.queue[i].b]

\* One transmitter and one FIFO: the keyboard's bytes are read in the order the
\* keyboard queued them, keys and replies together, through a held character, an
\* overrun and a reset of the receiver.
InOrder ==
    \A i \in DOMAIN Wire : Wire[i].by = "keyboard" =>
        /\ last < Wire[i].n
        /\ \A j \in 1 .. i - 1 : Wire[j].by = "keyboard" => Wire[j].n < Wire[i].n

\* The places of the keyboard's ring that hold a byte of a reply.
Replies == {i \in DOMAIN kbd.queue : kbd.queue[i].reply}

\* The two allowances of the keyboard's one ring count what is in it and keep it
\* from overflowing, its next byte is due within one character time, and only a
\* key that is down repeats.
KeyboardSane ==
    /\ kbd.replies = Cardinality(Replies) /\ kbd.replies <= ReplyRoom
    /\ kbd.keys = Len(kbd.queue) - Cardinality(Replies) /\ kbd.keys <= KeyRoom
    /\ kbd.queue # <<>> => kbd.tx \in 1 .. TxCharacter
    /\ kbd.held # NoKey => kbd.held \in kbd.down

=============================================================================
