------------------------------ MODULE Keyboard ------------------------------
(***************************************************************************)
(* The keyboard, src/core/device/ap_kbd.c, as operators on the record that *)
(* stands for ap_kbd_t.  Times are what is left until they come, counted   *)
(* from the keyboard's own clock.  The message being received is the       *)
(* longest prefix of a command it can still become.  The beeper, the lamp  *)
(* and the count of ignored bytes are outputs that no step depends on, and *)
(* the bytes of a mouse packet or of a key are named, not computed.        *)
(***************************************************************************)
EXTENDS Integers, Sequences

CONSTANTS Keys,          \* AP_KBD_KEYS of them
          NoKey,
          KeyRoom,       \* AP_KBD_BUFFER
          ReplyRoom,     \* AP_KBD_REPLY_QUEUE
          TxCharacter, RepeatDelay, RepeatPeriod,
          Identification \* the length of AP_KBD_IDENTIFICATION

ASSUME KeyboardAssumption ==
    /\ NoKey \notin Keys
    /\ {KeyRoom, ReplyRoom, TxCharacter, RepeatDelay, RepeatPeriod} \subseteq Nat \ {0}
    /\ Identification \in Nat

MessagePrefixes == {"", "FF", "FF11", "FF12", "FF21"}

\* ap_kbd_reset: a keyboard powers on in loopback.
KbdReset ==
    [down |-> {}, held |-> NoKey, repeat |-> 0, queue |-> <<>>, keys |-> 0,
     replies |-> 0, tx |-> 0, loopback |-> TRUE, keystate |-> FALSE, msg |-> ""]

\* ap_kbd_press and ap_kbd_release: FALSE of a transition that did not happen.
MayPress(k, key)   == key \notin k.down
MayRelease(k, key) == key \in k.down

Press(k, key) == [k EXCEPT !.down = @ \cup {key}, !.held = key, !.repeat = RepeatDelay]

\* Mutant of Release: the key goes on repeating.
ReleaseRepeating(k, key) == [k EXCEPT !.down = @ \ {key}]

Release(k, key) == [k EXCEPT !.down = @ \ {key},
                             !.held = IF @ = key THEN NoKey ELSE @]

BufferFull(k) == k.keys >= KeyRoom

\* The first byte of an idle transmitter starts its character time.
Start(k) == IF k.queue = <<>> THEN TxCharacter ELSE k.tx

\* ap_kbd_buffer: one byte of key data, refused when the key allowance is gone.
Buffer(k, b) ==
    IF BufferFull(k) THEN k
    ELSE [k EXCEPT !.queue = Append(@, [b |-> b, reply |-> FALSE]),
                   !.keys = @ + 1, !.tx = Start(k)]

\* Mutant of QueueReply: the reply allowance is taken for the ring's.
QueueReplyShared(k, bs) ==
    LET room == KeyRoom + ReplyRoom - k.replies
        take == IF Len(bs) < room THEN Len(bs) ELSE room
    IN  [k EXCEPT !.queue = @ \o [i \in 1 .. take |-> [b |-> bs[i], reply |-> TRUE]],
                  !.replies = @ + take,
                  !.tx = IF take > 0 THEN Start(k) ELSE @]

\* ap_kbd_queue_reply: as much of a reply as its allowance has room for.
QueueReply(k, bs) ==
    LET room == ReplyRoom - k.replies
        take == IF Len(bs) < room THEN Len(bs) ELSE room
    IN  [k EXCEPT !.queue = @ \o [i \in 1 .. take |-> [b |-> bs[i], reply |-> TRUE]],
                  !.replies = @ + take,
                  !.tx = IF take > 0 THEN Start(k) ELSE @]

\* ap_kbd_transmit: whether the byte at the head has been on the wire for its
\* character time, and the keyboard after it has gone.
Due(k) == k.queue # <<>> /\ k.tx <= 0

\* Mutant of Sent: every byte is counted as a key's.
SentAsKey(k) == [k EXCEPT !.queue = Tail(@), !.keys = @ - 1, !.tx = @ + TxCharacter]

Sent(k) ==
    [k EXCEPT !.queue = Tail(@), !.tx = @ + TxCharacter,
              !.keys    = IF Head(k.queue).reply THEN @ ELSE @ - 1,
              !.replies = IF Head(k.queue).reply THEN @ - 1 ELSE @]

\* ap_kbd_advance: the clock moves, and a held key that is due repeats once.
Passed(k, dt) == [k EXCEPT !.tx = @ - dt, !.repeat = @ - dt]

Repeats(k) == k.held # NoKey /\ k.repeat <= 0

Repeated(k) == [k EXCEPT !.repeat = @ + RepeatPeriod]

\* announce_mode
AnnounceMode(k) == <<"FF", IF k.keystate THEN "01" ELSE "00">>

\* ap_kbd_receive: the keyboard after a command byte, and what it answers.
KbdReceive(k, v) ==
    LET answer(new, bs) == [kbd |-> new, reply |-> bs]
        msg == [k EXCEPT !.msg = ""]
    IN  CASE v = "FF" -> answer([k EXCEPT !.msg = "FF", !.loopback = TRUE], <<v>>)
          [] v = "00" /\ k.loopback ->
               LET new == [k EXCEPT !.keystate = FALSE, !.loopback = FALSE]
               IN  answer(new, AnnounceMode(new))
          [] v = "00" /\ ~k.loopback -> answer(k, <<>>)
          [] k.msg = "FF" /\ v = "01" -> answer([msg EXCEPT !.keystate = TRUE], <<v>>)
          [] k.msg = "FF" /\ v = "11" -> answer([k EXCEPT !.msg = "FF11"], <<v>>)
          [] k.msg = "FF" /\ v = "12" -> answer([k EXCEPT !.msg = "FF12"], <<v>>)
          [] k.msg = "FF11" /\ v = "16" ->
               answer([msg EXCEPT !.loopback = FALSE], <<"00", "FF", "00">>)
          [] k.msg = "FF11" /\ v = "17" -> answer(msg, <<>>)
          [] k.msg = "FF12" /\ v = "21" ->
               answer([msg EXCEPT !.loopback = FALSE],
                      <<v>> \o [i \in 1 .. Identification |-> "id"] \o AnnounceMode(k))
          [] k.msg = "FF21" /\ v \in {"81", "82"} -> answer(msg, <<v>>)
          [] OTHER -> answer([k EXCEPT !.msg = IF k.msg = "FF" /\ v = "21" THEN "FF21"
                                               ELSE ""],
                             IF k.loopback THEN <<v>> ELSE <<>>)

\* ap_kbd_mouse_packet and ap_kbd_mouse_packet_absolute: the length of a
\* packet.  A relative one has an escape byte outside keystate mode; an absolute
\* one has an escape or a button byte.
MousePacket(k, absolute) == IF absolute \/ ~k.keystate THEN 4 ELSE 3
=============================================================================
