---------------------------- MODULE RingStation ----------------------------
(***************************************************************************)
(* One ring station, src/core/ring/ap_ring_station.c, as operators on the  *)
(* record that stands for ap_ring_station_t.                               *)
(*                                                                         *)
(* The unit of the stream is one SYMBOL instead of one bit: an out-of-band *)
(* character (nine bits on the wire) or one field of a frame.  A station   *)
(* still drives one unit and receives one unit per step and forwards with  *)
(* a delay of one step, so AP_RING_OOB_BITS is 1 and every count the code  *)
(* keeps in bits is kept here in symbols.  RingMac models the bits.        *)
(***************************************************************************)
EXTENDS RingMedium

CONSTANTS
    StripTimeout,  \* AP_RING_STRIP_TIMEOUT_BITS
    LossTimeout    \* AP_RING_TOKEN_LOSS_TIMEOUT_BITS

ASSUME TimeoutsArePositive == /\ StripTimeout \in Nat \ {0}
                              /\ LossTimeout \in Nat \ {0}

\* What stands where a node number would when there is none, and the
\* destination of a frame whose broadcast bit is set.
NoNode == -1
Broadcast == -2

-----------------------------------------------------------------------------
(* Symbols.                                                                *)

\* The late acknowledge bits of [MAC] Figure 2-8 that a receiver sets, and
\* the one bit of the early acknowledge.
AckBits == {"copied", "wack", "icopy"}

Symbols == [kind : {"zero", "free", "claimed", "start", "sep", "header", "data",
                    "check", "late"},
            src  : Nodes \cup {NoNode},
            dest : Nodes \cup {NoNode, Broadcast},
            ack  : SUBSET AckBits]

Plain(k) == [kind |-> k, src |-> NoNode, dest |-> NoNode, ack |-> {}]

Zero    == Plain("zero")
Free    == Plain("free")      \* AP_RING_OOB_FREE_TOKEN
Claimed == Plain("claimed")   \* AP_RING_OOB_CLAIMED_TOKEN
Start   == Plain("start")     \* AP_RING_OOB_FRAME_START
Sep     == Plain("sep")       \* AP_RING_OOB_SEPARATOR

Header(from, to) == [Plain("header") EXCEPT !.src = from, !.dest = to]

\* ap_ring_frame_emit: frame start sequence, header, data, frame check and
\* end-of-frame sequences.  A frame may carry no data; its separator stays.
FrameEmit(from, to, hasData) ==
    <<Start, Sep, Header(from, to), Sep>>
        \o (IF hasData THEN <<Plain("data")>> ELSE <<>>)
        \o <<Sep, Plain("check"), Plain("late")>>

MaxFrame == 8

-----------------------------------------------------------------------------
(* The station's state.                                                    *)

RxStates == {"idle", "await", "header", "body", "fcs", "late"}

\* What symbols may stand in a one-symbol register that may be empty.
None == Plain("zero")

Stations ==
    [tx       : Seq(Symbols),    \* tx_bits, tx_bit_count
     txPos    : 0 .. MaxFrame,   \* tx_bit_pos
     armed    : BOOLEAN,         \* tx_armed
     seenOwn  : BOOLEAN,         \* tx_seen_own_frame_start
     stripped : 0 .. MaxFrame,   \* tx_stripped_own
     ack      : SUBSET AckBits,  \* tx_ack
     ackValid : BOOLEAN,         \* tx_ack_valid
     window   : Symbols,         \* window: the last symbol received
     pending  : Symbols,         \* pending_bit
     orig     : Symbols,         \* originate_symbol; zero when originate_left is 0
     wants    : BOOLEAN,         \* wants_ring
     holds    : BOOLEAN,         \* holds_ring
     strip    : BOOLEAN,         \* stripping
     since    : 0 .. LossTimeout,   \* bits_since_token, saturating: it is only
                                    \* ever compared with the timeout
     stripFor : 0 .. StripTimeout,  \* bits_stripping
     rx       : RxStates,        \* rx_state
     addressed: BOOLEAN,         \* rx_addressed
     seps     : 0 .. 3,          \* rx_separators, saturating past the third
     src      : Nodes \cup {NoNode},  \* the source field of the captured header
     enabled  : BOOLEAN,         \* receive_enabled
     timedOut : BOOLEAN,         \* strip_timeouts > 0
     forced   : BOOLEAN]         \* forced_tokens > 0

\* ap_ring_station_init
StationInit ==
    [tx |-> <<>>, txPos |-> 0, armed |-> FALSE, seenOwn |-> FALSE,
     stripped |-> 0, ack |-> {}, ackValid |-> FALSE, window |-> Zero,
     pending |-> Zero, orig |-> None, wants |-> FALSE, holds |-> FALSE,
     strip |-> FALSE, since |-> 0, stripFor |-> 0, rx |-> "idle",
     addressed |-> FALSE, seps |-> 0, src |-> NoNode, enabled |-> TRUE,
     timedOut |-> FALSE, forced |-> FALSE]

\* Mutant of QueueFrame: the last frame's acknowledge is not forgotten.
QueueFrameKeepsAck(s, frame) ==
    [s EXCEPT !.tx = frame, !.txPos = 0, !.armed = TRUE, !.seenOwn = FALSE,
              !.stripped = 0, !.wants = TRUE]

\* ap_ring_station_queue_frame: the frame replaces whatever was there, the
\* previous acknowledge is forgotten, and the ring is asked for.
QueueFrame(s, frame) ==
    [s EXCEPT !.tx = frame, !.txPos = 0, !.armed = TRUE, !.seenOwn = FALSE,
              !.stripped = 0, !.ack = {}, !.ackValid = FALSE, !.wants = TRUE]

\* ap_ring_station_transmitted
Transmitted(s) == ~s.armed /\ Len(s.tx) > 0 /\ s.txPos >= Len(s.tx)

\* ap_ring_station_originate_token
Originate(s, symbol) == [s EXCEPT !.orig = symbol]

-----------------------------------------------------------------------------
(* ap_ring_station_drive, in the order of its text.  Each operator takes   *)
(* the station so far; Driven is the symbol put on the cable.              *)

Originating(s) == s.orig # None

\* The claim: a whole free token has just arrived and this station wants the
\* ring.  The token's last bit is changed on its way through.
Claims(s) == ~Originating(s) /\ s.wants /\ ~s.holds /\ s.window = Free

Claim(s) == [s EXCEPT !.holds = TRUE, !.wants = FALSE, !.strip = TRUE,
                      !.stripFor = 0]

\* One more symbol stripped; at the timeout the station lets go of the ring.
CountStrip(s) ==
    IF s.stripFor + 1 >= StripTimeout
    THEN [s EXCEPT !.stripFor = StripTimeout, !.strip = FALSE, !.holds = FALSE,
                   !.timedOut = TRUE]
    ELSE [s EXCEPT !.stripFor = @ + 1]

\* A queued frame has symbols left and they are what a stripping station drives.
Sends(s) == s.strip /\ s.armed /\ s.txPos < Len(s.tx)

\* Mutant of Send: the ring is not released after the frame.
SendKeepsRing(s) ==
    LET sent == [s EXCEPT !.txPos = @ + 1]
    IN  CountStrip(IF sent.txPos >= Len(s.tx) THEN [sent EXCEPT !.armed = FALSE]
                   ELSE sent)

\* After the last symbol of the frame a new free token is originated.
Send(s) ==
    LET sent == [s EXCEPT !.txPos = @ + 1]
    IN  CountStrip(IF sent.txPos >= Len(s.tx)
                   THEN Originate([sent EXCEPT !.armed = FALSE], Free)
                   ELSE sent)

\* With no token seen for LossTimeout a station that wants the ring forces one.
Forces(s) == s.wants /\ ~s.holds /\ ~Originating(s) /\ s.since >= LossTimeout

\* Mutant of ForceToken: the forced token does not start stripping.
ForceWithoutStripping(s) ==
    [Originate(s, Claimed) EXCEPT !.holds = TRUE, !.wants = FALSE, !.since = 0,
                                  !.forced = TRUE]

ForceToken(s) ==
    [Originate(s, Claimed) EXCEPT !.holds = TRUE, !.wants = FALSE, !.since = 0,
                                  !.strip = TRUE, !.stripFor = 0, !.forced = TRUE]

ForceIfLost(s) == IF Forces(s) THEN ForceToken(s) ELSE s

Drive(s) ==
    IF Originating(s) THEN ForceIfLost([s EXCEPT !.orig = None])
    ELSE IF Claims(s) THEN ForceIfLost(Claim(s))
    ELSE IF Sends(s) THEN Send(s)
    ELSE IF s.strip THEN ForceIfLost(CountStrip(s))
    ELSE ForceIfLost(s)

Driven(s) ==
    IF Originating(s) THEN s.orig
    ELSE IF Claims(s) THEN Claimed
    ELSE IF Sends(s) THEN s.tx[s.txPos + 1]
    ELSE IF s.strip THEN Zero
    ELSE s.pending

-----------------------------------------------------------------------------
(* ap_ring_station_receive, likewise.                                      *)

\* Mutant of EndStrip: the count stops one short of the frame.
EndStripEarly(s, c) ==
    IF ~(s.strip /\ Len(s.tx) > 0) THEN s
    ELSE IF ~s.seenOwn
    THEN IF c = Start THEN [s EXCEPT !.seenOwn = TRUE, !.stripped = 0] ELSE s
    ELSE IF s.stripped + 2 >= Len(s.tx)
    THEN [s EXCEPT !.strip = FALSE, !.holds = FALSE, !.seenOwn = FALSE]
    ELSE [s EXCEPT !.stripped = @ + 1]

\* Stripping ends once the station's own frame has come back whole: counted
\* from its frame start, over the length of the frame it sent.
EndStrip(s, c) ==
    IF ~(s.strip /\ Len(s.tx) > 0) THEN s
    ELSE IF ~s.seenOwn
    THEN IF c = Start THEN [s EXCEPT !.seenOwn = TRUE, !.stripped = 0] ELSE s
    ELSE IF s.stripped + 1 >= Len(s.tx)
    THEN [s EXCEPT !.strip = FALSE, !.holds = FALSE, !.seenOwn = FALSE]
    ELSE [s EXCEPT !.stripped = @ + 1]

\* Mutant of WatchToken: a claimed token does not restart the loss timer.
WatchTokenFreeOnly(s, c) ==
    [s EXCEPT !.since = IF c = Free THEN 0
                        ELSE IF @ < LossTimeout THEN @ + 1 ELSE @]

\* The loss timer restarts on either token.
WatchToken(s, c) ==
    [s EXCEPT !.since = IF c \in {Free, Claimed} THEN 0
                        ELSE IF @ < LossTimeout THEN @ + 1 ELSE @]

\* This symbol is the late acknowledge of a frame addressed here.  It takes eight
\* bit times, and the station looks at the receive enable at three of them: at the
\* bit of copied, at the bit of wack, and at the last one, where it takes the frame.
\* enabled is what the first sees, wackOn and copyOn what the others do.
Answers(s, c) == /\ s.rx = "late" /\ c.kind # "start" /\ c.kind # "sep"
                 /\ s.addressed

\* The late acknowledge as this station forwards it.
LateOut(s, c, wackOn) ==
    IF s.addressed
    THEN c.ack \cup {"icopy"} \cup (IF s.enabled THEN {"copied"} ELSE {})
               \cup (IF wackOn THEN {} ELSE {"wack"})
    ELSE c.ack

\* Mutant of Copies: a passing frame is taken whoever it is addressed to.
CopiesAnything(s, c, copyOn) ==
    /\ s.rx = "late" /\ c.kind # "start" /\ c.kind # "sep"
    /\ ~s.strip /\ copyOn

\* Whether this symbol completes a frame the station copies: addressed here,
\* enabled, and not the frame it is stripping.  (frames_copied)
Copies(s, c, copyOn) == Answers(s, c) /\ ~s.strip /\ copyOn

\* The receive state machine that follows a passing frame by its separators.
Track(s, c, me, wackOn) ==
    CASE c.kind = "start" ->
           [s EXCEPT !.rx = "await", !.addressed = FALSE, !.seps = 0,
                     !.pending = c]
      [] c.kind = "sep" /\ s.rx # "idle" ->
           LET n == IF s.seps < 3 THEN s.seps + 1 ELSE 3
           IN  [s EXCEPT !.seps = n, !.pending = c,
                         !.rx = CASE s.seps = 2 -> "fcs"
                                  [] s.seps = 0 -> "header"
                                  [] OTHER -> "body"]
      [] s.rx = "fcs" /\ c.kind \notin {"start", "sep"} ->
           [s EXCEPT !.rx = "late", !.pending = c]
      [] s.rx = "late" /\ c.kind \notin {"start", "sep"} ->
           LET late == LateOut(s, c, wackOn)
               own  == s.strip /\ s.seenOwn
           IN  [s EXCEPT !.rx = "idle", !.pending = [c EXCEPT !.ack = late],
                         !.ack = IF own THEN late ELSE @,
                         !.ackValid = @ \/ own]
      [] s.rx = "header" /\ c.kind = "header" ->
           LET mine == c.dest \in {Broadcast, me}
           IN  [s EXCEPT !.addressed = mine, !.src = c.src,
                         !.pending = IF mine THEN [c EXCEPT !.ack = @ \cup {"icopy"}]
                                     ELSE c]
      [] OTHER -> [s EXCEPT !.pending = c]

\* The station once the symbol is in its window and before it is followed.
Sampled(s, c) == WatchToken(EndStrip([s EXCEPT !.window = c], c), c)

============================================================================
