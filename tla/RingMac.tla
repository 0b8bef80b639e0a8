------------------------------ MODULE RingMac -------------------------------
(***************************************************************************)
(* The bits of the ring: the stuffed stream a transmitter writes           *)
(* (src/core/ring/ap_ring_mac.c, ap_ring_framer.c) and the two stations    *)
(* downstream of it that follow the stream one bit at a time, undo the     *)
(* stuffing, capture the frame and alter the acknowledge fields in flight  *)
(* (ap_ring_station_receive).  RingStation keeps one symbol per character  *)
(* or field; this module is about what that abstraction rests on.          *)
(***************************************************************************)
EXTENDS Integers, Sequences

CONSTANTS
    HeaderBytes,   \* bytes of packet header a frame carries
    DataLengths,   \* the data lengths frames may have, in bytes
    CheckBytes,    \* bytes of frame check, 4 in the code
    DecideBytes,   \* header bytes that decide whose frame it is, 6 in the code
    Bytes,         \* the byte values frames are made of
    Capacity       \* rx_capacity of a station's buffer

ASSUME FrameAssumption ==
    /\ DecideBytes \in Nat \ {0} /\ HeaderBytes > DecideBytes + 1
    /\ HeaderBytes \in Nat /\ CheckBytes \in Nat \ {0}
    /\ DataLengths \subseteq Nat /\ Bytes \subseteq 0 .. 255 /\ Capacity \in Nat

BitValues == {0, 1}

\* AP_RING_HDR_EARLY_ACK.  The byte before it is a byte of zeros.
EarlyAck == DecideBytes + 1

NullBits == 8

StuffAfterOnes == 5

-----------------------------------------------------------------------------
(* The transmitter: ap_ring_frame_emit through ap_ring_write_data_bit and  *)
(* ap_ring_write_oob, one bit of the wire at a time.                       *)

\* The parts of the stream in order: idle zeros, the claimed token, the frame's
\* sequences and the free token that follows it.
Parts == <<"gap", "claimed", "start", "null", "sep", "header", "sep", "data",
           "sep", "check", "late", "free">>

\* The last two bits of an out-of-band character: zero, six ones, these two.
TypeBits(kind) == CASE kind = "sep"     -> <<0, 0>>
                    [] kind = "start"   -> <<0, 1>>
                    [] kind = "free"    -> <<1, 0>>
                    [] kind = "claimed" -> <<1, 1>>

IsOob(kind) == kind \in {"sep", "start", "free", "claimed"}

Oob(kind) == <<0, 1, 1, 1, 1, 1, 1>> \o TypeBits(kind)

\* part: index in Parts; pos: bits of it written; ones: ones_run; stuff: the
\* zero owed after the fifth one; dlen: data bytes of this frame; byte: the byte
\* being written; last, count: the last whole byte of header or data written and
\* how many.
Writers == [part : DOMAIN Parts, pos : Nat, ones : 0 .. 5, stuff : BOOLEAN,
            dlen : DataLengths, byte : 0 .. 255, last : 0 .. 255, count : Nat]

WriterInit(d) == [part |-> 1, pos |-> 0, ones |-> 0, stuff |-> FALSE, dlen |-> d,
                  byte |-> 0, last |-> 0, count |-> 0]

Kind(x) == Parts[x.part]

\* The length in bits of a part of the frame the writer x is at.
PartLength(x, part) ==
    LET k == Parts[part]
    IN  CASE IsOob(k)     -> 9
          [] k = "gap"    -> 1
          [] k = "null"   -> NullBits
          [] k = "header" -> 8 * HeaderBytes
          [] k = "data"   -> 8 * x.dlen
          [] k = "check"  -> 8 * CheckBytes + NullBits
          [] k = "late"   -> 8

\* The bytes a field may hold at the writer's position.  Header, data and check
\* are arbitrary, but for the byte of zeros before the early acknowledge and the
\* six bits of that field that are not defined.  The controller queues every
\* frame with a late acknowledge of zero.
FieldBytes(x) ==
    LET at == x.pos \div 8
    IN  IF x.pos % 8 # 0 THEN {x.byte}
        ELSE CASE Kind(x) = "header" -> IF at = EarlyAck - 1 THEN {0}
                                        ELSE IF at = EarlyAck THEN {0, 2, 8, 10}
                                        ELSE Bytes
               [] Kind(x) = "data"   -> Bytes
               [] Kind(x) = "check"  -> IF at < CheckBytes THEN Bytes ELSE {0}
               [] OTHER              -> {0}

\* ap_ring_write_data_bits: most significant bit first.
BitOf(x, byte) == IF IsOob(Kind(x)) THEN Oob(Kind(x))[x.pos + 1]
                  ELSE (byte \div 2^(7 - (x.pos % 8))) % 2

\* On to the next part that is not empty; after the free token, the next gap.
NextPart(x) ==
    LET after == IF x.part = Len(Parts) THEN 1 ELSE x.part + 1
    IN  IF PartLength(x, after) = 0 THEN after + 1 ELSE after

\* The zero is owed once the fifth one has been written, not before it.
OwesZero(ones) == ones >= StuffAfterOnes

\* ap_ring_write_data_bit and ap_ring_write_oob: one bit that is not a stuffed
\* zero.  A character leaves no run of ones behind.
WriteBit(x, byte, d) ==
    LET k     == Kind(x)
        field == ~IsOob(k)
        ones  == IF BitOf(x, byte) = 1 THEN x.ones + 1 ELSE 0
        done  == x.pos + 1 = PartLength(x, x.part)
        whole == k \in {"header", "data"} /\ x.pos % 8 = 7
    IN  [x EXCEPT !.part  = IF done THEN NextPart(x) ELSE @,
                  !.pos   = IF done THEN 0 ELSE @ + 1,
                  !.ones  = IF field THEN ones ELSE 0,
                  !.stuff = field /\ OwesZero(ones),
                  !.byte  = IF x.pos % 8 = 7 THEN 0 ELSE byte,
                  !.last  = IF whole THEN byte ELSE @,
                  !.count = IF whole THEN @ + 1 ELSE IF k = "start" THEN 0 ELSE @,
                  !.dlen  = IF k = "gap" THEN d ELSE @]

WriteStuffed(x) == [x EXCEPT !.ones = 0, !.stuff = FALSE]

-----------------------------------------------------------------------------
(* A station that the stream passes: ap_ring_station_receive.              *)

Receivers ==
    [window : 0 .. 511, seen : 0 .. 9,        \* window, bits_seen
     rx : {"idle", "await", "header", "body", "fcs", "late"},
     seps : 0 .. 3, ones : 0 .. 5,            \* both saturating
     byte : 0 .. 255, n : 0 .. 7,             \* rx_byte, rx_bit_count
     bits : Nat,                              \* rx_header_bits
     bytes : 0 .. Capacity, last : 0 .. 255,  \* rx_bytes, rx_buffer's last
     overrun : BOOLEAN, headerBytes : Nat,
     mine : BOOLEAN,         \* what the address comparison will say
     enabled : BOOLEAN,      \* receive_enabled
     addressed : BOOLEAN, flipped : BOOLEAN,
     fcs : Nat, late : 0 .. 255, lateBits : 0 .. 7,
     pending : BitValues]

ReceiverInit(mine, enabled) ==
    [window |-> 0, seen |-> 0, rx |-> "idle", seps |-> 0, ones |-> 0, byte |-> 0,
     n |-> 0, bits |-> 0, bytes |-> 0, last |-> 0, overrun |-> FALSE,
     headerBytes |-> 0, mine |-> mine, enabled |-> enabled, addressed |-> FALSE,
     flipped |-> FALSE, fcs |-> 0, late |-> 0, lateBits |-> 0, pending |-> 0]

\* ap_ring_oob_well_formed on the window, once nine bits have been seen.
AtSymbol(r) == r.seen = 9 /\ r.window \div 4 = 63

SymbolIs(r, kind) ==
    AtSymbol(r) /\ r.window % 4 = 2 * TypeBits(kind)[1] + TypeBits(kind)[2]

Sample(r, bit) == [r EXCEPT !.window = (2 * @ + bit) % 512,
                            !.seen = IF @ < 9 THEN @ + 1 ELSE 9]

FrameStart(r) == [r EXCEPT !.rx = "await", !.addressed = FALSE, !.flipped = FALSE,
                           !.seps = 0]

\* Mutant of Separator: the data bytes are not aligned on the second separator.
SeparatorUnaligned(r) ==
    CASE r.seps = 0 -> [r EXCEPT !.seps = 1, !.rx = "header", !.ones = 0, !.n = 0,
                                 !.byte = 0, !.bits = 0, !.bytes = 0,
                                 !.headerBytes = 0, !.overrun = FALSE]
      [] r.seps = 1 -> [r EXCEPT !.seps = 2, !.rx = "body", !.headerBytes = r.bytes]
      [] r.seps = 2 -> [r EXCEPT !.seps = 3, !.rx = "fcs", !.fcs = 0, !.ones = 0,
                                 !.lateBits = 0, !.late = 0]
      [] OTHER      -> [r EXCEPT !.rx = "body"]

\* The separators delimit header, data and frame check; each restarts what the
\* next sequence needs.
Separator(r) ==
    CASE r.seps = 0 -> [r EXCEPT !.seps = 1, !.rx = "header", !.ones = 0, !.n = 0,
                                 !.byte = 0, !.bits = 0, !.bytes = 0,
                                 !.headerBytes = 0, !.overrun = FALSE]
      [] r.seps = 1 -> [r EXCEPT !.seps = 2, !.rx = "body", !.headerBytes = r.bytes,
                                 !.ones = 0, !.n = 0, !.byte = 0]
      [] r.seps = 2 -> [r EXCEPT !.seps = 3, !.rx = "fcs", !.fcs = 0, !.ones = 0,
                                 !.lateBits = 0, !.late = 0]
      [] OTHER      -> [r EXCEPT !.rx = "body"]

\* A zero after five ones was inserted by the transmitter.
Stuffed(r, bit) == r.ones >= StuffAfterOnes /\ bit = 0

CountOnes(r, bit) == [r EXCEPT !.ones = IF bit = 0 THEN 0
                                        ELSE IF @ < 5 THEN @ + 1 ELSE 5]

\* One unstuffed bit of header or data into the byte; the eighth stores it.
Assemble(r, bit) ==
    LET value == (2 * r.byte + bit) % 256
    IN  IF r.n < 7 THEN [r EXCEPT !.byte = value, !.n = @ + 1]
        ELSE IF r.bytes < Capacity
        THEN [r EXCEPT !.byte = 0, !.n = 0, !.bytes = @ + 1, !.last = value]
        ELSE [r EXCEPT !.byte = 0, !.n = 0, !.overrun = TRUE]

\* A header bit: the sixth byte settles whether the frame is addressed here,
\* and an addressee sets intend-to-copy in the early acknowledge as it passes,
\* with its parity bit.
HeaderBit(r, bit) ==
    LET field == r.addressed /\ r.bits \div 8 = EarlyAck
        sets  == field /\ r.bits % 8 = 4 /\ bit = 0
        flips == field /\ r.bits % 8 = 6 /\ r.flipped
        got   == Assemble([r EXCEPT !.bits = @ + 1], bit)
    IN  [got EXCEPT !.addressed = IF got.bits = 8 * DecideBytes THEN r.mine ELSE @,
                    !.flipped = @ \/ sets,
                    !.pending = IF sets \/ flips THEN 1 - bit ELSE bit]

OnesIn(v) == (v % 2) + ((v \div 2) % 2) + ((v \div 4) % 2) + ((v \div 8) % 2)
             + ((v \div 16) % 2) + ((v \div 32) % 2) + ((v \div 64) % 2)
             + ((v \div 128) % 2)

\* Mutant of LateBit: the parity counts the bit received, not the bit sent.
LateBitStaleParity(r, bit) ==
    CASE r.lateBits = 1 /\ r.addressed /\ r.enabled  -> 1
      [] r.lateBits = 2 /\ r.addressed /\ ~r.enabled -> 1
      [] r.lateBits = 4 /\ r.addressed               -> 1
      [] OTHER -> bit

\* What goes out for one bit of the late acknowledge: copied <6>, wait
\* acknowledge <5>, intend-to-copy <3>, and odd parity <1> over what was sent.
LateBit(r, bit) ==
    CASE r.lateBits = 1 /\ r.addressed /\ r.enabled  -> 1
      [] r.lateBits = 2 /\ r.addressed /\ ~r.enabled -> 1
      [] r.lateBits = 4 /\ r.addressed               -> 1
      [] r.lateBits = 6 -> 1 - (OnesIn(r.late % 64) % 2)
      [] OTHER -> bit

LateStep(r, bit) ==
    LET out == LateBit(r, bit)
    IN  [r EXCEPT !.late = (2 * @ + out) % 256, !.pending = out,
                  !.lateBits = IF @ < 7 THEN @ + 1 ELSE 0,
                  !.rx = IF r.lateBits = 7 THEN "idle" ELSE @]

FcsStep(r) == [r EXCEPT !.fcs = @ + 1,
                        !.rx = IF r.fcs + 1 >= 8 * CheckBytes + NullBits THEN "late" ELSE @]

\* One unstuffed bit in whatever sequence the station follows.
FieldStep(r, bit) ==
    CASE r.rx = "header" -> HeaderBit(r, bit)
      [] r.rx = "body"   -> Assemble(r, bit)
      [] r.rx = "fcs"    -> FcsStep(r)
      [] r.rx = "late"   -> LateStep(r, bit)

\* ap_ring_station_receive, one bit.
Take(r, bit) ==
    LET s == [Sample(r, bit) EXCEPT !.pending = bit]
    IN  IF SymbolIs(s, "start") THEN FrameStart(s)
        ELSE IF SymbolIs(s, "sep") /\ s.rx # "idle" THEN Separator(s)
        ELSE IF s.rx \in {"idle", "await"} THEN s
        ELSE IF Stuffed(s, bit) THEN CountOnes(s, bit)
        ELSE FieldStep(CountOnes(s, bit), bit)

-----------------------------------------------------------------------------
VARIABLES
    w,   \* the transmitter
    a,   \* the station next downstream
    b    \* the station after it: it receives what a forwards, a bit later

macVars == <<w, a, b>>

\* A station the frames are not for, one that copies them, one that cannot.
NewReceivers == {ReceiverInit(FALSE, TRUE), ReceiverInit(TRUE, TRUE),
                 ReceiverInit(TRUE, FALSE)}

MacInit == /\ w \in {WriterInit(d) : d \in DataLengths}
           /\ a \in NewReceivers
           /\ b \in NewReceivers

Pass(bit) == /\ a' = Take(a, bit)
             /\ b' = Take(b, a.pending)

\* One bit of the stream.
FieldBit == /\ ~w.stuff
            /\ \E byte \in FieldBytes(w),
                  d \in IF Kind(w) = "gap" THEN DataLengths ELSE {w.dlen} :
                  /\ w' = WriteBit(w, byte, d)
                  /\ Pass(BitOf(w, byte))

StuffedBit == /\ w.stuff
              /\ w' = WriteStuffed(w) /\ Pass(0)

\* The transmitter's relay opens in the middle of its frame: the rest of it
\* never comes, the line idles and later carries another frame.
CutOff == /\ w.part > 3
          /\ w' = WriterInit(w.dlen)
          /\ Pass(0)

MacNext == FieldBit \/ StuffedBit \/ CutOff

MacSpec == MacInit /\ [][MacNext]_macVars

-----------------------------------------------------------------------------

Least(x, y) == IF x <= y THEN x ELSE y

\* What station a captures is what was written, byte for byte and as many as
\* its buffer holds; none is made of a separator's bits or of stuffing.
CapturedAsSent ==
    w.part > 5 =>
        /\ a.bytes = Least(w.count, Capacity)
        /\ a.overrun <=> w.count > Capacity
        /\ w.count \in 1 .. Capacity => a.last = w.last
        /\ w.part > 7 => a.headerBytes = Least(HeaderBytes, Capacity)

\* Once the frame has passed both, the late acknowledge has odd parity and
\* tells which of the two took it.
LateAckRight ==
    w.part = 12 /\ w.pos > 0 =>
        /\ OnesIn(b.late) % 2 = 1
        /\ (b.late \div 64) % 2 = 1 <=> \E r \in {a, b} : r.mine /\ r.enabled
        /\ (b.late \div 32) % 2 = 1 <=> \E r \in {a, b} : r.mine /\ ~r.enabled
        /\ (b.late \div 8) % 2 = 1 <=> \E r \in {a, b} : r.mine
=============================================================================
