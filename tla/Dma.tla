-------------------------------- MODULE Dma ---------------------------------
(***************************************************************************)
(* One DMA controller, src/core/device/ap_i8237.c, as operators on the     *)
(* record that stands for ap_i8237_t.  A register of four bits is the set  *)
(* of the channels whose bit is set.  The addresses a transfer drives, the *)
(* status register's terminal-count bits, the memory-to-memory command and *)
(* the pins' polarity are left out: nothing here depends on them.  A word  *)
(* is two bytes of Byte values each, so that it wraps.                     *)
(***************************************************************************)
EXTENDS Integers, FiniteSetsExt

CONSTANT Byte   \* the values of one byte; 256 in the part

ASSUME ByteAssumption == Byte \in Nat \ {0}

Channels  == 0 .. 3
NoChannel == -1
Word      == 0 .. Byte * Byte - 1

Modes     == {"demand", "single", "block", "cascade"}
Transfers == {"verify", "write", "read", "illegal"}
ChannelState == [mode : Modes, transfer : Transfers, auto : BOOLEAN,
                 base : Word, count : Word]   \* of the word count

Controllers == [dreq : SUBSET Channels, request : SUBSET Channels,
                mask : SUBSET Channels, disabled : BOOLEAN, high : BOOLEAN,
                ch : [Channels -> ChannelState]]

\* ap_i8237_reset: every channel masked.
DmaReset == [dreq |-> {}, request |-> {}, mask |-> Channels, disabled |-> FALSE,
             high |-> FALSE,
             ch |-> [c \in Channels |->
                       [mode |-> "demand", transfer |-> "verify", auto |-> FALSE,
                        base |-> 0, count |-> 0]]]

WriteMode(d, c, mode, transfer, auto) ==
    [d EXCEPT !.ch[c].mode = mode, !.ch[c].transfer = transfer, !.ch[c].auto = auto]

\* Half a word count: the flip-flop says which half, the current register is
\* loaded from the base at once, and the flip-flop turns.
WriteCount(d, c, v) ==
    LET base == d.ch[c].base
        new  == IF d.high THEN (v * Byte) + (base % Byte)
                          ELSE (base \div Byte) * Byte + v
    IN  [d EXCEPT !.ch[c].base = new, !.ch[c].count = new, !.high = ~@]

WriteMask(d, c, masked) ==
    [d EXCEPT !.mask = IF masked THEN @ \cup {c} ELSE @ \ {c}]

WriteRequest(d, c, asserted) ==
    [d EXCEPT !.request = IF asserted THEN @ \cup {c} ELSE @ \ {c}]

SetRequestPin(d, c, asserted) ==
    [d EXCEPT !.dreq = IF asserted THEN @ \cup {c} ELSE @ \ {c}]

\* A software request is not masked, and counts only in block mode.
Asking(d) == (d.dreq \ d.mask) \cup {c \in d.request : d.ch[c].mode = "block"}

ServicePending(d) ==
    IF d.disabled \/ Asking(d) = {} THEN NoChannel ELSE Min(Asking(d))

\* Mutant of TerminalCount: a one-shot channel is left unmasked.
TerminalCountOpen(d, c) ==
    LET on == [d EXCEPT !.request = @ \ {c}]
    IN  IF d.ch[c].auto THEN [on EXCEPT !.ch[c].count = d.ch[c].base] ELSE on

\* The request goes down; an autoinitialising channel is loaded again and a
\* one-shot channel masks itself.
TerminalCount(d, c) ==
    LET on == [d EXCEPT !.request = @ \ {c}]
    IN  IF d.ch[c].auto THEN [on EXCEPT !.ch[c].count = d.ch[c].base]
                        ELSE [on EXCEPT !.mask = @ \cup {c}]

\* Whether a service cycle would move anything, and for which channel.
Runs(d) == LET c == ServicePending(d)
           IN  /\ c # NoChannel
               /\ d.ch[c].mode # "cascade"
               /\ d.ch[c].transfer # "illegal"

\* The borrow out of zero is the terminal count.
Expires(d, c) == d.ch[c].count = 0

\* The controller after the service cycle of a channel that runs.
Counted(d, c) ==
    LET down == [d EXCEPT !.ch[c].count = (@ - 1) % (Byte * Byte)]
    IN  IF Expires(d, c) THEN TerminalCount(down, c) ELSE down
=============================================================================
