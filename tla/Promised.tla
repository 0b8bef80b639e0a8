------------------------------ MODULE Promised ------------------------------
(***************************************************************************)
(* What the board is promised by a device whose interrupt line it samples  *)
(* only now and then (ap_board_sample_interrupts and the comment on        *)
(* interrupt_valid_until in src/core/board/ap_board.h): from a sample to   *)
(* the instant given with it the line stays as it is, unless the processor *)
(* reaches a device in between, and then the promise is withdrawn.         *)
(***************************************************************************)
EXTENDS Naturals

VARIABLES line,    \* the device's request
          now,     \* the machine's time
          until    \* interrupt_valid_until

\* A sample, and a new promise, which may have passed already.
Sample == now >= until /\ until' \in Nat /\ UNCHANGED <<line, now>>

\* A register access may do anything to the line.
Touch == until' = 0 /\ line' \in BOOLEAN /\ UNCHANGED now

\* The board's reset takes requests back in the controllers and in the
\* device together, so the stale sample is not wrong about a device that
\* falls silent.
Reset == line' = FALSE /\ UNCHANGED <<now, until>>

\* Time passes.  Until the promised instant it does not move the line.
Pass == /\ now' \in Nat /\ now' > now
        /\ now' < until => line' = line
        /\ line' \in BOOLEAN
        /\ UNCHANGED until

Init == line \in BOOLEAN /\ now \in Nat /\ until = 0
Next == Sample \/ Touch \/ Reset \/ Pass
Spec == Init /\ [][Next]_<<line, now, until>>
=============================================================================
