----------------------------- MODULE RingMedium -----------------------------
(***************************************************************************)
(* The shared ring segment, src/core/ring/ap_ring_medium.c, as operators   *)
(* on the record that stands for ap_ring_medium_t with every slot of the   *)
(* segment attached.  A cell is whatever the stations put on the cable: a  *)
(* bit in the code, a symbol in TokenRing.                                 *)
(***************************************************************************)
EXTENDS Integers, Sequences

CONSTANTS
    NodeCount,   \* attached slots, in cable order
    Cable        \* cable_bits: delay of the cable leaving each slot

Nodes == 0 .. NodeCount - 1

ASSUME SegmentAssumption == /\ NodeCount \in Nat \ {0}
                            /\ Cable \in [Nodes -> Nat]

\* The type of a medium carrying cells of Cell.
Media(Cell) ==
    [bypassed : [Nodes -> BOOLEAN],
     driving  : [Nodes -> Cell],
     line     : [Nodes -> Seq(Cell)],
     received : [Nodes -> Cell]]

\* ap_ring_medium_attach, ap_ring_medium_set_cable_bits: a fresh segment
\* carries the idle cell everywhere.
MediumInit(idle, bypassed) ==
    [bypassed |-> bypassed,
     driving  |-> [i \in Nodes |-> idle],
     line     |-> [i \in Nodes |-> [k \in 1 .. Cable[i] |-> idle]],
     received |-> [i \in Nodes |-> idle]]

\* ap_ring_medium_set_bypass
SetBypass(m, i, b) == [m EXCEPT !.bypassed[i] = b]

\* attached_upstream_of
Upstream(i) == (i + NodeCount - 1) % NodeCount

\* Where the walk of one bit time starts: the first station in the ring, or
\* slot 0 when every relay is shorted.
FirstInRing(m) ==
    LET inRing == {i \in Nodes : ~m.bypassed[i]}
    IN  IF inRing = {} THEN 0 ELSE CHOOSE i \in inRing : \A j \in inRing : i <= j

\* ap_ring_medium_advance, one bit time.  Every delay line is read before any
\* is written.  A station in the ring puts what it drives on its cable, a
\* bypassed one puts through what reached it, at no delay of its own.  Then
\* each station receives its upstream cable's output, or, bypassed, itself.
Advance(m, idle) ==
    LET At(k)     == (FirstInRing(m) + k) % NodeCount
        Head1(i)  == IF Cable[i] > 0 THEN Head(m.line[i]) ELSE idle
        out[k \in Nodes] ==          \* from_cable of the k-th node walked
            LET i == At(k)
            IN  IF Cable[i] > 0 THEN Head(m.line[i])
                ELSE IF ~m.bypassed[i] THEN m.driving[i]
                ELSE IF k = 0 THEN Head1(Upstream(i))
                ELSE out[k - 1]
        in(k)     == IF ~m.bypassed[At(k)] THEN m.driving[At(k)]
                     ELSE IF k = 0 THEN Head1(Upstream(At(k)))
                     ELSE out[k - 1]
        StepOf(i) == CHOOSE k \in Nodes : At(k) = i
    IN  [m EXCEPT
           !.line = [i \in Nodes |-> IF Cable[i] > 0
                                     THEN Append(Tail(m.line[i]), in(StepOf(i)))
                                     ELSE <<>>],
           !.received = [i \in Nodes |-> IF m.bypassed[i] THEN m.driving[i]
                                         ELSE out[StepOf(Upstream(i))]]]
=============================================================================
