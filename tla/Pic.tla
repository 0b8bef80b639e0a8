-------------------------------- MODULE Pic ---------------------------------
(***************************************************************************)
(* One interrupt controller, src/core/device/ap_i8259.c, as operators on   *)
(* the record that stands for ap_i8259_t.  A register of eight bits is the *)
(* set of the levels whose bit is set.  The vector base and which register *)
(* a status read shows are data that no step here depends on.              *)
(***************************************************************************)
EXTENDS Integers

CONSTANT Levels   \* AP_I8259_LEVELS

ASSUME LevelsAssumption == Levels \in Nat \ {0, 1}

Level == 0 .. Levels - 1

\* What resolve and highest_in_service answer when no level qualifies.
NoLevel == -1

Pics == [irr : SUBSET Level, isr : SUBSET Level, imr : SUBSET Level,
         pins : SUBSET Level,
         top  : Level,               \* highest_priority
         ltim : BOOLEAN,             \* level_triggered
         sngl : BOOLEAN,             \* single
         ic4  : BOOLEAN,             \* expect_icw4
         aeoi : BOOLEAN,             \* auto_eoi
         sfnm : BOOLEAN,             \* special_fully_nested
         arot : BOOLEAN,             \* auto_rotate
         smm  : BOOLEAN,             \* special_mask
         poll : BOOLEAN,             \* poll_pending
         init : {"icw2", "icw3", "icw4", "ready"}]  \* init_state

\* ap_i8259_init: powered on, everything masked until ICW1.
PicInit == [irr |-> {}, isr |-> {}, imr |-> Level, pins |-> {}, top |-> 0,
            ltim |-> FALSE, sngl |-> FALSE, ic4 |-> FALSE, aeoi |-> FALSE,
            sfnm |-> FALSE, arot |-> FALSE, smm |-> FALSE, poll |-> FALSE,
            init |-> "icw2"]

\* begin_initialization.  The pins are wires and stay; the latched requests go.
Icw1(p, ltim, sngl, ic4) ==
    [p EXCEPT !.ltim = ltim, !.sngl = sngl, !.ic4 = ic4, !.irr = {}, !.imr = {},
              !.isr = {}, !.top = 0, !.smm = FALSE, !.arot = FALSE,
              !.poll = FALSE, !.aeoi = @ /\ ic4, !.sfnm = @ /\ ic4,
              !.init = "icw2"]

\* A write to the odd address: the next initialization word, or the mask.
WriteOdd(p, mask, aeoi, sfnm) ==
    CASE p.init = "icw2"  -> [p EXCEPT !.init = IF ~p.sngl THEN "icw3"
                                                ELSE IF p.ic4 THEN "icw4" ELSE "ready"]
      [] p.init = "icw3"  -> [p EXCEPT !.init = IF p.ic4 THEN "icw4" ELSE "ready"]
      [] p.init = "icw4"  -> [p EXCEPT !.aeoi = aeoi, !.sfnm = sfnm, !.init = "ready"]
      [] p.init = "ready" -> [p EXCEPT !.imr = mask]

\* ap_i8259_set_request.  In level mode the request follows the wire; in edge
\* mode a rise latches it and a fall withdraws it.
SetRequest(p, l, asserted) ==
    [p EXCEPT !.pins = IF asserted THEN @ \cup {l} ELSE @ \ {l},
              !.irr  = IF ~asserted THEN @ \ {l}
                       ELSE IF p.ltim \/ l \notin p.pins THEN @ \cup {l}
                       ELSE @]

Moved(p, l, asserted) == asserted # (l \in p.pins)

Requests(p) == p.irr \ p.imr

Blocking(p) == IF p.smm THEN p.isr \ p.imr ELSE p.isr

\* The first of a set of levels in the order of priority, which starts at top.
Rank(p, l) == (l + Levels - p.top) % Levels

First(p, S) == CHOOSE l \in S : \A k \in S : Rank(p, l) <= Rank(p, k)

\* ap_i8259_interrupt_pending, by resolve: the first level that requests or is
\* in service requests, and is not in service unless specially fully nested.
Pending(p) ==
    LET f == First(p, Requests(p) \cup Blocking(p))
    IN  /\ Requests(p) # {}
        /\ f \in Requests(p)
        /\ f \in Blocking(p) => p.sfnm

\* resolve
Resolve(p) == IF Pending(p) THEN First(p, Requests(p) \cup Blocking(p))
              ELSE NoLevel

\* Mutant of Serve: a level that is still requested is not set in service.
ServeWithoutIsr(p, l) ==
    [p EXCEPT !.irr = (@ \ {l}) \cup (IF p.ltim THEN p.pins ELSE {})]

\* A level goes from requested to in service; in level mode its wire asks again.
Serve(p, l) ==
    [p EXCEPT !.isr = @ \cup {l},
              !.irr = (@ \ {l}) \cup (IF p.ltim THEN p.pins ELSE {})]

\* highest_in_service
HighestInService(p) == IF Blocking(p) = {} THEN NoLevel ELSE First(p, Blocking(p))

\* The end of a level's service, with the priority rotated below it on demand.
EndService(p, l, rotate) ==
    IF l = NoLevel THEN p
    ELSE [p EXCEPT !.isr = @ \ {l},
                   !.top = IF rotate THEN (l + 1) % Levels ELSE @]

\* write_ocw2 with EOI set: specific, or of the highest level in service.
Eoi(p, specific, l, rotate) ==
    EndService(p, IF specific THEN l ELSE HighestInService(p), rotate)

\* write_ocw2 without EOI: set priority.
SetPriority(p, l) == [p EXCEPT !.top = (l + 1) % Levels]

\* write_ocw3
SpecialMask(p, on) == [p EXCEPT !.smm = on]

PollCommand(p) == [p EXCEPT !.poll = TRUE]

\* ap_i8259_read of the even address after a poll command.
PollRead(p) ==
    LET q == [p EXCEPT !.poll = FALSE]
    IN  IF Pending(q) THEN Serve(q, Resolve(q)) ELSE q

\* ap_i8259_acknowledge_first and _second: without a request the level is the
\* last one and nothing goes into service.
Acknowledge(p) ==
    LET q == IF Pending(p) THEN Serve(p, Resolve(p)) ELSE p
    IN  IF q.aeoi THEN EndService(q, HighestInService(q), q.arot) ELSE q

AcknowledgedLevel(p) == IF Pending(p) THEN Resolve(p) ELSE Levels - 1
=============================================================================
