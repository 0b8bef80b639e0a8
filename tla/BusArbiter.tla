----------------------------- MODULE BusArbiter -----------------------------
(***************************************************************************)
(* Who drives the bus: the board's arbiter, src/core/board/ap_arbiter.c,   *)
(* and the processor's arbitration unit it drives,                         *)
(* src/core/cpu/m68030/ap_m68030_arb.c, as operators on one record.        *)
(*                                                                         *)
(* Each two-bit synchroniser is its newer bit (brLast, ackLast) and its    *)
(* older one, which is the synchronised input (r, a).  BG and the          *)
(* three-state control are functions of the state, and "selected" is       *)
(* always the master.  cycle_committed is never driven by the board.       *)
(***************************************************************************)
EXTENDS Integers, FiniteSetsExt

CONSTANT Requesters   \* AP_ARBITER_REQUESTERS

ASSUME RequestersAssumption == Requesters \in Nat \ {0}

Lines     == 0 .. Requesters - 1
Processor == -1
Phases    == {"none", "first", "locked"}   \* ap_m68030_rmc_t

Arbiters == [request : SUBSET Lines, master : Lines \cup {Processor},
             state : 0 .. 4, rmc : Phases,
             br : BOOLEAN, brLast : BOOLEAN, r : BOOLEAN,
             bgack : BOOLEAN, ackLast : BOOLEAN, a : BOOLEAN]

ArbiterReset == [request |-> {}, master |-> Processor, state |-> 0,
                 rmc |-> "none", br |-> FALSE, brLast |-> FALSE, r |-> FALSE,
                 bgack |-> FALSE, ackLast |-> FALSE, a |-> FALSE]

SetLine(x, drq, asserted) ==
    [x EXCEPT !.request = IF asserted THEN @ \cup {drq} ELSE @ \ {drq}]

\* machine_drive_rmc, through ap_board_set_processor_rmc_state.
SetRmc(x, phase) == [x EXCEPT !.rmc = phase]

HighestRequester(x) == IF x.request = {} THEN Processor ELSE Min(x.request)

ThreeState(x) == x.state # 0
MayRun(x)     == ~ThreeState(x) /\ x.master = Processor

\* Mutant of BusGrant: the state's grant reaches the pin whatever RMC says.
BusGrantRaw(x) == x.state \in {1, 2}

\* The BG pin: the state's grant, kept off the pin while RMC is asserted.
BusGrant(x) == x.state \in {1, 2} /\ x.rmc = "none"

MayGrant(x) == x.rmc # "locked"

\* The five states of the unit and their edges.
NextState(x) ==
    CASE x.state = 0 -> IF x.r /\ MayGrant(x) THEN 1 ELSE IF x.a THEN 4 ELSE 0
      [] x.state = 1 -> 2
      [] x.state = 2 -> IF x.a \/ ~x.r THEN 3 ELSE 2
      [] x.state = 3 -> 4
      [] x.state = 4 -> IF ~x.a THEN 0 ELSE IF x.r /\ MayGrant(x) THEN 1 ELSE 4

\* ap_m68030_arb_tick.  The early return of a unit at rest changes nothing
\* that this would change.
ArbTick(x) == [x EXCEPT !.state = NextState(x),
                        !.r = x.brLast, !.brLast = x.br,
                        !.a = x.ackLast, !.ackLast = x.bgack]

\* Mutant of HandOver: the new master does not assert BGACK.
HandOverUnacknowledged(x) ==
    LET asking == HighestRequester(x)
        asked  == [x EXCEPT !.br = asking # Processor]
    IN  IF x.master = Processor
        THEN IF BusGrant(x) /\ asking # Processor
             THEN [asked EXCEPT !.master = asking]
             ELSE asked
        ELSE IF x.master \notin x.request
             THEN [asked EXCEPT !.master = Processor]
             ELSE asked

\* BR follows the lines.  A granted requester takes the bus, and a master
\* whose line has fallen gives it back.
HandOver(x) ==
    LET asking == HighestRequester(x)
        asked  == [x EXCEPT !.br = asking # Processor]
    IN  IF x.master = Processor
        THEN IF BusGrant(x) /\ asking # Processor
             THEN [asked EXCEPT !.master = asking, !.bgack = TRUE]
             ELSE asked
        ELSE IF x.master \notin x.request
             THEN [asked EXCEPT !.master = Processor, !.bgack = FALSE]
             ELSE asked

ArbiterTick(x) == ArbTick(HandOver(x))
=============================================================================
