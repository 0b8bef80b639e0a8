---------------------------- MODULE MCTokenRing -----------------------------
(***************************************************************************)
(* TokenRing on small segments for TLC, warm with every relay closed and   *)
(* cold from power-up.  The fairness of the bit clock is stated so that    *)
(* TLC can check it cheaply: tick is the parity of the medium's bit_time.  *)
(* That it goes on flipping says that bit times go on, and TLC need not    *)
(* compute a whole bit time to learn that one is enabled, which it always  *)
(* is.  Where no liveness is checked tick stands still.                    *)
(***************************************************************************)
EXTENDS TokenRing

\* One symbol of cable after slot 0, none after the others.
OneLongCable == [i \in Nodes |-> IF i = 0 THEN 1 ELSE 0]

VARIABLE tick

TickInit == Init /\ tick = 0

SafetySpec == TickInit /\ [][Next /\ UNCHANGED tick]_<<vars, tick>>

Tick == tick' = 1 - tick

LiveNext == \/ BitTime /\ Tick
            \/ \E i \in Nodes : HostStep(i) /\ UNCHANGED tick
            \/ \E i \in Resettable : BoardReset(i) /\ UNCHANGED tick

LiveSpec == TickInit /\ [][LiveNext]_<<vars, tick>> /\ WF_tick(Tick)
=============================================================================
