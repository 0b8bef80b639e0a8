------------------------------- MODULE Cable --------------------------------
(***************************************************************************)
(* What a link between two emulators promises (ap_ring_link.h): it is a    *)
(* cable.  What one end sees over a stretch of bit times is what the other *)
(* drove over the same stretch, neither end runs ahead, and an end whose   *)
(* link has failed sees nothing more.                                      *)
(***************************************************************************)
EXTENDS Naturals, Sequences

CONSTANTS Ends, Cells

VARIABLES drove,  \* the stretches each end has driven, oldest first
          saw,    \* the stretches it has been shown
          up      \* whether its link is still good

OtherEnd(e) == CHOOSE p \in Ends : p # e

Init == /\ drove = [e \in Ends |-> <<>>]
        /\ saw = [e \in Ends |-> <<>>]
        /\ up = [e \in Ends |-> TRUE]

\* An end drives the next stretch only when it has seen the last.
Drive(e, cells) ==
    /\ up[e] /\ Len(drove[e]) = Len(saw[e])
    /\ drove' = [drove EXCEPT ![e] = Append(@, cells)]
    /\ UNCHANGED <<saw, up>>

See(e) ==
    LET k == Len(saw[e]) + 1
        p == OtherEnd(e)
    IN  /\ up[e] /\ k = Len(drove[e]) /\ k <= Len(drove[p])
        /\ \A i \in DOMAIN drove[p][k] : drove[p][k][i] \in Cells
        /\ saw' = [saw EXCEPT ![e] = Append(@, drove[p][k])]
        /\ UNCHANGED <<drove, up>>

Fail(e) == up[e] /\ up' = [up EXCEPT ![e] = FALSE] /\ UNCHANGED <<drove, saw>>

Next == \E e \in Ends : \/ See(e)
                        \/ Fail(e)
                        \/ /\ drove'[e] # drove[e]
                           /\ Drive(e, drove'[e][Len(drove'[e])])

Spec == Init /\ [][Next]_<<drove, saw, up>>
=============================================================================
