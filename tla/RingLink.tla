------------------------------ MODULE RingLink ------------------------------
(***************************************************************************)
(* The socket link that carries a ring segment between two processes       *)
(* (ap_ring_link.c).  Each exchange writes a whole batch, in as many       *)
(* pieces as the socket takes, and then reads a whole batch, in as many as *)
(* come; an interrupted call is tried again and is no step here.  A        *)
(* process may end at any moment and its descriptor close with it.         *)
(*                                                                         *)
(* The socket is external: a buffer in each direction, a write that fails  *)
(* or is lost once the far end has closed, a read that returns nothing     *)
(* once what that end left has been taken.                                 *)
(***************************************************************************)
EXTENDS Naturals, Sequences

CONSTANTS Ends,       \* the two processes
          Bits,       \* cable_bits, the same at both
          Room,       \* what the socket buffers hold in one direction
          Drivable,   \* the bytes of the cells this version of the format drives
          Foreign,    \* bytes of another version, with reserved bits set
          MaxBatches  \* bound of the model: the exchanges each end starts

\* A batch fits in the socket's buffers (64 bytes at most), or the two writes
\* wait for each other.
ASSUME LinkAssumption == /\ \E a, b \in Ends : a # b /\ Ends = {a, b}
                         /\ Bits \in 1 .. 64 /\ Room \in Nat /\ Room >= Bits
                         /\ Drivable \subseteq 0 .. 3
                         /\ Foreign \subseteq Nat /\ Foreign \cap (0 .. 3) = {}
                         /\ MaxBatches \in Nat

VARIABLES at,      \* where an end is: outside, sending, or receiving
          out,     \* what is left of the batch to write
          in,      \* what has been read of the batch that comes
          failed,  \* failed
          open,    \* whether the process is there
          wire,    \* by end, the bytes that wait for it
          driven, seen \* the batches each end gave and was given, so far

linkVars == <<at, out, in, failed, open, wire, driven, seen>>

Peer(e) == CHOOSE p \in Ends : p # e
Fewest(a, b) == IF a < b THEN a ELSE b
Busy(e) == at[e] # "outside"

\* Each byte is a cell's two windows, or has reserved bits set.
Batches == [1 .. Bits -> Drivable] \cup [1 .. Bits -> Foreign]

\* ap_ring_link_init at both ends
LinkInit == /\ at = [e \in Ends |-> "outside"]
            /\ out = [e \in Ends |-> <<>>] /\ in = [e \in Ends |-> <<>>]
            /\ failed = [e \in Ends |-> FALSE] /\ open = [e \in Ends |-> TRUE]
            /\ wire = [e \in Ends |-> <<>>]
            /\ driven = [e \in Ends |-> <<>>] /\ seen = [e \in Ends |-> <<>>]

\* ap_ring_link_exchange begins.  A link that has failed refuses.
Exchange(e, batch) ==
    /\ open[e] /\ at[e] = "outside" /\ ~failed[e] /\ Len(driven[e]) < MaxBatches
    /\ at' = [at EXCEPT ![e] = "sending"]
    /\ out' = [out EXCEPT ![e] = batch]
    /\ driven' = [driven EXCEPT ![e] = Append(@, batch)]
    /\ UNCHANGED <<in, failed, open, wire, seen>>

Fail(e) ==
    /\ failed' = [failed EXCEPT ![e] = TRUE]
    /\ at' = [at EXCEPT ![e] = "outside"]
    /\ UNCHANGED <<out, in, open, wire, driven, seen>>

\* write_all, one write of it.  Once the far end is gone the bytes go nowhere.
Wrote(e, n) ==
    /\ out' = [out EXCEPT ![e] = SubSeq(@, n + 1, Len(@))]
    /\ at' = [at EXCEPT ![e] = IF n = Len(out[e]) THEN "receiving" ELSE @]
    /\ wire' = IF open[Peer(e)]
               THEN [wire EXCEPT ![Peer(e)] = @ \o SubSeq(out[e], 1, n)] ELSE wire
    /\ UNCHANGED <<in, failed, open, driven, seen>>

SendSome(e) ==
    /\ open[e] /\ at[e] = "sending"
    /\ \/ \E n \in 1 .. Len(out[e]) :
            (open[Peer(e)] => n <= Room - Len(wire[Peer(e)])) /\ Wrote(e, n)
       \/ ~open[Peer(e)] /\ Fail(e)

\* Mutant of Finished: the read that came short is taken for the batch.
FinishedShort(e, bytes) == bytes # <<>>

\* The batch is complete.
Finished(e, bytes) == Len(bytes) = Bits

\* read_all, one read of it, and what ap_ring_link_recv does with the last.
Read(e, n) ==
    \E bytes \in {in[e] \o SubSeq(wire[e], 1, n)} :
      LET done == Finished(e, bytes)
          good == \A i \in DOMAIN bytes : bytes[i] < 4
      IN  /\ wire' = [wire EXCEPT ![e] = SubSeq(@, n + 1, Len(@))]
          /\ in' = [in EXCEPT ![e] = IF done THEN <<>> ELSE bytes]
          /\ at' = [at EXCEPT ![e] = IF done THEN "outside" ELSE @]
          /\ seen' = [seen EXCEPT ![e] = IF done /\ good THEN Append(@, bytes) ELSE @]
          /\ failed' = [failed EXCEPT ![e] = done /\ ~good]
          /\ UNCHANGED <<out, open, driven>>

\* Mutant of Gone: a read that returns nothing is tried again.
GoneAgain(e) == FALSE

\* The read that finds the far end gone.
Gone(e) == wire[e] = <<>> /\ ~open[Peer(e)]

ReceiveSome(e) ==
    /\ open[e] /\ at[e] = "receiving"
    /\ \/ \E n \in 1 .. Fewest(Len(wire[e]), Bits - Len(in[e])) : Read(e, n)
       \/ Gone(e) /\ Fail(e)

\* A process ends, in the middle of an exchange too.  What it had not read is
\* gone with it, and some of what the other had not read may be.
Close(e) ==
    /\ open[e]
    /\ open' = [open EXCEPT ![e] = FALSE]
    /\ \E kept \in 0 .. Len(wire[Peer(e)]) :
         wire' = [wire EXCEPT ![e] = <<>>, ![Peer(e)] = SubSeq(@, 1, kept)]
    /\ UNCHANGED <<at, out, in, failed, driven, seen>>

LinkNext == \E e \in Ends : \/ \E batch \in Batches : Exchange(e, batch)
                            \/ SendSome(e) \/ ReceiveSome(e) \/ Close(e)

LinkSpec == LinkInit /\ [][LinkNext]_linkVars

\* A call that can go on goes on: the kernel moves the bytes it has room for.
\* Nothing makes an end start an exchange, or close.
FairSpec == LinkSpec /\ \A e \in Ends : WF_linkVars(SendSome(e)) /\ WF_linkVars(ReceiveSome(e))

-----------------------------------------------------------------------------
Wire == INSTANCE Cable WITH drove <- driven, saw <- seen, Cells <- 0 .. 3,
                            up <- [e \in Ends |-> ~failed[e]]

\* The link is a cable: however the writes and reads are cut, and wherever an end
\* goes away, each end sees what the other drove over the same bit times, in lock-
\* step, nothing of a foreign format, and nothing after its link has failed
\* (write_all, read_all and the reserved bits).
LinkIsACable == Wire!Spec

\* An exchange returns, with a batch or with a failure, once the other end has
\* begun the same one or is gone: the two writes never wait for each other, and
\* an end that goes away in the middle of a batch does not leave the other
\* waiting (ap_ring_link_exchange).
ExchangeEnds ==
    \A e \in Ends :
      Busy(e) /\ open[e] /\ (~open[Peer(e)] \/ Len(driven[Peer(e)]) >= Len(driven[e]))
        ~> ~Busy(e) \/ ~open[e]
=============================================================================
