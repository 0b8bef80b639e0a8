----------------------------- MODULE TokenRing ------------------------------
(***************************************************************************)
(* The Domain ring of a multi-node machine: the shared segment (RingMedium *)
(* ), one station per node (RingStation) and the part of each node's ring  *)
(* controller, src/core/device/ap_ring_ctl.c, that starts and finishes     *)
(* frames.  The nodes share one ap_ring_sched_t, so a bit time is the bit  *)
(* clock and then every node's board_ring_step; a host writes controller   *)
(* registers between two bit times (src/frontend/headless/main.c).         *)
(***************************************************************************)
EXTENDS RingStation, FiniteSets

CONSTANTS
    Warm,        \* TRUE: every relay closed and one free token on the ring, as
                 \* ap_ring_probe.c builds it; FALSE: as the boards power up
    Senders,     \* the nodes whose hosts transmit
    Dests,       \* the destinations hosts send to
    DataKinds,   \* whether the frames carry data: a subset of BOOLEAN
    NctValues,   \* the values hosts write to MISC_CMD's nct bit
    Resettable,  \* the nodes whose hosts write BOARD_RESET
    MaxRelays,   \* bound: how many times hosts write MISC_CMD or BOARD_RESET
    MaxTorn      \* bound: how many late acknowledges a host's RCV_CMD has torn
                 \* in two, of the last frames of all nodes

ASSUME ConfigAssumption == /\ Warm \in BOOLEAN
                           /\ Senders \subseteq Nodes
                           /\ Dests \subseteq Nodes \cup {Broadcast}
                           /\ DataKinds \subseteq BOOLEAN
                           /\ NctValues \subseteq BOOLEAN
                           /\ Resettable \subseteq Nodes
                           /\ MaxRelays \in Nat
                           /\ MaxTorn \in Nat

VARIABLES
    m,        \* the medium
    st,       \* station of each node
    ctl,      \* controller of each node
    taken,    \* history: taken[j][i] is how often node i copied the frame
              \* node j has queued last
    torn,     \* history: the senders of the last queued frames in whose late
              \* acknowledge a receiver was enabled or shut half way
    cut,      \* history: a relay was moved while a frame was on the ring
    relays    \* relay operations so far

vars == <<m, st, ctl, taken, torn, cut, relays>>

-----------------------------------------------------------------------------
(* The controller.                                                         *)

\* XMIT_STAT's pe, cpd, wak and icp.  With pe set, bit 12 reads ern, not icp.
StatusBits == {"pe", "cpd", "wak", "icp"}

Controllers == [connected : BOOLEAN,            \* a2.connected
                xmitEn    : BOOLEAN,            \* a2.xmit_enabled
                deferred  : BOOLEAN,            \* a2.completion_deferred
                ackSeen   : BOOLEAN,            \* tx_ack_seen
                status    : SUBSET StatusBits]  \* a2.xmit_status

CtlInit == [connected |-> Warm, xmitEn |-> FALSE, deferred |-> FALSE,
            ackSeen |-> FALSE, status |-> {}]

\* The late acknowledge as XMIT_STAT shows it.
StatusOf(ack) == {b \in StatusBits : \/ b = "cpd" /\ "copied" \in ack
                                     \/ b = "wak" /\ "wack" \in ack
                                     \/ b = "icp" /\ "icopy" \in ack}

\* Mutant of Finishes: only an acknowledge ends a transmit.
FinishesByAckOnly(c, s) == c.deferred /\ Transmitted(s) /\ s.ackValid

\* A deferred transmit is over when its acknowledge is back, or when the
\* station gave up stripping without one.
Finishes(c, s) == c.deferred /\ Transmitted(s) /\ (s.ackValid \/ ~s.strip)

FinishDeferred(c, s) ==
    IF ~Finishes(c, s) THEN c
    ELSE [c EXCEPT !.deferred = FALSE, !.xmitEn = FALSE,
                   !.status = IF s.ackValid THEN @ ELSE {"pe", "icp"}]

ReadAck(c, s) ==
    IF c.ackSeen \/ ~s.ackValid THEN c
    ELSE [c EXCEPT !.ackSeen = TRUE,
                   !.status = (@ \cap {"pe"}) \cup StatusOf(s.ack)]

\* ap_ring_ctl_poll_ring's effect on the controller.
PollRing(c, s) == ReadAck(FinishDeferred(c, s), s)

\* A bypassed station hears itself round a loop of two cells.  What it drives
\* of its own comes back whole, but no character survives being forwarded
\* round a loop shorter than itself.
ShortLoop(s, bypassed) == IF bypassed THEN [s EXCEPT !.pending = Zero] ELSE s

\* ... and on the station: a frame just copied shuts the receiver until the
\* host re-arms it, because one RCV_CMD takes one packet.
ShutReceiver(s, copied) == IF copied THEN [s EXCEPT !.enabled = FALSE] ELSE s

\* The places on the ring that hold a symbol of `kinds` which will still
\* travel: the cables, the symbol a station is about to originate, and the one
\* a station that neither strips nor originates is about to forward.
PlacesOf(kinds) ==
         (UNION {{<<"line", i, k>> : k \in {k \in DOMAIN m.line[i] :
                                               m.line[i][k].kind \in kinds}} :
                 i \in Nodes})
    \cup {<<"driven", i, 0>> : i \in {i \in Nodes : /\ ~m.bypassed[i]
                                                  /\ m.driving[i].kind \in kinds}}
    \cup {<<"orig", i, 0>> : i \in {i \in Nodes : st[i].orig.kind \in kinds}}
    \cup {<<"pending", i, 0>> : i \in {i \in Nodes : /\ ~st[i].strip
                                                   /\ ~Originating(st[i])
                                                   /\ st[i].pending.kind \in kinds}}

FrameKinds == {"claimed", "start", "sep", "header", "data", "check", "late"}

-----------------------------------------------------------------------------
Init ==
    /\ m = MediumInit(Zero, [i \in Nodes |-> ~Warm])
    /\ st = [i \in Nodes |-> IF Warm /\ i = 0 THEN Originate(StationInit, Free)
                             ELSE StationInit]
    /\ ctl = [i \in Nodes |-> CtlInit]
    /\ taken = [j \in Nodes |-> [i \in Nodes |-> 0]]
    /\ torn = {}
    /\ cut = FALSE
    /\ relays = 0

\* What the stations make of the symbol each has sampled, heard.  A symbol is
\* several bits long, and a host may write RCV_CMD between two of them: wackOn and
\* copyOn are the nodes whose receivers are enabled at the second and at the third
\* of the three looks of a late acknowledge.
StationsTake(heard, wackOn, copyOn) ==
    LET took    == {i \in Nodes : Copies(heard[i], m'.received[i], i \in copyOn)}
        left(i) == [Track(heard[i], m'.received[i], i, i \in wackOn)
                       EXCEPT !.enabled = i \in copyOn]
    IN  /\ st' = [i \in Nodes |->
                    ShortLoop(ShutReceiver(left(i), i \in took), m.bypassed[i])]
        /\ ctl' = [i \in Nodes |-> PollRing(ctl[i], st'[i])]
        /\ taken' = [j \in Nodes |-> [i \in Nodes |->
                       IF st[i].src = j /\ i \in took THEN taken[j][i] + 1
                       ELSE taken[j][i]]]
        /\ torn' = torn \cup {st[i].src : i \in {i \in Nodes :
                       ~(st[i].enabled <=> i \in wackOn) \/ ~(st[i].enabled <=> i \in copyOn)}}

\* One bit time.  The bit clock goes first; the nodes' steps touch only their
\* own slot, so their order within the bit time cannot be seen.
BitTime ==
    /\ m' = [Advance(m, Zero) EXCEPT !.driving = [i \in Nodes |-> Driven(st[i])]]
    /\ LET heard  == [i \in Nodes |-> Sampled(Drive(st[i]), m'.received[i])]
           on     == {i \in Nodes : st[i].enabled}
           asked  == {i \in Nodes : Answers(heard[i], m'.received[i])}
           writes == {(on \ asked) \cup X : X \in SUBSET asked}
       IN  \E wackOn, copyOn \in writes :
               StationsTake(heard, wackOn, copyOn) /\ Cardinality(torn') <= MaxTorn
    /\ UNCHANGED <<cut, relays>>

\* XMIT_CMD with a transmit in its command lane, on a connected controller
\* that has no transmit enabled.  Disconnected, the command completes at once
\* and touches nothing modelled here.  The host takes longer to answer
\* a completion than the one bit time that stripping goes on after it.
TransmitCmd(i, to, hasData) ==
    /\ i \in Senders /\ to # i
    /\ ctl[i].connected /\ ~ctl[i].xmitEn
    /\ ~st[i].strip
    /\ st' = [st EXCEPT ![i] = QueueFrame(@, FrameEmit(i, to, hasData))]
    /\ ctl' = [ctl EXCEPT ![i].xmitEn = TRUE, ![i].deferred = TRUE,
                          ![i].ackSeen = FALSE, ![i].status = {}]
    /\ taken' = [taken EXCEPT ![i] = [k \in Nodes |-> 0]]
    /\ torn' = torn \ {i}
    /\ UNCHANGED <<m, cut, relays>>

\* RCV_CMD: the receive enable bit.
ReceiveCmd(i, on) ==
    /\ st[i].enabled # on
    /\ st' = [st EXCEPT ![i].enabled = on]
    /\ UNCHANGED <<m, ctl, taken, torn, cut, relays>>

\* MISC_CMD: nct connects the controller and opens or closes its relay.
MiscCmd(i, nct) ==
    /\ relays < MaxRelays
    /\ relays' = relays + 1
    /\ ctl' = [ctl EXCEPT ![i].connected = nct]
    /\ m' = SetBypass(m, i, ~nct)
    /\ cut' = (cut \/ (m' # m /\ (\/ PlacesOf(FrameKinds) # {}
                                  \/ \E j \in Nodes : st[j].strip)))
    /\ UNCHANGED <<st, taken, torn>>

\* BOARD_RESET through ring_ctl_reset_registers: of the state modelled here
\* it clears only `connected`.
BoardReset(i) ==
    /\ relays < MaxRelays
    /\ relays' = relays + 1
    /\ ctl' = [ctl EXCEPT ![i].connected = FALSE]
    /\ UNCHANGED <<m, st, taken, torn, cut>>

HostStep(i) == \/ \E to \in Dests, d \in DataKinds : TransmitCmd(i, to, d)
               \/ \E on \in BOOLEAN : ReceiveCmd(i, on)
               \/ \E nct \in NctValues : MiscCmd(i, nct)

Next == \/ BitTime
        \/ \E i \in Nodes : HostStep(i)
        \/ \E i \in Resettable : BoardReset(i)

Spec == Init /\ [][Next]_vars /\ WF_vars(BitTime)

-----------------------------------------------------------------------------

\* The stations that hold the ring and owe it a free token.
Owners == {i \in Nodes : st[i].strip /\ st[i].armed}

\* The ring is never without its token and never has two: claiming turns the
\* one free token into an owner, and the owner's last symbol into a token.
TokenConserved == Cardinality(PlacesOf({"free"})) + Cardinality(Owners) = 1

\* Nothing of a frame outlives its transmitter's stripping: with no station
\* stripping, only idle cells and the token travel.
NoOrphans == (\A i \in Nodes : ~st[i].strip) => PlacesOf(FrameKinds) = {}

\* A claimed token travels and no station strips, so nobody will take it off,
\* and it holds off every station's loss timer.
Ownerless == (\A i \in Nodes : ~st[i].strip) /\ PlacesOf({"claimed"}) # {}

\* Relays that open and close between two frames, however often the free token
\* is lost, doubled or forced by that, never leave a claimed token ownerless.
ClaimedHasOwner == ~cut => ~Ownerless

\* On a ring that never loses its token both timeouts stay unused: every
\* transmitter sees its frame back and nobody forces a second token.
NoTimeouts == \A i \in Nodes : ~st[i].timedOut /\ ~st[i].forced

Dest(j) == st[j].tx[3].dest

\* A frame is copied at most once by whom it is addressed to and by nobody
\* else, its own sender included.
DeliveredOnce ==
    \A j \in Nodes : Len(st[j].tx) > 0 =>
        \A i \in Nodes : taken[j][i] <= IF Dest(j) \in {i, Broadcast} /\ i # j
                                        THEN 1 ELSE 0

\* The status a host reads tells the truth: cpd exactly when the addressed
\* node copied the frame, wak exactly when it was reached and had not.  The one
\* exception is a receiver enabled or shut while the bits of that acknowledge
\* went past: the station looks three times and its looks then differ.
AckTruth ==
    \A j \in Nodes : ctl[j].ackSeen /\ j \notin torn =>
        LET n == Cardinality({i \in Nodes : taken[j][i] = 1})
        IN  /\ "cpd" \in ctl[j].status <=> n > 0
            /\ Dest(j) # Broadcast => ("wak" \in ctl[j].status <=> n = 0)

\* Station i took the start of another frame, a stray one, for its own and stopped
\* stripping before it had sent all of its frame: nothing will finish it now.
Abandoned(i) == st[i].armed /\ ~st[i].strip /\ ~st[i].wants

\* Every transmit command a controller accepts is finished, by an acknowledge
\* or by an error return, while relays open and close between frames.  Once a
\* relay has cut a frame in two a command may wait for ever, but only behind an
\* ownerless token or with its frame abandoned.
CommandsFinish ==
    \A i \in Nodes : <>[](ctl[i].deferred) => <>[](cut /\ (Ownerless \/ Abandoned(i)))
=============================================================================
