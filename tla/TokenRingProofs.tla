--------------------------- MODULE TokenRingProofs ---------------------------
(***************************************************************************)
(* What TokenRing promises of a ring that starts with its token and whose  *)
(* relays stay closed, for every number of nodes, every length of cable    *)
(* and every traffic.                                                      *)
(*                                                                         *)
(* Everything on such a ring stands in an order.  It is described by the   *)
(* distance of each cell to the free token, or, while a node owns the      *)
(* ring, to the place where it will put one.  A symbol and the token move  *)
(* together, so distances change only when a node claims the token and a   *)
(* frame with its claimed token, k symbols, comes between the two.  RingInv*)
(* says what is found at each distance: the frames of the stripping nodes, *)
(* each behind the next one's, each to reach its own node before the token *)
(* behind it does, and idle cells elsewhere.  Everything else, the states  *)
(* of the receivers, the acknowledges and both timers, follows from what   *)
(* a node is about to hear.                                                *)
(***************************************************************************)
EXTENDS TokenRing, FiniteSetTheorems, SequenceTheorems, TLAPS

-----------------------------------------------------------------------------
(* The ring's cells.                                                       *)

\* Where each node's cells begin on the ring: a cell for the symbol it will drive
\* next, one for the symbol it drives, and the cable behind it.
Base[i \in 0 .. NodeCount] == IF i = 0 THEN 0 ELSE Base[i - 1] + 2 + Cable[i - 1]

\* How many cells the ring has.
Loop == Base[NodeCount]

\* The cells, counted from node 0 on.
Places == 0 .. Loop - 1

\* A set of naturals that is not empty has a least element.
LEMMA LeastNat ==
  ASSUME NEW T \in SUBSET Nat, T # {}
  PROVE  \E x \in T : \A y \in T : x <= y
<1> DEFINE R == {ss \in Nat \X Nat : ss[1] < ss[2]}
<1>1. IsWellFoundedOn(R, Nat)
  BY NatLessThanWellFounded DEF OpToRel
<1>2. \E x \in T : \A y \in T : ~ (<<y, x>> \in R)
  <2> HIDE DEF R
  <2> QED BY <1>1, WFMin
<1>3. PICK x \in T : \A y \in T : ~ (<<y, x>> \in R)
  BY <1>2
<1>4. ASSUME NEW y \in T PROVE x <= y
  <2>1. <<y, x>> \in Nat \X Nat /\ ~ (<<y, x>> \in R)
    BY <1>3
  <2> QED BY <2>1
<1> QED BY <1>4

\* Induction up to a bound.
LEMMA UpTo ==
  ASSUME NEW n \in Nat, NEW T, 0 \in T,
         \A k \in 1 .. n : k - 1 \in T => k \in T
  PROVE  \A k \in 0 .. n : k \in T
<1> SUFFICES ASSUME {k \in 0 .. n : k \notin T} # {} PROVE FALSE
  OBVIOUS
<1>1. PICK x \in {k \in 0 .. n : k \notin T} : \A y \in {k \in 0 .. n : k \notin T} : x <= y
  <2> DEFINE W == {k \in 0 .. n : k \notin T}
  <2>1. W \in SUBSET Nat /\ W # {}
    OBVIOUS
  <2> HIDE DEF W
  <2>2. \E x \in W : \A y \in W : x <= y
    BY <2>1, LeastNat
  <2> QED BY <2>2 DEF W
<1>2. x \in 1 .. n /\ x - 1 \in 0 .. n
  BY <1>1
<1>3. x - 1 \in T
  BY <1>1, <1>2
<1> QED BY <1>1, <1>2, <1>3

\* The places add up as the definition says.
IsBase(f, n) == /\ f \in [0 .. n -> Nat] /\ f[0] = 0
                /\ \A i \in 1 .. n : f[i] = f[i - 1] + 2 + Cable[i - 1]

\* The sums of the cells exist, node by node.
LEMMA BaseFacts ==
  /\ NodeCount \in Nat /\ NodeCount >= 1 /\ Cable \in [Nodes -> Nat]
  /\ IsBase(Base, NodeCount)
<1>1. NodeCount \in Nat /\ NodeCount >= 1 /\ Cable \in [Nodes -> Nat]
  BY SegmentAssumption
<1> DEFINE T == {k \in Nat : k <= NodeCount => \E f \in [0 .. k -> Nat] : IsBase(f, k)}
<1>2. 0 \in T
  <2>1. [j \in 0 .. 0 |-> 0] \in [0 .. 0 -> Nat] /\ IsBase([j \in 0 .. 0 |-> 0], 0)
    BY DEF IsBase
  <2> QED BY <2>1
<1>3. ASSUME NEW k \in 1 .. NodeCount, k - 1 \in T PROVE k \in T
  <2>1. PICK f \in [0 .. k - 1 -> Nat] : IsBase(f, k - 1)
    BY <1>1, <1>3
  <2> DEFINE h == [j \in 0 .. k |-> IF j = k THEN f[k - 1] + 2 + Cable[k - 1] ELSE f[j]]
  <2>2. Cable[k - 1] \in Nat /\ f[k - 1] \in Nat
    BY <1>1 DEF Nodes
  <2>3. h \in [0 .. k -> Nat] /\ h[0] = 0
    BY <2>1, <2>2 DEF IsBase
  <2>4. ASSUME NEW i \in 1 .. k PROVE h[i] = h[i - 1] + 2 + Cable[i - 1]
    <3>1. CASE i = k
      BY <3>1
    <3>2. CASE i # k
      <4>1. i \in 1 .. k - 1 /\ i - 1 \in 0 .. k /\ i - 1 # k
        BY <3>2
      <4> QED BY SMTT(30), <2>1, <4>1 DEF IsBase
    <3> QED BY <3>1, <3>2
  <2>5. IsBase(h, k)
    BY <2>3, <2>4 DEF IsBase
  <2> HIDE DEF h
  <2>6. h \in [0 .. k -> Nat]
    BY <2>5 DEF IsBase
  <2> QED BY <2>5, <2>6
<1>4. NodeCount \in T
  <2> HIDE DEF T
  <2>1. \A k \in 0 .. NodeCount : k \in T
    BY <1>1, <1>2, <1>3, UpTo
  <2> QED BY <1>1, <2>1
<1>5. PICK f \in [0 .. NodeCount -> Nat] : IsBase(f, NodeCount)
  BY <1>1, <1>4
<1> DEFINE D(g) == [i \in 0 .. NodeCount |->
                      IF i = 0 THEN 0 ELSE g[i - 1] + 2 + Cable[i - 1]]
<1>6. f = D(f)
  <2>1. \A i \in 0 .. NodeCount : f[i] = D(f)[i]
    BY <1>1, <1>5 DEF IsBase
  <2> QED BY <1>5, <2>1
<1>7. Base = CHOOSE g : g = D(g)
  BY DEF Base
<1>8. Base = D(Base)
  <2> HIDE DEF D
  <2> QED BY <1>6, <1>7
<1>9. \A g : g = D(g) => /\ g[0] = 0
                         /\ \A i \in 1 .. NodeCount : g[i] = g[i - 1] + 2 + Cable[i - 1]
  <2> SUFFICES ASSUME NEW g, g = D(g)
               PROVE  g[0] = 0 /\ \A i \in 1 .. NodeCount : g[i] = g[i - 1] + 2 + Cable[i - 1]
    OBVIOUS
  <2>1. 0 \in 0 .. NodeCount /\ \A i \in 1 .. NodeCount : i \in 0 .. NodeCount /\ i # 0
    BY <1>1
  <2>2. \A i \in 0 .. NodeCount : g[i] = IF i = 0 THEN 0 ELSE g[i - 1] + 2 + Cable[i - 1]
    BY Zenon
  <2> QED BY <2>1, <2>2
<1>10. Base[0] = 0 /\ \A i \in 1 .. NodeCount : Base[i] = Base[i - 1] + 2 + Cable[i - 1]
  <2> HIDE DEF D
  <2> QED BY <1>8, <1>9
<1>11. \A i \in 0 .. NodeCount : i \in {k \in Nat : Base[k] \in Nat}
  <2> DEFINE W == {k \in Nat : Base[k] \in Nat}
  <2>1. 0 \in W
    BY <1>10
  <2>2. ASSUME NEW k \in 1 .. NodeCount, k - 1 \in W PROVE k \in W
    <3>1. k - 1 \in Nodes
      BY <1>1 DEF Nodes
    <3> QED BY <1>1, <1>10, <2>2, <3>1
  <2>3. \A i \in 0 .. NodeCount : i \in W
    <3> HIDE DEF W
    <3> QED BY <1>1, <2>1, <2>2, UpTo
  <2> QED BY <2>3
<1>12. Base \in [0 .. NodeCount -> Nat]
  <2>1. DOMAIN Base = 0 .. NodeCount /\ Base = [i \in 0 .. NodeCount |-> Base[i]]
    BY <1>8
  <2>2. \A i \in 0 .. NodeCount : Base[i] \in Nat
    BY <1>11
  <2> QED BY <2>1, <2>2
<1> QED BY <1>1, <1>10, <1>12 DEF IsBase

\* ... one node's cells after another's.
LEMMA BaseOrder ==
  \A j \in 0 .. NodeCount : \A i \in Nodes : i < j => Base[i] + 2 + Cable[i] <= Base[j]
<1> DEFINE T == {k \in Nat : k <= NodeCount =>
                   \A i \in Nodes : i < k => Base[i] + 2 + Cable[i] <= Base[k]}
<1> USE BaseFacts DEF IsBase
<1>1. 0 \in T
  BY DEF Nodes
<1>2. ASSUME NEW k \in 1 .. NodeCount, k - 1 \in T PROVE k \in T
  <2>1. SUFFICES ASSUME NEW i \in Nodes, i < k PROVE Base[i] + 2 + Cable[i] <= Base[k]
    OBVIOUS
  <2>2. /\ k - 1 \in Nodes /\ Cable[k - 1] \in Nat /\ Base[k - 1] \in Nat
        /\ Base[k] = Base[k - 1] + 2 + Cable[k - 1] /\ Cable[i] \in Nat /\ Base[i] \in Nat
    BY DEF Nodes
  <2>3. CASE i = k - 1
    BY <2>2, <2>3
  <2>4. CASE i < k - 1
    <3>1. Base[i] + 2 + Cable[i] <= Base[k - 1]
      BY <1>2, <2>4
    <3> QED BY ONLY <2>2, <3>1
  <2> QED BY <2>1, <2>3, <2>4 DEF Nodes
<1>3. \A k \in 0 .. NodeCount : k \in T
  <2> HIDE DEF T
  <2> QED BY <1>1, <1>2, UpTo
<1> QED BY <1>3

\* Each node has its two cells and its cable, one node's behind the last one's.
LEMMA BaseShape ==
  /\ Loop \in Nat /\ Loop >= 2
  /\ \A i \in Nodes : /\ Base[i] \in Nat /\ Cable[i] \in Nat /\ Base[i] + 2 + Cable[i] <= Loop
                      /\ Base[i + 1] = Base[i] + 2 + Cable[i]
                      /\ i + 1 \in 0 .. NodeCount
  /\ \A i, j \in Nodes : i < j => Base[i] + 2 + Cable[i] <= Base[j]
  /\ Base[0] = 0 /\ 0 \in Nodes
<1> USE BaseFacts DEF IsBase
<1>1. 0 \in Nodes /\ \A i \in Nodes : i \in 0 .. NodeCount /\ i + 1 \in 1 .. NodeCount /\ (i + 1) - 1 = i
  BY DEF Nodes
<1>2. \A i \in Nodes : /\ Base[i] \in Nat /\ Cable[i] \in Nat /\ Base[i] + 2 + Cable[i] <= Loop
                       /\ Base[i + 1] = Base[i] + 2 + Cable[i]
  BY <1>1, BaseOrder DEF Loop, Nodes
<1>3. Loop \in Nat
  BY DEF Loop
<1>4. Loop >= 2
  <2>1. NodeCount - 1 \in Nodes
    BY DEF Nodes
  <2>2. \A x, y, z \in Nat : x + 2 + y <= z => z >= 2
    OBVIOUS
  <2>3. PICK i \in Nodes : TRUE
    BY <2>1
  <2> QED BY ONLY <1>2, <2>2, <2>3, <1>3, SMTT(30)
<1>5. \A i, j \in Nodes : i < j => Base[i] + 2 + Cable[i] <= Base[j]
  BY <1>1, BaseOrder
<1> QED BY <1>1, <1>2, <1>3, <1>4, <1>5, SMTT(30)

\* Every place is in the cells of one node.
LEMMA PlaceHasNode ==
  \A p \in Places : \E i \in Nodes : Base[i] <= p /\ p < Base[i] + 2 + Cable[i]
<1> SUFFICES ASSUME NEW p \in Places
             PROVE  \E i \in Nodes : Base[i] <= p /\ p < Base[i] + 2 + Cable[i]
  OBVIOUS
<1> DEFINE T == {n \in Nat : n <= NodeCount /\ p < Base[n] =>
                   \E i \in Nodes : Base[i] <= p /\ p < Base[i] + 2 + Cable[i]}
<1>1. p \in Nat /\ p < Loop
  BY BaseShape DEF Places
<1>2. 0 \in T
  BY <1>1, BaseShape
<1>3. ASSUME NEW k \in 1 .. NodeCount, k - 1 \in T PROVE k \in T
  <2>1. SUFFICES ASSUME p < Base[k], ~(p < Base[k - 1])
                 PROVE  \E i \in Nodes : Base[i] <= p /\ p < Base[i] + 2 + Cable[i]
    BY <1>3, BaseFacts
  <2>2. k - 1 \in Nodes /\ (k - 1) + 1 = k
    BY BaseFacts DEF Nodes
  <2>3. Base[k] = Base[k - 1] + 2 + Cable[k - 1] /\ Base[k - 1] \in Nat
    BY <2>2, BaseShape
  <2> QED BY <1>1, <2>1, <2>2, <2>3
<1>4. \A k \in 0 .. NodeCount : k \in T
  <2> HIDE DEF T
  <2> QED BY <1>2, <1>3, UpTo, BaseFacts
<1> QED BY <1>1, <1>4, BaseFacts DEF Loop

-----------------------------------------------------------------------------
(* One station's bit time, field by field.                                 *)

\* The fields of ap_ring_station_t.
StationFields ==
    {"tx", "txPos", "armed", "seenOwn", "stripped", "ack", "ackValid", "window", "pending",
     "orig", "wants", "holds", "strip", "since", "stripFor", "rx", "addressed", "seps", "src",
     "enabled", "timedOut", "forced"}

\* A station as a ring that loses nothing keeps it: neither timeout is near.
Sound(s) ==
    /\ DOMAIN s = StationFields
    /\ Len(s.tx) \in Nat /\ s.orig \in {None, Free}
    /\ s.txPos \in Nat /\ s.stripped \in Nat /\ s.stripFor \in Nat /\ s.since \in Nat
    /\ s.seps \in 0 .. 3
    /\ ~s.timedOut /\ ~s.forced
    /\ s.armed \/ s.strip => Len(s.tx) > 0
    /\ s.wants <=> s.armed /\ ~s.strip
    /\ s.holds <=> s.strip
    /\ s.seenOwn => s.strip

\* Neither of the station's two timers is about to run out.
InTime(s) == s.since < LossTimeout /\ (s.strip => s.stripFor + 1 < StripTimeout)

\* The station owns the ring and has symbols of its frame left.
Sending(s) == s.strip /\ s.armed

\* ... and it is about to drive the last of them.
Last(s) == Sending(s) /\ s.txPos + 1 = Len(s.tx)

\* What driving leaves of the station.
DriveFrame(s, d) ==
    /\ DOMAIN d = StationFields
    /\ d.tx = s.tx /\ d.seenOwn = s.seenOwn /\ d.stripped = s.stripped /\ d.ack = s.ack
    /\ d.ackValid = s.ackValid /\ d.window = s.window /\ d.pending = s.pending
    /\ d.since = s.since /\ d.rx = s.rx /\ d.addressed = s.addressed /\ d.seps = s.seps
    /\ d.src = s.src /\ d.enabled = s.enabled /\ d.timedOut = s.timedOut
    /\ d.forced = s.forced

\* ... and makes of it.
DriveEffect(s, d) ==
    /\ d.orig = IF Last(s) THEN Free ELSE None
    /\ d.txPos = IF Sending(s) THEN s.txPos + 1 ELSE s.txPos
    /\ d.stripFor = IF Claims(s) THEN 0 ELSE IF s.strip /\ ~Originating(s) THEN s.stripFor + 1
                    ELSE s.stripFor
    /\ d.armed <=> s.armed /\ ~Last(s)
    /\ d.wants <=> s.wants /\ ~Claims(s)
    /\ d.strip <=> s.strip \/ Claims(s)
    /\ d.holds <=> s.holds \/ Claims(s)

\* The idle cell, the two tokens and the frame start are told apart by their kinds.
LEMMA KindsDiffer ==
    /\ Free # None /\ Claimed # None /\ Free # Claimed /\ Zero = None
    /\ Zero # Start /\ Free # Start /\ Claimed # Start
    /\ Zero.kind = "zero" /\ Free.kind = "free" /\ Claimed.kind = "claimed" /\ Start.kind = "start"
    /\ Sep.kind = "sep"
  BY DEF Free, None, Claimed, Zero, Start, Sep, Plain

\* Driving, case by case: an originated token goes out ...
LEMMA DriveOriginates ==
    ASSUME NEW s, Sound(s), InTime(s), Originating(s), ~Sending(s)
    PROVE  DriveFrame(s, Drive(s)) /\ DriveEffect(s, Drive(s))
<1> DEFINE x == [s EXCEPT !.orig = None]
<1>1. x.orig = None /\ x.since = s.since /\ DriveFrame(s, x)
  BY DEF Sound, StationFields, DriveFrame
<1>2. ~Forces(x)
  BY <1>1, TimeoutsArePositive DEF Forces, InTime, Sound
<1>3. Drive(s) = x
  BY <1>2 DEF Drive, ForceIfLost
<1>4. x.txPos = s.txPos /\ x.stripFor = s.stripFor /\ x.armed = s.armed /\ x.wants = s.wants
      /\ x.strip = s.strip /\ x.holds = s.holds
  BY DEF Sound, StationFields
<1>5. ~Claims(s) /\ ~Last(s)
  BY DEF Claims, Last
<1> HIDE DEF x
<1>6. DriveEffect(s, x)
  BY <1>1, <1>4, <1>5 DEF DriveEffect, Sound
<1> QED BY <1>1, <1>3, <1>6

\* ... the free token just heard is claimed ...
LEMMA DriveClaims ==
    ASSUME NEW s, Sound(s), InTime(s), Claims(s)
    PROVE  DriveFrame(s, Drive(s)) /\ DriveEffect(s, Drive(s))
<1> DEFINE x == Claim(s)
<1>1. /\ DriveFrame(s, x) /\ x.txPos = s.txPos /\ x.stripFor = 0 /\ x.armed = s.armed /\ x.wants = FALSE
      /\ x.strip = TRUE /\ x.holds = TRUE /\ x.orig = s.orig
  BY DEF Sound, StationFields, DriveFrame, Claim
<1>2. ~Forces(x)
  BY <1>1 DEF Forces
<1>3. Drive(s) = x
  BY <1>2 DEF Drive, ForceIfLost, Claims
<1> HIDE DEF x
<1>4. s.orig = None /\ ~Last(s) /\ ~Sending(s)
  BY DEF Claims, Originating, Last, Sound, Sending
<1>5. DriveEffect(s, x)
  BY <1>1, <1>4 DEF DriveEffect, Sound
<1> QED BY <1>1, <1>3, <1>5

\* ... the next symbol of the frame is sent, the free token behind the last ...
LEMMA DriveSends ==
    ASSUME NEW s, Sound(s), InTime(s), Sending(s), ~Originating(s), s.txPos < Len(s.tx)
    PROVE  DriveFrame(s, Drive(s)) /\ DriveEffect(s, Drive(s))
<1> DEFINE y == [s EXCEPT !.txPos = @ + 1]
           z == [y EXCEPT !.armed = FALSE]
           w == [z EXCEPT !.orig = Free]
           x == IF y.txPos >= Len(s.tx) THEN w ELSE y
           u == [x EXCEPT !.stripFor = @ + 1]
<1>1. /\ DriveFrame(s, y) /\ y.txPos = s.txPos + 1 /\ y.armed = s.armed /\ y.orig = s.orig
      /\ y.stripFor = s.stripFor /\ y.strip = s.strip /\ y.holds = s.holds /\ y.wants = s.wants
  BY DEF Sound, StationFields, DriveFrame
<1>2. /\ DriveFrame(s, w) /\ w.txPos = s.txPos + 1 /\ w.armed = FALSE /\ w.orig = Free
      /\ w.stripFor = s.stripFor /\ w.strip = s.strip /\ w.holds = s.holds /\ w.wants = s.wants
  BY DEF Sound, StationFields, DriveFrame
<1>3. s.txPos \in Nat /\ Len(s.tx) \in Nat /\ s.orig = None
  BY DEF Sound, Originating
<1>4. y.txPos >= Len(s.tx) <=> Last(s)
  BY <1>1, <1>3 DEF Last
<1>5. /\ DriveFrame(s, x) /\ x.txPos = s.txPos + 1 /\ (x.armed <=> s.armed /\ ~Last(s))
      /\ x.orig = IF Last(s) THEN Free ELSE None
      /\ x.stripFor = s.stripFor /\ x.strip = s.strip /\ x.holds = s.holds /\ x.wants = s.wants
  <2>1. CASE Last(s)
    <3>1. x = w
      BY <1>4, <2>1
    <3> HIDE DEF x, w
    <3> QED BY <1>2, <2>1, <3>1 DEF Last, Sending
  <2>2. CASE ~Last(s)
    <3>1. x = y
      BY <1>4, <2>2
    <3> HIDE DEF x, y
    <3> QED BY <1>1, <1>3, <2>2, <3>1 DEF Last, Sending, Sound
  <2> QED BY <2>1, <2>2
<1>6. Drive(s) = u
  <2>1. Drive(s) = Send(s)
    BY DEF Drive, Claims, Sends, Sending, Sound
  <2>2. Send(s) = CountStrip(x)
    BY DEF Send, Originate
  <2> HIDE DEF x
  <2>3. ~(x.stripFor + 1 >= StripTimeout)
    BY <1>5, TimeoutsArePositive DEF InTime, Sending, Sound
  <2> QED BY <2>1, <2>2, <2>3 DEF CountStrip
<1> HIDE DEF x
<1>7. /\ DriveFrame(s, u) /\ u.txPos = x.txPos /\ u.armed = x.armed /\ u.orig = x.orig
      /\ u.stripFor = x.stripFor + 1 /\ u.strip = x.strip /\ u.holds = x.holds /\ u.wants = x.wants
  BY <1>5 DEF StationFields, DriveFrame
<1> HIDE DEF u
<1>8. ~Claims(s) /\ s.strip /\ ~s.wants /\ s.holds
  BY DEF Claims, Sending, Sound
<1>9. DriveEffect(s, u)
  BY <1>5, <1>7, <1>8 DEF DriveEffect, Sound, Sending
<1> QED BY <1>6, <1>7, <1>9

\* ... a stripping station drives nothing, and counts ...
LEMMA DriveStrips ==
    ASSUME NEW s, Sound(s), InTime(s), s.strip, ~s.armed, ~Originating(s)
    PROVE  DriveFrame(s, Drive(s)) /\ DriveEffect(s, Drive(s))
<1> DEFINE u == [s EXCEPT !.stripFor = @ + 1]
<1>1. /\ DriveFrame(s, u) /\ u.txPos = s.txPos /\ u.armed = s.armed /\ u.orig = s.orig
      /\ u.stripFor = s.stripFor + 1 /\ u.strip = s.strip /\ u.holds = s.holds /\ u.wants = s.wants
  BY DEF Sound, StationFields, DriveFrame
<1>2. ~Claims(s) /\ ~Sending(s) /\ ~Last(s) /\ s.orig = None /\ ~s.wants
  BY DEF Claims, Sending, Sound, Last, Originating
<1>3. CountStrip(s) = u
  BY TimeoutsArePositive DEF InTime, Sound, CountStrip
<1> HIDE DEF u
<1>4. ~Forces(u)
  BY <1>1, <1>2 DEF Forces
<1>5. Drive(s) = u
  BY <1>2, <1>3, <1>4 DEF Drive, ForceIfLost, Sends, Sound
<1>6. DriveEffect(s, u)
  BY <1>1, <1>2 DEF DriveEffect, Sound
<1> QED BY <1>1, <1>5, <1>6

\* ... and any other sends on what it has heard.
LEMMA DriveForwards ==
    ASSUME NEW s, Sound(s), InTime(s), ~s.strip, ~Originating(s), ~Claims(s)
    PROVE  DriveFrame(s, Drive(s)) /\ DriveEffect(s, Drive(s))
<1>1. ~Forces(s)
  BY TimeoutsArePositive DEF Forces, InTime, Sound
<1>2. Drive(s) = s
  BY <1>1 DEF Drive, ForceIfLost, Sends
<1>3. ~Sending(s) /\ ~Last(s) /\ s.orig = None
  BY DEF Sending, Last, Originating
<1>4. DriveEffect(s, s)
  BY <1>3 DEF DriveEffect, Sound
<1> QED BY <1>2, <1>4 DEF DriveFrame, Sound

\* ap_ring_station_drive
LEMMA DriveStep ==
    ASSUME NEW s, Sound(s), InTime(s), Sending(s) => ~Originating(s) /\ s.txPos < Len(s.tx)
    PROVE  DriveFrame(s, Drive(s)) /\ DriveEffect(s, Drive(s))
<1>1. CASE Originating(s)
  BY <1>1, DriveOriginates
<1>2. CASE Claims(s)
  BY <1>2, DriveClaims
<1>3. CASE Sending(s)
  BY <1>3, DriveSends
<1>4. CASE s.strip /\ ~s.armed /\ ~Originating(s)
  BY <1>4, DriveStrips
<1>5. CASE ~s.strip /\ ~Originating(s) /\ ~Claims(s)
  BY <1>5, DriveForwards
<1> QED BY <1>1, <1>2, <1>3, <1>4, <1>5 DEF Sending

\* The stripping that ends with this symbol.
Ends(d) == d.strip /\ d.seenOwn /\ d.stripped + 1 >= Len(d.tx)

\* What the sampled symbol leaves alone.
SampleFrame(d, x) ==
    /\ DOMAIN x = StationFields
    /\ x.tx = d.tx /\ x.txPos = d.txPos /\ x.armed = d.armed /\ x.ack = d.ack
    /\ x.ackValid = d.ackValid /\ x.pending = d.pending /\ x.orig = d.orig
    /\ x.wants = d.wants /\ x.stripFor = d.stripFor /\ x.rx = d.rx
    /\ x.addressed = d.addressed /\ x.seps = d.seps /\ x.src = d.src
    /\ x.enabled = d.enabled /\ x.timedOut = d.timedOut /\ x.forced = d.forced

\* ... and makes of its stripping and its loss timer.
SampleEffect(d, x, c) ==
    /\ x.window = c
    /\ x.since = IF c \in {Free, Claimed} THEN 0 ELSE d.since + 1
    /\ x.strip <=> d.strip /\ ~Ends(d)
    /\ x.holds <=> d.holds /\ ~Ends(d)
    /\ x.seenOwn <=> d.strip /\ ~Ends(d) /\ (d.seenOwn \/ c = Start)
    /\ d.seenOwn /\ ~Ends(d) => x.stripped = d.stripped + 1
    /\ ~d.seenOwn => x.stripped = IF d.strip /\ c = Start THEN 0 ELSE d.stripped
    /\ x.stripped \in Nat

\* EndStrip and WatchToken
LEMMA SampleStep ==
    ASSUME NEW d, NEW c, DOMAIN d = StationFields, d.strip => Len(d.tx) > 0,
           d.holds <=> d.strip, d.seenOwn => d.strip,
           d.since \in Nat, d.since < LossTimeout, d.stripped \in Nat
    PROVE  SampleFrame(d, Sampled(d, c)) /\ SampleEffect(d, Sampled(d, c), c)
<1> DEFINE w == [d EXCEPT !.window = c]
           x == EndStrip(w, c)
           y == WatchToken(x, c)
           m1 == [w EXCEPT !.seenOwn = TRUE, !.stripped = 0]
           m2 == [w EXCEPT !.strip = FALSE, !.holds = FALSE, !.seenOwn = FALSE]
           m3 == [w EXCEPT !.stripped = @ + 1]
<1>1. /\ SampleFrame(d, w) /\ w.window = c /\ w.since = d.since /\ w.strip = d.strip
      /\ w.holds = d.holds /\ w.seenOwn = d.seenOwn /\ w.stripped = d.stripped
  BY DEF SampleFrame, StationFields
<1>2. /\ SampleFrame(d, m1) /\ m1.window = c /\ m1.since = d.since /\ m1.strip = d.strip
      /\ m1.holds = d.holds /\ m1.seenOwn = TRUE /\ m1.stripped = 0
  BY DEF SampleFrame, StationFields
<1>3. /\ SampleFrame(d, m2) /\ m2.window = c /\ m2.since = d.since /\ m2.strip = FALSE
      /\ m2.holds = FALSE /\ m2.seenOwn = FALSE /\ m2.stripped = d.stripped
  BY DEF SampleFrame, StationFields
<1>4. /\ SampleFrame(d, m3) /\ m3.window = c /\ m3.since = d.since /\ m3.strip = d.strip
      /\ m3.holds = d.holds /\ m3.seenOwn = d.seenOwn /\ m3.stripped = d.stripped + 1
  BY DEF SampleFrame, StationFields
<1>5. x = IF ~(w.strip /\ Len(w.tx) > 0) THEN w
          ELSE IF ~w.seenOwn THEN (IF c = Start THEN m1 ELSE w)
          ELSE IF w.stripped + 1 >= Len(w.tx) THEN m2 ELSE m3
  BY DEF EndStrip
<1>6. w.tx = d.tx
  BY <1>1 DEF SampleFrame
<1>7. x = IF ~d.strip THEN w
          ELSE IF ~d.seenOwn THEN (IF c = Start THEN m1 ELSE w)
          ELSE IF Ends(d) THEN m2 ELSE m3
  BY <1>1, <1>5, <1>6 DEF Ends
<1>8. /\ SampleFrame(d, x) /\ x.window = c /\ x.since = d.since
      /\ x.strip <=> d.strip /\ ~Ends(d)
      /\ x.holds <=> d.holds /\ ~Ends(d)
      /\ x.seenOwn <=> d.strip /\ ~Ends(d) /\ (d.seenOwn \/ c = Start)
      /\ d.seenOwn /\ ~Ends(d) => x.stripped = d.stripped + 1
      /\ ~d.seenOwn => x.stripped = IF d.strip /\ c = Start THEN 0 ELSE d.stripped
      /\ x.stripped \in Nat
  <2> HIDE DEF w, m1, m2, m3, x
  <2>1. CASE ~d.strip
    BY <1>1, <1>7, <2>1 DEF Ends
  <2>2. CASE d.strip /\ ~d.seenOwn /\ c = Start
    <3>1. x = m1 /\ ~Ends(d)
      BY <1>7, <2>2 DEF Ends
    <3>2. x.strip <=> d.strip /\ ~Ends(d)
      BY ONLY <1>2, <2>2, <3>1
    <3>3. x.holds <=> d.holds /\ ~Ends(d)
      BY ONLY <1>2, <2>2, <3>1
    <3>4.  x.seenOwn <=> d.strip /\ ~Ends(d) /\ (d.seenOwn \/ c = Start)
      BY ONLY <1>2, <2>2, <3>1
    <3>5. d.seenOwn /\ ~Ends(d) => x.stripped = d.stripped + 1
      BY ONLY <1>2, <2>2, <3>1
    <3>6. ~d.seenOwn => x.stripped = IF d.strip /\ c = Start THEN 0 ELSE d.stripped
      BY ONLY <1>2, <2>2, <3>1
    <3>7. x.stripped \in Nat
      BY ONLY <1>2, <2>2, <3>1
    <3>8. SampleFrame(d, x) /\ x.window = c /\ x.since = d.since
      BY ONLY <1>2, <2>2, <3>1
    <3> QED BY ONLY <3>2, <3>3, <3>4, <3>5, <3>6, <3>7, <3>8
  <2>3. CASE d.strip /\ ~d.seenOwn /\ c # Start
    BY <1>1, <1>7, <2>3 DEF Ends
  <2>4. CASE d.strip /\ d.seenOwn /\ Ends(d)
    <3>1. x = m2
      BY <1>7, <2>4
    <3> QED BY <1>3, <2>4, <3>1
  <2>5. CASE d.strip /\ d.seenOwn /\ ~Ends(d)
    <3>1. x = m3
      BY <1>7, <2>5
    <3>2. x.strip <=> d.strip /\ ~Ends(d)
      BY ONLY <1>4, <2>5, <3>1
    <3>3. x.holds <=> d.holds /\ ~Ends(d)
      BY ONLY <1>4, <2>5, <3>1
    <3>4.  x.seenOwn <=> d.strip /\ ~Ends(d) /\ (d.seenOwn \/ c = Start)
      BY ONLY <1>4, <2>5, <3>1
    <3>5. x.stripped = d.stripped + 1 /\ x.stripped \in Nat
      BY <1>4, <3>1
    <3>6. SampleFrame(d, x) /\ x.window = c /\ x.since = d.since
      BY ONLY <1>4, <2>5, <3>1
    <3> QED BY ONLY <2>5, <3>2, <3>3, <3>4, <3>5, <3>6
  <2> QED BY <2>1, <2>2, <2>3, <2>4, <2>5
<1> HIDE DEF w, m1, m2, m3, x
<1>9. /\ SampleFrame(x, y) /\ y.window = x.window /\ y.strip = x.strip
      /\ y.since = IF c \in {Free, Claimed} THEN 0 ELSE d.since + 1
      /\ y.holds = x.holds /\ y.seenOwn = x.seenOwn /\ y.stripped = x.stripped
  <2>1. DOMAIN x = StationFields
    BY <1>8 DEF SampleFrame
  <2> QED BY <1>8, <2>1 DEF SampleFrame, StationFields, WatchToken
<1>10. SampleFrame(d, y)
  BY <1>8, <1>9 DEF SampleFrame
<1>11. Sampled(d, c) = y
  BY DEF Sampled, w, x
<1> HIDE DEF y
<1>12. SampleEffect(d, y, c)
  BY <1>8, <1>9 DEF SampleEffect
<1> QED BY <1>10, <1>11, <1>12

\* The fields of a symbol.
SymbolFields == {"kind", "src", "dest", "ack"}

\* What following the frame leaves alone.
TrackFrame(x, t) ==
    /\ DOMAIN t = StationFields
    /\ t.tx = x.tx /\ t.txPos = x.txPos /\ t.armed = x.armed /\ t.seenOwn = x.seenOwn
    /\ t.stripped = x.stripped /\ t.window = x.window /\ t.orig = x.orig /\ t.wants = x.wants
    /\ t.holds = x.holds /\ t.strip = x.strip /\ t.since = x.since
    /\ t.stripFor = x.stripFor /\ t.enabled = x.enabled /\ t.timedOut = x.timedOut
    /\ t.forced = x.forced

\* The symbol is a late acknowledge, or a header this station reads.
LateHere(x, c) == x.rx = "late" /\ c.kind \notin {"start", "sep"}
HeaderHere(x, c) == x.rx = "header" /\ c.kind = "header"
SepHere(x, c) == x.rx # "idle" /\ c.kind = "sep"
FcsHere(x, c) == x.rx = "fcs" /\ c.kind \notin {"start", "sep"}

\* What the station knows of the passing frame stays, ...
KeepsFrame(x, t) == /\ t.seps = x.seps /\ t.src = x.src
                    /\ t.addressed <=> x.addressed

\* ... what it knows of its own frame's acknowledge stays, ...
KeepsAck(x, t) == t.ack = x.ack /\ (t.ackValid <=> x.ackValid)

\* ... and the symbol it sends on is c but for the acknowledge bits.
Forwards(t, c) == /\ DOMAIN t.pending = SymbolFields /\ t.pending.kind = c.kind
                  /\ t.pending.src = c.src /\ t.pending.dest = c.dest
                  /\ c \in Symbols => t.pending \in Symbols

\* Acknowledge bits of a symbol may be replaced.
LEMMA AckChange ==
    ASSUME NEW c \in Symbols, NEW A \in SUBSET AckBits
    PROVE  [c EXCEPT !.ack = A] \in Symbols /\ c.ack \in SUBSET AckBits
<1> DEFINE K == {"zero", "free", "claimed", "start", "sep", "header", "data", "check", "late"}
           N == Nodes \cup {NoNode}
           D == Nodes \cup {NoNode, Broadcast}
<1>1. Symbols = [kind : K, src : N, dest : D, ack : SUBSET AckBits]
  BY DEF Symbols
<1> HIDE DEF K, N, D
<1> QED BY <1>1

\* Following a frame, case by case: a frame start, ...
LEMMA TrackStart ==
    ASSUME NEW x, NEW c, NEW me, NEW on, DOMAIN x = StationFields, c.kind = "start"
    PROVE  LET t == Track(x, c, me, on)
           IN  /\ TrackFrame(x, t) /\ KeepsAck(x, t) /\ t.pending = c
               /\ t.rx = "await" /\ t.seps = 0 /\ ~t.addressed /\ t.src = x.src
<1> DEFINE t == [x EXCEPT !.rx = "await", !.addressed = FALSE, !.seps = 0, !.pending = c]
<1>1. Track(x, c, me, on) = t
  BY DEF Track
<1>2. /\ TrackFrame(x, t) /\ KeepsAck(x, t) /\ t.pending = c
      /\ t.rx = "await" /\ t.seps = 0 /\ ~t.addressed /\ t.src = x.src
  BY DEF TrackFrame, KeepsAck, StationFields
<1> QED BY <1>1, <1>2

\* ... a separator, ...
LEMMA TrackSep ==
    ASSUME NEW x, NEW c, NEW me, NEW on, DOMAIN x = StationFields, SepHere(x, c)
    PROVE  LET t == Track(x, c, me, on)
           IN  /\ TrackFrame(x, t) /\ KeepsAck(x, t) /\ t.pending = c
               /\ t.rx = IF x.seps = 2 THEN "fcs" ELSE IF x.seps = 0 THEN "header" ELSE "body"
               /\ t.seps = IF x.seps < 3 THEN x.seps + 1 ELSE 3
               /\ t.src = x.src /\ (t.addressed <=> x.addressed)
<1> DEFINE n == IF x.seps < 3 THEN x.seps + 1 ELSE 3
           r == IF x.seps = 2 THEN "fcs" ELSE IF x.seps = 0 THEN "header" ELSE "body"
           t == [x EXCEPT !.seps = n, !.pending = c, !.rx = r]
<1>1. r = CASE x.seps = 2 -> "fcs" [] x.seps = 0 -> "header" [] OTHER -> "body"
  OBVIOUS
<1>2. Track(x, c, me, on) = t
  BY <1>1 DEF Track, SepHere
<1>3. /\ TrackFrame(x, t) /\ KeepsAck(x, t) /\ t.pending = c
      /\ t.rx = r /\ t.seps = n /\ t.src = x.src /\ (t.addressed <=> x.addressed)
  <2> HIDE DEF r, n
  <2> QED BY DEF TrackFrame, KeepsAck, StationFields
<1> QED BY <1>2, <1>3

\* ... the frame check, ...
LEMMA TrackFcs ==
    ASSUME NEW x, NEW c, NEW me, NEW on, DOMAIN x = StationFields, FcsHere(x, c)
    PROVE  LET t == Track(x, c, me, on)
           IN  /\ TrackFrame(x, t) /\ KeepsAck(x, t) /\ t.pending = c
               /\ t.rx = "late" /\ KeepsFrame(x, t)
<1> DEFINE t == [x EXCEPT !.rx = "late", !.pending = c]
<1>1. Track(x, c, me, on) = t
  BY DEF Track, FcsHere
<1>2. /\ TrackFrame(x, t) /\ KeepsAck(x, t) /\ t.pending = c
      /\ t.rx = "late" /\ KeepsFrame(x, t)
  BY DEF TrackFrame, KeepsAck, StationFields, KeepsFrame
<1> QED BY <1>1, <1>2

\* ... the late acknowledge, ...
LEMMA TrackLate ==
    ASSUME NEW x, NEW c, NEW me, NEW on, DOMAIN x = StationFields, LateHere(x, c), DOMAIN c = SymbolFields
    PROVE  LET t == Track(x, c, me, on)
           IN  /\ TrackFrame(x, t) /\ Forwards(t, c) /\ t.pending.ack = LateOut(x, c, on)
               /\ t.rx = "idle" /\ KeepsFrame(x, t)
               /\ x.strip /\ x.seenOwn => t.ack = t.pending.ack /\ t.ackValid
               /\ ~(x.strip /\ x.seenOwn) => KeepsAck(x, t)
<1> DEFINE late == LateOut(x, c, on)
           own == x.strip /\ x.seenOwn
           ack2 == IF own THEN late ELSE x.ack
           t == [x EXCEPT !.rx = "idle", !.pending = [c EXCEPT !.ack = late],
                          !.ack = ack2, !.ackValid = @ \/ own]
<1>1. Track(x, c, me, on) = t
  BY DEF Track, LateHere
<1>2. /\ TrackFrame(x, t) /\ t.pending = [c EXCEPT !.ack = late]
      /\ t.rx = "idle" /\ KeepsFrame(x, t) /\ t.ack = ack2 /\ (t.ackValid <=> x.ackValid \/ own)
  <2> HIDE DEF late, own, ack2
  <2> QED BY DEF TrackFrame, StationFields, KeepsFrame
<1> HIDE DEF t
<1>3. Forwards(t, c) /\ t.pending.ack = late
  <2>1. c \in Symbols => [c EXCEPT !.ack = late] \in Symbols
    <3>1. c \in Symbols => late \in SUBSET AckBits
      BY AckChange DEF LateOut, AckBits
    <3> HIDE DEF late
    <3> QED BY <3>1, AckChange
  <2> HIDE DEF late
  <2> QED BY <1>2, <2>1 DEF Forwards, SymbolFields
<1>4. own => t.ack = late /\ t.ackValid
  BY <1>2
<1>5. ~own => KeepsAck(x, t)
  BY <1>2 DEF KeepsAck
<1> QED BY <1>1, <1>2, <1>3, <1>4, <1>5

\* ... the header, ...
LEMMA TrackHeader ==
    ASSUME NEW x, NEW c, NEW me, NEW on, DOMAIN x = StationFields, HeaderHere(x, c), DOMAIN c = SymbolFields
    PROVE  LET t == Track(x, c, me, on)
           IN  /\ TrackFrame(x, t) /\ KeepsAck(x, t) /\ Forwards(t, c)
               /\ t.rx = "header" /\ t.seps = x.seps /\ t.src = c.src
               /\ (t.addressed <=> c.dest \in {Broadcast, me})
<1> DEFINE mine == c.dest \in {Broadcast, me}
           p == IF mine THEN [c EXCEPT !.ack = @ \cup {"icopy"}] ELSE c
           t == [x EXCEPT !.addressed = mine, !.src = c.src, !.pending = p]
<1>1. Track(x, c, me, on) = t
  BY DEF Track, HeaderHere
<1>2. /\ TrackFrame(x, t) /\ KeepsAck(x, t) /\ t.pending = p
      /\ t.rx = x.rx /\ t.seps = x.seps /\ t.src = c.src /\ t.addressed = mine
  <2> HIDE DEF mine, p
  <2> QED BY DEF TrackFrame, KeepsAck, StationFields
<1>3. DOMAIN p = SymbolFields /\ p.kind = c.kind /\ p.src = c.src /\ p.dest = c.dest
  <2>1. CASE mine
    <3> HIDE DEF mine
    <3> QED BY <2>1 DEF SymbolFields
  <2>2. CASE ~mine
    BY <2>2
  <2> QED BY <2>1, <2>2
<1>4. c \in Symbols => p \in Symbols
  <2> SUFFICES ASSUME c \in Symbols PROVE p \in Symbols
    OBVIOUS
  <2>1. c.ack \cup {"icopy"} \in SUBSET AckBits
    BY AckChange DEF AckBits
  <2> QED BY <2>1, AckChange
<1> HIDE DEF t, p
<1>5. Forwards(t, c)
  BY <1>2, <1>3, <1>4 DEF Forwards
<1> QED BY <1>1, <1>2, <1>5 DEF HeaderHere

\* ... and anything else.
LEMMA TrackOther ==
    ASSUME NEW x, NEW c, NEW me, NEW on, DOMAIN x = StationFields, c.kind # "start", ~SepHere(x, c),
           ~FcsHere(x, c), ~LateHere(x, c), ~HeaderHere(x, c)
    PROVE  LET t == Track(x, c, me, on)
           IN  /\ TrackFrame(x, t) /\ KeepsAck(x, t) /\ t.pending = c
               /\ t.rx = x.rx /\ KeepsFrame(x, t)
<1> DEFINE t == [x EXCEPT !.pending = c]
<1>1. Track(x, c, me, on) = t
  BY DEF Track, SepHere, FcsHere, LateHere, HeaderHere
<1>2. /\ TrackFrame(x, t) /\ KeepsAck(x, t) /\ t.pending = c
      /\ t.rx = x.rx /\ KeepsFrame(x, t)
  BY DEF TrackFrame, KeepsAck, StationFields, KeepsFrame
<1> QED BY <1>1, <1>2

\* How far ahead of the token place p is, when the token is at place a, or when the
\* owner at place a still has v symbols to send before it.
Ahead(a, v, p) == (IF p >= a THEN p - a ELSE p - a + Loop) + v

\* The same of the symbol node i has received last; the token itself is a whole
\* turn away from the node that has just received it.
Gap(a, v, i) == (IF Base[i] > a THEN Base[i] - a ELSE Base[i] - a + Loop) + v

\* The length of node j's frame.
Size(j) == Len(st[j].tx)

\* The nodes that take off whatever comes.
Stripping == {j \in Nodes : st[j].strip}

\* How many symbols node j will still receive before its stripping ends.
Left(j) == Loop + Size(j) - st[j].stripFor
             - (IF st[j].armed \/ Originating(st[j]) THEN 0 ELSE 1)

\* tx is a frame a host of node j may send.
IsFrame(tx, j) == \E to \in Dests \ {j}, d \in DataKinds : tx = FrameEmit(j, to, d)

\* The symbol a station will drive next.
Hold(s) == IF Originating(s) THEN s.orig ELSE IF s.strip THEN Zero ELSE s.pending

-----------------------------------------------------------------------------
\* Places and distances.
LEMMA GapFacts ==
    ASSUME NEW a \in Places, NEW v \in Nat
    PROVE  /\ a \in Nat /\ a < Loop /\ Loop \in Nat /\ Loop >= 2
           /\ \A i \in Nodes : /\ Gap(a, v, i) \in Nat /\ 1 + v <= Gap(a, v, i)
                               /\ Gap(a, v, i) <= Loop + v
                               /\ Gap(a, v, i) = Loop + v <=> Base[i] = a
                               /\ Base[i] # a => Gap(a, v, i) = Ahead(a, v, Base[i])
           /\ \A i, j \in Nodes : i # j => Gap(a, v, i) # Gap(a, v, j)
<1>1. a \in Nat /\ a < Loop /\ Loop \in Nat /\ Loop >= 2
  BY BaseShape DEF Places
<1>2. ASSUME NEW i \in Nodes
      PROVE  /\ Gap(a, v, i) \in Nat /\ 1 + v <= Gap(a, v, i) /\ Gap(a, v, i) <= Loop + v
             /\ Gap(a, v, i) = Loop + v <=> Base[i] = a
             /\ Base[i] # a => Gap(a, v, i) = Ahead(a, v, Base[i])
  <2>1. Base[i] \in Nat /\ Cable[i] \in Nat /\ Base[i] + 2 + Cable[i] <= Loop
    BY BaseShape
  <2> QED BY <1>1, <2>1 DEF Gap, Ahead
<1>3. ASSUME NEW i \in Nodes, NEW j \in Nodes, i < j PROVE Gap(a, v, i) # Gap(a, v, j)
  <2>1. /\ Base[i] \in Nat /\ Cable[i] \in Nat /\ Base[j] \in Nat /\ Cable[j] \in Nat
        /\ Base[j] + 2 + Cable[j] <= Loop /\ Base[i] + 2 + Cable[i] <= Base[j]
    BY <1>3, BaseShape
  <2> QED BY <1>1, <2>1 DEF Gap
<1>4. \A i, j \in Nodes : i # j => i < j \/ j < i
  BY DEF Nodes
<1> QED BY <1>1, <1>2, <1>3, <1>4

\* Where a node listens is the cell before its own.
LEMMA AtUpstream ==
    ASSUME NEW a \in Places, NEW v \in Nat, NEW i \in Nodes
    PROVE  /\ Upstream(i) \in Nodes
           /\ Base[Upstream(i)] + 1 + Cable[Upstream(i)] \in Places
           /\ Ahead(a, v, Base[Upstream(i)] + 1 + Cable[Upstream(i)]) = Gap(a, v, i) - 1
<1> DEFINE u == Upstream(i)
<1>1. NodeCount \in Nat /\ NodeCount >= 1 /\ a \in Nat /\ a < Loop
  BY BaseFacts, BaseShape DEF Places
<1>2. CASE i = 0
  <2>1. u = NodeCount - 1
    BY <1>1, <1>2 DEF Upstream
  <2>2. u \in Nodes /\ u + 1 = NodeCount
    BY <1>1, <2>1 DEF Nodes
  <2> HIDE DEF u
  <2>3. Base[u] + 1 + Cable[u] = Loop - 1 /\ Base[u] \in Nat /\ Cable[u] \in Nat /\ Loop \in Nat
    BY <2>2, BaseShape DEF Loop
  <2>4. Base[i] = 0
    BY <1>2, BaseShape
  <2>5. Loop - 1 >= a
    BY <1>1, <2>3
  <2>6. Ahead(a, v, Loop - 1) = Gap(a, v, i) - 1
    BY <1>1, <2>3, <2>4, <2>5 DEF Ahead, Gap
  <2>7. Loop - 1 \in Places
    BY <1>1, <2>3 DEF Places
  <2> QED BY <2>2, <2>3, <2>6, <2>7 DEF u
<1>3. CASE i # 0
  <2>1. i \in Nat /\ i >= 1 /\ i < NodeCount
    BY <1>1, <1>3 DEF Nodes
  <2>2. u = i - 1
    <3>1. (i + NodeCount - 1) % NodeCount = i - 1
      BY <1>1, <2>1
    <3> QED BY <3>1 DEF Upstream
  <2>3. u \in Nodes /\ u + 1 = i
    BY <1>1, <2>1, <2>2 DEF Nodes
  <2> HIDE DEF u
  <2>4. Base[u] + 1 + Cable[u] = Base[i] - 1 /\ Base[u] \in Nat /\ Cable[u] \in Nat
        /\ Base[i] \in Nat /\ Base[i] < Loop /\ Loop \in Nat
    <3>1. Base[i] + 2 + Cable[i] <= Loop /\ Cable[i] \in Nat /\ Base[i] \in Nat /\ Loop \in Nat
      BY BaseShape
    <3>2. Base[i] = Base[u] + 2 + Cable[u] /\ Base[u] \in Nat /\ Cable[u] \in Nat
      BY <2>3, BaseShape
    <3> QED BY <3>1, <3>2
  <2>5. Base[i] - 1 \in Places /\ Base[i] >= 1
    BY <2>4 DEF Places
  <2>6. Ahead(a, v, Base[i] - 1) = Gap(a, v, i) - 1
    BY <1>1, <2>4, <2>5 DEF Ahead, Gap
  <2> QED BY <2>3, <2>4, <2>5, <2>6 DEF u
<1> QED BY <1>2, <1>3

\* A symbol that moves one place on while the token does keeps its distance.
After(a) == IF a + 1 = Loop THEN 0 ELSE a + 1

\* The token's place moves on with everything else: distances stay, but that of a
\* node the token has just been received by becomes a whole turn.
LEMMA TokenMoves ==
    ASSUME NEW a \in Places
    PROVE  /\ After(a) \in Places
           /\ \A i \in Nodes : Gap(After(a), 0, i) =
                                 IF Gap(a, 0, i) = 1 THEN Loop ELSE Gap(a, 0, i) - 1
           /\ \A i \in Nodes : Base[i] = After(a) <=> Gap(a, 0, i) = 1
           /\ \A p \in Nat : p + 1 \in Places => Ahead(After(a), 0, p + 1) = Ahead(a, 0, p)
<1>1. a \in Nat /\ a < Loop /\ Loop \in Nat /\ Loop >= 2
  BY BaseShape DEF Places
<1>2. After(a) \in Places
  BY <1>1 DEF After, Places
<1>3. ASSUME NEW i \in Nodes
      PROVE  /\ Gap(After(a), 0, i) = IF Gap(a, 0, i) = 1 THEN Loop ELSE Gap(a, 0, i) - 1
             /\ Base[i] = After(a) <=> Gap(a, 0, i) = 1
  <2>1. Base[i] \in Nat /\ Base[i] < Loop
    BY <1>1, BaseShape
  <2> QED BY <1>1, <2>1 DEF After, Gap
<1>4. ASSUME NEW p \in Nat, p + 1 \in Places PROVE Ahead(After(a), 0, p + 1) = Ahead(a, 0, p)
  <2>1. p + 1 < Loop
    BY <1>1, <1>4 DEF Places
  <2> QED BY <1>1, <2>1 DEF After, Ahead
<1> QED BY <1>2, <1>3, <1>4

\* ... and one that moves while the token's place stands still comes nearer to it by
\* one, or further from it when the place is given a frame's worth of symbols.
LEMMA TokenWaits ==
    ASSUME NEW a \in Places, NEW v \in Nat, NEW v2 \in Nat
    PROVE  /\ \A i \in Nodes : Gap(a, v2, i) = Gap(a, v, i) + v2 - v
           /\ \A p \in Nat : p + 1 \in Places /\ p + 1 # a =>
                               Ahead(a, v2, p + 1) = Ahead(a, v, p) + 1 + v2 - v
<1>1. a \in Nat /\ a < Loop /\ Loop \in Nat /\ Loop >= 2
  BY BaseShape DEF Places
<1>2. ASSUME NEW i \in Nodes PROVE Gap(a, v2, i) = Gap(a, v, i) + v2 - v
  <2>1. Base[i] \in Nat
    BY BaseShape
  <2> QED BY <1>1, <2>1 DEF Gap
<1>3. ASSUME NEW p \in Nat, p + 1 \in Places, p + 1 # a
      PROVE  Ahead(a, v2, p + 1) = Ahead(a, v, p) + 1 + v2 - v
  BY <1>1, <1>3 DEF Ahead
<1> QED BY <1>2, <1>3

\* The cells of a node lie behind its own, and none is another node's own.
LEMMA CellPlaces ==
    ASSUME NEW i \in Nodes
    PROVE  \A y \in 1 .. Cable[i] + 1 :
              /\ Base[i] + y \in Places /\ Base[i] + (y - 1) \in Nat
              /\ \A k \in Nodes : Base[k] # Base[i] + y
<1>1. ASSUME NEW y \in 1 .. Cable[i] + 1, NEW k \in Nodes PROVE Base[k] # Base[i] + y
  <2>1. /\ Base[i] \in Nat /\ Cable[i] \in Nat /\ Base[k] \in Nat /\ Cable[k] \in Nat
        /\ i < k => Base[i] + 2 + Cable[i] <= Base[k]
        /\ k < i => Base[k] + 2 + Cable[k] <= Base[i]
    BY BaseShape
  <2>2. i < k \/ k < i \/ i = k
    BY DEF Nodes
  <2> QED BY <2>1, <2>2
<1>2. Base[i] \in Nat /\ Cable[i] \in Nat /\ Base[i] + 2 + Cable[i] <= Loop /\ Loop \in Nat
  BY BaseShape
<1> QED BY <1>1, <1>2 DEF Places

\* What FrameEmit makes: a frame of seven or eight symbols.
LEMMA FrameFacts ==
    ASSUME NEW j \in Nodes, NEW tx, IsFrame(tx, j)
    PROVE  /\ Len(tx) \in {7, 8}
           /\ tx[1] = Start /\ tx[2] = Sep /\ tx[4] = Sep /\ tx[Len(tx) - 2] = Sep
           /\ tx[3] = Header(j, tx[3].dest) /\ tx[3].dest \in Dests /\ tx[3].dest # j
           /\ Len(tx) = 8 => tx[5] = Plain("data")
           /\ tx[Len(tx) - 1] = Plain("check") /\ tx[Len(tx)] = Plain("late")
<1>1. PICK to \in Dests \ {j}, d \in DataKinds : tx = FrameEmit(j, to, d)
  BY DEF IsFrame
<1> DEFINE H == Header(j, to)
           A == <<Start, Sep, H, Sep>>
           P == Plain("data")
           K == Plain("check")
           L == Plain("late")
           C == <<Sep, K, L>>
<1>2. H.dest = to
  BY DEF Header, Plain
<1> DEFINE S == {Start, Sep, H, P, K, L}
<1>3. CASE d
  <2>1. tx = (A \o <<P>>) \o C
    BY <1>1, <1>3 DEF FrameEmit
  <2>2. A \in Seq(S) /\ <<P>> \in Seq(S) /\ C \in Seq(S)
    <3> HIDE DEF H, P, K, L
    <3> QED OBVIOUS
  <2> HIDE DEF S
  <2>3. /\ A \o <<P>> \in Seq(S) /\ Len(A \o <<P>>) = 5
        /\ \A i \in 1 .. 4 : (A \o <<P>>)[i] = A[i]
        /\ (A \o <<P>>)[5] = P
    <3>1. Len(A) = 4 /\ Len(<<P>>) = 1 /\ <<P>>[1] = P
      OBVIOUS
    <3> HIDE DEF A, P
    <3> DEFINE Q == <<P>>
    <3> HIDE DEF Q
    <3>2. /\ A \o Q \in Seq(S) /\ Len(A \o Q) = Len(A) + Len(Q)
          /\ \A i \in 1 .. Len(A) + Len(Q) :
                (A \o Q)[i] = IF i <= Len(A) THEN A[i] ELSE Q[i - Len(A)]
      BY <2>2, ConcatProperties DEF Q
    <3>3. Len(A) = 4 /\ Len(Q) = 1 /\ Q[1] = P
      BY <3>1 DEF Q
    <3>4. A \o Q \in Seq(S) /\ Len(A \o Q) = 5
      BY <3>2, <3>3
    <3>5. \A i \in 1 .. 5 : (A \o Q)[i] = IF i <= 4 THEN A[i] ELSE Q[i - 4]
      BY <3>2, <3>3
    <3> DEFINE W == A \o Q
    <3>6. \A i \in 1 .. 5 : W[i] = IF i <= 4 THEN A[i] ELSE Q[i - 4]
      BY <3>5
    <3> HIDE DEF W
    <3>7. \A i \in 1 .. 4 : W[i] = A[i]
      BY <3>6
    <3>8. W[5] = P
      BY <3>3, <3>6
    <3> QED BY <3>4, <3>7, <3>8 DEF Q, W
  <2>4. /\ Len(tx) = 8 /\ \A i \in 1 .. 5 : tx[i] = (A \o <<P>>)[i]
        /\ tx[6] = C[1] /\ tx[7] = C[2] /\ tx[8] = C[3]
    <3>1. Len(C) = 3
      OBVIOUS
    <3> DEFINE W == A \o <<P>>
    <3>2. W \in Seq(S) /\ Len(W) = 5 /\ tx = W \o C
      BY <2>1, <2>3
    <3> HIDE DEF C, W
    <3>3. /\ Len(W \o C) = Len(W) + Len(C)
           /\ \A i \in 1 .. Len(W) + Len(C) :
                (W \o C)[i] = IF i <= Len(W) THEN W[i] ELSE C[i - Len(W)]
      BY <2>2, <3>2, ConcatProperties
    <3>4. Len(tx) = 8 /\ \A i \in 1 .. 8 : tx[i] = IF i <= 5 THEN W[i] ELSE C[i - 5]
      BY <3>1, <3>2, <3>3
    <3>5. \A i \in 1 .. 5 : tx[i] = W[i]
      BY <3>4
    <3>6. tx[6] = C[1] /\ tx[7] = C[2] /\ tx[8] = C[3]
      BY <3>4
    <3> QED BY <3>4, <3>5, <3>6 DEF W
  <2>5. A[1] = Start /\ A[2] = Sep /\ A[3] = H /\ A[4] = Sep /\ C[1] = Sep /\ C[2] = K /\ C[3] = L
    OBVIOUS
  <2>6. tx[1] = Start /\ tx[2] = Sep /\ tx[3] = H /\ tx[4] = Sep /\ tx[5] = P /\ tx[6] = Sep
        /\ tx[7] = K /\ tx[8] = L /\ Len(tx) = 8
    BY <2>3, <2>4, <2>5
  <2> QED BY <1>2, <2>6
<1>4. CASE ~d
  <2>1. tx = (A \o <<>>) \o C
    BY <1>1, <1>4 DEF FrameEmit
  <2>2. A \in Seq(S) /\ C \in Seq(S)
    <3> HIDE DEF H, P, K, L
    <3> QED OBVIOUS
  <2> HIDE DEF S
  <2>3. tx = A \o C
    <3>1. A \o <<>> = A
      <4> HIDE DEF A
      <4> QED BY <2>2, ConcatEmptySeq
    <3> QED BY <2>1, <3>1
  <2>4. /\ Len(tx) = 7 /\ \A i \in 1 .. 4 : tx[i] = A[i]
        /\ tx[5] = C[1] /\ tx[6] = C[2] /\ tx[7] = C[3]
    <3>1. Len(C) = 3 /\ Len(A) = 4
      OBVIOUS
    <3> HIDE DEF C, A
    <3>2. /\ Len(A \o C) = Len(A) + Len(C)
           /\ \A i \in 1 .. Len(A) + Len(C) :
                (A \o C)[i] = IF i <= Len(A) THEN A[i] ELSE C[i - Len(A)]
      BY <2>2, ConcatProperties
    <3>3. Len(tx) = 7 /\ \A i \in 1 .. 7 : tx[i] = IF i <= 4 THEN A[i] ELSE C[i - 4]
      BY <2>3, <3>1, <3>2
    <3>4. \A i \in 1 .. 4 : tx[i] = A[i]
      BY <3>3
    <3>5. tx[5] = C[1] /\ tx[6] = C[2] /\ tx[7] = C[3]
      BY <3>3
    <3> QED BY <3>3, <3>4, <3>5
  <2>5. A[1] = Start /\ A[2] = Sep /\ A[3] = H /\ A[4] = Sep /\ C[1] = Sep /\ C[2] = K /\ C[3] = L
    OBVIOUS
  <2>6. tx[1] = Start /\ tx[2] = Sep /\ tx[3] = H /\ tx[4] = Sep /\ tx[5] = Sep
        /\ tx[6] = K /\ tx[7] = L /\ Len(tx) = 7
    BY <2>4, <2>5
  <2> QED BY <1>2, <2>6
<1> QED BY <1>3, <1>4

-----------------------------------------------------------------------------
(* The invariant.                                                          *)

\* The medium: every relay closed, and each cable as long as it is.
Segment ==
    /\ DOMAIN m = {"bypassed", "driving", "line", "received"}
    /\ m.bypassed = [i \in Nodes |-> FALSE]
    /\ DOMAIN m.driving = Nodes /\ DOMAIN m.line = Nodes
    /\ \A i \in Nodes : m.line[i] \in Seq(Symbols) /\ Len(m.line[i]) = Cable[i]

\* The tables a node is found in.
Tables ==
    /\ DOMAIN st = Nodes /\ DOMAIN ctl = Nodes /\ taken \in [Nodes -> [Nodes -> Nat]]
    /\ \A i \in Nodes : /\ DOMAIN ctl[i] = {"connected", "xmitEn", "deferred", "ackSeen", "status"}

\* A frame is asked for while its controller waits for it, and sent from its start.
Station(i) ==
    LET s == st[i]
    IN  /\ Sound(s)
        /\ s.tx = <<>> \/ IsFrame(s.tx, i)
        /\ s.armed => ctl[i].xmitEn /\ ctl[i].deferred
        /\ s.wants => /\ s.txPos = 0 /\ ~s.ackValid
                      /\ \A k \in Nodes : taken[i][k] = 0
        /\ s.strip /\ ~s.armed => s.txPos = Size(i)

\* The node that sends is the one the token would be at, and nobody sends when there
\* is a token; only there a token is originated or has just been heard.
Owning(a, v, i) ==
    LET s == st[i]
    IN  /\ Sending(s) <=> v > 0 /\ Base[i] = a
        /\ Sending(s) => s.txPos + v = Size(i) /\ s.stripFor = s.txPos
        /\ Originating(s) => /\ Base[i] = a /\ v = 0
                             /\ s.strip => s.stripFor = Size(i)
        /\ s.window = Free <=> v = 0 /\ Base[i] = a /\ ~Originating(s)

\* Of each stripping node's frame the last symbol is o[j] + 1 ahead of the token: it
\* strips until that symbol has come back, and one more.
Lasts(e, o, j) == st[j].strip => o[j] < e[j] /\ e[j] - o[j] = Left(j)

\* The frames follow each other round the ring in the order of their owners, ...
Apart(e, o) ==
    \A j, k \in Stripping : e[k] < e[j] => o[j] + Size(j) + 1 <= o[k]

\* ... each on the heels of the next one's claimed token.
Linked(e, o, j) ==
    st[j].strip => \/ o[j] = 0
                   \/ \E k \in Stripping : e[k] > e[j] /\ o[k] + Size(k) + 1 = o[j]

\* The symbol x ahead of the token is one of node j's frame, not yet come back to j.
Carries(e, o, j, x) == st[j].strip /\ x < e[j] /\ o[j] < x /\ x <= o[j] + Size(j) + 1

\* Two symbols alike but for the bits receivers set.
Alike(c, d) == /\ c.kind = d.kind /\ c.src = d.src /\ c.dest = d.dest
               /\ d = Start => c = d

\* The d-th symbol from the end of node j's frame, behind which stands its claimed
\* token.
OfFrame(c, j, d) == IF d = Size(j) + 1 THEN c = Claimed
                    ELSE Alike(c, st[j].tx[Size(j) + 1 - d])

\* c is what is found x cells ahead of the token: at 0 the token itself, in a
\* stripping node's frame its symbol, elsewhere an idle cell.
Holds(e, o, c, x) ==
    /\ c \in Symbols
    /\ x = 0 => c = Free
    /\ \A j \in Nodes : Carries(e, o, j, x) => OfFrame(c, j, x - o[j])
    /\ x # 0 /\ (\A j \in Nodes : ~Carries(e, o, j, x)) => c = Zero

\* Node i has had all of node j's frame.
Passed(e, o, i, j) == e[i] > e[j] \/ e[i] <= o[j] + 1

\* Somebody has copied node j's frame.
Taken(j) == \E i \in Nodes : taken[j][i] = 1

\* A late acknowledge on its way says what the nodes it has passed have done, if none
\* of them was enabled or shut in the middle of it.
Told(e, o, ack, j) ==
    j \notin torn =>
      /\ "copied" \in ack <=> Taken(j)
      /\ Dest(j) # Broadcast =>
           ("wack" \in ack <=> Passed(e, o, Dest(j), j) /\ taken[j][Dest(j)] = 0)

\* The late acknowledge x ahead of the token, if it is one, tells the truth.
Tells(e, o, c, x) ==
    \A j \in Nodes : st[j].strip /\ x = o[j] + 1 /\ x < e[j] => Told(e, o, c.ack, j)

\* What the invariant says of one cell.
Cell(e, o, c, x) == Holds(e, o, c, x) /\ Tells(e, o, c, x)

\* The cell for the symbol node i will drive next, ...
HoldTrue(a, v, e, o, i) == ~(v > 0 /\ Base[i] = a) => Cell(e, o, Hold(st[i]), Ahead(a, v, Base[i]))

\* ... the one it drives, and those of its cable.
LineTrue(a, v, e, o, i) ==
    /\ Cell(e, o, m.driving[i], Ahead(a, v, Base[i] + 1))
    /\ \A k \in 1 .. Cable[i] : Cell(e, o, m.line[i][k], Ahead(a, v, Base[i] + (Cable[i] + 2 - k)))

\* Node i is in the middle of node j's frame.
Mid(e, o, i, j) == st[j].strip /\ e[i] <= e[j] /\ 2 <= e[i] - o[j] /\ e[i] - o[j] <= Size(j)

\* What its receiver makes of g symbols of a frame of n.
RxAt(g, n) == IF g = 1 THEN "await" ELSE IF g <= 3 THEN "header" ELSE IF g = n - 2 THEN "fcs"
              ELSE IF g = n - 1 THEN "late" ELSE "body"
SepsAt(g, n) == IF g = 1 THEN 0 ELSE IF g <= 3 THEN 1 ELSE IF g >= n - 2 THEN 3 ELSE 2

\* Station s of node i has had g symbols of node j's frame of n, sent to `to`.
Tracking(s, i, j, to, g, n) ==
    /\ s.rx = RxAt(g, n) /\ s.seps = SepsAt(g, n)
    /\ g <= 2 => ~s.addressed
    /\ g >= 3 => s.src = j /\ (s.addressed <=> to \in {Broadcast, i})

\* Node i's receiver is where the g symbols it has had of node j's frame put it.
Follows(i, j, g) == Tracking(st[i], i, j, Dest(j), g, Size(j))

\* A receiver follows the frame it is in the middle of, and is idle otherwise.
Tracks(e, o, i) ==
    /\ \A j \in Nodes : Mid(e, o, i, j) => Follows(i, j, Size(j) + 1 - (e[i] - o[j]))
    /\ (\A j \in Nodes : ~Mid(e, o, i, j)) => st[i].rx = "idle"

\* A node knows its own frame when it comes back.
Own(j) == st[j].strip => /\ st[j].seenOwn <=> Left(j) <= Size(j)
                         /\ st[j].seenOwn => st[j].stripped = Size(j) - Left(j)

\* Who may have copied the frame, and who cannot have yet.
Counts(e, o, j) ==
    /\ st[j].strip => \A i \in Nodes : ~Passed(e, o, i, j) => taken[j][i] = 0
    /\ Size(j) > 0 => \A i \in Nodes : taken[j][i] <= IF Dest(j) \in {i, Broadcast} /\ i # j
                                                      THEN 1 ELSE 0

\* The acknowledge a node has back tells the truth, and the status it shows is it.
Heard(j) ==
    /\ st[j].ackValid =>
         /\ Size(j) > 0
         /\ st[j].strip => Left(j) <= 1
         /\ Dest(j) # Broadcast /\ j \notin torn =>
              /\ "copied" \in st[j].ack <=> Taken(j)
              /\ "wack" \in st[j].ack <=> taken[j][Dest(j)] = 0
    /\ ctl[j].ackSeen => /\ st[j].ackValid
                         /\ "cpd" \in ctl[j].status <=> "copied" \in st[j].ack
                         /\ "wak" \in ctl[j].status <=> "wack" \in st[j].ack

\* Some token, free or claimed, restarts a node's loss timer before it runs out.
Bound == IF Loop > MaxFrame + 1 THEN Loop ELSE MaxFrame + 1

\* Node i's loss timer will not have run out when the next token reaches it: the one
\* the distances are counted from, or the claimed token behind a frame.
Timely(e, o, i) ==
    \/ st[i].since + e[i] <= Bound
    \/ \E j \in Nodes : /\ st[j].strip /\ e[i] <= e[j] /\ o[j] + Size(j) + 1 < e[i]
                        /\ st[i].since + e[i] - (o[j] + Size(j) + 1) <= Bound

\* All that is said of one node.
Node(a, v, e, o, i) ==
    /\ Station(i) /\ Owning(a, v, i) /\ Lasts(e, o, i) /\ Linked(e, o, i)
    /\ HoldTrue(a, v, e, o, i) /\ LineTrue(a, v, e, o, i)
    /\ Tracks(e, o, i) /\ Own(i) /\ Counts(e, o, i) /\ Heard(i) /\ Timely(e, o, i)

\* e and o are the distances; it is a node that sends.
Distances(a, v, e, o) ==
    /\ a \in Places /\ v \in 0 .. MaxFrame /\ (v > 0 => \E w \in Nodes : Base[w] = a)
    /\ e = [i \in Nodes |-> Gap(a, v, i)] /\ o \in [Nodes -> Nat]

\* All that is said of the ring, its token at place a.
Ring(a, v, e, o) ==
    /\ Distances(a, v, e, o) /\ Segment /\ Tables /\ Apart(e, o)
    /\ \A i \in Nodes : Node(a, v, e, o, i)

\* The invariant: there are a place, symbols to go and distances of which all that
\* is true.
RingInv == \E a \in Places, v \in 0 .. MaxFrame, e, o \in [Nodes -> Nat] : Ring(a, v, e, o)

\* With no relay open each node hears the end of its upstream neighbour's cable.
LEMMA RingAdvance ==
    ASSUME Segment
    PROVE  Advance(m, Zero) =
             [m EXCEPT !.line = [i \in Nodes |-> IF Cable[i] > 0
                                                 THEN Append(Tail(m.line[i]), m.driving[i])
                                                 ELSE <<>>],
                       !.received = [i \in Nodes |->
                                       IF Cable[Upstream(i)] > 0 THEN Head(m.line[Upstream(i)])
                                       ELSE m.driving[Upstream(i)]]]
<1> DEFINE Place(k) == (FirstInRing(m) + k) % NodeCount
           Head1(i) == IF Cable[i] > 0 THEN Head(m.line[i]) ELSE Zero
           Body(f) == [k \in Nodes |->
                        IF Cable[Place(k)] > 0 THEN Head(m.line[Place(k)])
                        ELSE IF ~m.bypassed[Place(k)] THEN m.driving[Place(k)]
                        ELSE IF k = 0 THEN Head1(Upstream(Place(k)))
                        ELSE f[k - 1]]
           out == CHOOSE f : f = Body(f)
           In(k) == IF ~m.bypassed[Place(k)] THEN m.driving[Place(k)]
                    ELSE IF k = 0 THEN Head1(Upstream(Place(k)))
                    ELSE out[k - 1]
           StepOf(i) == CHOOSE k \in Nodes : Place(k) = i
           End(i) == IF Cable[i] > 0 THEN Head(m.line[i]) ELSE m.driving[i]
<1>1. Advance(m, Zero) =
         [m EXCEPT
           !.line = [i \in Nodes |-> IF Cable[i] > 0
                                     THEN Append(Tail(m.line[i]), In(StepOf(i)))
                                     ELSE <<>>],
           !.received = [i \in Nodes |-> IF m.bypassed[i] THEN m.driving[i]
                                         ELSE out[StepOf(Upstream(i))]]]
  BY DEF Advance
<1>2. \A i \in Nodes : ~m.bypassed[i]
  BY DEF Segment
<1>3. FirstInRing(m) = 0
  <2> DEFINE R == {i \in Nodes : ~m.bypassed[i]}
  <2>1. R = Nodes
    BY <1>2
  <2>2. 0 \in Nodes /\ \A j \in Nodes : 0 <= j /\ (j <= 0 => j = 0)
    BY BaseShape DEF Nodes
  <2>3. FirstInRing(m) = IF R = {} THEN 0 ELSE CHOOSE i \in R : \A j \in R : i <= j
    BY DEF FirstInRing
  <2> HIDE DEF R
  <2>4. (CHOOSE i \in R : \A j \in R : i <= j) = 0
    BY <2>1, <2>2
  <2> QED BY <2>1, <2>2, <2>3, <2>4
<1>4. \A k \in Nodes : Place(k) = k
  BY <1>3, BaseFacts DEF Nodes
<1>5. \A i \in Nodes : StepOf(i) = i
  <2> HIDE DEF Place
  <2> QED BY <1>4
<1>6. \A f : Body(f) = [k \in Nodes |-> End(k)]
  BY <1>2, <1>4
<1>7. out = [k \in Nodes |-> End(k)]
  <2> HIDE DEF Body, End
  <2> QED BY <1>6
<1>8. \A i \in Nodes : In(StepOf(i)) = m.driving[i]
  <2>1. \A k \in Nodes : In(k) = m.driving[k]
    BY <1>2, <1>4
  <2> HIDE DEF In, StepOf
  <2> QED BY <1>5, <2>1
<1>9. \A i \in Nodes : Upstream(i) \in Nodes
  BY BaseFacts DEF Upstream, Nodes
<1>10. \A i \in Nodes : out[StepOf(Upstream(i))] = End(Upstream(i))
  <2> HIDE DEF out, StepOf, End
  <2> QED BY <1>5, <1>7, <1>9
<1>11. [i \in Nodes |-> IF Cable[i] > 0 THEN Append(Tail(m.line[i]), In(StepOf(i))) ELSE <<>>]
       = [i \in Nodes |-> IF Cable[i] > 0 THEN Append(Tail(m.line[i]), m.driving[i]) ELSE <<>>]
  <2> HIDE DEF In, StepOf
  <2> QED BY <1>8
<1>12. [i \in Nodes |-> IF m.bypassed[i] THEN m.driving[i] ELSE out[StepOf(Upstream(i))]]
       = [i \in Nodes |-> End(Upstream(i))]
  <2> HIDE DEF out, StepOf, End
  <2> QED BY <1>2, <1>10
<1> QED BY <1>1, <1>11, <1>12

\* A cable takes a symbol in at one end and lets one out at the other.
LEMMA CableMoves ==
    ASSUME NEW S, NEW s \in Seq(S), NEW c \in S, Len(s) > 0
    PROVE  /\ Append(Tail(s), c) \in Seq(S) /\ Len(Append(Tail(s), c)) = Len(s)
           /\ Append(Tail(s), c)[Len(s)] = c
           /\ \A k \in 1 .. Len(s) - 1 : Append(Tail(s), c)[k] = s[k + 1]
           /\ Head(s) = s[1]
  OBVIOUS

\* The segment's bit time.
LEMMA MediumStep ==
    ASSUME Segment, BitTime
    PROVE  /\ DOMAIN m' = DOMAIN m /\ m'.bypassed = m.bypassed
           /\ m'.driving = [i \in Nodes |-> Driven(st[i])]
           /\ m'.line = [i \in Nodes |-> IF Cable[i] > 0
                                         THEN Append(Tail(m.line[i]), m.driving[i]) ELSE <<>>]
           /\ m'.received = [i \in Nodes |->
                               IF Cable[Upstream(i)] > 0 THEN Head(m.line[Upstream(i)])
                               ELSE m.driving[Upstream(i)]]
<1> DEFINE line2 == [i \in Nodes |-> IF Cable[i] > 0
                                     THEN Append(Tail(m.line[i]), m.driving[i]) ELSE <<>>]
           rec2 == [i \in Nodes |-> IF Cable[Upstream(i)] > 0 THEN Head(m.line[Upstream(i)])
                                    ELSE m.driving[Upstream(i)]]
           dr2 == [i \in Nodes |-> Driven(st[i])]
<1>1. Advance(m, Zero) = [m EXCEPT !.line = line2, !.received = rec2]
  BY RingAdvance
<1>2. m' = [Advance(m, Zero) EXCEPT !.driving = dr2]
  BY DEF BitTime
<1> HIDE DEF line2, rec2, dr2
<1>3. m' = [[m EXCEPT !.line = line2, !.received = rec2] EXCEPT !.driving = dr2]
  BY <1>1, <1>2
<1>4. DOMAIN m = {"bypassed", "driving", "line", "received"}
  BY DEF Segment
<1>5. /\ DOMAIN m' = DOMAIN m /\ m'.bypassed = m.bypassed /\ m'.driving = dr2
      /\ m'.line = line2 /\ m'.received = rec2
  BY <1>3, <1>4
<1> QED BY <1>5 DEF line2, rec2, dr2

-----------------------------------------------------------------------------
(* One node's bit time on the ring.                                        *)

\* The station s, hearing c, becomes t: its own frame and the ring ...
BitEffect(s, t, c) ==
    /\ DOMAIN t = StationFields
    /\ t.tx = s.tx /\ ~t.timedOut /\ ~t.forced
    /\ t.orig = IF Last(s) THEN Free ELSE None
    /\ t.txPos = IF Sending(s) THEN s.txPos + 1 ELSE s.txPos
    /\ t.stripFor = IF Claims(s) THEN 0 ELSE IF s.strip /\ ~Originating(s) THEN s.stripFor + 1
                    ELSE s.stripFor
    /\ t.armed <=> s.armed /\ ~Last(s)
    /\ t.wants <=> s.wants /\ ~Claims(s)
    /\ t.strip <=> (s.strip \/ Claims(s)) /\ ~Ends(s)
    /\ t.holds <=> t.strip
    /\ t.seenOwn <=> (s.strip \/ Claims(s)) /\ ~Ends(s) /\ (s.seenOwn \/ c = Start)
    /\ s.seenOwn /\ ~Ends(s) => t.stripped = s.stripped + 1
    /\ (s.strip \/ Claims(s)) /\ ~s.seenOwn /\ c = Start => t.stripped = 0
    /\ t.stripped \in Nat
    /\ t.window = c
    /\ t.since = IF c \in {Free, Claimed} THEN 0 ELSE s.since + 1

\* ... and the frames that pass.
RxStart(s, t, c) ==
    c.kind = "start" =>
      /\ t.rx = "await" /\ t.seps = 0 /\ ~t.addressed /\ t.pending = c /\ KeepsAck(s, t)

\* ... a separator moves the receiver to the next field, ...
RxSep(s, t, c) ==
    SepHere(s, c) =>
      /\ t.rx = IF s.seps = 2 THEN "fcs" ELSE IF s.seps = 0 THEN "header" ELSE "body"
      /\ t.seps = IF s.seps < 3 THEN s.seps + 1 ELSE 3
      /\ t.src = s.src /\ (t.addressed <=> s.addressed) /\ t.pending = c /\ KeepsAck(s, t)

\* ... the frame check is followed by the late acknowledge, ...
RxFcs(s, t, c) ==
    FcsHere(s, c) => t.rx = "late" /\ KeepsFrame(s, t) /\ t.pending = c /\ KeepsAck(s, t)

\* ... which takes this station's bits, and which the frame's sender reads, ...
RxLate(s, t, c) ==
    LateHere(s, c) =>
      /\ Forwards(t, c) /\ t.rx = "idle" /\ KeepsFrame(s, t)
      /\ t.strip /\ t.seenOwn => t.ack = t.pending.ack /\ t.ackValid
      /\ ~(t.strip /\ t.seenOwn) => KeepsAck(s, t)

\* ... the header says whom the frame is for, ...
RxHeader(s, t, c, me) ==
    HeaderHere(s, c) =>
      /\ Forwards(t, c) /\ t.rx = "header" /\ t.seps = s.seps /\ t.src = c.src
      /\ (t.addressed <=> c.dest \in {Broadcast, me}) /\ KeepsAck(s, t)

\* ... and everything else passes.
RxOther(s, t, c) ==
    c.kind # "start" /\ ~SepHere(s, c) /\ ~FcsHere(s, c) /\ ~LateHere(s, c) /\ ~HeaderHere(s, c)
      => t.rx = s.rx /\ KeepsFrame(s, t) /\ t.pending = c /\ KeepsAck(s, t)

\* All of these.
RxStep(s, t, c, me) ==
    /\ RxStart(s, t, c) /\ RxSep(s, t, c) /\ RxFcs(s, t, c) /\ RxLate(s, t, c)
    /\ RxHeader(s, t, c, me) /\ RxOther(s, t, c)

\* The frame is copied if the last look at the receive enable says so.
Took(s, t, c, copyOn) == LateHere(s, c) /\ s.addressed /\ ~t.strip /\ copyOn

\* What node i's later looks at its receive enable make of a late acknowledge: the bits
\* it forwards and whether it copies the frame.  Unless somebody has touched the enable
\* meanwhile they all see the same.
Look(i, wackOn, copyOn) ==
    LET s == st[i]
        t == st'[i]
        c == m'.received[i]
    IN  /\ LateHere(s, c) => t.pending.ack = LateOut(s, c, wackOn)
        /\ \A j \in Nodes : taken'[j][i] = IF s.src = j /\ Took(s, t, c, copyOn)
                                           THEN taken[j][i] + 1 ELSE taken[j][i]
        /\ s.src \notin torn' => (wackOn <=> s.enabled) /\ (copyOn <=> s.enabled)

\* Driving and sampling together.
LEMMA SampledStation ==
    ASSUME NEW s, NEW c, Sound(s), InTime(s), Sending(s) => ~Originating(s) /\ s.txPos < Len(s.tx)
    PROVE  LET x == Sampled(Drive(s), c)
           IN  /\ DOMAIN x = StationFields
               /\ x.tx = s.tx /\ ~x.timedOut /\ ~x.forced
               /\ x.orig = IF Last(s) THEN Free ELSE None
               /\ x.txPos = IF Sending(s) THEN s.txPos + 1 ELSE s.txPos
               /\ x.stripFor = IF Claims(s) THEN 0
                               ELSE IF s.strip /\ ~Originating(s) THEN s.stripFor + 1
                               ELSE s.stripFor
               /\ x.armed <=> s.armed /\ ~Last(s)
               /\ x.wants <=> s.wants /\ ~Claims(s)
               /\ x.strip <=> (s.strip \/ Claims(s)) /\ ~Ends(s)
               /\ x.holds <=> x.strip
               /\ x.seenOwn <=> (s.strip \/ Claims(s)) /\ ~Ends(s) /\ (s.seenOwn \/ c = Start)
               /\ s.seenOwn /\ ~Ends(s) => x.stripped = s.stripped + 1
               /\ (s.strip \/ Claims(s)) /\ ~s.seenOwn /\ c = Start => x.stripped = 0
               /\ x.stripped \in Nat
               /\ x.window = c
               /\ x.since = IF c \in {Free, Claimed} THEN 0 ELSE s.since + 1
               /\ x.rx = s.rx /\ x.seps = s.seps /\ x.src = s.src /\ x.addressed = s.addressed
               /\ x.enabled = s.enabled /\ x.ack = s.ack /\ x.ackValid = s.ackValid
<1> DEFINE d == Drive(s)
           x == Sampled(d, c)
<1>1. DriveFrame(s, d) /\ DriveEffect(s, d)
  BY DriveStep
<1>2. Claims(s) => s.armed /\ ~s.strip /\ ~s.holds
  BY DEF Claims, Sound
<1>3. d.strip <=> s.strip \/ Claims(s)
  BY <1>1 DEF DriveEffect
<1>4. SampleFrame(d, x) /\ SampleEffect(d, x, c)
  <2>1. /\ DOMAIN d = StationFields /\ (d.strip => Len(d.tx) > 0) /\ (d.holds <=> d.strip)
        /\ (d.seenOwn => d.strip) /\ d.since \in Nat /\ d.since < LossTimeout /\ d.stripped \in Nat
    BY <1>1, <1>2 DEF DriveFrame, DriveEffect, Sound, InTime
  <2> HIDE DEF d
  <2> QED BY <2>1, SampleStep
<1> HIDE DEF d, x
<1>5. Ends(d) <=> Ends(s)
  <2>1. d.tx = s.tx /\ d.stripped = s.stripped /\ d.seenOwn = s.seenOwn
    BY <1>1 DEF DriveFrame
  <2>2. s.seenOwn => s.strip
    BY DEF Sound
  <2> QED BY <1>3, <2>1, <2>2 DEF Ends
<1>6. /\ x.tx = s.tx /\ ~x.timedOut /\ ~x.forced /\ DOMAIN x = StationFields
      /\ x.rx = s.rx /\ x.seps = s.seps /\ x.src = s.src /\ x.addressed = s.addressed
      /\ x.enabled = s.enabled /\ x.ack = s.ack /\ x.ackValid = s.ackValid
  BY <1>1, <1>4 DEF DriveFrame, SampleFrame, Sound
<1>7. /\ x.orig = IF Last(s) THEN Free ELSE None
      /\ x.txPos = IF Sending(s) THEN s.txPos + 1 ELSE s.txPos
      /\ x.stripFor = IF Claims(s) THEN 0
                      ELSE IF s.strip /\ ~Originating(s) THEN s.stripFor + 1
                      ELSE s.stripFor
      /\ x.armed <=> s.armed /\ ~Last(s)
      /\ x.wants <=> s.wants /\ ~Claims(s)
  BY <1>1, <1>4 DEF DriveEffect, SampleFrame
<1>8. /\ x.strip <=> (s.strip \/ Claims(s)) /\ ~Ends(s)
      /\ x.seenOwn <=> (s.strip \/ Claims(s)) /\ ~Ends(s) /\ (s.seenOwn \/ c = Start)
  <2>1. d.seenOwn = s.seenOwn
    BY <1>1 DEF DriveFrame
  <2> QED BY <1>3, <1>4, <1>5, <2>1 DEF SampleEffect
<1>9. x.holds <=> x.strip
  <2>1. d.holds <=> d.strip
    BY <1>1, <1>3 DEF DriveEffect, Sound
  <2> QED BY <1>4, <2>1 DEF SampleEffect
<1>10. /\ s.seenOwn /\ ~Ends(s) => x.stripped = s.stripped + 1
       /\ (s.strip \/ Claims(s)) /\ ~s.seenOwn /\ c = Start => x.stripped = 0
       /\ x.stripped \in Nat
  <2>1. d.seenOwn = s.seenOwn /\ d.stripped = s.stripped
    BY <1>1 DEF DriveFrame
  <2> QED BY <1>3, <1>4, <1>5, <2>1 DEF SampleEffect
<1>11. x.window = c /\ x.since = IF c \in {Free, Claimed} THEN 0 ELSE s.since + 1
  BY <1>1, <1>4 DEF SampleEffect, DriveFrame
<1> QED BY <1>6, <1>7, <1>8, <1>9, <1>10, <1>11 DEF x, d

\* Following together.
LEMMA TrackedStation ==
    ASSUME NEW x, NEW c, NEW me, NEW on, DOMAIN x = StationFields, DOMAIN c = SymbolFields
    PROVE  LET t == Track(x, c, me, on)
           IN  /\ TrackFrame(x, t)
               /\ RxStart(x, t, c) /\ RxSep(x, t, c) /\ RxFcs(x, t, c) /\ RxLate(x, t, c)
               /\ RxHeader(x, t, c, me) /\ RxOther(x, t, c)
               /\ LateHere(x, c) => t.pending.ack = LateOut(x, c, on)
<1> DEFINE t == Track(x, c, me, on)
<1>1. c.kind = "start" => TrackFrame(x, t) /\ RxStart(x, t, c)
  BY TrackStart DEF RxStart
<1>2. SepHere(x, c) => TrackFrame(x, t) /\ RxSep(x, t, c)
  BY TrackSep DEF RxSep
<1>3. FcsHere(x, c) => TrackFrame(x, t) /\ RxFcs(x, t, c)
  BY TrackFcs DEF RxFcs
<1>4. LateHere(x, c) => /\ TrackFrame(x, t) /\ RxLate(x, t, c)
                        /\ t.pending.ack = LateOut(x, c, on)
  <2> SUFFICES ASSUME LateHere(x, c) PROVE  /\ TrackFrame(x, t) /\ RxLate(x, t, c)
                      /\ t.pending.ack = LateOut(x, c, on)
    OBVIOUS
  <2>1. /\ TrackFrame(x, t) /\ Forwards(t, c) /\ t.pending.ack = LateOut(x, c, on)
        /\ t.rx = "idle" /\ KeepsFrame(x, t)
        /\ x.strip /\ x.seenOwn => t.ack = t.pending.ack /\ t.ackValid
        /\ ~(x.strip /\ x.seenOwn) => KeepsAck(x, t)
    BY TrackLate
  <2>2. t.strip = x.strip /\ t.seenOwn = x.seenOwn
    BY <2>1 DEF TrackFrame
  <2> HIDE DEF t
  <2> QED BY <2>1, <2>2 DEF RxLate
<1>5. HeaderHere(x, c) => TrackFrame(x, t) /\ RxHeader(x, t, c, me)
  BY TrackHeader DEF RxHeader
<1>6. c.kind # "start" /\ ~SepHere(x, c) /\ ~FcsHere(x, c) /\ ~LateHere(x, c) /\ ~HeaderHere(x, c)
        => TrackFrame(x, t) /\ RxOther(x, t, c)
  BY TrackOther DEF RxOther
<1>7. TrackFrame(x, t)
  BY <1>1, <1>2, <1>3, <1>4, <1>5, <1>6
<1> HIDE DEF t
<1>8. RxStart(x, t, c) /\ RxSep(x, t, c) /\ RxFcs(x, t, c) /\ RxLate(x, t, c)
      /\ RxHeader(x, t, c, me) /\ RxOther(x, t, c)
  BY <1>1, <1>2, <1>3, <1>4, <1>5, <1>6 DEF RxStart, RxSep, RxFcs, RxLate, RxHeader, RxOther
<1> QED BY <1>4, <1>7, <1>8 DEF t

\* What BitTime makes of node i's station.
LEMMA BitStation ==
    ASSUME Segment, Tables, BitTime, NEW i \in Nodes, Sound(st[i]), InTime(st[i]),
           Sending(st[i]) => ~Originating(st[i]) /\ st[i].txPos < Len(st[i].tx),
           DOMAIN m'.received[i] = SymbolFields
    PROVE  LET s == st[i]
               t == st'[i]
               c == m'.received[i]
           IN  /\ BitEffect(s, t, c) /\ RxStep(s, t, c, i)
               /\ \E wackOn, copyOn \in BOOLEAN : Look(i, wackOn, copyOn)
<1>0. PICK W, C :
        StationsTake([q \in Nodes |-> Sampled(Drive(st[q]), m'.received[q])], W, C)
  BY DEF BitTime
<1> DEFINE s == st[i]
           c == m'.received[i]
           x == Sampled(Drive(s), c)
           wackOn == i \in W
           copyOn == i \in C
           y == Track(x, c, i, wackOn)
           z == [y EXCEPT !.enabled = copyOn]
           t == ShutReceiver(z, Copies(x, c, copyOn))
<1>1. st'[i] = t
  <2>1. ~m.bypassed[i]
    BY DEF Segment
  <2>2. st'[i] = ShortLoop(t, m.bypassed[i])
    BY <1>0 DEF StationsTake, ShutReceiver
  <2> QED BY <2>1, <2>2 DEF ShortLoop
<1>2. /\ DOMAIN x = StationFields
      /\ x.tx = s.tx /\ ~x.timedOut /\ ~x.forced
      /\ x.orig = IF Last(s) THEN Free ELSE None
      /\ x.txPos = IF Sending(s) THEN s.txPos + 1 ELSE s.txPos
      /\ x.stripFor = IF Claims(s) THEN 0
                      ELSE IF s.strip /\ ~Originating(s) THEN s.stripFor + 1
                      ELSE s.stripFor
      /\ x.armed <=> s.armed /\ ~Last(s)
      /\ x.wants <=> s.wants /\ ~Claims(s)
      /\ x.strip <=> (s.strip \/ Claims(s)) /\ ~Ends(s)
      /\ x.holds <=> x.strip
      /\ x.seenOwn <=> (s.strip \/ Claims(s)) /\ ~Ends(s) /\ (s.seenOwn \/ c = Start)
      /\ s.seenOwn /\ ~Ends(s) => x.stripped = s.stripped + 1
      /\ (s.strip \/ Claims(s)) /\ ~s.seenOwn /\ c = Start => x.stripped = 0
      /\ x.stripped \in Nat
      /\ x.window = c
      /\ x.since = IF c \in {Free, Claimed} THEN 0 ELSE s.since + 1
      /\ x.rx = s.rx /\ x.seps = s.seps /\ x.src = s.src /\ x.addressed = s.addressed
      /\ x.enabled = s.enabled /\ x.ack = s.ack /\ x.ackValid = s.ackValid
  <2> HIDE DEF s, c
  <2> QED BY SampledStation DEF s
<1> HIDE DEF x
<1>3. /\ TrackFrame(x, y)
      /\ RxStart(x, y, c) /\ RxSep(x, y, c) /\ RxFcs(x, y, c) /\ RxLate(x, y, c)
      /\ RxHeader(x, y, c, i) /\ RxOther(x, y, c)
      /\ LateHere(x, c) => y.pending.ack = LateOut(x, c, wackOn)
  <2> HIDE DEF c, wackOn
  <2> QED BY <1>2, TrackedStation DEF c
<1> HIDE DEF y
<1>4. /\ DOMAIN t = StationFields /\ t.tx = y.tx /\ t.txPos = y.txPos /\ t.armed = y.armed
      /\ t.seenOwn = y.seenOwn /\ t.stripped = y.stripped /\ t.window = y.window
      /\ t.orig = y.orig /\ t.wants = y.wants /\ t.holds = y.holds /\ t.strip = y.strip
      /\ t.since = y.since /\ t.stripFor = y.stripFor /\ t.timedOut = y.timedOut
      /\ t.forced = y.forced /\ t.rx = y.rx /\ t.seps = y.seps /\ t.src = y.src
      /\ t.addressed = y.addressed /\ t.pending = y.pending /\ t.ack = y.ack
      /\ t.ackValid = y.ackValid
  <2>1. DOMAIN y = StationFields
    BY <1>3 DEF TrackFrame
  <2> HIDE DEF c, copyOn
  <2> QED BY <2>1 DEF ShutReceiver, StationFields
<1> HIDE DEF t
<1>5. BitEffect(s, t, c)
  BY <1>2, <1>3, <1>4 DEF BitEffect, TrackFrame
<1>6. /\ t.rx = y.rx /\ t.seps = y.seps /\ t.src = y.src /\ t.addressed = y.addressed
      /\ t.pending = y.pending /\ t.ack = y.ack /\ t.ackValid = y.ackValid
      /\ t.strip = y.strip /\ t.seenOwn = y.seenOwn
      /\ x.rx = s.rx /\ x.seps = s.seps /\ x.src = s.src /\ x.addressed = s.addressed
      /\ x.enabled = s.enabled /\ x.ack = s.ack /\ x.ackValid = s.ackValid
      /\ y.strip = x.strip
  BY <1>2, <1>3, <1>4 DEF TrackFrame
<1> HIDE DEF s, c
<1>7. LateOut(x, c, wackOn) = LateOut(s, c, wackOn)
  BY <1>6 DEF LateOut
<1>8. RxStart(s, t, c) /\ RxSep(s, t, c) /\ RxFcs(s, t, c) /\ RxLate(s, t, c)
  BY <1>3, <1>6 DEF RxStart, RxSep, RxFcs, RxLate, SepHere, FcsHere, LateHere, KeepsAck,
                          KeepsFrame, Forwards
<1>9. RxHeader(s, t, c, i) /\ RxOther(s, t, c)
  BY <1>3, <1>6 DEF RxHeader, RxOther, SepHere, FcsHere, LateHere, HeaderHere, KeepsAck,
                          KeepsFrame, Forwards
<1>10. Took(s, t, c, copyOn) <=> Copies(x, c, copyOn)
  BY <1>6 DEF Took, Copies, Answers, LateHere
<1>11. ASSUME NEW j \in Nodes
       PROVE  taken'[j][i] = IF s.src = j /\ Took(s, t, c, copyOn) THEN taken[j][i] + 1
                             ELSE taken[j][i]
  <2>1. taken'[j][i] = IF s.src = j /\ Copies(x, c, copyOn) THEN taken[j][i] + 1
                       ELSE taken[j][i]
    BY <1>0 DEF StationsTake, s, c, x
  <2> QED BY <1>10, <2>1
<1>12. ASSUME s.src \notin torn'
       PROVE  (wackOn <=> s.enabled) /\ (copyOn <=> s.enabled)
  BY <1>0, <1>12 DEF StationsTake, s
<1>13. LateHere(s, c) => t.pending.ack = LateOut(s, c, wackOn)
  BY <1>3, <1>6, <1>7 DEF LateHere
<1>14. \E w, d \in BOOLEAN : Look(i, w, d)
  <2>1. Look(i, wackOn, copyOn)
    BY <1>1, <1>11, <1>12, <1>13 DEF Look, s, c
  <2>2. wackOn \in BOOLEAN /\ copyOn \in BOOLEAN
    OBVIOUS
  <2> HIDE DEF wackOn, copyOn
  <2> QED BY <2>1, <2>2
<1> QED BY <1>1, <1>5, <1>8, <1>9, <1>14 DEF RxStep, s, c

\* What the sizes of the ring and of a frame and the two timeouts have to be to each
\* other.  AP_RING_STRIP_TIMEOUT_BITS and AP_RING_TOKEN_LOSS_TIMEOUT_BITS are 131072; the
\* longest ring, AP_RING_MAX_NODES of AP_RING_MAX_CABLE_BITS each, has 4224 cells, and the
\* longest frame, stuffed, is under 50000 bits.
RingFits == /\ Loop <= LossTimeout /\ MaxFrame + 1 <= LossTimeout
            /\ Loop + MaxFrame <= StripTimeout

\* The plain symbols are symbols.
LEMMA StartFacts ==
    /\ Zero \in Symbols /\ Free \in Symbols /\ Claimed \in Symbols
    /\ \A c \in Symbols : DOMAIN c = SymbolFields
  BY DEF Zero, Free, Claimed, Plain, Symbols, SymbolFields, NoNode

\* What the invariant says of one node.
LEMMA NodeFacts ==
    ASSUME NEW a, NEW v, NEW e, NEW o, Ring(a, v, e, o), RingFits, NEW i \in Nodes
    PROVE  /\ a \in Places /\ v \in Nat /\ Loop \in Nat /\ Loop >= 2
           /\ e[i] = Gap(a, v, i) /\ e[i] \in Nat /\ o[i] \in Nat
           /\ 1 + v <= e[i] /\ e[i] <= Loop + v /\ (e[i] = Loop + v <=> Base[i] = a)
           /\ Sound(st[i]) /\ Size(i) \in {0, 7, 8}
           /\ st[i].strip \/ st[i].armed => Size(i) \in {7, 8} /\ IsFrame(st[i].tx, i)
           /\ st[i].stripFor \in Nat /\ st[i].since \in Nat
<1>1. Distances(a, v, e, o) /\ Node(a, v, e, o, i)
  BY DEF Ring
<1>2. a \in Places /\ v \in Nat /\ e[i] = Gap(a, v, i) /\ o[i] \in Nat
  BY <1>1 DEF Distances
<1>3. /\ Loop \in Nat /\ Loop >= 2 /\ Gap(a, v, i) \in Nat /\ 1 + v <= Gap(a, v, i)
      /\ Gap(a, v, i) <= Loop + v /\ (Gap(a, v, i) = Loop + v <=> Base[i] = a)
  BY <1>2, GapFacts
<1>4. Sound(st[i]) /\ (st[i].tx = <<>> \/ IsFrame(st[i].tx, i))
  BY <1>1 DEF Node, Station
<1>5. Len(<<>>) = 0
  OBVIOUS
<1>6. IsFrame(st[i].tx, i) => Size(i) \in {7, 8}
  BY FrameFacts DEF Size
<1>7. st[i].strip \/ st[i].armed => Size(i) > 0
  BY <1>4 DEF Sound, Size
<1>8. Size(i) \in {0, 7, 8}
  BY <1>4, <1>5, <1>6 DEF Size
<1>9. st[i].strip \/ st[i].armed => Size(i) \in {7, 8} /\ IsFrame(st[i].tx, i)
  BY <1>4, <1>5, <1>6, <1>7 DEF Size
<1>10. st[i].stripFor \in Nat /\ st[i].since \in Nat
  BY <1>4 DEF Sound
<1> QED BY <1>2, <1>3, <1>4, <1>8, <1>9, <1>10

\* No two nodes hear the same symbol.
LEMMA GapsDiffer ==
    ASSUME NEW a, NEW v, NEW e, NEW o, Distances(a, v, e, o)
    PROVE  \A i, j \in Nodes : i # j => e[i] # e[j]
<1>1. a \in Places /\ v \in Nat /\ \A i \in Nodes : e[i] = Gap(a, v, i)
  BY DEF Distances
<1> QED BY <1>1, GapFacts

\* A node that strips, by the place it is at.
LEMMA StripFacts ==
    ASSUME NEW a, NEW v, NEW e, NEW o, Ring(a, v, e, o), RingFits, NEW i \in Nodes, st[i].strip
    PROVE  /\ o[i] < e[i] /\ Left(i) = e[i] - o[i] /\ Left(i) \in Nat /\ Left(i) >= 1
           /\ st[i].armed => /\ v > 0 /\ Base[i] = a /\ st[i].stripFor = Size(i) - v
                             /\ st[i].txPos = Size(i) - v /\ v <= Size(i) /\ o[i] = 0
                             /\ ~Originating(st[i])
           /\ Originating(st[i]) => v = 0 /\ Base[i] = a /\ st[i].stripFor = Size(i)
           /\ v > 0 /\ Base[i] = a => st[i].armed
<1>1. Node(a, v, e, o, i)
  BY DEF Ring
<1>2. Owning(a, v, i) /\ Lasts(e, o, i)
  BY <1>1 DEF Node
<1>3. /\ v \in Nat /\ e[i] \in Nat /\ o[i] \in Nat /\ Size(i) \in {7, 8} /\ Sound(st[i])
      /\ Loop \in Nat /\ (e[i] = Loop + v <=> Base[i] = a) /\ st[i].stripFor \in Nat
  BY NodeFacts
<1>4. o[i] < e[i] /\ Left(i) = e[i] - o[i]
  BY <1>2 DEF Lasts
<1>5. st[i].txPos \in Nat
  BY <1>3 DEF Sound
<1>6. st[i].armed => /\ v > 0 /\ Base[i] = a /\ st[i].stripFor = Size(i) - v
                     /\ st[i].txPos = Size(i) - v /\ v <= Size(i) /\ ~Originating(st[i])
  BY <1>2, <1>3, <1>5 DEF Owning, Sending
<1>7. st[i].armed => o[i] = 0
  <2> SUFFICES ASSUME st[i].armed PROVE o[i] = 0
    OBVIOUS
  <2>1. Left(i) = Loop + Size(i) - st[i].stripFor
    BY <1>3 DEF Left
  <2> QED BY <1>3, <1>4, <1>6, <2>1
<1>8. Originating(st[i]) => v = 0 /\ Base[i] = a /\ st[i].stripFor = Size(i)
  BY <1>2 DEF Owning
<1>9. v > 0 /\ Base[i] = a => st[i].armed
  BY <1>2 DEF Owning, Sending
<1> QED BY <1>3, <1>4, <1>6, <1>7, <1>8, <1>9

\* Neither timeout is about to run out.
LEMMA NodeInTime ==
    ASSUME NEW a, NEW v, NEW e, NEW o, Ring(a, v, e, o), RingFits, NEW i \in Nodes
    PROVE  /\ InTime(st[i])
           /\ Sending(st[i]) => ~Originating(st[i]) /\ st[i].txPos < Len(st[i].tx)
<1>1. Timely(e, o, i)
  BY DEF Ring, Node
<1>2. e[i] \in Nat /\ e[i] >= 1 /\ v \in Nat /\ Loop \in Nat /\ Loop >= 2 /\ st[i].since \in Nat
      /\ st[i].stripFor \in Nat
  BY NodeFacts
<1>3. Bound <= LossTimeout /\ Bound \in Nat /\ LossTimeout \in Nat /\ StripTimeout \in Nat
  BY <1>2, TimeoutsArePositive DEF RingFits, Bound, MaxFrame
<1>4. st[i].since < LossTimeout
  <2>1. CASE st[i].since + e[i] <= Bound
    BY <1>2, <1>3, <2>1
  <2>2. CASE \E j \in Nodes : /\ st[j].strip /\ e[i] <= e[j] /\ o[j] + Size(j) + 1 < e[i]
                              /\ st[i].since + e[i] - (o[j] + Size(j) + 1) <= Bound
    <3>1. PICK j \in Nodes : /\ o[j] + Size(j) + 1 < e[i]
                             /\ st[i].since + e[i] - (o[j] + Size(j) + 1) <= Bound
      BY <2>2
    <3>2. o[j] \in Nat /\ Size(j) \in Nat
      BY NodeFacts
    <3> QED BY <1>2, <1>3, <3>1, <3>2
  <2> QED BY <1>1, <2>1, <2>2 DEF Timely
<1>5. st[i].strip => st[i].stripFor + 1 < StripTimeout
  <2> SUFFICES ASSUME st[i].strip PROVE st[i].stripFor + 1 < StripTimeout
    OBVIOUS
  <2>1. Left(i) \in Nat /\ Left(i) >= 1 /\ Size(i) \in {7, 8}
    BY StripFacts, NodeFacts
  <2>2. Loop + 8 <= StripTimeout
    BY DEF RingFits, MaxFrame
  <2>3. CASE st[i].armed
    <3>1. st[i].stripFor = Size(i) - v
      BY <2>3, StripFacts
    <3> QED BY <1>2, <1>3, <2>1, <2>2, <3>1
  <2>4. CASE Originating(st[i])
    <3>1. st[i].stripFor = Size(i)
      BY <2>4, StripFacts
    <3> QED BY <1>2, <1>3, <2>1, <2>2, <3>1
  <2>5. CASE ~st[i].armed /\ ~Originating(st[i])
    <3>1. Left(i) = Loop + Size(i) - st[i].stripFor - 1
      BY <2>5 DEF Left
    <3> QED BY <1>2, <1>3, <2>1, <2>2, <3>1
  <2> QED BY <2>3, <2>4, <2>5
<1>6. Sending(st[i]) => ~Originating(st[i]) /\ st[i].txPos < Len(st[i].tx)
  <2> SUFFICES ASSUME Sending(st[i]) PROVE ~Originating(st[i]) /\ st[i].txPos < Len(st[i].tx)
    OBVIOUS
  <2>1. /\ v > 0 /\ st[i].txPos = Size(i) - v /\ ~Originating(st[i]) /\ v <= Size(i)
        /\ Size(i) \in {7, 8}
    BY StripFacts, NodeFacts DEF Sending
  <2> QED BY <1>2, <2>1 DEF Size
<1> QED BY <1>4, <1>5, <1>6 DEF InTime

\* Who claims the token has just heard it.
LEMMA ClaimFacts ==
    ASSUME NEW a, NEW v, NEW e, NEW o, Ring(a, v, e, o), RingFits, NEW i \in Nodes,
           Claims(st[i])
    PROVE  /\ v = 0 /\ Base[i] = a /\ e[i] = Loop /\ Size(i) \in {7, 8}
           /\ ~st[i].strip /\ st[i].armed /\ st[i].txPos = 0 /\ ~st[i].ackValid
           /\ \A k \in Nodes : taken[i][k] = 0
<1>1. Station(i) /\ Owning(a, v, i)
  BY DEF Ring, Node
<1>2. Sound(st[i]) /\ st[i].wants /\ st[i].window = Free /\ ~Originating(st[i])
  BY <1>1 DEF Station, Claims
<1>3. st[i].armed /\ ~st[i].strip
  BY <1>2 DEF Sound
<1>4. v = 0 /\ Base[i] = a
  BY <1>1, <1>2 DEF Owning
<1>5. st[i].txPos = 0 /\ ~st[i].ackValid /\ \A k \in Nodes : taken[i][k] = 0
  BY <1>1, <1>2 DEF Station
<1>6. e[i] = Loop /\ Size(i) \in {7, 8}
  BY <1>3, <1>4, NodeFacts
<1> QED BY <1>3, <1>4, <1>5, <1>6

\* What a node hears is the symbol one nearer to the token than its last.
LEMMA HeardCell ==
    ASSUME NEW a, NEW v, NEW e, NEW o, Ring(a, v, e, o), RingFits, BitTime, NEW i \in Nodes
    PROVE  Cell(e, o, m'.received[i], e[i] - 1)
<1> DEFINE u == Upstream(i)
<1>1. a \in Places /\ v \in Nat /\ e[i] = Gap(a, v, i)
  BY NodeFacts
<1>2. u \in Nodes /\ Ahead(a, v, Base[u] + 1 + Cable[u]) = e[i] - 1
  BY <1>1, AtUpstream
<1>3. m'.received[i] = IF Cable[u] > 0 THEN Head(m.line[u]) ELSE m.driving[u]
  BY MediumStep DEF Ring
<1>4. LineTrue(a, v, e, o, u) /\ m.line[u] \in Seq(Symbols) /\ Len(m.line[u]) = Cable[u]
  BY <1>2 DEF Ring, Node, Segment
<1> HIDE DEF u
<1>5. Base[u] \in Nat /\ Cable[u] \in Nat
  BY <1>2, BaseShape
<1>6. CASE Cable[u] > 0
  <2>1. Head(m.line[u]) = m.line[u][1]
    BY <1>4, <1>5, <1>6
  <2>2. Cell(e, o, m.line[u][1], Ahead(a, v, Base[u] + (Cable[u] + 2 - 1)))
    BY <1>4, <1>5, <1>6 DEF LineTrue
  <2>3. Base[u] + (Cable[u] + 2 - 1) = Base[u] + 1 + Cable[u]
    BY <1>5
  <2> QED BY <1>2, <1>3, <1>6, <2>1, <2>2, <2>3
<1>7. CASE Cable[u] = 0
  <2>1. Base[u] + 1 = Base[u] + 1 + Cable[u]
    BY <1>5, <1>7
  <2> QED BY <1>2, <1>3, <1>4, <1>7, <2>1 DEF LineTrue
<1> QED BY <1>5, <1>6, <1>7

\* A stripping node hears nobody else's frame before its own is over.
LEMMA NotAnothers ==
    ASSUME NEW a, NEW v, NEW e, NEW o, Ring(a, v, e, o), RingFits, NEW i \in Nodes, st[i].strip,
           NEW k \in Nodes, k # i, Left(i) > 1
    PROVE  ~Carries(e, o, k, e[i] - 1)
<1> SUFFICES ASSUME Carries(e, o, k, e[i] - 1) PROVE FALSE
  OBVIOUS
<1>1. /\ e[i] \in Nat /\ e[k] \in Nat /\ o[i] \in Nat /\ o[k] \in Nat /\ Size(k) \in Nat
  BY NodeFacts
<1>2. st[k].strip /\ e[i] - 1 < e[k] /\ e[i] - 1 <= o[k] + Size(k) + 1
  BY DEF Carries
<1>3. e[i] # e[k]
  BY GapsDiffer DEF Ring
<1>4. o[k] + Size(k) + 1 <= o[i]
  BY <1>1, <1>2, <1>3 DEF Ring, Apart, Stripping
<1>5. Left(i) = e[i] - o[i]
  BY StripFacts
<1> QED BY <1>1, <1>2, <1>4, <1>5

\* What a stripping node hears: nothing, then its own claimed token and frame.
LEMMA StripperHears ==
    ASSUME NEW a, NEW v, NEW e, NEW o, Ring(a, v, e, o), RingFits, NEW i \in Nodes, st[i].strip,
           NEW c, Holds(e, o, c, e[i] - 1)
    PROVE  /\ Left(i) = Size(i) + 1 => c = Start
           /\ Left(i) = Size(i) + 2 => c = Claimed
           /\ Left(i) > Size(i) + 2 => c = Zero
           /\ Left(i) > 1 /\ Left(i) <= Size(i) =>
                Alike(c, st[i].tx[Size(i) + 2 - Left(i)])
<1>1. /\ e[i] \in Nat /\ o[i] \in Nat /\ Size(i) \in {7, 8} /\ IsFrame(st[i].tx, i)
      /\ Left(i) = e[i] - o[i] /\ Left(i) \in Nat
  BY NodeFacts, StripFacts
<1>2. Left(i) > 1 /\ Left(i) <= Size(i) + 2 => OfFrame(c, i, Left(i) - 1)
  <2> SUFFICES ASSUME Left(i) > 1, Left(i) <= Size(i) + 2 PROVE OfFrame(c, i, Left(i) - 1)
    OBVIOUS
  <2>1. Carries(e, o, i, e[i] - 1)
    BY <1>1 DEF Carries
  <2>2. (e[i] - 1) - o[i] = Left(i) - 1
    BY <1>1
  <2> QED BY <2>1, <2>2 DEF Holds
<1>3. Left(i) = Size(i) + 1 => c = Start
  <2> SUFFICES ASSUME Left(i) = Size(i) + 1 PROVE c = Start
    OBVIOUS
  <2>1. OfFrame(c, i, Size(i))
    <3>1. Left(i) - 1 = Size(i) /\ Left(i) > 1 /\ Left(i) <= Size(i) + 2
      BY <1>1
    <3> QED BY <1>2, <3>1
  <2>2. Alike(c, st[i].tx[1])
    <3>1. Size(i) # Size(i) + 1 /\ Size(i) + 1 - Size(i) = 1
      BY <1>1
    <3> QED BY <2>1, <3>1 DEF OfFrame
  <2>3. st[i].tx[1] = Start
    BY <1>1, FrameFacts
  <2> QED BY <2>2, <2>3 DEF Alike
<1>4. Left(i) = Size(i) + 2 => c = Claimed
  <2> SUFFICES ASSUME Left(i) = Size(i) + 2 PROVE c = Claimed
    OBVIOUS
  <2>1. OfFrame(c, i, Size(i) + 1)
    <3>1. Left(i) - 1 = Size(i) + 1 /\ Left(i) > 1 /\ Left(i) <= Size(i) + 2
      BY <1>1
    <3> QED BY <1>2, <3>1
  <2> QED BY <2>1 DEF OfFrame
<1>5. Left(i) > Size(i) + 2 => c = Zero
  <2> SUFFICES ASSUME Left(i) > Size(i) + 2 PROVE c = Zero
    OBVIOUS
  <2>1. Left(i) > 1 /\ e[i] - 1 # 0
    BY <1>1
  <2>2. ~Carries(e, o, i, e[i] - 1)
    BY <1>1 DEF Carries
  <2>3. \A k \in Nodes : ~Carries(e, o, k, e[i] - 1)
    BY <2>1, <2>2, NotAnothers
  <2> QED BY <2>1, <2>3 DEF Holds
<1>6. Left(i) > 1 /\ Left(i) <= Size(i) => Alike(c, st[i].tx[Size(i) + 2 - Left(i)])
  <2> SUFFICES ASSUME Left(i) > 1, Left(i) <= Size(i)
               PROVE  Alike(c, st[i].tx[Size(i) + 2 - Left(i)])
    OBVIOUS
  <2>1. /\ Left(i) <= Size(i) + 2 /\ Left(i) - 1 # Size(i) + 1
        /\ Size(i) + 1 - (Left(i) - 1) = Size(i) + 2 - Left(i)
    BY <1>1
  <2> QED BY <1>2, <2>1 DEF OfFrame
<1> QED BY <1>3, <1>4, <1>5, <1>6

\* A node that claims the token hears an idle cell behind it.
LEMMA ClaimerHears ==
    ASSUME NEW a, NEW v, NEW e, NEW o, Ring(a, v, e, o), RingFits, NEW i \in Nodes,
           Claims(st[i]), NEW c, Holds(e, o, c, e[i] - 1)
    PROVE  c = Zero
<1>1. v = 0 /\ e[i] = Loop /\ ~st[i].strip /\ Loop \in Nat /\ Loop >= 2
  BY ClaimFacts, NodeFacts
<1>2. \A k \in Nodes : ~Carries(e, o, k, e[i] - 1)
  <2> SUFFICES ASSUME NEW k \in Nodes, st[k].strip, Loop - 1 < e[k] PROVE FALSE
    BY <1>1 DEF Carries
  <2>1. e[k] \in Nat /\ e[k] <= Loop + v /\ e[k] # e[i]
    BY <1>1, NodeFacts, GapsDiffer DEF Ring
  <2> QED BY <1>1, <2>1
<1>3. e[i] - 1 # 0
  BY <1>1
<1> QED BY <1>2, <1>3 DEF Holds

\* Stripping ends with the symbol behind the frame, and not before.
LEMMA EndsWhen ==
    ASSUME NEW a, NEW v, NEW e, NEW o, Ring(a, v, e, o), RingFits, NEW i \in Nodes
    PROVE  Ends(st[i]) <=> st[i].strip /\ Left(i) = 1
<1>1. Own(i)
  BY DEF Ring, Node
<1>2. CASE ~st[i].strip
  BY <1>2 DEF Ends
<1>3. CASE st[i].strip
  <2>1. Left(i) \in Nat /\ Left(i) >= 1 /\ Size(i) \in {7, 8}
    BY <1>3, StripFacts, NodeFacts
  <2>2. /\ st[i].seenOwn <=> Left(i) <= Size(i)
        /\ st[i].seenOwn => st[i].stripped = Size(i) - Left(i)
    BY <1>1, <1>3 DEF Own
  <2>3. Ends(st[i]) <=> st[i].seenOwn /\ st[i].stripped + 1 >= Size(i)
    BY <1>3 DEF Ends, Size
  <2>4. CASE st[i].seenOwn
    BY <1>3, <2>1, <2>2, <2>3, <2>4
  <2>5. CASE ~st[i].seenOwn
    BY <1>3, <2>1, <2>2, <2>3, <2>5
  <2> QED BY <2>4, <2>5
<1> QED BY <1>2, <1>3

\* What a bit time makes of a node's hold on the ring.
HoldStep(i) ==
    /\ BitEffect(st[i], st'[i], m'.received[i])
    /\ RxStep(st[i], st'[i], m'.received[i], i)
    /\ \E wackOn, copyOn \in BOOLEAN : Look(i, wackOn, copyOn)
    /\ torn \subseteq torn'
    /\ Size(i)' = Size(i) /\ Dest(i)' = Dest(i)
    /\ st'[i].strip <=> (st[i].strip /\ Left(i) > 1) \/ Claims(st[i])
    /\ st[i].strip => Left(i)' = Left(i) - 1
    /\ Claims(st[i]) => Left(i)' = Loop + Size(i)
    /\ Originating(st'[i]) <=> Last(st[i])

\* ... is what HoldStep says.
LEMMA NodeStep ==
    ASSUME NEW a, NEW v, NEW e, NEW o, Ring(a, v, e, o), RingFits, BitTime, NEW i \in Nodes
    PROVE  HoldStep(i)
<1> DEFINE s == st[i]
           t == st'[i]
           c == m'.received[i]
<1>1. Sound(s) /\ InTime(s) /\ (Sending(s) => ~Originating(s) /\ s.txPos < Len(s.tx))
  BY NodeFacts, NodeInTime
<1>2. Holds(e, o, c, e[i] - 1)
  BY HeardCell DEF Cell
<1>3. DOMAIN c = SymbolFields
  BY <1>2, StartFacts DEF Holds
<1>4. /\ BitEffect(s, t, c) /\ RxStep(s, t, c, i)
      /\ \E wackOn, copyOn \in BOOLEAN : Look(i, wackOn, copyOn)
  BY <1>1, <1>3, BitStation DEF Ring
<1>5. Size(i)' = Size(i) /\ Dest(i)' = Dest(i)
  BY <1>4 DEF BitEffect, Size, Dest
<1>6. st'[i].strip <=> (st[i].strip /\ Left(i) > 1) \/ Claims(st[i])
  <2>1. st[i].strip => Left(i) \in Nat /\ Left(i) >= 1
    BY StripFacts
  <2>2. Claims(s) => ~s.strip
    BY <1>1 DEF Claims, Sound
  <2> QED BY <1>4, <2>1, <2>2, EndsWhen DEF BitEffect
<1>7. Originating(st'[i]) <=> Last(st[i])
  BY <1>4, KindsDiffer DEF BitEffect, Originating
<1>8. st[i].strip => Left(i)' = Left(i) - 1
  <2> SUFFICES ASSUME st[i].strip PROVE Left(i)' = Left(i) - 1
    OBVIOUS
  <2>1. /\ Size(i) \in {7, 8} /\ Loop \in Nat /\ s.stripFor \in Nat /\ ~Claims(s)
    BY <1>1, NodeFacts DEF Claims, Sound
  <2>2. Left(i)' = Loop + Size(i) - t.stripFor - (IF t.armed \/ Originating(t) THEN 0 ELSE 1)
    BY <1>5 DEF Left, Loop
  <2>3. CASE s.armed
    <3>1. Sending(s) /\ ~Originating(s)
      BY <1>1, <2>3 DEF Sending
    <3>2. t.stripFor = s.stripFor + 1 /\ (t.armed \/ Originating(t))
      BY <1>4, <1>7, <2>1, <2>3, <3>1 DEF BitEffect
    <3> QED BY <2>1, <2>2, <2>3, <3>2 DEF Left
  <2>4. CASE ~s.armed /\ Originating(s)
    <3>1. t.stripFor = s.stripFor /\ ~t.armed /\ ~Originating(t)
      BY <1>4, <1>7, <2>1, <2>4 DEF BitEffect, Last, Sending
    <3> QED BY <2>1, <2>2, <2>4, <3>1 DEF Left
  <2>5. CASE ~s.armed /\ ~Originating(s)
    <3>1. t.stripFor = s.stripFor + 1 /\ ~t.armed /\ ~Originating(t)
      BY <1>4, <1>7, <2>1, <2>5 DEF BitEffect, Last, Sending
    <3> QED BY <2>1, <2>2, <2>5, <3>1 DEF Left
  <2> QED BY <2>3, <2>4, <2>5
<1>9. Claims(st[i]) => Left(i)' = Loop + Size(i)
  <2> SUFFICES ASSUME Claims(st[i]) PROVE Left(i)' = Loop + Size(i)
    OBVIOUS
  <2>1. s.armed /\ ~s.strip /\ Size(i) \in {7, 8} /\ Loop \in Nat
    BY ClaimFacts, NodeFacts
  <2>2. t.stripFor = 0 /\ t.armed
    BY <1>4, <2>1 DEF BitEffect, Last, Sending
  <2> QED BY <1>5, <2>1, <2>2 DEF Left
<1>10. torn \subseteq torn'
  BY DEF BitTime, StationsTake
<1> QED BY <1>4, <1>5, <1>6, <1>7, <1>8, <1>9, <1>10 DEF HoldStep

\* Own frame known and counted.
LEMMA OwnStep ==
    ASSUME NEW a, NEW v, NEW e, NEW o, Ring(a, v, e, o), RingFits, BitTime, NEW i \in Nodes
    PROVE  Own(i)'
<1> DEFINE s == st[i]
           t == st'[i]
           c == m'.received[i]
<1>1. HoldStep(i)
  BY NodeStep
<1>2. Holds(e, o, c, e[i] - 1)
  BY HeardCell DEF Cell
<1>3. BitEffect(s, t, c)
  BY <1>1 DEF HoldStep
<1> SUFFICES ASSUME t.strip
             PROVE  /\ t.seenOwn <=> Left(i)' <= Size(i)
                    /\ t.seenOwn => t.stripped = Size(i) - Left(i)'
  BY <1>1 DEF Own, HoldStep
<1>4. CASE s.strip
  <2>1. /\ Left(i) \in Nat /\ Size(i) \in {7, 8} /\ Left(i)' = Left(i) - 1 /\ Left(i) > 1
    BY <1>1, <1>4, StripFacts, NodeFacts DEF HoldStep, Claims, Sound
  <2>2. ~Ends(s)
    BY <2>1, EndsWhen
  <2>3. /\ s.seenOwn <=> Left(i) <= Size(i)
        /\ s.seenOwn => s.stripped = Size(i) - Left(i)
    BY <1>4 DEF Ring, Node, Own
  <2>4. /\ Left(i) = Size(i) + 1 => c = Start
        /\ Left(i) = Size(i) + 2 => c = Claimed
        /\ Left(i) > Size(i) + 2 => c = Zero
    <3>1. st[i].strip
      BY <1>4
    <3> HIDE DEF c, s, t
    <3> QED BY <1>2, <3>1, StripperHears
  <2>5. Left(i) > Size(i) + 1 => c # Start
    BY <2>1, <2>4, KindsDiffer
  <2>6. t.seenOwn <=> s.seenOwn \/ c = Start
    BY <1>3, <1>4, <2>2 DEF BitEffect
  <2>7. t.seenOwn <=> Left(i)' <= Size(i)
    BY <2>1, <2>3, <2>4, <2>5, <2>6
  <2>8. CASE s.seenOwn
    <3>1. t.stripped = s.stripped + 1
      BY <1>3, <2>2, <2>8 DEF BitEffect
    <3> QED BY <2>1, <2>3, <2>7, <2>8, <3>1
  <2>9. CASE ~s.seenOwn /\ c = Start
    <3>1. t.stripped = 0
      BY <1>3, <1>4, <2>9 DEF BitEffect
    <3>2. Left(i) = Size(i) + 1
      BY <2>1, <2>3, <2>5, <2>9
    <3> QED BY <2>1, <2>7, <3>1, <3>2
  <2> QED BY <2>6, <2>7, <2>8, <2>9
<1>5. CASE ~s.strip
  <2>1. Claims(s)
    BY <1>1, <1>5 DEF HoldStep
  <2>2. c = Zero
    BY <1>2, <2>1, ClaimerHears
  <2>3. ~s.seenOwn
    <3>1. Sound(s)
      BY NodeFacts
    <3> QED BY <1>5, <3>1 DEF Sound
  <2>4. ~t.seenOwn
    BY <1>3, <2>2, <2>3, KindsDiffer DEF BitEffect
  <2>5. Left(i)' = Loop + Size(i) /\ Loop \in Nat /\ Loop >= 2 /\ Size(i) \in {7, 8}
    BY <1>1, <2>1, ClaimFacts, NodeFacts DEF HoldStep
  <2> QED BY <2>4, <2>5
<1> QED BY <1>4, <1>5

-----------------------------------------------------------------------------
(* What a bit time makes of the distances.                                 *)

\* The token's place and the owner's symbols to go, before and after a bit time that
\* puts k symbols between the old place and the new.
Places2(a, v, a2, v2, k) ==
    \/ v > 0 /\ a2 = a /\ v2 = v - 1 /\ k = 0 /\ \A i \in Nodes : ~Claims(st[i])
    \/ /\ v = 0 /\ a2 = a /\ k = v2 + 1
       /\ \E w \in Nodes : Base[w] = a /\ Claims(st[w]) /\ v2 = Size(w)
    \/ v = 0 /\ a2 = After(a) /\ v2 = 0 /\ k = 0 /\ \A i \in Nodes : ~Claims(st[i])

\* A frame keeps its distance to the token, but for the k symbols between the
\* token's old place and its new; the claimer's own starts at 0.
Apart2(o, k) == [j \in Nodes |-> IF Claims(st[j]) THEN 0 ELSE o[j] + k]

\* Who claims the token moves it a frame away from everything else.
NodeTurn(v, e, o, v2, e2, o2, k, i) ==
    /\ v \in Nat /\ v2 \in Nat /\ k \in Nat /\ Loop \in Nat /\ Loop >= 2
    /\ e[i] \in Nat /\ e2[i] \in Nat /\ o[i] \in Nat /\ o2[i] \in Nat
    /\ Size(i) \in {0, 7, 8} /\ Size(i)' = Size(i)
    /\ 1 + v <= e[i] /\ e[i] <= Loop + v /\ 1 + v2 <= e2[i] /\ e2[i] <= Loop + v2
    /\ v > 0 \/ k > 0 => e[i] >= 2 + v
    /\ e[i] = 1 => k = 0 /\ v = 0 /\ v2 = 0 /\ e2[i] = Loop
    /\ e[i] > 1 => e2[i] = e[i] - 1 + k
    /\ Claims(st[i]) => /\ ~st[i].strip /\ Size(i) \in {7, 8} /\ v = 0 /\ e[i] = Loop
                        /\ e2[i] = Loop + v2 /\ o2[i] = 0 /\ v2 = Size(i) /\ k = v2 + 1
    /\ ~Claims(st[i]) => o2[i] = o[i] + k
    /\ st'[i].strip => st[i].strip \/ Claims(st[i])
    /\ Claims(st[i]) => st'[i].strip
    /\ st[i].strip => /\ Size(i) \in {7, 8} /\ o[i] < e[i]
                      /\ st'[i].strip <=> e[i] - o[i] > 1

\* A bit time in which the token's place, the owner's symbols to go and the
\* distances become a2, v2, e2 and o2.
Turn(a, v, e, o, a2, v2, e2, o2, k) ==
    /\ Ring(a, v, e, o) /\ RingFits /\ BitTime
    /\ Distances(a2, v2, e2, o2) /\ Places2(a, v, a2, v2, k)
    /\ \A i \in Nodes : NodeTurn(v, e, o, v2, e2, o2, k, i)
    /\ k > 0 => \E w \in Nodes : Claims(st[w])
    /\ \A i, j \in Nodes : i # j => e[i] # e[j] /\ e2[i] # e2[j]

\* There are such distances.
LEMMA TurnPlaces ==
    ASSUME NEW a, NEW v, NEW e, NEW o, Ring(a, v, e, o), RingFits
    PROVE  \E a2 \in Places, v2 \in 0 .. MaxFrame, k \in Nat : Places2(a, v, a2, v2, k)
<1>1. a \in Places /\ v \in 0 .. MaxFrame
  BY DEF Ring, Distances
<1>2. CASE v > 0
  <2>1. \A i \in Nodes : ~Claims(st[i])
    BY <1>2, ClaimFacts
  <2>2. v - 1 \in 0 .. MaxFrame
    BY <1>1, <1>2 DEF MaxFrame
  <2> QED BY <1>1, <1>2, <2>1, <2>2 DEF Places2
<1>3. CASE v = 0 /\ \E w \in Nodes : Claims(st[w])
  <2>1. PICK w \in Nodes : Claims(st[w])
    BY <1>3
  <2>2. Base[w] = a /\ Size(w) \in {7, 8}
    BY <2>1, ClaimFacts
  <2>3. Size(w) \in 0 .. MaxFrame /\ Size(w) + 1 \in Nat
    BY <2>2 DEF MaxFrame
  <2>4. Places2(a, v, a, Size(w), Size(w) + 1)
    BY <1>3, <2>1, <2>2 DEF Places2
  <2> QED BY <1>1, <2>3, <2>4
<1>4. CASE v = 0 /\ \A i \in Nodes : ~Claims(st[i])
  <2>1. After(a) \in Places /\ 0 \in 0 .. MaxFrame /\ 0 \in Nat
    BY <1>1, TokenMoves DEF MaxFrame
  <2> QED BY <1>4, <2>1 DEF Places2
<1> QED BY <1>1, <1>2, <1>3, <1>4

\* The next cell of a node is nobody's own.
LEMMA NoneNext ==
    ASSUME NEW w \in Nodes, NEW v \in Nat
    PROVE  \A i \in Nodes : Gap(Base[w], v, i) >= 2 + v
<1> SUFFICES ASSUME NEW i \in Nodes PROVE Gap(Base[w], v, i) >= 2 + v
  OBVIOUS
<1>1. /\ Base[i] \in Nat /\ Base[w] \in Nat /\ Cable[i] \in Nat /\ Cable[w] \in Nat /\ Loop \in Nat
      /\ Base[i] + 2 + Cable[i] <= Loop /\ Base[w] + 2 + Cable[w] <= Loop
      /\ i < w => Base[i] + 2 + Cable[i] <= Base[w]
      /\ w < i => Base[w] + 2 + Cable[w] <= Base[i]
  BY BaseShape
<1>2. i < w \/ w < i \/ i = w
  BY DEF Nodes
<1> QED BY <1>1, <1>2 DEF Gap

\* What it makes of a node's distance.
LEMMA TurnGaps ==
    ASSUME NEW a \in Places, NEW v \in Nat, NEW a2 \in Places, NEW v2 \in Nat, NEW k \in Nat,
           Places2(a, v, a2, v2, k), v > 0 => \E w \in Nodes : Base[w] = a, NEW i \in Nodes
    PROVE  /\ v > 0 \/ k > 0 => Gap(a, v, i) >= 2 + v
           /\ Gap(a, v, i) = 1 => k = 0 /\ v = 0 /\ v2 = 0 /\ Gap(a2, v2, i) = Loop
           /\ Gap(a, v, i) > 1 => Gap(a2, v2, i) = Gap(a, v, i) - 1 + k
           /\ v2 > 0 => \E w \in Nodes : Base[w] = a2
<1>1. Gap(a, v, i) \in Nat /\ Gap(a, v, i) >= 1 + v
  BY GapFacts
<1>2. CASE v > 0 /\ a2 = a /\ v2 = v - 1 /\ k = 0
  <2>1. Gap(a, v, i) >= 2 + v
    BY <1>2, NoneNext
  <2>2. Gap(a, v2, i) = Gap(a, v, i) + v2 - v
    BY <1>2, TokenWaits
  <2> QED BY <1>1, <1>2, <2>1, <2>2
<1>3. CASE v = 0 /\ a2 = a /\ k = v2 + 1 /\ \E w \in Nodes : Base[w] = a
  <2>1. Gap(a, v, i) >= 2 + v
    BY <1>3, NoneNext
  <2>2. Gap(a, v2, i) = Gap(a, v, i) + v2 - v
    BY <1>3, TokenWaits
  <2> QED BY <1>1, <1>3, <2>1, <2>2
<1>4. CASE v = 0 /\ a2 = After(a) /\ v2 = 0 /\ k = 0
  <2>1. Gap(After(a), 0, i) = IF Gap(a, 0, i) = 1 THEN Loop ELSE Gap(a, 0, i) - 1
    BY TokenMoves
  <2> QED BY <1>1, <1>4, <2>1
<1> QED BY <1>2, <1>3, <1>4 DEF Places2

\* Every bit time is such a turn.
LEMMA TurnExists ==
    ASSUME NEW a, NEW v, NEW e, NEW o, Ring(a, v, e, o), RingFits, BitTime
    PROVE  \E a2 \in Places, v2 \in 0 .. MaxFrame, e2, o2 \in [Nodes -> Nat], k \in Nat :
              Turn(a, v, e, o, a2, v2, e2, o2, k)
<1>1. PICK a2 \in Places, v2 \in 0 .. MaxFrame, k \in Nat : Places2(a, v, a2, v2, k)
  BY TurnPlaces
<1> DEFINE e2 == [i \in Nodes |-> Gap(a2, v2, i)]
           o2 == Apart2(o, k)
<1>2. /\ a \in Places /\ v \in Nat /\ e = [i \in Nodes |-> Gap(a, v, i)] /\ o \in [Nodes -> Nat]
      /\ v > 0 => \E w \in Nodes : Base[w] = a
  BY DEF Ring, Distances
<1>3. v2 \in Nat /\ 0 \in Nodes
  BY BaseShape
<1>4. o2 \in [Nodes -> Nat] /\ \A i \in Nodes : /\ Claims(st[i]) => o2[i] = 0
                                                /\ ~Claims(st[i]) => o2[i] = o[i] + k
  BY <1>2 DEF Apart2
<1>5. e2 \in [Nodes -> Nat] /\ \A i \in Nodes : e2[i] = Gap(a2, v2, i)
  BY <1>3, GapFacts
<1>6. v2 > 0 => \E w \in Nodes : Base[w] = a2
  BY <1>1, <1>2, <1>3, TurnGaps
<1>7. Distances(a2, v2, e2, o2)
  BY <1>4, <1>6 DEF Distances
<1> HIDE DEF o2, e2
<1>8. ASSUME NEW i \in Nodes PROVE NodeTurn(v, e, o, v2, e2, o2, k, i)
  <2>1. /\ v \in Nat /\ v2 \in Nat /\ k \in Nat /\ Loop \in Nat /\ Loop >= 2
        /\ e[i] \in Nat /\ e2[i] \in Nat /\ o[i] \in Nat /\ o2[i] \in Nat
        /\ 1 + v <= e[i] /\ e[i] <= Loop + v /\ 1 + v2 <= e2[i] /\ e2[i] <= Loop + v2
        /\ Size(i) \in {0, 7, 8}
    <3>1. 1 + v2 <= Gap(a2, v2, i) /\ Gap(a2, v2, i) <= Loop + v2
      BY <1>3, GapFacts
    <3> QED BY <1>1, <1>3, <1>4, <1>5, <3>1, NodeFacts
  <2>2. /\ v > 0 \/ k > 0 => e[i] >= 2 + v
        /\ e[i] = 1 => k = 0 /\ v = 0 /\ v2 = 0 /\ e2[i] = Loop
        /\ e[i] > 1 => e2[i] = e[i] - 1 + k
    <3>1. e[i] = Gap(a, v, i)
      BY <1>2
    <3> QED BY <1>1, <1>2, <1>3, <1>5, <3>1, TurnGaps
  <2>3. HoldStep(i)
    BY NodeStep
  <2>4. Size(i)' = Size(i) /\ (st'[i].strip <=> (st[i].strip /\ Left(i) > 1) \/ Claims(st[i]))
    BY <2>3 DEF HoldStep
  <2>5. Claims(st[i]) => /\ ~st[i].strip /\ Size(i) \in {7, 8} /\ v = 0 /\ e[i] = Loop
                         /\ e2[i] = Loop + v2 /\ o2[i] = 0 /\ v2 = Size(i) /\ k = v2 + 1
    <3> SUFFICES ASSUME Claims(st[i])
                 PROVE  /\ ~st[i].strip /\ Size(i) \in {7, 8} /\ v = 0 /\ e[i] = Loop
                        /\ e2[i] = Loop + v2 /\ o2[i] = 0 /\ v2 = Size(i) /\ k = v2 + 1
      OBVIOUS
    <3>1. /\ v = 0 /\ Base[i] = a /\ e[i] = Loop /\ Size(i) \in {7, 8} /\ ~st[i].strip
      BY ClaimFacts
    <3>2. PICK w \in Nodes : Base[w] = a /\ v2 = Size(w) /\ k = v2 + 1 /\ a2 = a
      BY <1>1, <3>1 DEF Places2
    <3>3. w = i
      <4>1. Gap(a, 0, w) = Loop /\ Gap(a, 0, i) = Loop
        BY <1>2, <3>1, <3>2, GapFacts
      <4> QED BY <1>2, <4>1, GapFacts
    <3>4. e2[i] = Loop + v2
      BY <1>3, <1>5, <3>1, <3>2, GapFacts
    <3> QED BY <1>4, <3>1, <3>2, <3>3, <3>4
  <2>6. st[i].strip => /\ Size(i) \in {7, 8} /\ o[i] < e[i]
                       /\ st'[i].strip <=> e[i] - o[i] > 1
    BY <2>4, <2>5, StripFacts, NodeFacts
  <2> QED BY <1>4, <2>1, <2>2, <2>4, <2>5, <2>6 DEF NodeTurn
<1>9. k > 0 => \E w \in Nodes : Claims(st[w])
  BY <1>1 DEF Places2
<1>10. \A i, j \in Nodes : i # j => e[i] # e[j] /\ e2[i] # e2[j]
  BY <1>7, GapsDiffer DEF Ring
<1>11. Turn(a, v, e, o, a2, v2, e2, o2, k)
  BY <1>1, <1>7, <1>8, <1>9, <1>10 DEF Turn
<1> QED BY <1>1, <1>4, <1>5, <1>11

-----------------------------------------------------------------------------
(* The frames keep their order.                                            *)

\* Each stripping node's last symbol comes nearer with each bit time ...
LEMMA LastsStep ==
    ASSUME NEW a, NEW v, NEW e, NEW o, NEW a2, NEW v2, NEW e2, NEW o2, NEW k,
           Turn(a, v, e, o, a2, v2, e2, o2, k), NEW j \in Nodes
    PROVE  Lasts(e2, o2, j)'
<1> SUFFICES ASSUME st'[j].strip PROVE o2[j] < e2[j] /\ e2[j] - o2[j] = Left(j)'
  BY DEF Lasts
<1>1. NodeTurn(v, e, o, v2, e2, o2, k, j) /\ Ring(a, v, e, o) /\ RingFits /\ BitTime
  BY DEF Turn
<1>2. HoldStep(j)
  BY <1>1, NodeStep
<1>3. CASE st[j].strip
  <2>1. Left(j) = e[j] - o[j]
    BY <1>1, <1>3, StripFacts
  <2>2. Left(j)' = Left(j) - 1
    BY <1>2, <1>3 DEF HoldStep
  <2> QED BY <1>1, <1>3, <2>1, <2>2 DEF NodeTurn
<1>4. CASE ~st[j].strip
  <2>1. Claims(st[j])
    BY <1>1, <1>4 DEF NodeTurn
  <2>2. Left(j)' = Loop + Size(j)
    BY <1>2, <2>1 DEF HoldStep
  <2> QED BY <1>1, <2>1, <2>2 DEF NodeTurn
<1> QED BY <1>3, <1>4

\* ... no frame catches up with the next ...
LEMMA ApartStep ==
    ASSUME NEW a, NEW v, NEW e, NEW o, NEW a2, NEW v2, NEW e2, NEW o2, NEW k,
           Turn(a, v, e, o, a2, v2, e2, o2, k)
    PROVE  Apart(e2, o2)'
<1> SUFFICES ASSUME NEW j \in Nodes, NEW q \in Nodes, st'[j].strip, st'[q].strip, e2[q] < e2[j]
             PROVE  o2[j] + Size(j)' + 1 <= o2[q]
  BY DEF Apart, Stripping
<1>1. NodeTurn(v, e, o, v2, e2, o2, k, j) /\ NodeTurn(v, e, o, v2, e2, o2, k, q)
  BY DEF Turn
<1>2. ~Claims(st[q])
  BY <1>1 DEF NodeTurn
<1>3. CASE Claims(st[j])
  BY <1>1, <1>2, <1>3 DEF NodeTurn
<1>4. CASE ~Claims(st[j])
  <2>1. st[j].strip /\ st[q].strip
    BY <1>1, <1>2, <1>4 DEF NodeTurn
  <2>2. e[q] < e[j]
    BY <1>1, <2>1 DEF NodeTurn
  <2>3. o[j] + Size(j) + 1 <= o[q]
    BY <2>1, <2>2 DEF Turn, Ring, Apart, Stripping
  <2> QED BY <1>1, <1>2, <1>4, <2>3 DEF NodeTurn
<1> QED BY <1>3, <1>4

\* ... and none falls behind.
LEMMA LinkedStep ==
    ASSUME NEW a, NEW v, NEW e, NEW o, NEW a2, NEW v2, NEW e2, NEW o2, NEW k,
           Turn(a, v, e, o, a2, v2, e2, o2, k), NEW j \in Nodes
    PROVE  Linked(e2, o2, j)'
<1> SUFFICES ASSUME st'[j].strip, o2[j] # 0
             PROVE  \E q \in Nodes : /\ st'[q].strip /\ e2[q] > e2[j]
                                     /\ o2[q] + Size(q)' + 1 = o2[j]
  BY DEF Linked, Stripping
<1>1. NodeTurn(v, e, o, v2, e2, o2, k, j)
  BY DEF Turn
<1>2. st[j].strip /\ ~Claims(st[j])
  BY <1>1 DEF NodeTurn
<1>3. CASE o[j] = 0
  <2>1. k > 0
    BY <1>1, <1>2, <1>3 DEF NodeTurn
  <2>2. PICK w \in Nodes : Claims(st[w])
    BY <2>1 DEF Turn
  <2>3. NodeTurn(v, e, o, v2, e2, o2, k, w) /\ w # j
    BY <1>2, <2>2 DEF Turn
  <2>4. e2[w] # e2[j]
    BY <2>3 DEF Turn
  <2> QED BY <1>1, <1>2, <1>3, <2>2, <2>3, <2>4 DEF NodeTurn
<1>4. CASE o[j] # 0
  <2>1. Linked(e, o, j)
    BY DEF Turn, Ring, Node
  <2>2. PICK q \in Nodes : st[q].strip /\ e[q] > e[j] /\ o[q] + Size(q) + 1 = o[j]
    BY <1>2, <1>4, <2>1 DEF Linked, Stripping
  <2>3. NodeTurn(v, e, o, v2, e2, o2, k, q)
    BY DEF Turn
  <2> QED BY <1>1, <1>2, <2>2, <2>3 DEF NodeTurn
<1> QED BY <1>3, <1>4

\* A cell that is not a node's own keeps, k aside, its distance, and no node has just
\* heard it.
LEMMA CellTravels ==
    ASSUME NEW a, NEW v, NEW e, NEW o, NEW a2, NEW v2, NEW e2, NEW o2, NEW k,
           Turn(a, v, e, o, a2, v2, e2, o2, k), NEW i \in Nodes, NEW y \in 1 .. Cable[i] + 1
    PROVE  /\ Ahead(a, v, Base[i] + (y - 1)) \in Nat
           /\ Ahead(a2, v2, Base[i] + y) = Ahead(a, v, Base[i] + (y - 1)) + k
           /\ \A j \in Nodes : e2[j] # Ahead(a2, v2, Base[i] + y)
           /\ y > 1 /\ k > 0 => Ahead(a, v, Base[i] + (y - 1)) # 0
<1>1. /\ a \in Places /\ v \in Nat /\ a2 \in Places /\ v2 \in Nat /\ k \in Nat
      /\ v > 0 => \E w \in Nodes : Base[w] = a
      /\ \A j \in Nodes : e2[j] = Gap(a2, v2, j)
      /\ Places2(a, v, a2, v2, k)
  BY DEF Turn, Ring, Distances, Places2
<1>2. /\ Base[i] + y \in Places /\ Base[i] + (y - 1) \in Nat
      /\ \A q \in Nodes : Base[q] # Base[i] + y
      /\ y > 1 => \A q \in Nodes : Base[q] # Base[i] + (y - 1)
  <2>1. Cable[i] \in Nat /\ Base[i] \in Nat
    BY BaseShape
  <2>2. y > 1 => y - 1 \in 1 .. Cable[i] + 1
    BY <2>1
  <2> QED BY <2>2, CellPlaces
<1> DEFINE p == Base[i] + (y - 1)
<1>3. p \in Nat /\ p + 1 = Base[i] + y /\ p + 1 \in Places /\ \A q \in Nodes : Base[q] # p + 1
  <2>1. Base[i] \in Nat /\ y \in Nat
    BY BaseShape
  <2> QED BY <1>2, <2>1
<1> HIDE DEF p
<1>4. a \in Nat /\ a < Loop /\ a2 \in Nat /\ a2 < Loop /\ Loop \in Nat /\ p + 1 < Loop
  BY <1>1, <1>3, BaseShape DEF Places
<1>5. Ahead(a, v, p) \in Nat
  BY <1>1, <1>3, <1>4 DEF Ahead
<1>6. Ahead(a2, v2, p + 1) = Ahead(a, v, p) + k
  <2>1. CASE v > 0 /\ a2 = a /\ v2 = v - 1 /\ k = 0
    <3>1. p + 1 # a
      BY <1>1, <1>3, <2>1
    <3>2. Ahead(a, v2, p + 1) = Ahead(a, v, p) + 1 + v2 - v
      BY <1>1, <1>3, <3>1, TokenWaits
    <3> QED BY <1>1, <1>5, <2>1, <3>2
  <2>2. CASE v = 0 /\ a2 = a /\ k = v2 + 1 /\ \E w \in Nodes : Base[w] = a
    <3>1. p + 1 # a
      BY <1>1, <1>3, <2>2
    <3>2. Ahead(a, v2, p + 1) = Ahead(a, v, p) + 1 + v2 - v
      BY <1>1, <1>3, <3>1, TokenWaits
    <3> QED BY <1>1, <1>5, <2>2, <3>2
  <2>3. CASE v = 0 /\ a2 = After(a) /\ v2 = 0 /\ k = 0
    <3>1. Ahead(After(a), 0, p + 1) = Ahead(a, 0, p)
      BY <1>1, <1>3, TokenMoves
    <3> QED BY <1>5, <2>3, <3>1
  <2> QED BY <1>1, <2>1, <2>2, <2>3 DEF Places2
<1>7. ASSUME NEW j \in Nodes PROVE e2[j] # Ahead(a2, v2, p + 1)
  <2>1. Base[j] \in Nat /\ Base[j] < Loop /\ Base[j] # p + 1
    <3>1. Base[j] \in Nat /\ Cable[j] \in Nat /\ Base[j] + 2 + Cable[j] <= Loop
      BY BaseShape
    <3> QED BY <1>3, <1>4, <3>1
  <2> QED BY <1>1, <1>3, <1>4, <2>1 DEF Gap, Ahead
<1>8. y > 1 /\ k > 0 => Ahead(a, v, p) # 0
  <2> SUFFICES ASSUME y > 1, k > 0 PROVE Ahead(a, v, p) # 0
    OBVIOUS
  <2>1. \E w \in Nodes : Base[w] = a
    BY <1>1 DEF Places2
  <2>2. p # a
    BY <1>2, <2>1 DEF p
  <2> QED BY <1>1, <1>3, <1>4, <2>2 DEF Ahead
<1> QED BY <1>3, <1>5, <1>6, <1>7, <1>8 DEF p

-----------------------------------------------------------------------------
(* What a node hears.                                                      *)

\* The symbols of a frame.
LEMMA FrameSymbols ==
    ASSUME NEW j \in Nodes, NEW tx, IsFrame(tx, j)
    PROVE  /\ Len(tx) \in {7, 8} /\ tx[1] = Start
           /\ tx[2].kind = "sep" /\ tx[3].kind = "header" /\ tx[3].src = j /\ tx[3].dest # j
           /\ tx[3].dest \in Nodes \cup {Broadcast}
           /\ tx[4].kind = "sep" /\ (Len(tx) = 8 => tx[5].kind = "data")
           /\ tx[Len(tx) - 2].kind = "sep" /\ tx[Len(tx) - 1].kind = "check"
           /\ tx[Len(tx)].kind = "late" /\ tx[Len(tx)].ack = {}
           /\ \A g \in 1 .. Len(tx) : tx[g] \in Symbols /\ tx[g].kind \notin {"zero", "free", "claimed"}
<1> DEFINE H == Header(j, tx[3].dest)
           n == Len(tx)
<1>1. /\ n \in {7, 8} /\ tx[1] = Start /\ tx[2] = Sep /\ tx[4] = Sep /\ tx[n - 2] = Sep
      /\ tx[3] = H /\ tx[3].dest \in Dests /\ tx[3].dest # j
      /\ n = 8 => tx[5] = Plain("data")
      /\ tx[n - 1] = Plain("check") /\ tx[n] = Plain("late")
  BY FrameFacts
<1>2. /\ Sep.kind = "sep" /\ Plain("data").kind = "data" /\ Plain("check").kind = "check"
      /\ Plain("late").kind = "late" /\ Plain("late").ack = {} /\ Start.kind = "start"
      /\ Free.kind = "free" /\ Claimed.kind = "claimed"
  BY DEF Sep, Plain, Start, Free, Claimed
<1>3. H.kind = "header" /\ H.src = j
  BY DEF Header, Plain
<1>4. tx[3].dest \in Nodes \cup {Broadcast}
  BY <1>1, ConfigAssumption
<1>5. Sep \in Symbols /\ Plain("data") \in Symbols /\ Plain("check") \in Symbols
      /\ Plain("late") \in Symbols /\ Start \in Symbols
  BY DEF Sep, Plain, Start, Symbols, NoNode
<1>6. H \in Symbols
  <2> DEFINE to == tx[3].dest
             R == [kind |-> "header", src |-> j, dest |-> to, ack |-> {}]
  <2>1. H = [[Plain("header") EXCEPT !.src = j] EXCEPT !.dest = to]
    BY DEF Header
  <2>2. [Plain("header") EXCEPT !.src = j]
          = [kind |-> "header", src |-> j, dest |-> NoNode, ack |-> {}]
    BY DEF Plain
  <2>3. to \in Nodes \cup {NoNode, Broadcast}
    BY <1>4
  <2> HIDE DEF to
  <2>4. H = R
    BY <2>1, <2>2
  <2> HIDE DEF H
  <2> QED BY ONLY <2>4, <2>3, SMTT(30) DEF Symbols
<1> HIDE DEF H
<1>7. ASSUME NEW g \in 1 .. n PROVE tx[g] \in Symbols /\ tx[g].kind \notin {"zero", "free", "claimed"}
  <2> HIDE DEF n
  <2>1. g = 1 \/ g = 2 \/ g = 3 \/ g = 4 \/ (g = 5 /\ n = 8) \/ g = n - 2 \/ g = n - 1 \/ g = n
    <3>1. n \in {7, 8} /\ g \in Nat /\ 1 <= g /\ g <= n
      BY <1>1
    <3> QED BY ONLY <3>1
  <2> QED BY <1>1, <1>2, <1>3, <1>5, <1>6, <2>1
<1> QED BY <1>1, <1>2, <1>3, <1>4, <1>7

\* A node in the middle of a frame hears the next symbol of it.
LEMMA HearsFrame ==
    ASSUME NEW a, NEW v, NEW e, NEW o, Ring(a, v, e, o), RingFits, NEW i \in Nodes, NEW j \in Nodes,
           st[j].strip, e[i] <= e[j], 2 <= e[i] - o[j], e[i] - o[j] <= Size(j) + 1,
           NEW c, Holds(e, o, c, e[i] - 1)
    PROVE  Alike(c, st[j].tx[Size(j) + 2 - (e[i] - o[j])])
<1>1. e[i] \in Nat /\ e[j] \in Nat /\ o[j] \in Nat /\ Size(j) \in {7, 8} /\ e[i] >= 1
  BY NodeFacts
<1>2. Carries(e, o, j, e[i] - 1)
  BY <1>1 DEF Carries
<1>3. OfFrame(c, j, e[i] - 1 - o[j])
  BY <1>2 DEF Holds
<1>4. e[i] - 1 - o[j] # Size(j) + 1
      /\ Size(j) + 1 - (e[i] - 1 - o[j]) = Size(j) + 2 - (e[i] - o[j])
  BY <1>1
<1> QED BY <1>3, <1>4 DEF OfFrame

\* A frame's late acknowledge finds its hearers' receivers ready for it.
LEMMA HearsLate ==
    ASSUME NEW a, NEW v, NEW e, NEW o, Ring(a, v, e, o), RingFits, NEW i \in Nodes, NEW j \in Nodes,
           st[j].strip, e[i] <= e[j], e[i] = o[j] + 2,
           NEW c, Holds(e, o, c, e[i] - 1)
    PROVE  /\ LateHere(st[i], c) /\ c.kind = "late" /\ st[i].src = j
           /\ st[i].addressed <=> Dest(j) \in {Broadcast, i}
<1>1. e[i] \in Nat /\ e[j] \in Nat /\ o[j] \in Nat /\ Size(j) \in {7, 8} /\ IsFrame(st[j].tx, j)
  BY NodeFacts
<1>2. Mid(e, o, i, j) /\ Size(j) + 1 - (e[i] - o[j]) = Size(j) - 1
  BY <1>1 DEF Mid
<1>3. Follows(i, j, Size(j) - 1)
  <2>1. Tracks(e, o, i)
    BY DEF Ring, Node
  <2>2. Follows(i, j, Size(j) + 1 - (e[i] - o[j]))
    BY <1>2, <2>1 DEF Tracks
  <2> QED BY <1>2, <2>2
<1>4. st[i].rx = "late" /\ st[i].src = j /\ (st[i].addressed <=> Dest(j) \in {Broadcast, i})
  BY <1>1, <1>3 DEF Follows, Tracking, RxAt
<1>5. Alike(c, st[j].tx[Size(j) + 2 - (e[i] - o[j])])
  BY <1>1, HearsFrame
<1>6. Size(j) + 2 - (e[i] - o[j]) = Size(j) /\ Size(j) = Len(st[j].tx)
  BY <1>1 DEF Size
<1>7. c.kind = "late"
  <2>1. Alike(c, st[j].tx[Len(st[j].tx)])
    BY <1>5, <1>6
  <2>2. st[j].tx[Len(st[j].tx)].kind = "late"
    BY <1>1, FrameSymbols
  <2> QED BY <2>1, <2>2 DEF Alike
<1> QED BY <1>4, <1>7 DEF LateHere

\* ... and a receiver is ready for one only there.
LEMMA ReadyForLate ==
    ASSUME NEW a, NEW v, NEW e, NEW o, Ring(a, v, e, o), RingFits, NEW i \in Nodes,
           st[i].rx = "late"
    PROVE  \E j \in Nodes : st[j].strip /\ e[i] <= e[j] /\ e[i] = o[j] + 2 /\ st[i].src = j
<1>1. Tracks(e, o, i)
  BY DEF Ring, Node
<1>2. PICK j \in Nodes : Mid(e, o, i, j)
  BY <1>1 DEF Tracks
<1> DEFINE g == Size(j) + 1 - (e[i] - o[j])
<1>3. Follows(i, j, g)
  BY <1>1, <1>2 DEF Tracks
<1>4. st[j].strip /\ e[i] <= e[j] /\ 2 <= e[i] - o[j] /\ e[i] - o[j] <= Size(j)
  BY <1>2 DEF Mid
<1>5. e[i] \in Nat /\ o[j] \in Nat /\ Size(j) \in {7, 8}
  BY <1>4, NodeFacts
<1>6. g \in 1 .. Size(j) - 1
  BY <1>4, <1>5
<1> HIDE DEF g
<1>7. RxAt(g, Size(j)) = "late"
  BY <1>3 DEF Follows, Tracking
<1>8. g = Size(j) - 1
  BY <1>5, <1>6, <1>7 DEF RxAt
<1>9. g >= 3
  BY <1>5, <1>8
<1>10. st[i].src = j
  BY <1>3, <1>9 DEF Follows, Tracking
<1> QED BY <1>4, <1>5, <1>8, <1>10 DEF g

\* A node that a frame of another's passes does not strip.
LEMMA NotItself ==
    ASSUME NEW a, NEW v, NEW e, NEW o, NEW a2, NEW v2, NEW e2, NEW o2, NEW k,
           Turn(a, v, e, o, a2, v2, e2, o2, k), NEW i \in Nodes, NEW j \in Nodes,
           st[j].strip, e[i] < e[j], e[i] <= o[j] + Size(j) + 1
    PROVE  ~st[i].strip /\ ~st'[i].strip
<1>1. NodeTurn(v, e, o, v2, e2, o2, k, i) /\ NodeTurn(v, e, o, v2, e2, o2, k, j)
  BY DEF Turn
<1>2. ~st[i].strip
  <2> SUFFICES ASSUME st[i].strip PROVE FALSE
    OBVIOUS
  <2>1. o[j] + Size(j) + 1 <= o[i]
    BY DEF Turn, Ring, Apart, Stripping
  <2> QED BY <1>1, <2>1 DEF NodeTurn
<1>3. ~Claims(st[i])
  BY <1>1 DEF NodeTurn
<1> QED BY <1>1, <1>2, <1>3 DEF NodeTurn

\* The late acknowledge of node j's frame passes node i, which it is for.
Reaches(e, o, i, j) == /\ st[j].strip /\ e[i] < e[j] /\ e[i] = o[j] + 2
                       /\ Dest(j) \in {Broadcast, i}

\* Who takes a frame counts it, once, and takes it if its receiver is enabled.
LEMMA TakenStep ==
    ASSUME NEW a, NEW v, NEW e, NEW o, NEW a2, NEW v2, NEW e2, NEW o2, NEW k,
           Turn(a, v, e, o, a2, v2, e2, o2, k), NEW i \in Nodes, NEW j \in Nodes
    PROVE  /\ taken[j][i] \in Nat
           /\ Reaches(e, o, i, j) => /\ taken[j][i] = 0 /\ taken'[j][i] \in {0, 1}
                                     /\ j \notin torn' => (taken'[j][i] = 1 <=> st[i].enabled)
           /\ ~Reaches(e, o, i, j) => taken'[j][i] = taken[j][i]
<1> DEFINE c == m'.received[i]
<1>1. /\ NodeTurn(v, e, o, v2, e2, o2, k, i) /\ NodeTurn(v, e, o, v2, e2, o2, k, j)
      /\ Ring(a, v, e, o) /\ RingFits /\ BitTime
  BY DEF Turn
<1>2. HoldStep(i)
  BY <1>1, NodeStep
<1>3. PICK wackOn \in BOOLEAN, copyOn \in BOOLEAN : Look(i, wackOn, copyOn)
  BY <1>2 DEF HoldStep
<1>5. Holds(e, o, c, e[i] - 1)
  BY <1>1, HeardCell DEF Cell
<1>6. taken'[j][i] = IF st[i].src = j /\ Took(st[i], st'[i], c, copyOn) THEN taken[j][i] + 1
                     ELSE taken[j][i]
  BY <1>3 DEF Look
<1> HIDE DEF c
<1>7. st[i].src = j /\ Took(st[i], st'[i], c, copyOn) => Reaches(e, o, i, j)
  <2> SUFFICES ASSUME st[i].src = j, Took(st[i], st'[i], c, copyOn) PROVE Reaches(e, o, i, j)
    OBVIOUS
  <2>1. st[i].rx = "late" /\ st[i].addressed /\ ~st'[i].strip
    BY DEF Took, LateHere
  <2>2. st[j].strip /\ e[i] <= e[j] /\ e[i] = o[j] + 2
    BY <1>1, <2>1, ReadyForLate
  <2>3. Dest(j) \in {Broadcast, i}
    BY <1>1, <1>5, <2>1, <2>2, HearsLate
  <2>4. i # j
    BY <1>1, <2>1, <2>2 DEF NodeTurn
  <2>5. e[i] < e[j]
    <3>1. e[i] # e[j]
      BY <2>4 DEF Turn
    <3> QED BY <1>1, <2>2, <3>1 DEF NodeTurn
  <2> QED BY <2>1, <2>2, <2>3, <2>5 DEF Reaches
<1>8. ASSUME Reaches(e, o, i, j)
      PROVE  st[i].src = j /\ (Took(st[i], st'[i], c, copyOn) <=> copyOn)
  <2>1. st[j].strip /\ e[i] < e[j] /\ e[i] = o[j] + 2 /\ Dest(j) \in {Broadcast, i}
    BY <1>8 DEF Reaches
  <2>2. e[i] <= e[j] /\ e[i] <= o[j] + Size(j) + 1
    BY <1>1, <2>1 DEF NodeTurn
  <2>3. LateHere(st[i], c) /\ st[i].src = j /\ (st[i].addressed <=> Dest(j) \in {Broadcast, i})
    BY <1>1, <1>5, <2>1, <2>2, HearsLate
  <2>4. ~st'[i].strip
    BY <2>1, <2>2, NotItself
  <2> QED BY <2>1, <2>3, <2>4 DEF Took
<1>9. taken[j][i] \in Nat
  BY <1>1 DEF Ring, Tables
<1>10. Reaches(e, o, i, j) => taken[j][i] = 0
  <2> SUFFICES ASSUME Reaches(e, o, i, j) PROVE taken[j][i] = 0
    OBVIOUS
  <2>1. Counts(e, o, j)
    BY <1>1 DEF Ring, Node
  <2>2. ~Passed(e, o, i, j)
    BY <1>1 DEF Reaches, Passed, NodeTurn
  <2> QED BY <2>1, <2>2 DEF Counts, Reaches
<1>11. st[i].src = j /\ j \notin torn' => (copyOn <=> st[i].enabled)
  BY <1>3 DEF Look
<1>12. CASE Reaches(e, o, i, j)
  <2>1. st[i].src = j /\ taken[j][i] = 0
    BY <1>8, <1>10, <1>12
  <2>2. taken'[j][i] = IF copyOn THEN 1 ELSE 0
    BY <1>6, <1>8, <1>12, <2>1
  <2> QED BY <1>9, <1>11, <1>12, <2>1, <2>2
<1>13. CASE ~Reaches(e, o, i, j)
  BY <1>6, <1>7, <1>9, <1>13
<1> QED BY <1>12, <1>13

-----------------------------------------------------------------------------
(* The cells move on.                                                      *)

\* Who has passed the end of a frame after the bit time.
LEMMA PassedStep ==
    ASSUME NEW a, NEW v, NEW e, NEW o, NEW a2, NEW v2, NEW e2, NEW o2, NEW k,
           Turn(a, v, e, o, a2, v2, e2, o2, k), NEW i \in Nodes, NEW j \in Nodes,
           st[j].strip, st'[j].strip
    PROVE  Passed(e2, o2, i, j) <=> Passed(e, o, i, j) \/ e[i] = o[j] + 2
<1>1. NodeTurn(v, e, o, v2, e2, o2, k, i) /\ NodeTurn(v, e, o, v2, e2, o2, k, j)
  BY DEF Turn
<1>2. CASE i = j
  BY <1>1, <1>2 DEF NodeTurn, Passed
<1>3. CASE i # j
  <2>1. e2[i] # e2[j]
    BY <1>3 DEF Turn
  <2>2. CASE e[i] = 1
    BY <1>1, <2>1, <2>2 DEF NodeTurn, Passed
  <2>3. CASE e[i] > 1
    BY <1>1, <2>1, <2>3 DEF NodeTurn, Passed
  <2> QED BY <1>1, <2>2, <2>3 DEF NodeTurn
<1> QED BY <1>2, <1>3

\* What a cell holds it holds one place on, ...
LEMMA HoldsMoves ==
    ASSUME NEW a, NEW v, NEW e, NEW o, NEW a2, NEW v2, NEW e2, NEW o2, NEW k,
           Turn(a, v, e, o, a2, v2, e2, o2, k), NEW x \in Nat, NEW c, Holds(e, o, c, x),
           k > 0 => x # 0, \A j \in Nodes : st'[j].strip => x + k # e2[j]
    PROVE  Holds(e2, o2, c, x + k)'
<1>1. \A j \in Nodes : NodeTurn(v, e, o, v2, e2, o2, k, j)
  BY DEF Turn
<1>2. ASSUME NEW j \in Nodes PROVE Carries(e2, o2, j, x + k)' <=> Carries(e, o, j, x)
  <2>1. NodeTurn(v, e, o, v2, e2, o2, k, j)
    BY <1>1
  <2>2. CASE Claims(st[j])
    <3>1. ~Carries(e, o, j, x)
      BY <2>1, <2>2 DEF NodeTurn, Carries
    <3>2. ~Carries(e2, o2, j, x + k)'
      BY <2>1, <2>2 DEF NodeTurn, Carries
    <3> QED BY <3>1, <3>2
  <2>3. CASE ~Claims(st[j]) /\ ~st[j].strip
    BY <2>1, <2>3 DEF NodeTurn, Carries
  <2>4. CASE ~Claims(st[j]) /\ st[j].strip /\ ~st'[j].strip
    BY <2>1, <2>4 DEF NodeTurn, Carries
  <2>5. CASE ~Claims(st[j]) /\ st[j].strip /\ st'[j].strip
    BY <2>1, <2>5 DEF NodeTurn, Carries
  <2> QED BY <2>2, <2>3, <2>4, <2>5
<1>3. ASSUME NEW j \in Nodes, Carries(e, o, j, x) PROVE OfFrame(c, j, (x + k) - o2[j])'
  <2>1. NodeTurn(v, e, o, v2, e2, o2, k, j) /\ HoldStep(j)
    BY <1>1, NodeStep DEF Turn
  <2>2. x - o[j] = (x + k) - o2[j]
    BY <1>3, <2>1 DEF NodeTurn, Carries
  <2>3. OfFrame(c, j, x - o[j])
    BY <1>3 DEF Holds
  <2>4. st'[j].tx = st[j].tx /\ Size(j)' = Size(j)
    BY <2>1 DEF HoldStep, BitEffect
  <2> QED BY <2>2, <2>3, <2>4 DEF OfFrame
<1>4. c \in Symbols /\ (x + k = 0 => c = Free)
  <2>1. k \in Nat /\ 0 \in Nodes
    BY <1>1, BaseShape DEF NodeTurn
  <2> QED BY <2>1 DEF Holds
<1>5. x + k # 0 /\ (\A j \in Nodes : ~Carries(e2, o2, j, x + k)') => c = Zero
  <2>1. k \in Nat /\ 0 \in Nodes
    BY <1>1, BaseShape DEF NodeTurn
  <2>2. x = 0 => x + k = 0
    BY <2>1
  <2> QED BY <1>2, <2>2 DEF Holds
<1>6. \A j \in Nodes : Carries(e2, o2, j, x + k)' => OfFrame(c, j, (x + k) - o2[j])'
  BY <1>2, <1>3
<1> QED BY <1>4, <1>5, <1>6 DEF Holds

\* ... what it tells it tells there, ...
LEMMA TellsMoves ==
    ASSUME NEW a, NEW v, NEW e, NEW o, NEW a2, NEW v2, NEW e2, NEW o2, NEW k,
           Turn(a, v, e, o, a2, v2, e2, o2, k), NEW x \in Nat, NEW c, Tells(e, o, c, x),
           k > 0 => x # 0, \A j \in Nodes : x + k # e2[j]
    PROVE  Tells(e2, o2, c, x + k)'
<1> SUFFICES ASSUME NEW j \in Nodes, st'[j].strip, x + k = o2[j] + 1, x + k < e2[j]
             PROVE  Told(e2, o2, c.ack, j)'
  BY DEF Tells
<1>1. NodeTurn(v, e, o, v2, e2, o2, k, j) /\ HoldStep(j) /\ Ring(a, v, e, o) /\ RingFits
  BY NodeStep DEF Turn
<1>2. ~Claims(st[j]) /\ st[j].strip /\ x = o[j] + 1 /\ x < e[j]
  BY <1>1 DEF NodeTurn
<1>3. Told(e, o, c.ack, j)
  BY <1>2 DEF Tells
<1>4. ASSUME NEW i \in Nodes PROVE e[i] # o[j] + 2
  <2>1. NodeTurn(v, e, o, v2, e2, o2, k, i) /\ x + k # e2[i]
    BY DEF Turn
  <2> QED BY <1>1, <1>2, <2>1 DEF NodeTurn
<1>5. \A i \in Nodes : taken'[j][i] = taken[j][i]
  BY <1>4, TakenStep DEF Reaches
<1>6. Taken(j)' <=> Taken(j)
  BY <1>5 DEF Taken
<1>7. Dest(j)' = Dest(j) /\ (Dest(j) # Broadcast => Dest(j) \in Nodes)
  <2>1. IsFrame(st[j].tx, j)
    BY <1>1, <1>2, NodeFacts
  <2> QED BY <1>1, <2>1, FrameSymbols DEF HoldStep, Dest
<1>8. \A i \in Nodes : Passed(e2, o2, i, j) <=> Passed(e, o, i, j)
  BY <1>2, <1>4, PassedStep
<1>9. j \notin torn' => j \notin torn
  BY <1>1 DEF HoldStep
<1> QED BY <1>3, <1>5, <1>6, <1>7, <1>8, <1>9 DEF Told

\* ... and the token is the token.
LEMMA FreeCell ==
    ASSUME NEW a, NEW v, NEW e, NEW o, NEW a2, NEW v2, NEW e2, NEW o2, NEW k,
           Turn(a, v, e, o, a2, v2, e2, o2, k)
    PROVE  Cell(e2, o2, Free, 0)'
<1>1. \A j \in Nodes : o2[j] \in Nat
  BY DEF Turn, NodeTurn
<1>2. \A j \in Nodes : ~Carries(e2, o2, j, 0)'
  BY <1>1 DEF Carries
<1>3. Holds(e2, o2, Free, 0)'
  BY <1>2, StartFacts DEF Holds
<1>4. Tells(e2, o2, Free, 0)'
  BY <1>1 DEF Tells
<1> QED BY <1>3, <1>4 DEF Cell

\* A node's own place, by what it has just heard.
LEMMA OwnPlace ==
    ASSUME NEW a, NEW v, NEW e, NEW o, NEW a2, NEW v2, NEW e2, NEW o2, NEW k,
           Turn(a, v, e, o, a2, v2, e2, o2, k), NEW i \in Nodes,
           ~(v2 > 0 /\ Base[i] = a2), ~Last(st[i])
    PROVE  Ahead(a2, v2, Base[i]) = e[i] - 1 + k
<1>1. /\ NodeTurn(v, e, o, v2, e2, o2, k, i) /\ Places2(a, v, a2, v2, k)
      /\ a \in Places /\ a2 \in Places /\ v \in Nat /\ v2 \in Nat
      /\ e[i] = Gap(a, v, i) /\ e2[i] = Gap(a2, v2, i)
  BY DEF Turn, Ring, Distances
<1>2. CASE Base[i] # a2
  <2>1. e2[i] = Ahead(a2, v2, Base[i])
    BY <1>1, <1>2, GapFacts
  <2>2. e[i] # 1
    <3> SUFFICES ASSUME e[i] = 1 PROVE FALSE
      OBVIOUS
    <3>1. v = 0 /\ k = 0 /\ v2 = 0 /\ e2[i] = Loop
      BY <1>1 DEF NodeTurn
    <3>2. e2[i] = Loop + v2 <=> Base[i] = a2
      BY <1>1, GapFacts
    <3> QED BY <1>1, <1>2, <3>1, <3>2 DEF NodeTurn
  <2> QED BY <1>1, <2>1, <2>2 DEF NodeTurn
<1>3. CASE Base[i] = a2
  <2>1. v2 = 0
    BY <1>1, <1>3
  <2>2. ~(v > 0 /\ a2 = a)
    <3> SUFFICES ASSUME v > 0, a2 = a PROVE FALSE
      OBVIOUS
    <3>1. Owning(a, v, i)
      BY DEF Turn, Ring, Node
    <3>2. Sending(st[i]) /\ st[i].txPos + v = Size(i)
      BY <1>3, <3>1 DEF Owning
    <3>3. v2 = v - 1
      BY <1>1 DEF Places2
    <3>4. v = 1
      BY <1>1, <2>1, <3>3
    <3> QED BY <3>2, <3>4 DEF Last, Size
  <2>3. v = 0 /\ a2 = After(a) /\ k = 0
    <3>1. ~(k = v2 + 1 /\ \E w \in Nodes : Base[w] = a /\ Claims(st[w]) /\ v2 = Size(w))
      <4> SUFFICES ASSUME NEW w \in Nodes, Claims(st[w]), v2 = Size(w) PROVE FALSE
        OBVIOUS
      <4>1. NodeTurn(v, e, o, v2, e2, o2, k, w)
        BY DEF Turn
      <4> QED BY <2>1, <4>1 DEF NodeTurn
    <3> QED BY <1>1, <2>2, <3>1 DEF Places2
  <2>4. e[i] = 1
    BY <1>1, <1>3, <2>3, TokenMoves
  <2>5. Ahead(a2, v2, Base[i]) = 0
    <3>1. a2 \in Nat
      BY <1>1, BaseShape DEF Places
    <3> QED BY <1>3, <2>1, <3>1 DEF Ahead
  <2> QED BY <2>3, <2>4, <2>5
<1> QED BY <1>2, <1>3

\* What a node will forward is what it has just heard; a late acknowledge it adds its
\* own to.
LEMMA Forwarded ==
    ASSUME NEW a, NEW v, NEW e, NEW o, NEW a2, NEW v2, NEW e2, NEW o2, NEW k,
           Turn(a, v, e, o, a2, v2, e2, o2, k), NEW i \in Nodes,
           NEW c, c = m'.received[i], NEW p, p = st'[i].pending
    PROVE  /\ p.kind = c.kind /\ p.src = c.src /\ p.dest = c.dest /\ p \in Symbols
           /\ c.kind # "header" /\ ~LateHere(st[i], c) => p = c
           /\ LateHere(st[i], c) =>
                \E on \in BOOLEAN : /\ p.ack = LateOut(st[i], c, on)
                                    /\ st[i].src \notin torn' => (on <=> st[i].enabled)
<1>1. HoldStep(i)
  BY NodeStep DEF Turn
<1>2. RxStep(st[i], st'[i], c, i)
  BY <1>1 DEF HoldStep
<1>3. c \in Symbols
  BY HeardCell DEF Turn, Cell, Holds
<1> DEFINE s == st[i]
           t == st'[i]
<1>4. /\ RxStart(s, t, c) /\ RxSep(s, t, c) /\ RxFcs(s, t, c) /\ RxLate(s, t, c)
      /\ RxHeader(s, t, c, i) /\ RxOther(s, t, c)
  BY <1>2 DEF RxStep
<1> HIDE DEF s, t
<1>5. CASE LateHere(s, c)
  <2>1. PICK wackOn \in BOOLEAN, copyOn \in BOOLEAN : Look(i, wackOn, copyOn)
    BY <1>1 DEF HoldStep
  <2>2. p.ack = LateOut(s, c, wackOn) /\ (s.src \notin torn' => (wackOn <=> s.enabled))
    BY <1>5, <2>1 DEF Look, s, t
  <2> QED BY <1>3, <1>4, <1>5, <2>2 DEF RxLate, Forwards, s, t
<1>6. CASE HeaderHere(s, c) /\ ~LateHere(s, c)
  BY <1>3, <1>4, <1>6 DEF RxHeader, Forwards, HeaderHere, s, t
<1>7. CASE ~HeaderHere(s, c) /\ ~LateHere(s, c)
  <2>1. t.pending = c
    BY <1>4, <1>7 DEF RxStart, RxSep, RxFcs, RxOther
  <2> QED BY <1>3, <1>7, <2>1 DEF s, t
<1> QED BY <1>5, <1>6, <1>7

\* Two symbols alike are found in the same places.
LEMMA HoldsAlike ==
    ASSUME NEW e, NEW o, NEW x, NEW c, Holds(e, o, c, x), NEW p \in Symbols,
           p.kind = c.kind, p.src = c.src, p.dest = c.dest,
           c.kind # "header" /\ c.kind # "late" => p = c
    PROVE  Holds(e, o, p, x)
<1>1. c \in {Free, Zero, Claimed, Start} => p = c
  BY KindsDiffer
<1>2. \A j \in Nodes : Carries(e, o, j, x) => OfFrame(p, j, x - o[j])
  BY <1>1 DEF Holds, OfFrame, Alike
<1> QED BY <1>1, <1>2 DEF Holds

\* Who strips drives nothing.
LEMMA SilentCell ==
    ASSUME NEW a, NEW v, NEW e, NEW o, NEW a2, NEW v2, NEW e2, NEW o2, NEW k,
           Turn(a, v, e, o, a2, v2, e2, o2, k), NEW i \in Nodes, st'[i].strip
    PROVE  Cell(e2, o2, Zero, e2[i])'
<1>1. Apart(e2, o2)' /\ Lasts(e2, o2, i)'
  BY ApartStep, LastsStep
<1>2. NodeTurn(v, e, o, v2, e2, o2, k, i)
  BY DEF Turn
<1>3. ASSUME NEW j \in Nodes, st'[j].strip, e2[i] < e2[j] PROVE e2[i] > o2[j] + Size(j)' + 1
  <2>1. o2[j] + Size(j)' + 1 <= o2[i]
    BY <1>1, <1>3 DEF Apart, Stripping
  <2>2. o2[i] < e2[i]
    BY <1>1 DEF Lasts
  <2>3. NodeTurn(v, e, o, v2, e2, o2, k, j)
    BY DEF Turn
  <2> QED BY <1>2, <2>1, <2>2, <2>3 DEF NodeTurn
<1>4. Zero \in Symbols /\ e2[i] # 0
  BY <1>2, StartFacts DEF NodeTurn
<1>5. ASSUME NEW j \in Nodes PROVE ~Carries(e2, o2, j, e2[i])'
  <2>1. NodeTurn(v, e, o, v2, e2, o2, k, j)
    BY DEF Turn
  <2> QED BY <1>2, <1>3, <2>1 DEF Carries, NodeTurn
<1>6. Holds(e2, o2, Zero, e2[i])'
  BY <1>4, <1>5 DEF Holds
<1>7. ASSUME NEW j \in Nodes PROVE ~(st'[j].strip /\ e2[i] = o2[j] + 1 /\ e2[i] < e2[j])
  <2>1. NodeTurn(v, e, o, v2, e2, o2, k, j)
    BY DEF Turn
  <2> QED BY <1>2, <1>3, <2>1 DEF NodeTurn
<1>8. Tells(e2, o2, Zero, e2[i])'
  BY <1>7 DEF Tells
<1> QED BY <1>6, <1>8 DEF Cell

\* What a node makes of a late acknowledge that passes is what it did with the frame.
LEMMA LateTold ==
    ASSUME NEW a, NEW v, NEW e, NEW o, NEW a2, NEW v2, NEW e2, NEW o2, NEW k,
           Turn(a, v, e, o, a2, v2, e2, o2, k), NEW i \in Nodes, NEW j \in Nodes,
           st[j].strip, st'[j].strip, e[i] < e[j], e[i] = o[j] + 2,
           NEW c, Told(e, o, c.ack, j),
           LateHere(st[i], c), st[i].addressed <=> Dest(j) \in {Broadcast, i},
           NEW late, NEW on, late = LateOut(st[i], c, on),
           j \notin torn' => (on <=> st[i].enabled)
    PROVE  Told(e2, o2, late, j)'
<1> SUFFICES ASSUME j \notin torn' PROVE Told(e2, o2, late, j)'
  BY DEF Told
<1>0. j \notin torn /\ (on <=> st[i].enabled)
  BY NodeStep DEF Turn, HoldStep
<1>1. NodeTurn(v, e, o, v2, e2, o2, k, i) /\ NodeTurn(v, e, o, v2, e2, o2, k, j)
  BY DEF Turn
<1>2. /\ "copied" \in late <=> "copied" \in c.ack \/ (st[i].addressed /\ st[i].enabled)
      /\ "wack" \in late <=> "wack" \in c.ack \/ (st[i].addressed /\ ~st[i].enabled)
  BY <1>0 DEF LateOut
<1>3. Reaches(e, o, i, j) <=> st[i].addressed
  BY DEF Reaches
<1>4. ASSUME NEW q \in Nodes, q # i PROVE taken'[j][q] = taken[j][q]
  <2>1. e[q] # o[j] + 2
    BY <1>4 DEF Turn
  <2> QED BY <2>1, TakenStep DEF Reaches
<1>5. taken[j][i] = 0 /\ ~Passed(e, o, i, j)
  <2>1. Counts(e, o, j)
    BY DEF Turn, Ring, Node
  <2>2. ~Passed(e, o, i, j)
    BY <1>1 DEF NodeTurn, Passed
  <2> QED BY <2>1, <2>2 DEF Counts
<1>6. taken'[j][i] = IF st[i].addressed /\ st[i].enabled THEN 1 ELSE 0
  <2>1. st[i].addressed => taken'[j][i] \in {0, 1} /\ (taken'[j][i] = 1 <=> st[i].enabled)
    BY <1>3, TakenStep
  <2>2. ~st[i].addressed => taken'[j][i] = 0
    BY <1>3, <1>5, TakenStep
  <2> QED BY <2>1, <2>2
<1>7. Dest(j)' = Dest(j) /\ (Dest(j) # Broadcast => Dest(j) \in Nodes) /\ Broadcast \notin Nodes
  <2>1. IsFrame(st[j].tx, j) /\ HoldStep(j)
    BY NodeFacts, NodeStep DEF Turn
  <2>2. Broadcast \notin Nodes
    BY DEF Nodes, Broadcast
  <2> QED BY <2>1, <2>2, FrameSymbols DEF HoldStep, Dest
<1>8. Taken(j)' <=> Taken(j) \/ (st[i].addressed /\ st[i].enabled)
  <2>1. taken[j][i] # 1
    BY <1>5
  <2>2. taken'[j][i] = 1 <=> st[i].addressed /\ st[i].enabled
    BY <1>6
  <2>3. \A q \in Nodes : q # i => (taken'[j][q] = 1 <=> taken[j][q] = 1)
    BY <1>4
  <2> QED BY <2>1, <2>2, <2>3 DEF Taken
<1>9. "copied" \in late <=> Taken(j)'
  BY <1>0, <1>2, <1>8 DEF Told
<1>10. ASSUME Dest(j) # Broadcast
       PROVE  "wack" \in late <=> Passed(e2, o2, Dest(j), j) /\ taken'[j][Dest(j)] = 0
  <2>1. "wack" \in c.ack <=> Passed(e, o, Dest(j), j) /\ taken[j][Dest(j)] = 0
    BY <1>0, <1>10 DEF Told
  <2>2. CASE Dest(j) = i
    <3>1. Passed(e2, o2, i, j)
      BY PassedStep
    <3> QED BY <1>2, <1>5, <1>6, <2>1, <2>2, <3>1
  <2>3. CASE Dest(j) # i
    <3>1. e[Dest(j)] # o[j] + 2
      BY <1>7, <1>10, <2>3 DEF Turn
    <3>2. Passed(e2, o2, Dest(j), j) <=> Passed(e, o, Dest(j), j)
      BY <1>7, <1>10, <3>1, PassedStep
    <3> QED BY <1>2, <1>4, <1>7, <1>10, <2>1, <2>3, <3>2
  <2> QED BY <2>2, <2>3
<1> QED BY <1>7, <1>9, <1>10 DEF Told

\* So what a node will forward is right for where it is.
LEMMA ForwardedCell ==
    ASSUME NEW a, NEW v, NEW e, NEW o, NEW a2, NEW v2, NEW e2, NEW o2, NEW k,
           Turn(a, v, e, o, a2, v2, e2, o2, k), NEW i \in Nodes, ~st'[i].strip,
           NEW p, p = st'[i].pending
    PROVE  Cell(e2, o2, p, e[i] - 1 + k)'
<1> SUFFICES ASSUME NEW c, c = m'.received[i] PROVE Cell(e2, o2, p, e[i] - 1 + k)'
  OBVIOUS
<1>1. NodeTurn(v, e, o, v2, e2, o2, k, i) /\ Ring(a, v, e, o) /\ RingFits /\ BitTime
  BY DEF Turn
<1>2. Holds(e, o, c, e[i] - 1) /\ Tells(e, o, c, e[i] - 1)
  BY <1>1, HeardCell DEF Cell
<1>3. /\ p.kind = c.kind /\ p.src = c.src /\ p.dest = c.dest /\ p \in Symbols
      /\ c.kind # "header" /\ ~LateHere(st[i], c) => p = c
      /\ LateHere(st[i], c) =>
           \E on \in BOOLEAN : /\ p.ack = LateOut(st[i], c, on)
                               /\ st[i].src \notin torn' => (on <=> st[i].enabled)
  BY Forwarded
<1>4. LateHere(st[i], c) => c.kind = "late"
  <2> SUFFICES ASSUME LateHere(st[i], c) PROVE c.kind = "late"
    OBVIOUS
  <2>1. PICK j \in Nodes : st[j].strip /\ e[i] <= e[j] /\ e[i] = o[j] + 2
    BY <1>1, ReadyForLate DEF LateHere
  <2> QED BY <1>1, <1>2, <2>1, HearsLate
<1>5. Holds(e, o, p, e[i] - 1)
  BY <1>2, <1>3, <1>4, HoldsAlike
<1>6. e[i] - 1 \in Nat /\ (k > 0 => e[i] - 1 # 0)
  BY <1>1 DEF NodeTurn
<1>7. ASSUME NEW j \in Nodes, st'[j].strip PROVE (e[i] - 1) + k # e2[j]
  <2>1. NodeTurn(v, e, o, v2, e2, o2, k, j) /\ (i # j => e2[i] # e2[j])
    BY DEF Turn
  <2>2. i # j
    BY <1>7
  <2> QED BY <1>1, <2>1, <2>2 DEF NodeTurn
<1>8. Holds(e2, o2, p, (e[i] - 1) + k)'
  BY <1>5, <1>6, <1>7, HoldsMoves
<1>9. ASSUME NEW j \in Nodes, st'[j].strip, (e[i] - 1) + k = o2[j] + 1, (e[i] - 1) + k < e2[j]
       PROVE  Told(e2, o2, p.ack, j)'
  <2>1. NodeTurn(v, e, o, v2, e2, o2, k, j)
    BY DEF Turn
  <2>2. st[j].strip /\ e[i] < e[j] /\ e[i] = o[j] + 2 /\ e[i] <= e[j]
    BY <1>1, <1>9, <2>1 DEF NodeTurn
  <2>3. /\ LateHere(st[i], c) /\ st[i].src = j
        /\ st[i].addressed <=> Dest(j) \in {Broadcast, i}
    BY <1>1, <1>2, <2>2, HearsLate
  <2>4. e[i] - 1 = o[j] + 1 /\ e[i] - 1 < e[j]
    BY <1>1, <2>1, <2>2 DEF NodeTurn
  <2>5. Told(e, o, c.ack, j)
    BY <1>2, <2>2, <2>4 DEF Tells
  <2>6. PICK on \in BOOLEAN : /\ p.ack = LateOut(st[i], c, on)
                              /\ j \notin torn' => (on <=> st[i].enabled)
    BY <1>3, <2>3
  <2> QED BY <1>9, <2>2, <2>3, <2>5, <2>6, LateTold
<1>10. Tells(e2, o2, p, (e[i] - 1) + k)'
  BY <1>9 DEF Tells
<1> QED BY <1>8, <1>10 DEF Cell

\* The cell for the symbol a node will drive next is right after the bit time.
LEMMA HoldTrueStep ==
    ASSUME NEW a, NEW v, NEW e, NEW o, NEW a2, NEW v2, NEW e2, NEW o2, NEW k,
           Turn(a, v, e, o, a2, v2, e2, o2, k), NEW i \in Nodes
    PROVE  HoldTrue(a2, v2, e2, o2, i)'
<1> SUFFICES ASSUME ~(v2 > 0 /\ Base[i] = a2), NEW h, h = Hold(st'[i])
             PROVE  Cell(e2, o2, h, Ahead(a2, v2, Base[i]))'
  BY DEF HoldTrue
<1>1. NodeTurn(v, e, o, v2, e2, o2, k, i) /\ Ring(a, v, e, o) /\ RingFits /\ BitTime
  BY DEF Turn
<1>2. HoldStep(i)
  BY <1>1, NodeStep
<1>3. (Originating(st'[i]) <=> Last(st[i])) /\ (Last(st[i]) => st'[i].orig = Free)
  BY <1>2 DEF HoldStep, BitEffect
<1>4. CASE Last(st[i])
  <2>1. h = Free
    BY <1>3, <1>4 DEF Hold
  <2>2. v = 1 /\ Base[i] = a /\ a2 = a /\ v2 = 0
    <3>1. Owning(a, v, i) /\ Sending(st[i])
      BY <1>1, <1>4 DEF Ring, Node, Last
    <3>2. v > 0 /\ Base[i] = a /\ st[i].txPos + v = Size(i) /\ st[i].txPos + 1 = Size(i)
      BY <1>4, <3>1 DEF Owning, Last, Size
    <3>3. st[i].txPos \in Nat
      BY <1>1, NodeFacts DEF Sound
    <3>4. v = 1
      BY <1>1, <3>2, <3>3 DEF NodeTurn
    <3>5. a2 = a /\ v2 = v - 1
      BY <3>4 DEF Turn, Places2
    <3> QED BY <3>2, <3>4, <3>5
  <2>3. Ahead(a2, v2, Base[i]) = 0
    <3>1. Base[i] \in Nat
      BY BaseShape
    <3> QED BY <2>2, <3>1 DEF Ahead
  <2> QED BY <2>1, <2>3, FreeCell
<1>5. CASE ~Last(st[i]) /\ st'[i].strip
  <2>1. h = Zero
    BY <1>3, <1>5 DEF Hold
  <2>2. Ahead(a2, v2, Base[i]) = e2[i]
    <3>1. e[i] > 1
      BY <1>1, <1>5 DEF NodeTurn
    <3> QED BY <1>1, <1>5, <3>1, OwnPlace DEF NodeTurn
  <2> QED BY <1>5, <2>1, <2>2, SilentCell
<1>6. CASE ~Last(st[i]) /\ ~st'[i].strip
  <2>1. h = st'[i].pending
    BY <1>3, <1>6 DEF Hold
  <2>2. Ahead(a2, v2, Base[i]) = e[i] - 1 + k
    BY <1>6, OwnPlace
  <2>3. Cell(e2, o2, h, e[i] - 1 + k)'
    BY <1>6, <2>1, ForwardedCell
  <2> QED BY <2>2, <2>3
<1> QED BY <1>4, <1>5, <1>6

\* The symbols of its frame that a node drives.
LEMMA SentCell ==
    ASSUME NEW a, NEW v, NEW e, NEW o, NEW a2, NEW v2, NEW e2, NEW o2, NEW k,
           Turn(a, v, e, o, a2, v2, e2, o2, k), NEW i \in Nodes, v > 0, Base[i] = a,
           NEW d, d = Driven(st[i])
    PROVE  Cell(e2, o2, d, v)'
<1>1. NodeTurn(v, e, o, v2, e2, o2, k, i) /\ Ring(a, v, e, o) /\ RingFits /\ BitTime
  BY DEF Turn
<1>2. /\ Sending(st[i]) /\ st[i].txPos + v = Size(i) /\ st[i].txPos \in Nat
      /\ ~Originating(st[i]) /\ st[i].txPos < Len(st[i].tx)
  <2>1. Owning(a, v, i)
    BY <1>1 DEF Ring, Node
  <2>2. Sending(st[i]) /\ st[i].txPos + v = Size(i)
    BY <2>1 DEF Owning
  <2>3. st[i].txPos \in Nat
    BY <1>1, NodeFacts DEF Sound
  <2> QED BY <1>1, <2>2, <2>3, NodeInTime
<1>3. /\ st[i].strip /\ st[i].armed /\ Size(i) \in {7, 8} /\ IsFrame(st[i].tx, i)
      /\ o[i] = 0 /\ e[i] = Loop + v /\ ~Claims(st[i])
  <2>1. st[i].strip /\ st[i].armed
    BY <1>2 DEF Sending
  <2>2. Size(i) \in {7, 8} /\ IsFrame(st[i].tx, i) /\ o[i] = 0 /\ e[i] = Loop + v
    BY <1>1, <2>1, NodeFacts, StripFacts
  <2> QED BY <1>1, <2>1, <2>2 DEF NodeTurn
<1>4. k = 0 /\ o2[i] = 0 /\ e2[i] = Loop + v2 /\ v2 = v - 1 /\ st'[i].strip
  <2>1. k = 0 /\ v2 = v - 1
    BY <1>1 DEF Turn, Places2, NodeTurn
  <2> QED BY <1>1, <1>3, <2>1 DEF NodeTurn
<1>5. d = st[i].tx[st[i].txPos + 1]
  BY <1>2, <1>3 DEF Driven, Sends
<1>6. d = st[i].tx[(Size(i) + 1) - v] /\ (Size(i) + 1) - v \in 1 .. Size(i)
  <2>1. v \in Nat /\ v > 0 /\ Size(i) \in Nat
    BY <1>1 DEF NodeTurn
  <2>2. st[i].txPos + 1 = (Size(i) + 1) - v
    BY <1>2, <2>1
  <2> QED BY <1>2, <1>5, <2>1, <2>2
<1>7. d \in Symbols /\ (v = 1 => d.ack = {})
  <2>1. Size(i) = Len(st[i].tx)
    BY DEF Size
  <2>2. d \in Symbols
    BY SMTT(30), <1>3, <1>6, <2>1, FrameSymbols
  <2>3. v = 1 => (Size(i) + 1) - v = Size(i)
    BY <1>3
  <2>4. st[i].tx[Len(st[i].tx)].ack = {}
    BY <1>3, FrameSymbols
  <2> QED BY <1>6, <2>1, <2>2, <2>3, <2>4
<1>8. HoldStep(i) /\ st'[i].tx = st[i].tx /\ Size(i)' = Size(i) /\ Dest(i)' = Dest(i)
  BY <1>1, NodeStep DEF HoldStep, BitEffect
<1>9. ASSUME NEW j \in Nodes, st'[j].strip, v > o2[j], v <= o2[j] + Size(j)' + 1 PROVE j = i
  <2> SUFFICES ASSUME j # i PROVE FALSE
    OBVIOUS
  <2>1. NodeTurn(v, e, o, v2, e2, o2, k, j) /\ e2[j] # e2[i]
    BY DEF Turn
  <2>2. e2[j] < e2[i]
    BY <1>4, <2>1 DEF NodeTurn
  <2>3. o2[i] + Size(i)' + 1 <= o2[j]
    BY <1>4, <1>9, <2>2, ApartStep DEF Apart, Stripping
  <2>4. v <= Size(i)
    BY <1>1, <1>2, <1>3 DEF NodeTurn
  <2> QED BY <1>1, <1>4, <1>8, <1>9, <2>1, <2>3, <2>4 DEF NodeTurn
<1>10. Holds(e2, o2, d, v)'
  <2>1. Carries(e2, o2, i, v)'
    BY <1>1, <1>3, <1>4, <1>6, <1>8 DEF Carries, NodeTurn
  <2>2. ASSUME NEW j \in Nodes, Carries(e2, o2, j, v)' PROVE OfFrame(d, j, v - o2[j])'
    <3>1. j = i
      BY <1>9, <2>2 DEF Carries
    <3>2. /\ v - o2[i] = v /\ v # Size(i) + 1
          /\ Size(i) + 1 - v = (Size(i) + 1) - v
      BY <1>1, <1>3, <1>4, <1>6 DEF NodeTurn
    <3> QED BY <1>6, <1>8, <3>1, <3>2 DEF OfFrame, Alike
  <2> QED BY <1>7, <2>1, <2>2 DEF Holds
<1>11. Tells(e2, o2, d, v)'
  <2> SUFFICES ASSUME NEW j \in Nodes, st'[j].strip, v = o2[j] + 1, v < e2[j]
               PROVE  Told(e2, o2, d.ack, j)'
    BY DEF Tells
  <2>1. NodeTurn(v, e, o, v2, e2, o2, k, j)
    BY DEF Turn
  <2>2. j = i
    BY <1>1, <1>9, <2>1 DEF NodeTurn
  <2>3. v = 1 /\ d.ack = {}
    BY <1>4, <1>7, <2>2
  <2>4. Counts(e, o, i)
    BY <1>1 DEF Ring, Node
  <2>5. ASSUME NEW q \in Nodes PROVE taken'[i][q] = 0 /\ ~Passed(e2, o2, q, i)
    <3>1. NodeTurn(v, e, o, v2, e2, o2, k, q)
      BY DEF Turn
    <3>2. ~Passed(e, o, q, i) /\ e[q] # o[i] + 2 /\ ~Passed(e2, o2, q, i)
      <4>1. /\ v2 = 0 /\ e[q] \in Nat /\ e2[q] \in Nat /\ Loop \in Nat
            /\ e[q] >= 2 + v /\ e[q] <= Loop + v /\ e2[q] <= Loop + v2
            /\ e[q] > 1 => e2[q] = e[q] - 1 + k
        BY <1>4, <2>3, <3>1 DEF NodeTurn
      <4> QED BY <1>3, <1>4, <2>3, <4>1 DEF Passed
    <3>3. taken[i][q] = 0
      BY <1>3, <2>4, <3>2 DEF Counts
    <3> QED BY <3>2, <3>3, TakenStep DEF Reaches
  <2>6. ~Taken(i)'
    BY <2>5 DEF Taken
  <2>7. Dest(i) # Broadcast => Dest(i) \in Nodes
    BY <1>3, FrameSymbols DEF Dest
  <2>8. "copied" \notin d.ack /\ "wack" \notin d.ack
    BY <2>3
  <2>9. Told(e2, o2, d.ack, i)'
    BY <1>8, <2>5, <2>6, <2>7, <2>8 DEF Told
  <2> QED BY <2>2, <2>9
<1> QED BY <1>10, <1>11 DEF Cell

\* ... and its claim of the token.
LEMMA ClaimedCell ==
    ASSUME NEW a, NEW v, NEW e, NEW o, NEW a2, NEW v2, NEW e2, NEW o2, NEW k,
           Turn(a, v, e, o, a2, v2, e2, o2, k), NEW i \in Nodes, Claims(st[i])
    PROVE  Cell(e2, o2, Claimed, k)'
<1>1. NodeTurn(v, e, o, v2, e2, o2, k, i)
  BY DEF Turn
<1>2. st'[i].strip /\ k = Size(i)' + 1 /\ o2[i] = 0 /\ e2[i] > k /\ k > 1
  BY <1>1 DEF NodeTurn
<1>3. ASSUME NEW j \in Nodes, j # i, st'[j].strip PROVE o2[j] >= k
  <2>1. NodeTurn(v, e, o, v2, e2, o2, k, j) /\ e2[j] # e2[i]
    BY <1>3 DEF Turn
  <2>2. ~Claims(st[j])
    <3>1. e[j] # e[i]
      BY <1>3 DEF Turn
    <3> QED BY <1>1, <2>1, <3>1 DEF NodeTurn
  <2> QED BY <1>1, <2>1, <2>2 DEF NodeTurn
<1>4. ASSUME NEW j \in Nodes, Carries(e2, o2, j, k)' PROVE OfFrame(Claimed, j, k - o2[j])'
  <2>1. j = i
    <3>1. st'[j].strip /\ o2[j] < k
      BY <1>4 DEF Carries
    <3>2. NodeTurn(v, e, o, v2, e2, o2, k, j)
      BY DEF Turn
    <3> QED BY <1>1, <1>3, <3>1, <3>2 DEF NodeTurn
  <2>2. k - o2[j] = Size(j)' + 1
    BY <1>1, <1>2, <2>1 DEF NodeTurn
  <2> QED BY <2>2 DEF OfFrame
<1>5. Carries(e2, o2, i, k)'
  BY <1>1, <1>2 DEF Carries, NodeTurn
<1>6. Holds(e2, o2, Claimed, k)'
  BY <1>1, <1>2, <1>4, <1>5, StartFacts DEF Holds
<1>7. Tells(e2, o2, Claimed, k)'
  <2>1. ASSUME NEW j \in Nodes, st'[j].strip PROVE k # o2[j] + 1
    <3>1. NodeTurn(v, e, o, v2, e2, o2, k, j)
      BY DEF Turn
    <3> QED BY <1>1, <1>2, <1>3, <2>1, <3>1 DEF NodeTurn
  <2> QED BY <2>1 DEF Tells
<1> QED BY <1>6, <1>7 DEF Cell

\* The cell it drives is right.
LEMMA DrivenCell ==
    ASSUME NEW a, NEW v, NEW e, NEW o, NEW a2, NEW v2, NEW e2, NEW o2, NEW k,
           Turn(a, v, e, o, a2, v2, e2, o2, k), NEW i \in Nodes,
           NEW d, d = Driven(st[i])
    PROVE  Cell(e2, o2, d, Ahead(a2, v2, Base[i] + 1))'
<1>1. NodeTurn(v, e, o, v2, e2, o2, k, i) /\ Ring(a, v, e, o) /\ RingFits /\ BitTime
  BY DEF Turn
<1> DEFINE x == Ahead(a, v, Base[i])
<1>2. /\ x \in Nat /\ Ahead(a2, v2, Base[i] + 1) = x + k
      /\ \A j \in Nodes : e2[j] # Ahead(a2, v2, Base[i] + 1)
  <2>1. Cable[i] \in Nat /\ Base[i] \in Nat
    BY BaseShape
  <2>2. 1 \in 1 .. Cable[i] + 1 /\ Base[i] + (1 - 1) = Base[i]
    BY <2>1
  <2> QED BY <2>2, CellTravels
<1>3. Base[i] = a => x = v
  <2>1. Base[i] \in Nat /\ v \in Nat
    BY <1>1, BaseShape DEF NodeTurn
  <2> QED BY <2>1 DEF Ahead
<1>4. Base[i] # a => x > 0
  <2>1. a \in Nat /\ a < Loop /\ Loop \in Nat /\ v \in Nat /\ Base[i] \in Nat
    BY <1>1, BaseShape DEF NodeTurn, Ring, Distances, Places
  <2> QED BY ONLY <1>4, <2>1 DEF Ahead
<1> HIDE DEF x
<1>5. CASE v > 0 /\ Base[i] = a
  <2>1. k = 0
    BY <1>1, <1>5 DEF Turn, Places2, NodeTurn
  <2>2. x + k = v
    BY <1>1, <1>3, <1>5, <2>1 DEF NodeTurn
  <2> QED BY <1>2, <1>5, <2>2, SentCell
<1>6. CASE ~(v > 0 /\ Base[i] = a) /\ Claims(st[i])
  <2>1. d = Claimed
    BY <1>6 DEF Driven, Claims
  <2>2. x + k = k
    <3>1. Base[i] = a /\ v = 0
      BY <1>1, <1>6, ClaimFacts
    <3> QED BY <1>1, <1>3, <3>1 DEF NodeTurn
  <2> QED BY <1>2, <1>6, <2>1, <2>2, ClaimedCell
<1>7. CASE ~(v > 0 /\ Base[i] = a) /\ ~Claims(st[i])
  <2>1. ~Sends(st[i])
    <3>1. Owning(a, v, i)
      BY <1>1 DEF Ring, Node
    <3> QED BY <1>7, <3>1 DEF Owning, Sends, Sending
  <2>2. d = Hold(st[i])
    BY <1>7, <2>1 DEF Driven, Hold
  <2>3. Cell(e, o, d, x)
    BY <1>1, <1>7, <2>2 DEF Ring, Node, HoldTrue, x
  <2>4. k > 0 => x # 0
    <3> SUFFICES ASSUME k > 0, x = 0 PROVE FALSE
      OBVIOUS
    <3>1. Base[i] = a
      BY <1>4
    <3>2. PICK w \in Nodes : Claims(st[w])
      BY DEF Turn
    <3>3. v = 0 /\ Base[w] = a /\ e[w] = Loop
      BY <1>1, <3>2, ClaimFacts
    <3>4. e[i] = Loop + v
      BY <1>1, <3>1, NodeFacts
    <3>5. i = w
      BY <1>1, <3>3, <3>4 DEF Turn, NodeTurn
    <3> QED BY <1>7, <3>2, <3>5
  <2>5. \A j \in Nodes : x + k # e2[j]
    BY <1>2
  <2>6. Holds(e2, o2, d, x + k)'
    BY <1>2, <2>3, <2>4, <2>5, HoldsMoves DEF Cell
  <2>7. Tells(e2, o2, d, x + k)'
    BY <1>2, <2>3, <2>4, <2>5, TellsMoves DEF Cell
  <2> QED BY <1>2, <2>6, <2>7 DEF Cell
<1> QED BY <1>5, <1>6, <1>7

\* The symbols on a cable.
LEMMA CableCell ==
    ASSUME NEW a, NEW v, NEW e, NEW o, NEW a2, NEW v2, NEW e2, NEW o2, NEW k,
           Turn(a, v, e, o, a2, v2, e2, o2, k), NEW i \in Nodes, NEW y \in 2 .. Cable[i] + 1,
           NEW d, Cell(e, o, d, Ahead(a, v, Base[i] + (y - 1)))
    PROVE  Cell(e2, o2, d, Ahead(a2, v2, Base[i] + y))'
<1> DEFINE x == Ahead(a, v, Base[i] + (y - 1))
<1>1. /\ x \in Nat /\ Ahead(a2, v2, Base[i] + y) = x + k
      /\ \A j \in Nodes : e2[j] # Ahead(a2, v2, Base[i] + y)
      /\ k > 0 => x # 0
  <2>1. Cable[i] \in Nat
    BY BaseShape
  <2>2. y \in 1 .. Cable[i] + 1 /\ y > 1
    BY <2>1
  <2> QED BY <2>2, CellTravels
<1> HIDE DEF x
<1>2. Cell(e, o, d, x)
  BY DEF x
<1>3. \A j \in Nodes : x + k # e2[j]
  BY <1>1
<1>4. Holds(e2, o2, d, x + k)'
  BY <1>1, <1>2, <1>3, HoldsMoves DEF Cell
<1>5. Tells(e2, o2, d, x + k)'
  BY <1>1, <1>2, <1>3, TellsMoves DEF Cell
<1> QED BY <1>1, <1>4, <1>5 DEF Cell

\* A cable's cells are right.
LEMMA LineTrueStep ==
    ASSUME NEW a, NEW v, NEW e, NEW o, NEW a2, NEW v2, NEW e2, NEW o2, NEW k,
           Turn(a, v, e, o, a2, v2, e2, o2, k), NEW i \in Nodes
    PROVE  /\ LineTrue(a2, v2, e2, o2, i)'
           /\ m'.line[i] \in Seq(Symbols) /\ Len(m'.line[i]) = Cable[i]
<1>1. Ring(a, v, e, o) /\ RingFits /\ BitTime /\ Segment
  BY DEF Turn, Ring
<1>2. m.line[i] \in Seq(Symbols) /\ Len(m.line[i]) = Cable[i] /\ Cable[i] \in Nat
      /\ LineTrue(a, v, e, o, i)
  BY <1>1, BaseShape DEF Segment, Ring, Node
<1>3. m.driving[i] \in Symbols
  BY <1>2 DEF LineTrue, Cell, Holds
<1>4. /\ m'.driving[i] = Driven(st[i])
      /\ m'.line[i] = IF Cable[i] > 0 THEN Append(Tail(m.line[i]), m.driving[i]) ELSE <<>>
  BY <1>1, MediumStep
<1>5. Cable[i] > 0 => /\ m'.line[i] \in Seq(Symbols) /\ Len(m'.line[i]) = Cable[i]
                      /\ m'.line[i][Cable[i]] = m.driving[i]
                      /\ \A q \in 1 .. Cable[i] - 1 : m'.line[i][q] = m.line[i][q + 1]
  BY <1>2, <1>3, <1>4, CableMoves
<1>6. m'.line[i] \in Seq(Symbols) /\ Len(m'.line[i]) = Cable[i]
  <2>1. <<>> \in Seq(Symbols) /\ Len(<<>>) = 0
    OBVIOUS
  <2> QED BY <1>2, <1>4, <1>5, <2>1
<1>7. Cell(e2, o2, m.driving[i], Ahead(a2, v2, Base[i] + 1))'
  BY <1>4, DrivenCell
<1>8. ASSUME NEW q \in 1 .. Cable[i]
      PROVE  Cell(e2, o2, m.line[i][q], Ahead(a2, v2, Base[i] + (Cable[i] + 2 - q)))'
  <2> DEFINE y == Cable[i] + 2 - q
  <2>1. y \in 2 .. Cable[i] + 1 /\ Base[i] \in Nat /\ q \in Nat
    BY <1>2, BaseShape
  <2>2. PICK d : d = m'.line[i][q]
    OBVIOUS
  <2>3. CASE q = Cable[i]
    <3>1. d = m.driving[i] /\ y = 2
      BY <1>2, <1>5, <2>2, <2>3
    <3>2. Cell(e, o, d, Ahead(a, v, Base[i] + (y - 1)))
      BY <1>2, <3>1 DEF LineTrue
    <3> HIDE DEF y
    <3>3. Cell(e2, o2, d, Ahead(a2, v2, Base[i] + y))'
      BY <2>1, <3>2, CableCell
    <3> QED BY <2>2, <3>3 DEF y
  <2>4. CASE q # Cable[i]
    <3>1. q \in 1 .. Cable[i] - 1 /\ q + 1 \in 1 .. Cable[i]
          /\ Cable[i] + 2 - (q + 1) = y - 1
      BY <1>2, <2>1, <2>4
    <3>2. d = m.line[i][q + 1]
      BY <1>2, <1>5, <2>2, <3>1
    <3>3. Cell(e, o, d, Ahead(a, v, Base[i] + (y - 1)))
      BY <1>2, <3>1, <3>2 DEF LineTrue
    <3> HIDE DEF y
    <3>4. Cell(e2, o2, d, Ahead(a2, v2, Base[i] + y))'
      BY <2>1, <3>3, CableCell
    <3> QED BY <2>2, <3>4 DEF y
  <2> QED BY <2>3, <2>4
<1>9. LineTrue(a2, v2, e2, o2, i)'
  BY <1>7, <1>8 DEF LineTrue
<1> QED BY <1>6, <1>9

\* The segment keeps its shape.
LEMMA SegmentStep ==
    ASSUME NEW a, NEW v, NEW e, NEW o, NEW a2, NEW v2, NEW e2, NEW o2, NEW k,
           Turn(a, v, e, o, a2, v2, e2, o2, k)
    PROVE  Segment'
<1>1. Segment /\ BitTime
  BY DEF Turn, Ring
<1>2. /\ DOMAIN m' = DOMAIN m /\ m'.bypassed = m.bypassed
      /\ m'.driving = [i \in Nodes |-> Driven(st[i])]
      /\ m'.line = [i \in Nodes |-> IF Cable[i] > 0
                                    THEN Append(Tail(m.line[i]), m.driving[i]) ELSE <<>>]
  BY <1>1, MediumStep
<1>3. DOMAIN m'.driving = Nodes /\ DOMAIN m'.line = Nodes
  BY <1>2
<1>4. \A i \in Nodes : m'.line[i] \in Seq(Symbols) /\ Len(m'.line[i]) = Cable[i]
  BY LineTrueStep
<1> QED BY <1>1, <1>2, <1>3, <1>4 DEF Segment

-----------------------------------------------------------------------------
(* The controllers, the stations and the owner.                            *)

\* What polling the ring makes of a controller.
LEMMA PollFacts ==
    ASSUME NEW c, NEW s, DOMAIN c = {"connected", "xmitEn", "deferred", "ackSeen", "status"}
    PROVE  LET d == PollRing(c, s)
           IN  /\ DOMAIN d = DOMAIN c
               /\ s.armed => d.xmitEn = c.xmitEn /\ d.deferred = c.deferred
               /\ c.ackSeen /\ s.ackValid => d.ackSeen /\ d.status = c.status
               /\ ~c.ackSeen /\ s.ackValid =>
                    d.ackSeen /\ \E A \in SUBSET {"pe"} : d.status = A \cup StatusOf(s.ack)
               /\ ~c.ackSeen /\ ~s.ackValid => ~d.ackSeen
<1> DEFINE f == FinishDeferred(c, s)
           d == ReadAck(f, s)
<1>1. /\ DOMAIN f = DOMAIN c /\ f.ackSeen = c.ackSeen
      /\ s.armed => f.xmitEn = c.xmitEn /\ f.deferred = c.deferred
      /\ s.ackValid => f.status = c.status
  <2>1. CASE ~Finishes(c, s)
    BY <2>1 DEF FinishDeferred
  <2>2. CASE Finishes(c, s)
    <3> DEFINE z == IF s.ackValid THEN c.status ELSE {"pe", "icp"}
    <3>1. f = [c EXCEPT !.deferred = FALSE, !.xmitEn = FALSE, !.status = z]
      BY <2>2 DEF FinishDeferred
    <3>2. ~s.armed
      BY <2>2 DEF Finishes, Transmitted
    <3>3. s.ackValid => z = c.status
      OBVIOUS
    <3> HIDE DEF z, f
    <3> QED BY <3>1, <3>2, <3>3
  <2> QED BY <2>1, <2>2
<1> HIDE DEF f
<1>2. CASE c.ackSeen \/ ~s.ackValid
  <2>1. d = f
    BY <1>1, <1>2 DEF ReadAck
  <2> QED BY <1>1, <1>2, <2>1 DEF PollRing, f
<1>3. CASE ~c.ackSeen /\ s.ackValid
  <2> DEFINE A == f.status \cap {"pe"}
             z == A \cup StatusOf(s.ack)
  <2>1. d = [f EXCEPT !.ackSeen = TRUE, !.status = z]
    BY <1>1, <1>3 DEF ReadAck
  <2>2. A \in SUBSET {"pe"}
    OBVIOUS
  <2> HIDE DEF A
  <2>3. \E B \in SUBSET {"pe"} : z = B \cup StatusOf(s.ack)
    BY <2>2
  <2> HIDE DEF z, d
  <2>4. /\ DOMAIN d = DOMAIN c /\ d.ackSeen /\ d.status = z
        /\ s.armed => d.xmitEn = c.xmitEn /\ d.deferred = c.deferred
    BY <1>1, <2>1
  <2> QED BY <1>3, <2>3, <2>4 DEF PollRing, f, d
<1> QED BY <1>2, <1>3

\* The tables keep theirs.
LEMMA TablesStep ==
    ASSUME Tables, BitTime
    PROVE  Tables'
<1>0. PICK W, C :
        StationsTake([q \in Nodes |-> Sampled(Drive(st[q]), m'.received[q])], W, C)
  BY DEF BitTime
<1>1. DOMAIN st' = Nodes /\ DOMAIN ctl' = Nodes
  BY <1>0 DEF StationsTake
<1>2. ASSUME NEW i \in Nodes
      PROVE  DOMAIN ctl'[i] = {"connected", "xmitEn", "deferred", "ackSeen", "status"}
  <2>1. ctl'[i] = PollRing(ctl[i], st'[i])
    BY <1>0 DEF StationsTake
  <2>2. DOMAIN ctl[i] = {"connected", "xmitEn", "deferred", "ackSeen", "status"}
    BY DEF Tables
  <2> QED BY <2>1, <2>2, PollFacts
<1>3. taken' \in [Nodes -> [Nodes -> Nat]]
  <2> DEFINE hit(i, j) == st[i].src = j
                          /\ Copies(Sampled(Drive(st[i]), m'.received[i]), m'.received[i],
                                    i \in C)
             up(j, i) == IF hit(i, j) THEN taken[j][i] + 1 ELSE taken[j][i]
  <2>1. taken' = [j \in Nodes |-> [i \in Nodes |-> up(j, i)]]
    BY <1>0 DEF StationsTake
  <2>2. \A i, j \in Nodes : taken[j][i] \in Nat
    BY DEF Tables
  <2> HIDE DEF hit
  <2>3. \A i, j \in Nodes : up(j, i) \in Nat
    BY <2>2
  <2> HIDE DEF up
  <2> QED BY <2>1, <2>3
<1> QED BY <1>1, <1>2, <1>3 DEF Tables

\* A station stays sound.
LEMMA SoundStep ==
    ASSUME NEW a, NEW v, NEW e, NEW o, NEW a2, NEW v2, NEW e2, NEW o2, NEW k,
           Turn(a, v, e, o, a2, v2, e2, o2, k), NEW i \in Nodes
    PROVE  Sound(st'[i])
<1> DEFINE s == st[i]
           t == st'[i]
           c == m'.received[i]
<1>1. NodeTurn(v, e, o, v2, e2, o2, k, i) /\ Ring(a, v, e, o) /\ RingFits /\ BitTime
  BY DEF Turn
<1>2. HoldStep(i) /\ Sound(s)
  BY <1>1, NodeStep, NodeFacts
<1>3. BitEffect(s, t, c) /\ RxStep(s, t, c, i)
  BY <1>2 DEF HoldStep
<1>4. Ends(s) => ~s.armed
  <2> SUFFICES ASSUME Ends(s), s.armed PROVE FALSE
    OBVIOUS
  <2>1. s.strip /\ ~st'[i].strip /\ ~Claims(s)
    BY <1>1, <1>2, <1>3 DEF Ends, BitEffect, NodeTurn
  <2>2. o[i] = 0 /\ e[i] = Loop + v
    BY <1>1, <2>1, NodeFacts, StripFacts
  <2> QED BY <1>1, <2>1, <2>2 DEF NodeTurn
<1> HIDE DEF s, t, c
<1>5. /\ DOMAIN t = StationFields /\ Len(t.tx) \in Nat /\ t.orig \in {None, Free}
      /\ ~t.timedOut /\ ~t.forced /\ t.tx = s.tx
  BY <1>2, <1>3 DEF BitEffect, Sound
<1>6. t.txPos \in Nat /\ t.stripped \in Nat /\ t.stripFor \in Nat /\ t.since \in Nat
  BY <1>2, <1>3 DEF BitEffect, Sound
<1>7. t.seps \in 0 .. 3
  <2>1. /\ RxStart(s, t, c) /\ RxSep(s, t, c) /\ RxFcs(s, t, c) /\ RxHeader(s, t, c, i)
        /\ RxOther(s, t, c) /\ s.seps \in 0 .. 3
    BY <1>2, <1>3 DEF RxStep, Sound
  <2>2. LateHere(s, c) => t.seps \in 0 .. 3
    BY <1>2, <1>3, <2>1 DEF RxStep, RxLate, KeepsFrame, Sound
  <2>3. SepHere(s, c) => t.seps \in 0 .. 3
    BY <2>1 DEF RxSep
  <2>4. ~LateHere(s, c) /\ ~SepHere(s, c) => t.seps \in 0 .. 3
    BY <2>1 DEF RxStart, RxFcs, RxHeader, RxOther, KeepsFrame
  <2> QED BY <2>2, <2>3, <2>4
<1>8. t.armed \/ t.strip => Len(t.tx) > 0
  <2>1. Claims(s) => s.armed
    BY <1>2 DEF Claims, Sound
  <2> QED BY <1>2, <1>3, <1>5, <2>1 DEF BitEffect, Sound
<1>9. t.wants <=> t.armed /\ ~t.strip
  <2>1. Claims(s) => ~s.strip
    BY <1>2 DEF Claims, Sound
  <2>2. Ends(s) => s.strip
    BY DEF Ends
  <2>3. Last(s) => s.strip
    BY DEF Last, Sending
  <2> QED BY <1>2, <1>3, <1>4, <2>1, <2>2, <2>3 DEF BitEffect, Sound
<1>10. (t.holds <=> t.strip) /\ (t.seenOwn => t.strip)
  BY <1>3 DEF BitEffect
<1> QED BY <1>5, <1>6, <1>7, <1>8, <1>9, <1>10 DEF Sound, t

\* The free token is heard where the token is, and nowhere else.
LEMMA HeardFree ==
    ASSUME NEW a, NEW v, NEW e, NEW o, Ring(a, v, e, o), RingFits, NEW i \in Nodes, e[i] > 1,
           NEW c, Holds(e, o, c, e[i] - 1)
    PROVE  c # Free
<1>1. e[i] \in Nat
  BY NodeFacts
<1>2. CASE \E j \in Nodes : Carries(e, o, j, e[i] - 1)
  <2>1. PICK j \in Nodes : Carries(e, o, j, e[i] - 1)
    BY <1>2
  <2> DEFINE d == e[i] - 1 - o[j]
  <2>2. OfFrame(c, j, d)
    BY <2>1 DEF Holds
  <2>3. /\ st[j].strip /\ e[i] - 1 > o[j] /\ e[i] - 1 <= o[j] + Size(j) + 1 /\ o[j] \in Nat
        /\ Size(j) \in {7, 8} /\ IsFrame(st[j].tx, j)
    BY <2>1, NodeFacts DEF Carries
  <2>4. d \in 1 .. Size(j) + 1
    BY <1>1, <2>3
  <2> HIDE DEF d
  <2>5. CASE d = Size(j) + 1
    BY <2>2, <2>5, KindsDiffer DEF OfFrame
  <2>6. CASE d # Size(j) + 1
    <3>1. Alike(c, st[j].tx[Size(j) + 1 - d]) /\ Size(j) + 1 - d \in 1 .. Size(j)
      BY <2>2, <2>3, <2>4, <2>6 DEF OfFrame
    <3>2. st[j].tx[Size(j) + 1 - d].kind # "free"
      BY <2>3, <3>1, FrameSymbols DEF Size
    <3> QED BY <3>1, <3>2, KindsDiffer DEF Alike
  <2> QED BY <2>5, <2>6
<1>3. CASE \A j \in Nodes : ~Carries(e, o, j, e[i] - 1)
  <2>1. c = Zero
    BY <1>1, <1>3 DEF Holds
  <2> QED BY <2>1, KindsDiffer
<1> QED BY <1>2, <1>3

\* The node the token would be at owns the ring, after the bit time as before.
LEMMA OwningStep ==
    ASSUME NEW a, NEW v, NEW e, NEW o, NEW a2, NEW v2, NEW e2, NEW o2, NEW k,
           Turn(a, v, e, o, a2, v2, e2, o2, k), NEW i \in Nodes
    PROVE  Owning(a2, v2, i)'
<1> DEFINE s == st[i]
           t == st'[i]
           c == m'.received[i]
<1>1. NodeTurn(v, e, o, v2, e2, o2, k, i) /\ Ring(a, v, e, o) /\ RingFits /\ BitTime
  BY DEF Turn
<1>2. HoldStep(i) /\ Sound(s) /\ Owning(a, v, i)
  BY <1>1, NodeStep, NodeFacts DEF Ring, Node
<1>3. BitEffect(s, t, c) /\ (Originating(t) <=> Last(s))
  BY <1>2 DEF HoldStep
<1>4. Holds(e, o, c, e[i] - 1)
  BY <1>1, HeardCell DEF Cell
<1>5. a \in Places /\ v \in Nat /\ v2 \in Nat /\ e[i] = Gap(a, v, i) /\ Places2(a, v, a2, v2, k)
  BY <1>1 DEF Turn, Ring, Distances, NodeTurn
<1>6. Sending(s) => /\ s.txPos + v = Size(i) /\ s.stripFor = s.txPos /\ v > 0 /\ Base[i] = a
                    /\ ~Originating(s) /\ s.strip /\ s.armed
  BY <1>1, <1>2, NodeInTime DEF Owning, Sending
<1>7. s.txPos \in Nat /\ s.stripFor \in Nat /\ Size(i)' = Size(i) /\ Len(s.tx) = Size(i)
  BY <1>2 DEF Sound, HoldStep, Size
<1>8. Last(s) <=> Sending(s) /\ v = 1
  BY <1>1, <1>6, <1>7 DEF Last, NodeTurn
<1> HIDE DEF c
<1>9. CASE v > 0 /\ a2 = a /\ v2 = v - 1 /\ k = 0
  <2>1. Sending(s) <=> Base[i] = a
    BY <1>2, <1>9 DEF Owning
  <2>2. ~Claims(s)
    BY <1>1, <1>9 DEF NodeTurn
  <2>3. Sending(s) => t.strip
    <3> SUFFICES ASSUME Sending(s) PROVE t.strip
      OBVIOUS
    <3>1. e[i] = Loop + v /\ o[i] = 0
      BY <1>1, <1>6, NodeFacts, StripFacts
    <3> QED BY <1>1, <1>6, <3>1 DEF NodeTurn
  <2>4. Sending(t) <=> Sending(s) /\ ~Last(s)
    BY <1>1, <1>3, <2>2, <2>3 DEF NodeTurn, BitEffect, Sending
  <2>5. Sending(t) <=> v2 > 0 /\ Base[i] = a2
    BY <1>1, <1>8, <1>9, <2>1, <2>4 DEF NodeTurn
  <2>6. Sending(s) => t.txPos = s.txPos + 1 /\ t.stripFor = s.stripFor + 1
    BY <1>3, <1>6, <2>2 DEF BitEffect
  <2>7. Sending(t) => t.txPos + v2 = Size(i) /\ t.stripFor = t.txPos
    BY SMTT(30), <1>1, <1>6, <1>7, <1>9, <2>4, <2>6 DEF NodeTurn
  <2>8. Originating(t) => Base[i] = a2 /\ v2 = 0 /\ t.stripFor = Size(i)
    BY <1>1, <1>3, <1>6, <1>7, <1>8, <1>9, <2>6 DEF NodeTurn
  <2>9. t.window = Free <=> v2 = 0 /\ Base[i] = a2 /\ ~Originating(t)
    <3>1. e[i] > 1
      BY <1>1, <1>9 DEF NodeTurn
    <3>2. c # Free
      BY <1>1, <1>4, <3>1, HeardFree
    <3>3. v2 = 0 /\ Base[i] = a2 => Originating(t)
      BY <1>1, <1>3, <1>8, <1>9, <2>1 DEF NodeTurn
    <3> QED BY <1>3, <3>2, <3>3 DEF BitEffect
  <2> QED BY <1>7, <2>5, <2>7, <2>8, <2>9 DEF Owning
<1>10. CASE v = 0 /\ a2 = a /\ k = v2 + 1 /\ \E w \in Nodes : Base[w] = a /\ Claims(st[w]) /\ v2 = Size(w)
  <2>1. PICK w \in Nodes : Base[w] = a /\ Claims(st[w]) /\ v2 = Size(w)
    BY <1>10
  <2>2. Base[i] = a <=> i = w
    <3>1. Base[i] = a => e[i] = Loop + v
      BY <1>1, NodeFacts
    <3>2. e[w] = Loop + v
      BY <1>1, <2>1, NodeFacts
    <3>3. i # w => e[i] # e[w]
      BY DEF Turn
    <3> QED BY <2>1, <3>1, <3>2, <3>3
  <2>3. Claims(s) <=> i = w
    BY <1>1, <2>1, <2>2, ClaimFacts
  <2>4. v2 > 0 /\ e[i] > 1
    <3>1. NodeTurn(v, e, o, v2, e2, o2, k, w)
      BY DEF Turn
    <3> QED BY <1>1, <1>10, <2>1, <3>1 DEF NodeTurn
  <2>5. ~Sending(s) /\ ~Last(s)
    BY <1>6, <1>8, <1>10
  <2>6. Claims(s) => t.strip /\ t.armed /\ t.txPos = 0 /\ t.stripFor = 0
    <3> SUFFICES ASSUME Claims(s) PROVE t.strip /\ t.armed /\ t.txPos = 0 /\ t.stripFor = 0
      OBVIOUS
    <3>1. s.armed /\ s.txPos = 0
      BY <1>1, ClaimFacts
    <3> QED BY <1>1, <1>3, <2>5, <3>1 DEF NodeTurn, BitEffect
  <2>7. Sending(t) <=> Claims(s)
    BY <1>1, <1>3, <2>5, <2>6 DEF NodeTurn, BitEffect, Sending
  <2>8. ~Originating(t)
    BY <1>3, <2>5
  <2>9. c # Free
    BY <1>1, <1>4, <2>4, HeardFree
  <2>10. t.window # Free
    BY <1>3, <2>9 DEF BitEffect
  <2>11. Sending(t) => t.txPos + v2 = Size(i) /\ t.stripFor = t.txPos
    <3> SUFFICES ASSUME Sending(t) PROVE t.txPos + v2 = Size(i) /\ t.stripFor = t.txPos
      OBVIOUS
    <3>1. Claims(s)
      BY <2>7
    <3>2. v2 = Size(i) /\ v2 \in Nat
      BY <1>5, <2>1, <2>3, <3>1
    <3> QED BY <2>6, <3>1, <3>2
  <2>12. Sending(t) <=> v2 > 0 /\ Base[i] = a2
    BY <1>10, <2>2, <2>3, <2>4, <2>7
  <2>13. ~(v2 = 0)
    BY <1>5, <2>4
  <2> QED BY <1>7, <2>8, <2>10, <2>11, <2>12, <2>13 DEF Owning
<1>11. CASE v = 0 /\ a2 = After(a) /\ v2 = 0 /\ k = 0
  <2>1. ~Sending(s) /\ ~Last(s) /\ ~Claims(s)
    BY <1>1, <1>6, <1>8, <1>11 DEF NodeTurn
  <2>2. ~Sending(t)
    BY <1>1, <1>3, <2>1 DEF NodeTurn, BitEffect, Sending
  <2>3. ~Originating(t)
    BY <1>3, <2>1
  <2>4. Base[i] = a2 <=> e[i] = 1
    BY <1>5, <1>11, TokenMoves
  <2>5. c = Free <=> e[i] = 1
    BY <1>1, <1>4, HeardFree DEF Holds, NodeTurn
  <2>6. t.window = Free <=> v2 = 0 /\ Base[i] = a2 /\ ~Originating(t)
    BY <1>3, <1>11, <2>3, <2>4, <2>5 DEF BitEffect
  <2>7. ~(v2 > 0)
    BY <1>11
  <2> QED BY <2>2, <2>3, <2>6, <2>7 DEF Owning
<1> QED BY <1>5, <1>9, <1>10, <1>11 DEF Places2

\* A station's acknowledge changes only when its own comes back.
LEMMA AckKept ==
    ASSUME NEW s, NEW t, NEW c, NEW me, RxStep(s, t, c, me)
    PROVE  /\ ~(LateHere(s, c) /\ t.strip /\ t.seenOwn) => KeepsAck(s, t)
           /\ LateHere(s, c) /\ t.strip /\ t.seenOwn => t.ack = t.pending.ack /\ t.ackValid
<1>1. RxStart(s, t, c) /\ RxSep(s, t, c) /\ RxFcs(s, t, c) /\ RxLate(s, t, c)
      /\ RxHeader(s, t, c, me) /\ RxOther(s, t, c)
  BY DEF RxStep
<1> QED BY <1>1 DEF RxStart, RxSep, RxFcs, RxLate, RxHeader, RxOther

\* A frame is asked for and sent as the controller has it.
LEMMA StationStep ==
    ASSUME NEW a, NEW v, NEW e, NEW o, NEW a2, NEW v2, NEW e2, NEW o2, NEW k,
           Turn(a, v, e, o, a2, v2, e2, o2, k), NEW i \in Nodes
    PROVE  Station(i)'
<1> DEFINE s == st[i]
           t == st'[i]
           c == m'.received[i]
<1>1. NodeTurn(v, e, o, v2, e2, o2, k, i) /\ Ring(a, v, e, o) /\ RingFits /\ BitTime
  BY DEF Turn
<1>2. HoldStep(i) /\ Sound(s) /\ Sound(t) /\ Station(i)
  BY <1>1, NodeStep, NodeFacts, SoundStep DEF Ring, Node
<1>3. BitEffect(s, t, c) /\ RxStep(s, t, c, i) /\ Size(i)' = Size(i)
  BY <1>2 DEF HoldStep
<1>4. ctl'[i] = PollRing(ctl[i], t)
      /\ DOMAIN ctl[i] = {"connected", "xmitEn", "deferred", "ackSeen", "status"}
  BY <1>1 DEF BitTime, StationsTake, Ring, Tables
<1> HIDE DEF c
<1>5. t.tx = <<>> \/ IsFrame(t.tx, i)
  BY <1>2, <1>3 DEF Station, BitEffect
<1>6. t.armed => ctl'[i].xmitEn /\ ctl'[i].deferred
  <2>1. t.armed => ctl[i].xmitEn /\ ctl[i].deferred
    BY <1>2, <1>3 DEF Station, BitEffect
  <2>2. t.armed => ctl'[i].xmitEn = ctl[i].xmitEn /\ ctl'[i].deferred = ctl[i].deferred
    BY <1>4, PollFacts
  <2> QED BY <2>1, <2>2
<1>7. ASSUME t.wants
      PROVE  t.txPos = 0 /\ ~t.ackValid /\ \A q \in Nodes : taken'[i][q] = 0
  <2>1. s.wants /\ ~Claims(s) /\ ~s.strip /\ ~t.strip /\ ~Sending(s)
    BY <1>2, <1>3, <1>7 DEF BitEffect, Sound, Sending
  <2>2. s.txPos = 0 /\ ~s.ackValid /\ \A q \in Nodes : taken[i][q] = 0
    BY <1>2, <2>1 DEF Station
  <2>3. t.txPos = 0
    BY <1>3, <2>1, <2>2 DEF BitEffect
  <2>4. ~t.ackValid
    BY <1>3, <2>1, <2>2, AckKept DEF KeepsAck
  <2>5. \A q \in Nodes : taken'[i][q] = 0
    BY <2>1, <2>2, TakenStep DEF Reaches
  <2> QED BY <2>3, <2>4, <2>5
<1>8. ASSUME t.strip, ~t.armed PROVE t.txPos = Size(i)
  <2>1. ~Claims(s)
    BY <1>1, <1>3, <1>8, ClaimFacts DEF BitEffect, Last, Sending
  <2>2. s.strip
    BY <1>1, <1>8, <2>1 DEF NodeTurn
  <2>3. CASE Last(s)
    BY <1>3, <2>3 DEF BitEffect, Last, Size
  <2>4. CASE ~Last(s)
    <3>1. ~s.armed
      BY <1>3, <1>8, <2>4 DEF BitEffect
    <3>2. s.txPos = Size(i)
      BY <1>2, <2>2, <3>1 DEF Station
    <3> QED BY <1>3, <3>1, <3>2 DEF BitEffect, Sending
  <2> QED BY <2>3, <2>4
<1> QED BY <1>2, <1>3, <1>5, <1>6, <1>7, <1>8 DEF Station

-----------------------------------------------------------------------------
(* The receivers follow the frames.                                        *)

\* The next symbol of the frame it is in the middle of takes a receiver one further.
LEMMA FollowStep ==
    ASSUME NEW s, NEW t, NEW c, NEW i, NEW j, NEW g, NEW n \in {7, 8}, NEW tx,
           RxStep(s, t, c, i), Alike(c, tx[g]), g \in 1 .. n - 1, n = Len(tx), IsFrame(tx, j),
           j \in Nodes,
           g > 1 => Tracking(s, i, j, tx[3].dest, g - 1, n)
    PROVE  Tracking(t, i, j, tx[3].dest, g, n)
<1>1. /\ RxStart(s, t, c) /\ RxSep(s, t, c) /\ RxFcs(s, t, c) /\ RxLate(s, t, c)
      /\ RxHeader(s, t, c, i) /\ RxOther(s, t, c)
  BY DEF RxStep
<1>2. /\ tx[1].kind = "start" /\ tx[2].kind = "sep" /\ tx[3].kind = "header" /\ tx[3].src = j
      /\ tx[4].kind = "sep" /\ (n = 8 => tx[5].kind = "data")
      /\ tx[n - 2].kind = "sep" /\ tx[n - 1].kind = "check"
  <2>1. n - 2 = Len(tx) - 2 /\ n - 1 = Len(tx) - 1
    OBVIOUS
  <2>2. /\ tx[1] = Start /\ tx[2].kind = "sep" /\ tx[3].kind = "header" /\ tx[3].src = j
        /\ tx[4].kind = "sep" /\ (Len(tx) = 8 => tx[5].kind = "data")
    BY ONLY FrameSymbols, IsFrame(tx, j), j \in Nodes
  <2>3. tx[Len(tx) - 2].kind = "sep" /\ tx[Len(tx) - 1].kind = "check"
    BY FrameSymbols
  <2> QED BY ONLY <2>1, <2>2, <2>3, n = Len(tx), KindsDiffer
<1>3. c.kind = tx[g].kind /\ c.src = tx[g].src /\ c.dest = tx[g].dest
  BY DEF Alike
<1>4. g = 1 \/ g = 2 \/ g = 3 \/ g = 4 \/ (g = 5 /\ n = 8) \/ (g = n - 2 /\ g >= 5) \/ (g = n - 1 /\ g >= 6)
  <2>1. n = 7 \/ n = 8
    OBVIOUS
  <2>2. g \in Nat /\ g >= 1 /\ g <= n - 1
    BY <2>1
  <2> QED BY ONLY <2>1, <2>2, SMT
<1>5. CASE g = 1
  <2>1. c.kind = "start"
    BY <1>2, <1>3, <1>5
  <2>2. t.rx = "await" /\ t.seps = 0 /\ ~t.addressed
    BY <1>1, <2>1 DEF RxStart
  <2> QED BY <1>5, <2>2 DEF RxAt, SepsAt, Tracking
<1>6. CASE g = 2
  <2>1. s.rx = "await" /\ s.seps = 0 /\ ~s.addressed
    BY <1>6 DEF RxAt, SepsAt, Tracking
  <2>2. SepHere(s, c)
    BY <1>2, <1>3, <1>6, <2>1 DEF SepHere
  <2>3. t.rx = "header" /\ t.seps = 1 /\ ~t.addressed
    BY <1>1, <2>1, <2>2 DEF RxSep
  <2> QED BY <1>6, <2>3 DEF RxAt, SepsAt, Tracking
<1>7. CASE g = 3
  <2>1. s.rx = "header" /\ s.seps = 1
    BY <1>7 DEF RxAt, SepsAt, Tracking
  <2>2. HeaderHere(s, c)
    BY <1>2, <1>3, <1>7, <2>1 DEF HeaderHere
  <2>3. /\ t.rx = "header" /\ t.seps = 1 /\ t.src = j
        /\ (t.addressed <=> tx[3].dest \in {Broadcast, i})
    BY <1>1, <1>2, <1>3, <1>7, <2>1, <2>2 DEF RxHeader
  <2> QED BY <1>7, <2>3 DEF RxAt, SepsAt, Tracking
<1>8. CASE g = 4
  <2>1. /\ s.rx = "header" /\ s.seps = 1 /\ s.src = j
        /\ (s.addressed <=> tx[3].dest \in {Broadcast, i})
    BY <1>8 DEF RxAt, SepsAt, Tracking
  <2>2. SepHere(s, c)
    BY <1>2, <1>3, <1>8, <2>1 DEF SepHere
  <2>3. t.rx = "body" /\ t.seps = 2 /\ t.src = s.src /\ (t.addressed <=> s.addressed)
    BY <1>1, <2>1, <2>2 DEF RxSep
  <2>4. RxAt(4, n) = "body" /\ SepsAt(4, n) = 2
    <3>1. n = 7 \/ n = 8
      OBVIOUS
    <3> QED BY ONLY <3>1 DEF RxAt, SepsAt
  <2> QED BY <1>8, <2>1, <2>3, <2>4 DEF Tracking
<1>9. CASE g = 5 /\ n = 8
  <2>1. /\ s.rx = "body" /\ s.seps = 2 /\ s.src = j
        /\ (s.addressed <=> tx[3].dest \in {Broadcast, i})
    BY <1>9 DEF RxAt, SepsAt, Tracking
  <2>2. /\ c.kind # "start" /\ ~SepHere(s, c) /\ ~FcsHere(s, c) /\ ~LateHere(s, c)
        /\ ~HeaderHere(s, c)
    BY <1>2, <1>3, <1>9, <2>1 DEF SepHere, FcsHere, LateHere, HeaderHere
  <2>3. t.rx = s.rx /\ t.seps = s.seps /\ t.src = s.src /\ (t.addressed <=> s.addressed)
    BY <1>1, <2>2 DEF RxOther, KeepsFrame
  <2> QED BY <1>9, <2>1, <2>3 DEF RxAt, SepsAt, Tracking
<1>10. CASE g = n - 2 /\ g >= 5
  <2>1. /\ s.rx = "body" /\ s.seps = 2 /\ s.src = j
        /\ (s.addressed <=> tx[3].dest \in {Broadcast, i})
    BY <1>10 DEF RxAt, SepsAt, Tracking
  <2>2. SepHere(s, c)
    BY <1>2, <1>3, <1>10, <2>1 DEF SepHere
  <2>3. t.rx = "fcs" /\ t.seps = 3 /\ t.src = s.src /\ (t.addressed <=> s.addressed)
    BY <1>1, <2>1, <2>2 DEF RxSep
  <2> QED BY <1>10, <2>1, <2>3 DEF RxAt, SepsAt, Tracking
<1>11. CASE g = n - 1 /\ g >= 6
  <2>1. /\ s.rx = "fcs" /\ s.seps = 3 /\ s.src = j
        /\ (s.addressed <=> tx[3].dest \in {Broadcast, i})
    BY <1>11 DEF RxAt, SepsAt, Tracking
  <2>2. FcsHere(s, c)
    BY <1>2, <1>3, <1>11, <2>1 DEF FcsHere
  <2>3. t.rx = "late" /\ t.seps = s.seps /\ t.src = s.src /\ (t.addressed <=> s.addressed)
    BY <1>1, <2>2 DEF RxFcs, KeepsFrame
  <2> QED BY <1>11, <2>1, <2>3 DEF RxAt, SepsAt, Tracking
<1> QED BY <1>4, <1>5, <1>6, <1>7, <1>8, <1>9, <1>10, <1>11

\* Who is in the middle of a frame after the bit time.
LEMMA MidStep ==
    ASSUME NEW a, NEW v, NEW e, NEW o, NEW a2, NEW v2, NEW e2, NEW o2, NEW k,
           Turn(a, v, e, o, a2, v2, e2, o2, k), NEW i \in Nodes, NEW j \in Nodes
    PROVE  /\ Mid(e2, o2, i, j)' <=> /\ st[j].strip /\ e[i] <= e[j] /\ 3 <= e[i] - o[j]
                                     /\ e[i] - o[j] <= Size(j) + 1
           /\ Mid(e2, o2, i, j)' => e2[i] - o2[j] = e[i] - o[j] - 1 /\ st'[j].strip
<1>1. NodeTurn(v, e, o, v2, e2, o2, k, i) /\ NodeTurn(v, e, o, v2, e2, o2, k, j)
      /\ (i # j => e[i] # e[j] /\ e2[i] # e2[j])
  BY DEF Turn
<1> DEFINE before == /\ st[j].strip /\ e[i] <= e[j] /\ 3 <= e[i] - o[j]
                     /\ e[i] - o[j] <= Size(j) + 1
<1>2. ASSUME before
      PROVE  Mid(e2, o2, i, j)' /\ e2[i] - o2[j] = e[i] - o[j] - 1 /\ st'[j].strip
  BY <1>1, <1>2 DEF NodeTurn, Mid
<1>3. ASSUME Mid(e2, o2, i, j)' PROVE before
  <2>1. /\ st'[j].strip /\ e2[i] <= e2[j] /\ 2 <= e2[i] - o2[j]
        /\ e2[i] - o2[j] <= Size(j)'
    BY <1>3 DEF Mid
  <2>2. ~Claims(st[j])
    BY <1>1, <2>1 DEF NodeTurn
  <2>3. st[j].strip /\ e[j] > 1
    BY <1>1, <2>1, <2>2 DEF NodeTurn
  <2>4. e[i] # 1
    BY <1>1, <2>1, <2>3 DEF NodeTurn
  <2> QED BY <1>1, <2>1, <2>2, <2>3, <2>4 DEF NodeTurn
<1> QED BY <1>2, <1>3

\* A receiver goes on following the frame it is in the middle of.
LEMMA TracksStep ==
    ASSUME NEW a, NEW v, NEW e, NEW o, NEW a2, NEW v2, NEW e2, NEW o2, NEW k,
           Turn(a, v, e, o, a2, v2, e2, o2, k), NEW i \in Nodes
    PROVE  Tracks(e2, o2, i)'
<1> SUFFICES ASSUME NEW c, c = m'.received[i] PROVE Tracks(e2, o2, i)'
  OBVIOUS
<1>1. NodeTurn(v, e, o, v2, e2, o2, k, i) /\ Ring(a, v, e, o) /\ RingFits /\ BitTime
  BY DEF Turn
<1>2. Holds(e, o, c, e[i] - 1) /\ Tracks(e, o, i)
  BY <1>1, HeardCell DEF Cell, Ring, Node
<1>3. RxStep(st[i], st'[i], c, i)
  BY <1>1, NodeStep DEF HoldStep
<1>4. ASSUME NEW j \in Nodes, Mid(e2, o2, i, j)'
      PROVE  Follows(i, j, Size(j) + 1 - (e2[i] - o2[j]))'
  <2> DEFINE n == Size(j)
             g == n + 2 - (e[i] - o[j])
  <2>1. /\ st[j].strip /\ e[i] <= e[j] /\ 3 <= e[i] - o[j] /\ e[i] - o[j] <= Size(j) + 1
        /\ e2[i] - o2[j] = e[i] - o[j] - 1
    BY <1>4, MidStep
  <2>2. e[i] \in Nat /\ o[j] \in Nat /\ n \in {7, 8} /\ IsFrame(st[j].tx, j)
    BY <1>1, <2>1, NodeFacts
  <2>3. Alike(c, st[j].tx[g])
    <3>1. 2 <= e[i] - o[j]
      BY <2>1, <2>2
    <3> QED BY <1>1, <1>2, <2>1, <3>1, HearsFrame
  <2>4. g \in 1 .. n - 1 /\ g - 1 = Size(j) + 1 - (e[i] - o[j])
    BY <2>1, <2>2
  <2>5. g > 1 => Follows(i, j, g - 1)
    <3> SUFFICES ASSUME g > 1 PROVE Follows(i, j, g - 1)
      OBVIOUS
    <3>1. Mid(e, o, i, j)
      BY <2>1, <2>2 DEF Mid
    <3> HIDE DEF g
    <3> QED BY <1>2, <2>4, <3>1 DEF Tracks
  <2>6. HoldStep(j) /\ n = Len(st[j].tx)
    BY <1>1, NodeStep DEF Size
  <2>7. Size(j)' = n /\ Dest(j)' = Dest(j) /\ Dest(j) = st[j].tx[3].dest
    BY <2>6 DEF HoldStep, Dest
  <2>8. Size(j)' + 1 - (e2[i] - o2[j]) = g
    BY <2>1, <2>2, <2>7
  <2> HIDE DEF g, n
  <2>9. Tracking(st'[i], i, j, st[j].tx[3].dest, g, n)
    <3>1. g > 1 => Tracking(st[i], i, j, st[j].tx[3].dest, g - 1, n)
      BY <2>5, <2>7 DEF Follows, n
    <3> QED BY <1>3, <2>2, <2>3, <2>4, <2>6, <3>1, FollowStep
  <2>10. PICK h : h = g
    OBVIOUS
  <2>11. Follows(i, j, h)'
    BY <2>7, <2>9, <2>10 DEF Follows
  <2> QED BY <2>8, <2>10, <2>11
<1>5. ASSUME \A j \in Nodes : ~Mid(e2, o2, i, j)' PROVE st'[i].rx = "idle"
  <2>1. \A j \in Nodes : ~(/\ st[j].strip /\ e[i] <= e[j] /\ 3 <= e[i] - o[j]
                           /\ e[i] - o[j] <= Size(j) + 1)
    BY <1>5, MidStep
  <2>2. CASE \E j \in Nodes : Mid(e, o, i, j)
    <3>1. PICK j \in Nodes : Mid(e, o, i, j)
      BY <2>2
    <3>2. st[j].strip /\ e[i] <= e[j] /\ 2 <= e[i] - o[j] /\ e[i] - o[j] <= Size(j)
      BY <3>1 DEF Mid
    <3>3. e[i] \in Nat /\ o[j] \in Nat /\ Size(j) \in {7, 8}
      BY <1>1, <3>2, NodeFacts
    <3>4. e[i] = o[j] + 2
      BY <2>1, <3>2, <3>3
    <3>5. LateHere(st[i], c)
      BY <1>1, <1>2, <3>2, <3>4, HearsLate
    <3> QED BY <1>3, <3>5 DEF RxStep, RxLate
  <2>3. CASE \A j \in Nodes : ~Mid(e, o, i, j)
    <3>1. st[i].rx = "idle"
      BY <1>2, <2>3 DEF Tracks
    <3>2. c.kind # "start"
      <4>1. CASE \E j \in Nodes : Carries(e, o, j, e[i] - 1)
        <5>1. PICK j \in Nodes : Carries(e, o, j, e[i] - 1)
          BY <4>1
        <5>2. /\ st[j].strip /\ e[i] - 1 < e[j] /\ o[j] < e[i] - 1
              /\ e[i] - 1 <= o[j] + Size(j) + 1
          BY <5>1 DEF Carries
        <5>3. /\ e[i] \in Nat /\ o[j] \in Nat /\ e[j] \in Nat /\ Size(j) \in {7, 8}
          BY <1>1, <5>2, NodeFacts
        <5>4. e[i] - o[j] = Size(j) + 2
          <6>1. e[i] <= e[j] /\ 2 <= e[i] - o[j]
            BY <5>2, <5>3
          <6>2. ~(e[i] - o[j] <= Size(j))
            BY <2>3, <5>2, <6>1 DEF Mid
          <6>3. ~(3 <= e[i] - o[j] /\ e[i] - o[j] <= Size(j) + 1)
            BY <2>1, <5>2, <6>1
          <6> QED BY <5>2, <5>3, <6>1, <6>2, <6>3
        <5>5. OfFrame(c, j, e[i] - 1 - o[j])
          BY <1>2, <5>1 DEF Holds
        <5>6. e[i] - 1 - o[j] = Size(j) + 1
          BY <5>3, <5>4
        <5> QED BY <5>5, <5>6, KindsDiffer DEF OfFrame
      <4>2. CASE \A j \in Nodes : ~Carries(e, o, j, e[i] - 1)
        <5>1. c = Free \/ c = Zero
          BY <1>2, <4>2 DEF Holds
        <5> QED BY <5>1, KindsDiffer
      <4> QED BY <4>1, <4>2
    <3>3. ~SepHere(st[i], c) /\ ~FcsHere(st[i], c) /\ ~LateHere(st[i], c) /\ ~HeaderHere(st[i], c)
      BY <3>1 DEF SepHere, FcsHere, LateHere, HeaderHere
    <3> QED BY <1>3, <3>1, <3>2, <3>3 DEF RxStep, RxOther
  <2> QED BY <2>2, <2>3
<1> QED BY <1>4, <1>5 DEF Tracks

-----------------------------------------------------------------------------
(* Copies and acknowledges.                                                *)

\* Nobody copies a frame twice, or one that is not for it.
LEMMA CountsStep ==
    ASSUME NEW a, NEW v, NEW e, NEW o, NEW a2, NEW v2, NEW e2, NEW o2, NEW k,
           Turn(a, v, e, o, a2, v2, e2, o2, k), NEW j \in Nodes
    PROVE  Counts(e2, o2, j)'
<1>1. NodeTurn(v, e, o, v2, e2, o2, k, j) /\ Ring(a, v, e, o) /\ Counts(e, o, j)
  BY DEF Turn, Ring, Node
<1>2. HoldStep(j)
  BY NodeStep DEF Turn
<1>3. Size(j)' = Size(j) /\ Dest(j)' = Dest(j)
  BY <1>2 DEF HoldStep
<1>4. ASSUME st'[j].strip, NEW i \in Nodes, ~Passed(e2, o2, i, j) PROVE taken'[j][i] = 0
  <2>1. CASE st[j].strip
    <3>1. ~Passed(e, o, i, j) /\ e[i] # o[j] + 2
      BY <1>4, <2>1, PassedStep
    <3>2. taken[j][i] = 0
      BY <1>1, <2>1, <3>1 DEF Counts
    <3> QED BY <3>1, <3>2, TakenStep DEF Reaches
  <2>2. CASE ~st[j].strip
    <3>1. Claims(st[j])
      BY <1>1, <1>4, <2>2 DEF NodeTurn
    <3>2. taken[j][i] = 0
      BY <3>1, ClaimFacts DEF Turn
    <3> QED BY <2>2, <3>2, TakenStep DEF Reaches
  <2> QED BY <2>1, <2>2
<1>5. ASSUME Size(j) > 0, NEW i \in Nodes
      PROVE  taken'[j][i] <= IF Dest(j) \in {i, Broadcast} /\ i # j THEN 1 ELSE 0
  <2>1. CASE Reaches(e, o, i, j)
    <3>1. taken'[j][i] \in {0, 1} /\ Dest(j) \in {i, Broadcast} /\ i # j
      <4>1. NodeTurn(v, e, o, v2, e2, o2, k, i)
        BY DEF Turn
      <4>2. i # j
        BY <1>1, <2>1, <4>1 DEF Reaches, NodeTurn
      <4> QED BY <2>1, <4>2, TakenStep DEF Reaches
    <3> QED BY <3>1
  <2>2. CASE ~Reaches(e, o, i, j)
    BY <1>1, <1>5, <2>2, TakenStep DEF Counts
  <2> QED BY <2>1, <2>2
<1> QED BY <1>3, <1>4, <1>5 DEF Counts

\* The acknowledge a node takes from its frame is true, and stays so.
LEMMA HeardStep ==
    ASSUME NEW a, NEW v, NEW e, NEW o, NEW a2, NEW v2, NEW e2, NEW o2, NEW k,
           Turn(a, v, e, o, a2, v2, e2, o2, k), NEW j \in Nodes
    PROVE  Heard(j)'
<1> SUFFICES ASSUME NEW c, c = m'.received[j] PROVE Heard(j)'
  OBVIOUS
<1> DEFINE s == st[j]
           t == st'[j]
<1>1. NodeTurn(v, e, o, v2, e2, o2, k, j) /\ Ring(a, v, e, o) /\ RingFits /\ BitTime /\ Heard(j)
  BY DEF Turn, Ring, Node
<1>2. HoldStep(j) /\ RxStep(s, t, c, j) /\ BitEffect(s, t, c)
  BY <1>1, NodeStep DEF HoldStep
<1>3. Size(j)' = Size(j) /\ Dest(j)' = Dest(j)
  BY <1>2 DEF HoldStep
<1>4. Cell(e, o, c, e[j] - 1)
  BY <1>1, HeardCell
<1>5. /\ ~(LateHere(s, c) /\ t.strip /\ t.seenOwn) => KeepsAck(s, t)
      /\ LateHere(s, c) /\ t.strip /\ t.seenOwn => t.ack = t.pending.ack /\ t.ackValid
  BY <1>2, AckKept
<1>6. s.ackValid => ~t.strip
  <2> SUFFICES ASSUME s.ackValid, t.strip PROVE FALSE
    OBVIOUS
  <2>1. CASE s.strip
    <3>1. Left(j) <= 1 /\ Left(j) = e[j] - o[j]
      BY <1>1, <2>1, StripFacts DEF Heard
    <3> QED BY <1>1, <2>1, <3>1 DEF NodeTurn
  <2>2. CASE ~s.strip
    <3>1. Claims(s)
      BY <1>1, <2>2 DEF NodeTurn
    <3> QED BY <1>1, <3>1, ClaimFacts
  <2> QED BY <2>1, <2>2
<1>7. ASSUME LateHere(s, c), t.strip, t.seenOwn
      PROVE  /\ Size(j) > 0 /\ Left(j)' <= 1 /\ ~s.ackValid
             /\ Dest(j) # Broadcast /\ j \notin torn' =>
                  /\ "copied" \in t.ack <=> Taken(j)'
                  /\ "wack" \in t.ack <=> taken'[j][Dest(j)] = 0
  <2>1. s.strip /\ e[j] > 1
    <3>1. ~Claims(s)
      <4> SUFFICES ASSUME Claims(s) PROVE FALSE
        OBVIOUS
      <4> HIDE DEF t
      <4>1. Claims(st[j]) /\ Holds(e, o, c, e[j] - 1)
        BY <1>4 DEF Cell
      <4>2. c = Zero
        BY ONLY <1>1, <4>1, ClaimerHears, j \in Nodes
      <4>3. ~s.seenOwn
        <5>1. Sound(s)
          BY <1>1, NodeFacts
        <5>2. ~s.strip
          BY <1>1 DEF NodeTurn
        <5> QED BY <5>1, <5>2 DEF Sound
      <4> QED BY <1>2, <1>7, <4>2, <4>3, KindsDiffer DEF BitEffect
    <3> QED BY <1>1, <1>7, <3>1 DEF NodeTurn
  <2>2. PICK q \in Nodes : st[q].strip /\ e[j] <= e[q] /\ e[j] = o[q] + 2 /\ s.src = q
    BY <1>1, <1>7, ReadyForLate DEF LateHere
  <2>3. q = j
    <3> SUFFICES ASSUME q # j PROVE FALSE
      OBVIOUS
    <3>1. NodeTurn(v, e, o, v2, e2, o2, k, q) /\ e[j] # e[q]
      BY DEF Turn
    <3> QED BY <1>1, <2>1, <2>2, <3>1, NotItself DEF NodeTurn
  <2>4. e[j] = o[j] + 2 /\ Left(j) = 2
    BY <1>1, <2>1, <2>2, <2>3, StripFacts DEF NodeTurn
  <2>5. Left(j)' = 1
    BY <1>2, <2>1, <2>4 DEF HoldStep
  <2>6. ~s.ackValid
    BY <1>6, <1>7
  <2>7. ASSUME Dest(j) # Broadcast, j \notin torn'
        PROVE  /\ "copied" \in t.ack <=> Taken(j)'
               /\ "wack" \in t.ack <=> taken'[j][Dest(j)] = 0
    <3>1. Dest(j) \in Nodes /\ Dest(j) # j
      <4>1. IsFrame(st[j].tx, j)
        BY <1>1, <2>1, NodeFacts
      <4> QED BY <2>7, <4>1, FrameSymbols DEF Dest
    <3>2. ~s.addressed
      <4>1. e[j] \in Nat /\ e[j] <= e[j] /\ st[j].strip /\ Holds(e, o, c, e[j] - 1)
        BY <1>1, <1>4, <2>1 DEF Cell, NodeTurn
      <4>2. st[j].addressed <=> Dest(j) \in {Broadcast, j}
        BY ONLY <1>1, <2>4, <4>1, HearsLate, j \in Nodes
      <4> QED BY <2>7, <3>1, <4>2
    <3>3. t.ack = c.ack
      <4>1. PICK wackOn \in BOOLEAN, copyOn \in BOOLEAN : Look(j, wackOn, copyOn)
        BY <1>2 DEF HoldStep
      <4>2. t.pending.ack = LateOut(s, c, wackOn)
        BY <1>7, <4>1 DEF Look
      <4>3. LateOut(s, c, wackOn) = c.ack
        BY <3>2 DEF LateOut
      <4> QED BY <1>5, <1>7, <4>2, <4>3
    <3>4. Told(e, o, c.ack, j)
      <4>1. e[j] - 1 = o[j] + 1 /\ e[j] - 1 < e[j]
        BY <1>1, <2>4 DEF NodeTurn
      <4> QED BY <1>4, <2>1, <4>1 DEF Cell, Tells
    <3>5. \A i \in Nodes : taken'[j][i] = taken[j][i]
      <4> SUFFICES ASSUME NEW i \in Nodes, Reaches(e, o, i, j) PROVE FALSE
        BY TakenStep
      <4>1. NodeTurn(v, e, o, v2, e2, o2, k, i)
        BY DEF Turn
      <4> QED BY <1>1, <2>4, <4>1 DEF Reaches, NodeTurn
    <3>6. Passed(e, o, Dest(j), j)
      <4>1. NodeTurn(v, e, o, v2, e2, o2, k, Dest(j)) /\ e[Dest(j)] # e[j]
        BY <3>1 DEF Turn
      <4> QED BY <1>1, <2>4, <4>1 DEF Passed, NodeTurn
    <3>7. Taken(j)' <=> Taken(j)
      BY <3>5 DEF Taken
    <3>8. j \notin torn
      BY <1>2, <2>7 DEF HoldStep
    <3> QED BY <2>7, <3>1, <3>3, <3>4, <3>5, <3>6, <3>7, <3>8 DEF Told
  <2>8. Size(j) > 0
    BY <1>1, <2>1 DEF NodeTurn
  <2> QED BY <2>5, <2>6, <2>7, <2>8
<1>8. ASSUME s.ackValid
      PROVE  /\ t.ackValid /\ t.ack = s.ack /\ ~t.strip
             /\ Dest(j) # Broadcast /\ j \notin torn' =>
                  /\ "copied" \in t.ack <=> Taken(j)'
                  /\ "wack" \in t.ack <=> taken'[j][Dest(j)] = 0
  <2>1. t.ackValid /\ t.ack = s.ack /\ ~t.strip
    BY <1>5, <1>6, <1>8 DEF KeepsAck
  <2>2. \A i \in Nodes : taken'[j][i] = taken[j][i]
    <3> SUFFICES ASSUME NEW i \in Nodes, Reaches(e, o, i, j) PROVE FALSE
      BY TakenStep
    <3>1. NodeTurn(v, e, o, v2, e2, o2, k, i)
      BY DEF Turn
    <3> QED BY <1>1, <2>1, <3>1 DEF Reaches, NodeTurn
  <2>3. Taken(j)' <=> Taken(j)
    BY <2>2 DEF Taken
  <2>4. Dest(j) # Broadcast => Dest(j) \in Nodes
    <3>1. IsFrame(st[j].tx, j)
      <4>1. Station(j) /\ Size(j) > 0
        BY <1>1, <1>8 DEF Ring, Node, Heard
      <4>2. Len(<<>>) = 0
        OBVIOUS
      <4> QED BY <4>1, <4>2 DEF Station, Size
    <3> QED BY <3>1, FrameSymbols DEF Dest
  <2>5. j \notin torn' => j \notin torn
    BY <1>2 DEF HoldStep
  <2> QED BY <1>1, <1>8, <2>1, <2>2, <2>3, <2>4, <2>5 DEF Heard
<1>9. ASSUME t.ackValid
      PROVE  /\ Size(j) > 0
             /\ t.strip => Left(j)' <= 1
             /\ Dest(j) # Broadcast /\ j \notin torn' =>
                  /\ "copied" \in t.ack <=> Taken(j)'
                  /\ "wack" \in t.ack <=> taken'[j][Dest(j)] = 0
  <2>1. CASE s.ackValid
    BY <1>1, <1>8, <2>1 DEF Heard
  <2>2. CASE ~s.ackValid
    <3>1. LateHere(s, c) /\ t.strip /\ t.seenOwn
      BY <1>5, <1>9, <2>2 DEF KeepsAck
    <3> QED BY <1>7, <3>1
  <2> QED BY <2>1, <2>2
<1>10. ctl'[j].ackSeen => /\ t.ackValid
                          /\ "cpd" \in ctl'[j].status <=> "copied" \in t.ack
                          /\ "wak" \in ctl'[j].status <=> "wack" \in t.ack
  <2>1. ctl'[j] = PollRing(ctl[j], t)
        /\ DOMAIN ctl[j] = {"connected", "xmitEn", "deferred", "ackSeen", "status"}
    BY <1>1 DEF BitTime, StationsTake, Ring, Tables
  <2>2. /\ ctl[j].ackSeen /\ t.ackValid => ctl'[j].status = ctl[j].status
        /\ ~ctl[j].ackSeen /\ t.ackValid =>
             \E A \in SUBSET {"pe"} : ctl'[j].status = A \cup StatusOf(t.ack)
        /\ ~ctl[j].ackSeen /\ ~t.ackValid => ~ctl'[j].ackSeen
    BY <2>1, PollFacts
  <2>3. CASE ctl[j].ackSeen
    <3>1. s.ackValid
      BY <1>1, <2>3 DEF Heard
    <3>2. t.ackValid /\ t.ack = s.ack
      BY <1>8, <3>1
    <3> QED BY <1>1, <2>2, <2>3, <3>2 DEF Heard
  <2>4. CASE ~ctl[j].ackSeen /\ t.ackValid
    <3>1. PICK A \in SUBSET {"pe"} : ctl'[j].status = A \cup StatusOf(t.ack)
      BY <2>2, <2>4
    <3>2. "cpd" \notin A /\ "wak" \notin A
      OBVIOUS
    <3>3. /\ "cpd" \in StatusOf(t.ack) <=> "copied" \in t.ack
          /\ "wak" \in StatusOf(t.ack) <=> "wack" \in t.ack
      BY DEF StatusOf, StatusBits
    <3> QED BY <2>4, <3>1, <3>2, <3>3
  <2>5. CASE ~ctl[j].ackSeen /\ ~t.ackValid
    BY <2>2, <2>5
  <2> QED BY <2>3, <2>4, <2>5
<1> QED BY <1>3, <1>9, <1>10 DEF Heard

-----------------------------------------------------------------------------
(* The loss timers.                                                        *)

\* A token a node has just heard restarts its timer.
LEMMA TimerRestarts ==
    ASSUME NEW a, NEW v, NEW e, NEW o, NEW a2, NEW v2, NEW e2, NEW o2, NEW k,
           Turn(a, v, e, o, a2, v2, e2, o2, k), NEW i \in Nodes, st'[i].since = 0
    PROVE  Timely(e2, o2, i)'
<1>1. NodeTurn(v, e, o, v2, e2, o2, k, i) /\ Distances(a2, v2, e2, o2) /\ Ring(a, v, e, o)
      /\ RingFits
  BY DEF Turn
<1>2. Loop <= Bound /\ MaxFrame + 1 <= Bound /\ MaxFrame = 8
  BY <1>1 DEF Bound, MaxFrame, NodeTurn
<1> SUFFICES ASSUME Bound < e2[i]
             PROVE  \E j \in Nodes : /\ st'[j].strip /\ e2[i] <= e2[j]
                                     /\ o2[j] + Size(j)' + 1 < e2[i]
                                     /\ e2[i] - (o2[j] + Size(j)' + 1) <= Bound
  <2>1. Bound \in Int /\ e2[i] \in Nat
    BY <1>1 DEF Bound, MaxFrame, NodeTurn
  <2>2. \A j \in Nodes : o2[j] + Size(j)' + 1 \in Int
    <3> SUFFICES ASSUME NEW j \in Nodes PROVE o2[j] + Size(j)' + 1 \in Int
      OBVIOUS
    <3>1. NodeTurn(v, e, o, v2, e2, o2, k, j)
      BY DEF Turn
    <3>2. o2[j] \in Nat /\ Size(j)' \in Nat
      BY <3>1 DEF NodeTurn
    <3> QED BY <3>2
  <2>3. CASE e2[i] <= Bound
    <3>1. st'[i].since + e2[i] <= Bound
      BY <2>1, <2>3
    <3> QED BY <3>1 DEF Timely
  <2>4. CASE Bound < e2[i]
    <3>1. PICK j \in Nodes : /\ st'[j].strip /\ e2[i] <= e2[j]
                             /\ o2[j] + Size(j)' + 1 < e2[i]
                             /\ e2[i] - (o2[j] + Size(j)' + 1) <= Bound
      BY <2>4
    <3>2. st'[i].since + e2[i] - (o2[j] + Size(j)' + 1) <= Bound
      BY <2>1, <2>2, <3>1
    <3> QED BY <3>1, <3>2 DEF Timely
  <2> QED BY <2>1, <2>3, <2>4
<1>3. v2 > 0
  BY <1>1, <1>2 DEF NodeTurn, Bound, MaxFrame
<1>4. PICK w \in Nodes : /\ st'[w].strip /\ o2[w] = 0 /\ e2[w] = Loop + v2
                         /\ v2 <= Size(w)
  <2>1. CASE v > 0 /\ a2 = a /\ v2 = v - 1 /\ k = 0 /\ \A j \in Nodes : ~Claims(st[j])
    <3>1. PICK w \in Nodes : Base[w] = a
      BY <1>1, <1>3 , <2>1 DEF Distances
    <3>2. NodeTurn(v, e, o, v2, e2, o2, k, w) /\ Owning(a, v, w)
      BY DEF Turn, Ring, Node
    <3>3. st[w].strip /\ o[w] = 0 /\ v <= Size(w) /\ e[w] = Loop + v
      <4>1. Sending(st[w])
        BY <2>1, <3>1, <3>2 DEF Owning
      <4>2. st[w].strip /\ st[w].armed
        BY <4>1 DEF Sending
      <4> QED BY <1>1, <3>1, <4>2, StripFacts, NodeFacts
    <3>4. st'[w].strip /\ o2[w] = 0 /\ e2[w] = Loop + v2 /\ v2 <= Size(w)
      BY <2>1, <3>2, <3>3 DEF NodeTurn
    <3> QED BY <3>4
  <2>2. CASE /\ v = 0 /\ a2 = a /\ k = v2 + 1
             /\ \E w \in Nodes : Base[w] = a /\ Claims(st[w]) /\ v2 = Size(w)
    <3>1. PICK w \in Nodes : Base[w] = a /\ Claims(st[w]) /\ v2 = Size(w)
      BY <2>2
    <3>2. NodeTurn(v, e, o, v2, e2, o2, k, w)
      BY DEF Turn
    <3>3. st'[w].strip /\ o2[w] = 0 /\ e2[w] = Loop + v2 /\ v2 <= Size(w)
      BY <3>1, <3>2 DEF NodeTurn
    <3> QED BY <3>3
  <2> QED BY <1>1, <1>3, <2>1, <2>2 DEF Turn, Places2
<1>5. NodeTurn(v, e, o, v2, e2, o2, k, w)
  BY DEF Turn
<1>6. /\ e2[i] <= e2[w] /\ o2[w] + Size(w)' + 1 < e2[i]
      /\ e2[i] - (o2[w] + Size(w)' + 1) <= Bound
  <2>1. Size(w)' = Size(w) /\ Size(w) \in Nat /\ Size(w) <= 8 /\ Bound \in Int /\ v2 \in Nat
        /\ Loop \in Nat /\ e2[i] \in Nat /\ e2[i] <= Loop + v2
    BY <1>1, <1>5 DEF NodeTurn, Bound, MaxFrame
  <2> QED BY <1>2, <1>4, <2>1
<1> QED BY <1>4, <1>6

\* The loss timers keep their distance.
LEMMA TimelyStep ==
    ASSUME NEW a, NEW v, NEW e, NEW o, NEW a2, NEW v2, NEW e2, NEW o2, NEW k,
           Turn(a, v, e, o, a2, v2, e2, o2, k), NEW i \in Nodes
    PROVE  Timely(e2, o2, i)'
<1> SUFFICES ASSUME NEW c, c = m'.received[i] PROVE Timely(e2, o2, i)'
  OBVIOUS
<1>1. NodeTurn(v, e, o, v2, e2, o2, k, i) /\ Ring(a, v, e, o) /\ RingFits /\ BitTime
      /\ Timely(e, o, i)
  BY DEF Turn, Ring, Node
<1>2. HoldStep(i) /\ BitEffect(st[i], st'[i], c)
  BY <1>1, NodeStep DEF HoldStep
<1>3. Holds(e, o, c, e[i] - 1)
  BY <1>1, HeardCell DEF Cell
<1>4. CASE c \in {Free, Claimed}
  <2>1. st'[i].since = 0
    BY <1>2, <1>4 DEF BitEffect
  <2> QED BY <2>1, TimerRestarts
<1>5. CASE c \notin {Free, Claimed}
  <2>1. st'[i].since = st[i].since + 1 /\ st[i].since \in Nat
    <3>1. st'[i].since = st[i].since + 1
      BY <1>2, <1>5 DEF BitEffect
    <3> QED BY <1>1, <3>1, NodeFacts
  <2>2. e[i] > 1 /\ e2[i] = e[i] - 1 + k
    <3>1. e[i] # 1
      <4> SUFFICES ASSUME e[i] = 1 PROVE FALSE
        OBVIOUS
      <4>1. e[i] - 1 = 0
        OBVIOUS
      <4> QED BY <1>3, <1>5, <4>1 DEF Holds
    <3> QED BY <1>1, <3>1 DEF NodeTurn
  <2>3. Bound \in Int /\ e[i] \in Nat /\ e2[i] \in Nat /\ k \in Nat
    BY <1>1 DEF NodeTurn, Bound, MaxFrame
  <2>4. CASE st[i].since + e[i] <= Bound /\ k = 0
    <3>1. st'[i].since + e2[i] <= Bound
      BY <2>1, <2>2, <2>3, <2>4
    <3> QED BY <3>1 DEF Timely
  <2>5. CASE st[i].since + e[i] <= Bound /\ k > 0
    <3>1. PICK w \in Nodes : Claims(st[w])
      BY <2>5 DEF Turn
    <3>2. NodeTurn(v, e, o, v2, e2, o2, k, w)
      BY DEF Turn
    <3>3. st'[w].strip /\ o2[w] = 0 /\ e2[w] = Loop + v2 /\ Size(w)' + 1 = k /\ v = 0
          /\ k = v2 + 1 /\ Size(w)' \in Nat
      BY <3>1, <3>2 DEF NodeTurn
    <3>4. e2[i] <= e2[w] /\ o2[w] + Size(w)' + 1 < e2[i]
          /\ st'[i].since + e2[i] - (o2[w] + Size(w)' + 1) <= Bound
      <4>1. e[i] <= Loop /\ Loop \in Nat /\ v2 \in Nat
        BY <1>1, <3>3 DEF NodeTurn
      <4>2. o2[w] + Size(w)' + 1 = k
        BY <3>3
      <4> QED BY <2>1, <2>2, <2>3, <2>5, <3>3, <4>1, <4>2
    <3> QED BY <3>3, <3>4 DEF Timely
  <2>6. CASE \E j \in Nodes : /\ st[j].strip /\ e[i] <= e[j] /\ o[j] + Size(j) + 1 < e[i]
                              /\ st[i].since + e[i] - (o[j] + Size(j) + 1) <= Bound
    <3>1. PICK j \in Nodes : /\ st[j].strip /\ e[i] <= e[j] /\ o[j] + Size(j) + 1 < e[i]
                             /\ st[i].since + e[i] - (o[j] + Size(j) + 1) <= Bound
      BY <2>6
    <3>2. NodeTurn(v, e, o, v2, e2, o2, k, j)
      BY DEF Turn
    <3>3. e[i] - 1 # o[j] + Size(j) + 1
      <4> SUFFICES ASSUME e[i] - 1 = o[j] + Size(j) + 1 PROVE FALSE
        OBVIOUS
      <4>1. Carries(e, o, j, e[i] - 1)
        BY <2>2, <2>3, <3>1, <3>2 DEF Carries, NodeTurn
      <4>2. e[i] - 1 - o[j] = Size(j) + 1
        BY <2>3, <3>2 DEF NodeTurn
      <4>3. OfFrame(c, j, e[i] - 1 - o[j])
        BY <1>3, <4>1 DEF Holds
      <4> QED BY <1>5, <4>2, <4>3 DEF OfFrame
    <3>4. ~Claims(st[j]) /\ st'[j].strip /\ o2[j] = o[j] + k /\ e2[j] = e[j] - 1 + k
          /\ Size(j)' = Size(j) /\ Size(j) \in Nat /\ o[j] \in Nat /\ e[j] \in Nat
      BY <2>2, <2>3, <3>1, <3>2 DEF NodeTurn
    <3>5. e2[i] <= e2[j] /\ o2[j] + Size(j)' + 1 < e2[i]
          /\ st'[i].since + e2[i] - (o2[j] + Size(j)' + 1) <= Bound
      BY <2>1, <2>2, <2>3, <3>1, <3>3, <3>4
    <3> QED BY <3>4, <3>5 DEF Timely
  <2> QED BY <1>1, <2>3, <2>4, <2>5, <2>6 DEF Timely
<1> QED BY <1>4, <1>5

-----------------------------------------------------------------------------
(* A bit time keeps the invariant.                                         *)

\* Node by node, ...
LEMMA NodeTurned ==
    ASSUME NEW a, NEW v, NEW e, NEW o, NEW a2, NEW v2, NEW e2, NEW o2, NEW k,
           Turn(a, v, e, o, a2, v2, e2, o2, k), NEW i \in Nodes
    PROVE  Node(a2, v2, e2, o2, i)'
<1>1. Ring(a, v, e, o) /\ RingFits /\ BitTime
  BY DEF Turn
<1>2. Station(i)' /\ Owning(a2, v2, i)' /\ Lasts(e2, o2, i)' /\ Linked(e2, o2, i)'
  BY StationStep, OwningStep, LastsStep, LinkedStep
<1>3. HoldTrue(a2, v2, e2, o2, i)' /\ LineTrue(a2, v2, e2, o2, i)'
  BY HoldTrueStep, LineTrueStep
<1>4. Tracks(e2, o2, i)' /\ Own(i)' /\ Counts(e2, o2, i)' /\ Heard(i)' /\ Timely(e2, o2, i)'
  BY <1>1, TracksStep, OwnStep, CountsStep, HeardStep, TimelyStep
<1> QED BY <1>2, <1>3, <1>4 DEF Node

\* ... and so the whole ring.
LEMMA BitStep ==
    ASSUME RingInv, RingFits, BitTime
    PROVE  RingInv'
<1>1. PICK a \in Places, v \in 0 .. MaxFrame, e \in [Nodes -> Nat], o \in [Nodes -> Nat] :
        Ring(a, v, e, o)
  BY DEF RingInv
<1>2. PICK a2 \in Places, v2 \in 0 .. MaxFrame, e2 \in [Nodes -> Nat], o2 \in [Nodes -> Nat],
           k \in Nat : Turn(a, v, e, o, a2, v2, e2, o2, k)
  BY <1>1, TurnExists
<1>3. Distances(a2, v2, e2, o2) /\ Tables
  BY <1>2 DEF Turn, Ring
<1>4. Segment' /\ Apart(e2, o2)'
  BY <1>2, SegmentStep, ApartStep
<1>5. Tables'
  BY <1>3, TablesStep
<1>6. \A i \in Nodes : Node(a2, v2, e2, o2, i)'
  BY <1>2, NodeTurned
<1>7. Ring(a2, v2, e2, o2)'
  BY <1>3, <1>4, <1>5, <1>6 DEF Ring, Distances
<1> QED BY <1>2, <1>7 DEF RingInv

-----------------------------------------------------------------------------
(* A host's command keeps the invariant.                                   *)

\* What the ring sees of a station is as it was ...
RingKept(s, t) ==
    /\ DOMAIN t = StationFields
    /\ t.window = s.window /\ t.pending = s.pending /\ t.orig = s.orig
    /\ t.since = s.since /\ t.stripFor = s.stripFor
    /\ t.rx = s.rx /\ t.seps = s.seps /\ t.src = s.src /\ (t.addressed <=> s.addressed)
    /\ (t.strip <=> s.strip) /\ (t.holds <=> s.holds)
    /\ ~t.timedOut /\ ~t.forced

\* ... and of its frame,
FrameKept(i) ==
    LET s == st[i]
        t == st'[i]
    IN  /\ t.tx = s.tx /\ t.txPos = s.txPos /\ t.stripped = s.stripped /\ t.ack = s.ack
        /\ (t.armed <=> s.armed) /\ (t.wants <=> s.wants)
        /\ (t.seenOwn <=> s.seenOwn) /\ (t.ackValid <=> s.ackValid)
        /\ (ctl'[i].xmitEn <=> ctl[i].xmitEn) /\ (ctl'[i].deferred <=> ctl[i].deferred)
        /\ (ctl'[i].ackSeen <=> ctl[i].ackSeen) /\ ctl'[i].status = ctl[i].status
        /\ taken'[i] = taken[i] /\ (i \in torn' <=> i \in torn)

\* ... unless it does not strip and has just been given a new one.
FrameQueued(i) ==
    LET s == st[i]
        t == st'[i]
    IN  /\ ~s.strip /\ IsFrame(t.tx, i) /\ t.txPos = 0 /\ t.armed /\ t.wants
        /\ ~t.seenOwn /\ t.stripped = 0 /\ ~t.ackValid
        /\ ctl'[i].xmitEn /\ ctl'[i].deferred /\ ~ctl'[i].ackSeen
        /\ taken'[i] = [k \in Nodes |-> 0]

\* What every command of a host does to the ring: nothing, but that a frame may be
\* queued.
HostEffect ==
    /\ Segment' /\ m'.driving = m.driving /\ m'.line = m.line /\ Tables'
    /\ \A i \in Nodes : RingKept(st[i], st'[i]) /\ (FrameKept(i) \/ FrameQueued(i))

\* A stripping node's frame is not replaced, ...
LEMMA FrameOfStripper ==
    ASSUME HostEffect, NEW j \in Nodes, st[j].strip
    PROVE  FrameKept(j) /\ Size(j)' = Size(j) /\ Left(j)' = Left(j) /\ Dest(j)' = Dest(j)
<1>1. FrameKept(j) /\ RingKept(st[j], st'[j])
  BY DEF HostEffect, FrameQueued
<1>2. Originating(st'[j]) <=> Originating(st[j])
  BY <1>1 DEF RingKept, Originating
<1> QED BY <1>1, <1>2 DEF FrameKept, RingKept, Size, Left, Dest

\* ... the nodes that strip are the same, ...
LEMMA StrippersKept ==
    ASSUME HostEffect
    PROVE  /\ \A j \in Nodes : st'[j].strip <=> st[j].strip
           /\ Stripping' = Stripping
<1>1. \A j \in Nodes : st'[j].strip <=> st[j].strip
  BY DEF HostEffect, RingKept
<1> QED BY <1>1 DEF Stripping

\* ... each cell still holds what it did, ...
LEMMA CellKept ==
    ASSUME HostEffect, NEW e, NEW o, NEW c, NEW x, Cell(e, o, c, x)
    PROVE  Cell(e, o, c, x)'
<1>1. \A j \in Nodes : Carries(e, o, j, x)' <=> Carries(e, o, j, x)
  BY StrippersKept, FrameOfStripper DEF Carries
<1>2. ASSUME NEW j \in Nodes, Carries(e, o, j, x) PROVE OfFrame(c, j, x - o[j])'
  <2>1. OfFrame(c, j, x - o[j]) /\ st[j].strip
    BY <1>2 DEF Cell, Holds, Carries
  <2>2. st'[j].tx = st[j].tx /\ Size(j)' = Size(j)
    BY <2>1, FrameOfStripper DEF FrameKept
  <2> QED BY <2>1, <2>2 DEF OfFrame
<1>3. Holds(e, o, c, x)'
  BY <1>1, <1>2 DEF Cell, Holds
<1>4. ASSUME NEW j \in Nodes, st'[j].strip, x = o[j] + 1, x < e[j]
      PROVE  Told(e, o, c.ack, j)'
  <2>1. st[j].strip
    BY <1>4, StrippersKept
  <2>2. Told(e, o, c.ack, j)
    BY <1>4, <2>1 DEF Cell, Tells
  <2>3. taken'[j] = taken[j] /\ Dest(j)' = Dest(j) /\ (j \in torn' <=> j \in torn)
    BY <2>1, FrameOfStripper DEF FrameKept
  <2>4. Taken(j)' <=> Taken(j)
    BY <2>3 DEF Taken
  <2> QED BY <2>2, <2>3, <2>4 DEF Told, Passed
<1>5. Tells(e, o, c, x)'
  BY <1>4 DEF Tells
<1> QED BY <1>3, <1>5 DEF Cell

\* ... and each node is as the invariant says.
LEMMA NodeKept ==
    ASSUME HostEffect, NEW a, NEW v, NEW e, NEW o, NEW i \in Nodes, Node(a, v, e, o, i)
    PROVE  Node(a, v, e, o, i)'
<1> DEFINE s == st[i]
           t == st'[i]
<1>1. RingKept(s, t) /\ m'.driving = m.driving /\ m'.line = m.line /\ (FrameKept(i) \/ FrameQueued(i))
  BY DEF HostEffect
<1>2. Originating(t) <=> Originating(s)
  BY <1>1 DEF RingKept, Originating
<1>3. ASSUME FrameQueued(i)
      PROVE  Len(t.tx) \in Nat /\ Len(t.tx) > 0
  BY <1>3, FrameSymbols DEF FrameQueued
<1>4. Sound(t)
  <2>1. Sound(s)
    BY DEF Node, Station
  <2>2. CASE FrameKept(i)
    BY <1>1, <2>1, <2>2 DEF FrameKept, RingKept, Sound
  <2>3. CASE FrameQueued(i)
    BY <1>1, <1>3, <2>1, <2>3 DEF FrameQueued, RingKept, Sound
  <2> QED BY <1>1, <2>2, <2>3
<1>5. Station(i)'
  <2>1. Station(i)
    BY DEF Node
  <2>2. CASE FrameKept(i)
    <3>1. Size(i)' = Size(i)
      BY <2>2 DEF FrameKept, Size
    <3> QED BY <1>1, <1>4, <2>1, <2>2, <3>1 DEF Station, FrameKept, RingKept, IsFrame
  <2>3. CASE FrameQueued(i)
    <3>1. ~t.strip /\ IsFrame(t.tx, i)
      BY <1>1, <2>3 DEF FrameQueued, RingKept
    <3> QED BY <1>4, <2>3, <3>1 DEF Station, FrameQueued, IsFrame
  <2> QED BY <1>1, <2>2, <2>3
<1>6. Owning(a, v, i)'
  <2>1. Owning(a, v, i)
    BY DEF Node
  <2>2. CASE FrameKept(i)
    <3>1. Size(i)' = Size(i)
      BY <2>2 DEF FrameKept, Size
    <3> QED BY <1>1, <1>2, <2>1, <2>2, <3>1 DEF Owning, FrameKept, RingKept, Sending
  <2>3. CASE FrameQueued(i)
    <3>1. ~s.strip /\ ~t.strip
      BY <1>1, <2>3 DEF FrameQueued, RingKept
    <3> QED BY <1>1, <1>2, <2>1, <3>1 DEF Owning, RingKept, Sending
  <2> QED BY <1>1, <2>2, <2>3
<1>7. Lasts(e, o, i)'
  BY StrippersKept, FrameOfStripper DEF Node, Lasts
<1>8. Linked(e, o, i)'
  <2> SUFFICES ASSUME st'[i].strip, o[i] # 0
               PROVE  \E k \in Stripping' : e[k] > e[i] /\ o[k] + Size(k)' + 1 = o[i]
    BY DEF Linked
  <2>1. PICK k \in Stripping : e[k] > e[i] /\ o[k] + Size(k) + 1 = o[i]
    BY StrippersKept DEF Node, Linked
  <2>2. Size(k)' = Size(k)
    BY <2>1, FrameOfStripper DEF Stripping
  <2> QED BY <2>1, <2>2, StrippersKept
<1>9. HoldTrue(a, v, e, o, i)'
  <2> DEFINE h == Hold(st[i])
  <2>1. Hold(st'[i]) = h
    BY <1>1, <1>2 DEF Hold, RingKept
  <2> HIDE DEF h
  <2> SUFFICES ASSUME NEW g, g = h, ~(v > 0 /\ Base[i] = a)
               PROVE  Cell(e, o, g, Ahead(a, v, Base[i]))'
    BY <2>1 DEF HoldTrue
  <2>2. Cell(e, o, g, Ahead(a, v, Base[i]))
    BY DEF Node, HoldTrue, h
  <2> QED BY <2>2, CellKept
<1>10. LineTrue(a, v, e, o, i)'
  <2>1. \A c, x : Cell(e, o, c, x) => Cell(e, o, c, x)'
    BY CellKept
  <2>2. LineTrue(a, v, e, o, i)
    BY DEF Node
  <2>3. ASSUME NEW c, c = m.driving[i]
        PROVE  Cell(e, o, c, Ahead(a, v, Base[i] + 1))'
    BY <2>1, <2>2, <2>3 DEF LineTrue
  <2>4. ASSUME NEW k \in 1 .. Cable[i], NEW c, c = m.line[i][k]
        PROVE  Cell(e, o, c, Ahead(a, v, Base[i] + (Cable[i] + 2 - k)))'
    BY <2>1, <2>2, <2>4 DEF LineTrue
  <2> QED BY <1>1, <2>3, <2>4 DEF LineTrue
<1>11. Tracks(e, o, i)'
  <2>1. ASSUME NEW j \in Nodes
        PROVE  /\ Mid(e, o, i, j)' <=> Mid(e, o, i, j)
               /\ Mid(e, o, i, j) =>
                    (Follows(i, j, Size(j) + 1 - (e[i] - o[j]))
                       => Follows(i, j, Size(j) + 1 - (e[i] - o[j]))')
    <3>1. CASE st[j].strip
      <4>1. Size(j)' = Size(j) /\ Dest(j)' = Dest(j) /\ (st'[j].strip <=> st[j].strip)
        BY <3>1, FrameOfStripper, StrippersKept
      <4> QED BY <1>1, <4>1 DEF Mid, Follows, Tracking, RingKept
    <3>2. CASE ~st[j].strip
      BY <3>2, StrippersKept DEF Mid
    <3> QED BY <3>1, <3>2
  <2>2. st'[i].rx = st[i].rx
    BY <1>1 DEF RingKept
  <2> QED BY <2>1, <2>2 DEF Node, Tracks
<1>12. Own(i)'
  <2> SUFFICES ASSUME st'[i].strip PROVE Own(i)'
    BY DEF Own
  <2>1. FrameKept(i) /\ Size(i)' = Size(i) /\ Left(i)' = Left(i) /\ st[i].strip
    BY StrippersKept, FrameOfStripper
  <2> QED BY <2>1 DEF Node, Own, FrameKept
<1>13. Counts(e, o, i)'
  <2>1. Counts(e, o, i)
    BY DEF Node
  <2>2. CASE FrameKept(i)
    <3>1. Size(i)' = Size(i) /\ Dest(i)' = Dest(i) /\ taken'[i] = taken[i]
          /\ (st'[i].strip <=> st[i].strip)
      BY <2>2, StrippersKept DEF FrameKept, Size, Dest
    <3> QED BY <2>1, <3>1 DEF Counts, Passed
  <2>3. CASE FrameQueued(i)
    <3>1. \A k \in Nodes : taken'[i][k] = 0
      BY <2>3 DEF FrameQueued
    <3> QED BY <3>1 DEF Counts
  <2> QED BY <1>1, <2>2, <2>3
<1>14. Heard(i)'
  <2>1. Heard(i)
    BY DEF Node
  <2>2. CASE FrameKept(i)
    <3>1. Size(i)' = Size(i) /\ Dest(i)' = Dest(i) /\ taken'[i] = taken[i]
          /\ (st'[i].strip <=> st[i].strip) /\ (st[i].strip => Left(i)' = Left(i))
      BY <2>2, StrippersKept, FrameOfStripper DEF FrameKept, Size, Dest
    <3>2. Taken(i)' <=> Taken(i)
      BY <3>1 DEF Taken
    <3> QED BY <2>1, <2>2, <3>1, <3>2 DEF Heard, FrameKept
  <2>3. CASE FrameQueued(i)
    BY <2>3 DEF FrameQueued, Heard
  <2> QED BY <1>1, <2>2, <2>3
<1>15. Timely(e, o, i)'
  <2>1. st'[i].since = st[i].since
    BY <1>1 DEF RingKept
  <2>2. \A j \in Nodes : st[j].strip => st'[j].strip /\ Size(j)' = Size(j)
    BY StrippersKept, FrameOfStripper
  <2> QED BY <2>1, <2>2 DEF Node, Timely
<1> QED
  BY <1>5, <1>6, <1>7, <1>8, <1>9, <1>10, <1>11, <1>12, <1>13, <1>14, <1>15 DEF Node

\* So the invariant is kept.
LEMMA HostKeeps ==
    ASSUME RingInv, HostEffect
    PROVE  RingInv'
<1>1. PICK a \in Places, v \in 0 .. MaxFrame, e \in [Nodes -> Nat], o \in [Nodes -> Nat] :
        Ring(a, v, e, o)
  BY DEF RingInv
<1>2. Segment'
  BY DEF HostEffect
<1>3. Tables' /\ Distances(a, v, e, o)
  BY <1>1 DEF HostEffect, Ring
<1>4. \A i \in Nodes : Node(a, v, e, o, i)'
  BY <1>1, NodeKept DEF Ring
<1>5. Apart(e, o)'
  <2>1. \A j \in Stripping : Size(j)' = Size(j)
    BY FrameOfStripper DEF Stripping
  <2>2. Apart(e, o)
    BY <1>1 DEF Ring
  <2> QED BY <2>1, <2>2, StrippersKept DEF Apart
<1>6. Ring(a, v, e, o)'
  BY <1>2, <1>3, <1>4, <1>5 DEF Ring, Distances
<1> QED BY <1>6 DEF RingInv

\* A station that does not change is as it was.
LEMMA FieldsKept ==
    ASSUME NEW s, Sound(s)
    PROVE  RingKept(s, s)
  BY DEF Sound, RingKept

\* XMIT_CMD queues a frame on a station that neither strips nor waits.
LEMMA TransmitStep ==
    ASSUME RingInv, NEW i \in Nodes, NEW to \in Dests, NEW d \in DataKinds,
           TransmitCmd(i, to, d)
    PROVE  HostEffect
<1>1. Segment /\ Tables /\ \A j \in Nodes : Sound(st[j]) /\ (st[j].armed => ctl[j].xmitEn)
  BY DEF RingInv, Ring, Node, Station
<1> DEFINE F == FrameEmit(i, to, d)
<1>2. IsFrame(F, i)
  BY DEF TransmitCmd, IsFrame
<1> HIDE DEF F
<1>3. /\ st' = [st EXCEPT ![i] = QueueFrame(@, F)] /\ ~st[i].strip
      /\ ctl' = [ctl EXCEPT ![i].xmitEn = TRUE, ![i].deferred = TRUE,
                            ![i].ackSeen = FALSE, ![i].status = {}]
      /\ taken' = [taken EXCEPT ![i] = [k \in Nodes |-> 0]] /\ torn' = torn \ {i} /\ m' = m
  BY DEF TransmitCmd, F
<1>4. Segment'
  BY <1>1, <1>3 DEF Segment
<1>5. Tables'
  <2>1. DOMAIN st' = Nodes /\ DOMAIN ctl' = Nodes
    BY <1>1, <1>3 DEF Tables
  <2>2. taken' \in [Nodes -> [Nodes -> Nat]]
    BY <1>1, <1>3 DEF Tables
  <2>3. \A j \in Nodes : DOMAIN ctl'[j] = DOMAIN ctl[j]
    BY <1>1, <1>3 DEF Tables
  <2> QED BY <1>1, <2>1, <2>2, <2>3 DEF Tables
<1>6. ASSUME NEW j \in Nodes, j # i PROVE RingKept(st[j], st'[j]) /\ FrameKept(j)
  <2>1. st'[j] = st[j] /\ ctl'[j] = ctl[j] /\ taken'[j] = taken[j]
    BY <1>1, <1>3, <1>6 DEF Tables
  <2>2. j \in torn' <=> j \in torn
    BY <1>3, <1>6
  <2> QED BY <1>1, <2>1, <2>2, FieldsKept DEF FrameKept
<1>7. RingKept(st[i], st'[i]) /\ FrameQueued(i)
  <2>1. st'[i] = QueueFrame(st[i], F)
    BY <1>1, <1>3 DEF Tables
  <2>2. RingKept(st[i], QueueFrame(st[i], F))
    BY <1>1 DEF RingKept, Sound, StationFields, QueueFrame
  <2>3. LET t == QueueFrame(st[i], F)
        IN  t.tx = F /\ t.txPos = 0 /\ t.armed /\ t.wants /\ ~t.seenOwn /\ t.stripped = 0
            /\ ~t.ackValid
    BY <1>1 DEF Sound, StationFields, QueueFrame
  <2>4. ctl'[i].xmitEn /\ ctl'[i].deferred /\ ~ctl'[i].ackSeen
    BY <1>1, <1>3 DEF Tables
  <2>5. taken'[i] = [k \in Nodes |-> 0]
    BY <1>1, <1>3 DEF Tables
  <2>6. st'[i].tx = F /\ st'[i].txPos = 0 /\ st'[i].armed /\ st'[i].wants /\ ~st'[i].seenOwn
        /\ st'[i].stripped = 0 /\ ~st'[i].ackValid
    BY <2>1, <2>3
  <2> QED BY <1>2, <1>3, <2>1, <2>2, <2>4, <2>5, <2>6 DEF FrameQueued
<1> QED BY <1>3, <1>4, <1>5, <1>6, <1>7 DEF HostEffect

\* The receive enable bit is nothing to the ring.
LEMMA ReceiveStep ==
    ASSUME RingInv, NEW i \in Nodes, NEW on \in BOOLEAN, ReceiveCmd(i, on)
    PROVE  HostEffect
<1>1. Segment /\ Tables /\ \A j \in Nodes : Sound(st[j])
  BY DEF RingInv, Ring, Node, Station
<1>2. /\ st' = [st EXCEPT ![i].enabled = on] /\ m' = m /\ ctl' = ctl
      /\ taken' = taken /\ torn' = torn
  BY DEF ReceiveCmd
<1>3. Segment' /\ m'.driving = m.driving /\ m'.line = m.line
  BY <1>1, <1>2 DEF Segment
<1>4. Tables'
  BY <1>1, <1>2 DEF Tables
<1>5. ASSUME NEW j \in Nodes PROVE RingKept(st[j], st'[j]) /\ FrameKept(j)
  <2>1. CASE j = i
    <3>1. st'[j] = [st[j] EXCEPT !.enabled = on]
      BY <1>1, <1>2, <2>1 DEF Tables
    <3> DEFINE s == st[j]
               t == st'[j]
    <3>2. t = [s EXCEPT !.enabled = on] /\ Sound(s) /\ DOMAIN s = StationFields
      BY <1>1, <3>1 DEF Sound
    <3> HIDE DEF s, t
    <3>3. RingKept(s, t)
      BY <3>2 DEF RingKept, Sound, StationFields
    <3>4. t.tx = s.tx /\ t.txPos = s.txPos /\ t.stripped = s.stripped /\ t.ack = s.ack
          /\ t.armed = s.armed /\ t.wants = s.wants /\ t.seenOwn = s.seenOwn
          /\ t.ackValid = s.ackValid
      BY <3>2 DEF StationFields
    <3> QED BY <1>2, <3>3, <3>4 DEF FrameKept, s, t
  <2>2. CASE j # i
    <3>1. st'[j] = st[j]
      BY <1>1, <1>2, <2>2 DEF Tables
    <3> QED BY <1>1, <1>2, <3>1, FieldsKept DEF FrameKept
  <2> QED BY <2>1, <2>2
<1> QED BY <1>3, <1>4, <1>5 DEF HostEffect

\* Nor is a controller's `connected`, while no relay opens.
LEMMA ConnectedStep ==
    ASSUME RingInv, NEW i \in Nodes, NEW b, ctl' = [ctl EXCEPT ![i].connected = b],
           Segment', m'.driving = m.driving, m'.line = m.line, st' = st, taken' = taken,
           torn' = torn
    PROVE  HostEffect
<1>1. Tables /\ \A j \in Nodes : Sound(st[j])
  BY DEF RingInv, Ring, Node, Station
<1>2. ASSUME NEW j \in Nodes
      PROVE  /\ DOMAIN ctl'[j] = DOMAIN ctl[j] /\ ctl'[j].xmitEn = ctl[j].xmitEn
             /\ ctl'[j].deferred = ctl[j].deferred /\ ctl'[j].ackSeen = ctl[j].ackSeen
             /\ ctl'[j].status = ctl[j].status
  BY <1>1 DEF Tables
<1>3. Tables'
  BY <1>1, <1>2 DEF Tables
<1>4. \A j \in Nodes : RingKept(st[j], st'[j]) /\ FrameKept(j)
  BY <1>1, <1>2, FieldsKept DEF FrameKept
<1> QED BY <1>3, <1>4 DEF HostEffect

\* A relay that is closed already may be closed again.
LEMMA RelayStep ==
    ASSUME RingInv, NEW i \in Nodes, NEW nct \in {TRUE}, MiscCmd(i, nct)
    PROVE  HostEffect
<1>1. Segment
  BY DEF RingInv, Ring
<1>2. m' = [m EXCEPT !.bypassed[i] = FALSE] /\ st' = st /\ taken' = taken /\ torn' = torn
      /\ ctl' = [ctl EXCEPT ![i].connected = nct]
  BY DEF MiscCmd, SetBypass
<1>3. DOMAIN m' = DOMAIN m /\ m'.driving = m.driving /\ m'.line = m.line
      /\ m'.bypassed = m.bypassed
  BY <1>1, <1>2 DEF Segment
<1>4. Segment'
  BY <1>1, <1>3 DEF Segment
<1> QED BY <1>2, <1>3, <1>4, ConnectedStep

\* BOARD_RESET clears only `connected`.
LEMMA ResetStep ==
    ASSUME RingInv, NEW i \in Nodes, BoardReset(i)
    PROVE  HostEffect
<1>1. Segment'
  BY DEF RingInv, Ring, BoardReset, Segment
<1> QED BY <1>1, ConnectedStep DEF BoardReset

\* So does a step that changes nothing.
LEMMA StutterStep ==
    ASSUME RingInv, UNCHANGED vars
    PROVE  RingInv'
<1>1. Segment' /\ Tables' /\ m'.driving = m.driving /\ m'.line = m.line
  BY DEF vars, RingInv, Ring, Segment, Tables
<1>2. \A j \in Nodes : RingKept(st[j], st'[j]) /\ FrameKept(j)
  BY FieldsKept DEF vars, RingInv, Ring, Node, Station, FrameKept
<1> QED BY <1>1, <1>2, HostKeeps DEF HostEffect

\* The invariant is inductive.
LEMMA RingInvStep ==
    ASSUME RingInv, RingFits, NctValues \subseteq {TRUE}, [Next]_vars
    PROVE  RingInv'
<1>1. CASE BitTime
  BY <1>1, BitStep
<1>2. ASSUME NEW i \in Nodes, HostStep(i) PROVE RingInv'
  BY <1>2, TransmitStep, ReceiveStep, RelayStep, HostKeeps DEF HostStep
<1>3. ASSUME NEW i \in Resettable, BoardReset(i) PROVE RingInv'
  BY <1>3, ConfigAssumption, ResetStep, HostKeeps
<1>4. CASE UNCHANGED vars
  BY <1>4, StutterStep
<1> QED BY <1>1, <1>2, <1>3, <1>4 DEF Next

-----------------------------------------------------------------------------
(* The ring starts with its token.                                         *)

\* What node i's station is to begin with.
LEMMA FirstStation ==
    ASSUME Init, Warm, NEW i \in Nodes
    PROVE  LET s == st[i]
           IN  /\ DOMAIN s = StationFields
               /\ s.tx = <<>> /\ s.txPos = 0 /\ ~s.armed /\ ~s.seenOwn /\ s.stripped = 0
               /\ ~s.ackValid /\ s.window = Zero /\ s.pending = Zero
               /\ s.orig = IF i = 0 THEN Free ELSE None
               /\ ~s.wants /\ ~s.holds /\ ~s.strip /\ s.since = 0 /\ s.stripFor = 0
               /\ s.rx = "idle" /\ s.seps = 0 /\ ~s.timedOut /\ ~s.forced
<1> DEFINE s == st[i]
<1>1. s = IF i = 0 THEN [StationInit EXCEPT !.orig = Free] ELSE StationInit
  BY DEF Init, Originate
<1>2. CASE i = 0
  <2>1. s = [StationInit EXCEPT !.orig = Free]
    BY <1>1, <1>2
  <2> HIDE DEF s
  <2>2. /\ DOMAIN s = StationFields
        /\ s.tx = <<>> /\ s.txPos = 0 /\ ~s.armed /\ ~s.seenOwn /\ s.stripped = 0
        /\ ~s.ackValid /\ s.window = Zero /\ s.pending = Zero /\ s.orig = Free
        /\ ~s.wants /\ ~s.holds /\ ~s.strip /\ s.since = 0 /\ s.stripFor = 0
        /\ s.rx = "idle" /\ s.seps = 0 /\ ~s.timedOut /\ ~s.forced
    BY <2>1 DEF StationInit, StationFields
  <2> QED BY <1>2, <2>2 DEF s
<1>3. CASE i # 0
  <2>1. s = StationInit
    BY <1>1, <1>3
  <2> HIDE DEF s
  <2>2. /\ DOMAIN s = StationFields
        /\ s.tx = <<>> /\ s.txPos = 0 /\ ~s.armed /\ ~s.seenOwn /\ s.stripped = 0
        /\ ~s.ackValid /\ s.window = Zero /\ s.pending = Zero /\ s.orig = None
        /\ ~s.wants /\ ~s.holds /\ ~s.strip /\ s.since = 0 /\ s.stripFor = 0
        /\ s.rx = "idle" /\ s.seps = 0 /\ ~s.timedOut /\ ~s.forced
    BY <2>1 DEF StationInit, StationFields
  <2> QED BY <1>3, <2>2 DEF s
<1> QED BY <1>2, <1>3

\* The ring starts idle, every relay closed, ...
LEMMA FirstRing ==
    ASSUME Init, Warm
    PROVE  Segment /\ Tables /\ m.driving = [i \in Nodes |-> Zero]
           /\ m.line = [i \in Nodes |-> [k \in 1 .. Cable[i] |-> Zero]]
<1>1. /\ m = [bypassed |-> [i \in Nodes |-> FALSE], driving |-> [i \in Nodes |-> Zero],
              line |-> [i \in Nodes |-> [k \in 1 .. Cable[i] |-> Zero]],
              received |-> [i \in Nodes |-> Zero]]
  BY DEF Init, MediumInit
<1>2. \A i \in Nodes : Cable[i] \in Nat /\ Zero \in Symbols
  BY SegmentAssumption, StartFacts
<1>3. ASSUME NEW i \in Nodes
      PROVE  m.line[i] \in Seq(Symbols) /\ Len(m.line[i]) = Cable[i]
  <2> DEFINE n == Cable[i]
             z == [k \in 1 .. n |-> Zero]
  <2>1. n \in Nat /\ Zero \in Symbols
    BY <1>2
  <2>2. z \in Seq(Symbols) /\ Len(z) = n
    <3> HIDE DEF n
    <3>1. z \in [1 .. n -> Symbols]
      BY <2>1
    <3> QED BY <2>1, <3>1
  <2> QED BY <1>1, <2>2
<1>4. Segment
  BY <1>1, <1>3 DEF Segment
<1>5. Tables
  <2>1. DOMAIN st = Nodes /\ DOMAIN ctl = Nodes /\ taken \in [Nodes -> [Nodes -> Nat]]
    BY DEF Init
  <2>2. \A i \in Nodes : DOMAIN ctl[i] = {"connected", "xmitEn", "deferred", "ackSeen", "status"}
    BY DEF Init, CtlInit
  <2> QED BY <2>1, <2>2 DEF Tables
<1> QED BY <1>1, <1>4, <1>5

\* ... and each node as the invariant says, the token to come from node 0.
LEMMA FirstNode ==
    ASSUME Init, Warm, NEW e, NEW o, e = [i \in Nodes |-> Gap(0, 0, i)],
           o = [i \in Nodes |-> 0], NEW i \in Nodes
    PROVE  Node(0, 0, e, o, i)
<1> DEFINE s == st[i]
<1>1. \A j \in Nodes : ~st[j].strip
  BY FirstStation
<1>2. 0 \in Places /\ 0 \in Nat /\ (Base[i] = 0 <=> i = 0) /\ Base[i] \in Nat /\ Loop \in Nat
      /\ e[i] \in Nat /\ e[i] <= Loop
  <2>1. 0 \in Places /\ Base[0] = 0 /\ 0 \in Nodes /\ Base[i] \in Nat
    BY BaseShape DEF Places
  <2>2. Gap(0, 0, i) = Loop + 0 <=> Base[i] = 0
    BY <2>1, GapFacts
  <2>3. Gap(0, 0, 0) = Loop + 0
    BY <2>1, GapFacts
  <2>4. i # 0 => Gap(0, 0, i) # Gap(0, 0, 0)
    BY <2>1, GapFacts
  <2>5. Gap(0, 0, i) \in Nat /\ Gap(0, 0, i) <= Loop + 0 /\ Loop \in Nat
    BY <2>1, GapFacts
  <2> QED BY <2>1, <2>2, <2>3, <2>4, <2>5
<1>3. s.tx = <<>> /\ Len(s.tx) = 0 /\ Size(i) = 0
  BY FirstStation DEF Size
<1>4. Sound(s) /\ Station(i)
  BY FirstStation, <1>3 DEF Sound, Station
<1>5. Originating(s) <=> i = 0
  BY FirstStation, KindsDiffer DEF Originating
<1>6. Owning(0, 0, i)
  BY FirstStation, KindsDiffer, <1>2, <1>5 DEF Owning, Sending
<1>7. ASSUME NEW c, NEW x, c \in Symbols, x = 0 => c = Free, x # 0 => c = Zero
      PROVE  Cell(e, o, c, x)
  BY <1>1, <1>7 DEF Cell, Holds, Tells, Carries
<1>8. \A p \in Nat : Ahead(0, 0, p) = p
  BY <1>2 DEF Ahead
<1>9. HoldTrue(0, 0, e, o, i)
  <2>1. Hold(s) = IF i = 0 THEN Free ELSE Zero
    BY FirstStation, <1>5 DEF Hold
  <2>2. Ahead(0, 0, Base[i]) = Base[i]
    BY <1>2, <1>8
  <2>3. Cell(e, o, Hold(s), Base[i])
    BY <1>2, <1>7, <2>1, StartFacts
  <2> QED BY <2>2, <2>3 DEF HoldTrue
<1>10. LineTrue(0, 0, e, o, i)
  <2>1. Cell(e, o, m.driving[i], Ahead(0, 0, Base[i] + 1))
    <3>1. Ahead(0, 0, Base[i] + 1) = Base[i] + 1 /\ Base[i] + 1 # 0
      BY <1>2, <1>8
    <3> QED BY <1>7, <3>1, FirstRing, StartFacts
  <2>2. ASSUME NEW k \in 1 .. Cable[i]
        PROVE  Cell(e, o, m.line[i][k], Ahead(0, 0, Base[i] + (Cable[i] + 2 - k)))
    <3>1. Base[i] + (Cable[i] + 2 - k) \in Nat /\ Base[i] + (Cable[i] + 2 - k) # 0
      BY <1>2, SegmentAssumption
    <3>2. Ahead(0, 0, Base[i] + (Cable[i] + 2 - k)) = Base[i] + (Cable[i] + 2 - k)
      BY <1>8, <3>1
    <3>3. m.line[i] = [y \in 1 .. Cable[i] |-> Zero]
      BY FirstRing
    <3>4. m.line[i][k] = Zero
      BY <3>3
    <3> QED BY <1>7, <3>1, <3>2, <3>4, StartFacts
  <2> QED BY <2>1, <2>2 DEF LineTrue
<1>11. Lasts(e, o, i) /\ Linked(e, o, i) /\ Own(i)
  BY <1>1 DEF Lasts, Linked, Own
<1>12. Tracks(e, o, i)
  BY <1>1, FirstStation DEF Tracks, Mid
<1>13. Counts(e, o, i) /\ Heard(i)
  <2>1. ~s.ackValid /\ ~ctl[i].ackSeen
    BY FirstStation DEF Init, CtlInit
  <2> QED BY <1>1, <1>3, <2>1 DEF Counts, Heard
<1>14. Timely(e, o, i)
  <2>1. s.since = 0
    BY FirstStation
  <2>2. s.since + e[i] <= Bound
    BY <1>2, <2>1 DEF Bound, MaxFrame
  <2> QED BY <2>2 DEF Timely
<1> QED BY <1>4, <1>6, <1>9, <1>10, <1>11, <1>12, <1>13, <1>14 DEF Node

\* The invariant holds at the start.
LEMMA RingInvInit ==
    ASSUME Init, Warm
    PROVE  RingInv
<1> DEFINE e == [i \in Nodes |-> Gap(0, 0, i)]
           o == [i \in Nodes |-> 0]
<1>1. 0 \in Places /\ 0 \in 0 .. MaxFrame
  BY BaseShape DEF Places, MaxFrame
<1>2. e \in [Nodes -> Nat] /\ o \in [Nodes -> Nat]
  <2>1. \A i \in Nodes : Gap(0, 0, i) \in Nat
    BY <1>1, GapFacts
  <2> QED BY <2>1
<1>3. Distances(0, 0, e, o)
  BY <1>1, <1>2 DEF Distances
<1> HIDE DEF e, o
<1>4. \A i \in Nodes : Node(0, 0, e, o, i)
  BY FirstNode DEF e, o
<1>5. Apart(e, o)
  BY FirstStation DEF Apart, Stripping
<1>6. Ring(0, 0, e, o)
  BY <1>3, <1>4, <1>5, FirstRing DEF Ring
<1> QED BY <1>1, <1>2, <1>6 DEF RingInv

-----------------------------------------------------------------------------
(* What follows.                                                           *)

\* Only the token itself is free.
LEMMA FreeIsToken ==
    ASSUME NEW a, NEW v, NEW e, NEW o, Ring(a, v, e, o), RingFits, NEW x \in Nat,
           NEW c, Cell(e, o, c, x)
    PROVE  c.kind = "free" <=> x = 0
<1>1. CASE x = 0
  BY <1>1, KindsDiffer DEF Cell, Holds
<1>2. CASE x # 0
  <2>1. CASE \E j \in Nodes : Carries(e, o, j, x)
    <3>1. PICK j \in Nodes : Carries(e, o, j, x)
      BY <2>1
    <3>2. OfFrame(c, j, x - o[j]) /\ st[j].strip
      BY <3>1 DEF Cell, Holds, Carries
    <3>3. IsFrame(st[j].tx, j) /\ Size(j) \in {7, 8} /\ o[j] \in Nat
      BY <3>2, NodeFacts
    <3>4. x - o[j] \in 1 .. Size(j) + 1
      BY <3>1, <3>3 DEF Carries
    <3>5. CASE x - o[j] = Size(j) + 1
      BY <1>2, <3>2, <3>5, KindsDiffer DEF OfFrame
    <3>6. CASE x - o[j] # Size(j) + 1
      <4>1. Size(j) + 1 - (x - o[j]) \in 1 .. Size(j)
        BY <3>3, <3>4, <3>6
      <4>2. \A g \in 1 .. Size(j) : st[j].tx[g].kind \notin {"zero", "free", "claimed"}
        BY <3>3, FrameSymbols DEF Size
      <4>3. st[j].tx[Size(j) + 1 - (x - o[j])].kind # "free"
        BY <4>1, <4>2
      <4> QED BY <1>2, <3>2, <3>6, <4>3 DEF OfFrame, Alike
    <3> QED BY <3>5, <3>6
  <2>2. CASE \A j \in Nodes : ~Carries(e, o, j, x)
    BY <1>2, <2>2, KindsDiffer DEF Cell, Holds
  <2> QED BY <2>1, <2>2
<1> QED BY <1>1, <1>2

\* Node i has the token, in one of its cells.
TokenAt(a, i, p) ==
    \/ \E k \in 1 .. Cable[i] : p = <<"line", i, k>> /\ Base[i] + (Cable[i] + 2 - k) = a
    \/ p = <<"driven", i, 0>> /\ Base[i] + 1 = a
    \/ p = <<IF Originating(st[i]) THEN "orig" ELSE "pending", i, 0>> /\ Base[i] = a

\* Where the cells of node i say the token is.
LEMMA TokenFacts ==
    ASSUME NEW a, NEW v, NEW e, NEW o, Ring(a, v, e, o), RingFits, NEW i \in Nodes
    PROVE  /\ DOMAIN m.line[i] = 1 .. Cable[i] /\ ~m.bypassed[i]
           /\ \A k \in 1 .. Cable[i] :
                 m.line[i][k].kind = "free" <=> v = 0 /\ Base[i] + (Cable[i] + 2 - k) = a
           /\ m.driving[i].kind = "free" <=> v = 0 /\ Base[i] + 1 = a
           /\ st[i].orig.kind = "free" <=> Originating(st[i])
           /\ Originating(st[i]) => v = 0 /\ Base[i] = a
           /\ v = 0 /\ Base[i] = a /\ ~Originating(st[i]) => ~st[i].strip
           /\ ~st[i].strip /\ ~Originating(st[i]) =>
                (st[i].pending.kind = "free" <=> v = 0 /\ Base[i] = a)
<1>1. /\ Segment /\ Station(i) /\ Owning(a, v, i) /\ HoldTrue(a, v, e, o, i)
      /\ LineTrue(a, v, e, o, i)
  BY DEF Ring, Node
<1>2. a \in Nat /\ v \in Nat /\ Base[i] \in Nat /\ Cable[i] \in Nat /\ Loop \in Nat /\ a < Loop
      /\ Base[i] + 2 + Cable[i] <= Loop
  BY NodeFacts, BaseShape DEF Places
<1>3. ASSUME NEW p \in Nat, p < Loop
      PROVE  Ahead(a, v, p) \in Nat /\ (Ahead(a, v, p) = 0 <=> v = 0 /\ p = a)
  BY <1>2, <1>3 DEF Ahead
<1>4. DOMAIN m.line[i] = 1 .. Cable[i] /\ ~m.bypassed[i]
  BY <1>1 DEF Segment
<1>5. ASSUME NEW k \in 1 .. Cable[i]
      PROVE  m.line[i][k].kind = "free" <=> v = 0 /\ Base[i] + (Cable[i] + 2 - k) = a
  <2>1. Base[i] + (Cable[i] + 2 - k) \in Nat /\ Base[i] + (Cable[i] + 2 - k) < Loop
    BY <1>2
  <2>2. Cell(e, o, m.line[i][k], Ahead(a, v, Base[i] + (Cable[i] + 2 - k)))
    BY <1>1 DEF LineTrue
  <2> QED BY <1>3, <2>1, <2>2, FreeIsToken
<1>6. m.driving[i].kind = "free" <=> v = 0 /\ Base[i] + 1 = a
  <2>1. Base[i] + 1 \in Nat /\ Base[i] + 1 < Loop
    BY <1>2
  <2>2. Cell(e, o, m.driving[i], Ahead(a, v, Base[i] + 1))
    BY <1>1 DEF LineTrue
  <2> QED BY <1>3, <2>1, <2>2, FreeIsToken
<1>7. /\ st[i].orig.kind = "free" <=> Originating(st[i])
      /\ Originating(st[i]) => v = 0 /\ Base[i] = a
  BY <1>1, KindsDiffer DEF Station, Sound, Originating, Owning
<1>8. v = 0 => Cell(e, o, Hold(st[i]), Ahead(a, v, Base[i]))
  BY <1>1, <1>2 DEF HoldTrue
<1>9. Base[i] < Loop
  BY <1>2
<1>10. v = 0 /\ Base[i] = a /\ ~Originating(st[i]) => ~st[i].strip
  <2> SUFFICES ASSUME v = 0, Base[i] = a, ~Originating(st[i]), st[i].strip PROVE FALSE
    OBVIOUS
  <2>1. Hold(st[i]) = Zero
    BY DEF Hold
  <2>2. Ahead(a, v, Base[i]) = 0
    BY <1>2, <1>3, <1>9
  <2> QED BY <1>8, <2>1, <2>2, KindsDiffer DEF Cell, Holds
<1>11. ~st[i].strip /\ ~Originating(st[i]) =>
         (st[i].pending.kind = "free" <=> v = 0 /\ Base[i] = a)
  <2> SUFFICES ASSUME ~st[i].strip, ~Originating(st[i])
               PROVE  st[i].pending.kind = "free" <=> v = 0 /\ Base[i] = a
    OBVIOUS
  <2>1. Hold(st[i]) = st[i].pending
    BY DEF Hold
  <2>2. ~(v > 0 /\ Base[i] = a)
    BY <1>1 DEF Owning, Sending
  <2>3. Cell(e, o, st[i].pending, Ahead(a, v, Base[i]))
    BY <1>1, <2>1, <2>2 DEF HoldTrue
  <2> QED BY <1>2, <1>3, <1>9, <2>3, FreeIsToken
<1> QED BY <1>4, <1>5, <1>6, <1>7, <1>10, <1>11

\* What is found at node i.
PlaceAt(kinds, i, p) ==
    \/ \E k \in DOMAIN m.line[i] : p = <<"line", i, k>> /\ m.line[i][k].kind \in kinds
    \/ p = <<"driven", i, 0>> /\ ~m.bypassed[i] /\ m.driving[i].kind \in kinds
    \/ p = <<"orig", i, 0>> /\ st[i].orig.kind \in kinds
    \/ p = <<"pending", i, 0>> /\ ~st[i].strip /\ ~Originating(st[i])
                               /\ st[i].pending.kind \in kinds

\* PlacesOf, one node at a time.
LEMMA PlacesByNode ==
    ASSUME NEW kinds, NEW p
    PROVE  p \in PlacesOf(kinds) <=> \E i \in Nodes : PlaceAt(kinds, i, p)
<1> DEFINE L == UNION {{<<"line", i, k>> : k \in {k \in DOMAIN m.line[i] :
                                                    m.line[i][k].kind \in kinds}} :
                      i \in Nodes}
           D == {<<"driven", i, 0>> : i \in {i \in Nodes : /\ ~m.bypassed[i]
                                                         /\ m.driving[i].kind \in kinds}}
           O == {<<"orig", i, 0>> : i \in {i \in Nodes : st[i].orig.kind \in kinds}}
           P == {<<"pending", i, 0>> : i \in {i \in Nodes : /\ ~st[i].strip
                                                          /\ ~Originating(st[i])
                                                          /\ st[i].pending.kind \in kinds}}
<1>1. p \in L <=> \E i \in Nodes : \E k \in DOMAIN m.line[i] :
                    p = <<"line", i, k>> /\ m.line[i][k].kind \in kinds
  OBVIOUS
<1>2. p \in D <=> \E i \in Nodes : p = <<"driven", i, 0>> /\ ~m.bypassed[i]
                                   /\ m.driving[i].kind \in kinds
  OBVIOUS
<1>3. p \in O <=> \E i \in Nodes : p = <<"orig", i, 0>> /\ st[i].orig.kind \in kinds
  OBVIOUS
<1>4. p \in P <=> \E i \in Nodes : p = <<"pending", i, 0>> /\ ~st[i].strip
                                   /\ ~Originating(st[i]) /\ st[i].pending.kind \in kinds
  OBVIOUS
<1>5. p \in PlacesOf(kinds) <=> p \in L \/ p \in D \/ p \in O \/ p \in P
  BY DEF PlacesOf
<1> HIDE DEF L, D, O, P
<1> QED BY <1>1, <1>2, <1>3, <1>4, <1>5 DEF PlaceAt

\* The places of the free token.
LEMMA FreePlaces ==
    ASSUME NEW a, NEW v, NEW e, NEW o, Ring(a, v, e, o), RingFits, NEW p
    PROVE  p \in PlacesOf({"free"}) <=> v = 0 /\ \E i \in Nodes : TokenAt(a, i, p)
<1>1. ASSUME NEW i \in Nodes
      PROVE  PlaceAt({"free"}, i, p) <=> v = 0 /\ TokenAt(a, i, p)
  <2>1. /\ DOMAIN m.line[i] = 1 .. Cable[i] /\ ~m.bypassed[i]
        /\ \A k \in 1 .. Cable[i] :
              m.line[i][k].kind = "free" <=> v = 0 /\ Base[i] + (Cable[i] + 2 - k) = a
        /\ m.driving[i].kind = "free" <=> v = 0 /\ Base[i] + 1 = a
        /\ st[i].orig.kind = "free" <=> Originating(st[i])
        /\ Originating(st[i]) => v = 0 /\ Base[i] = a
        /\ v = 0 /\ Base[i] = a /\ ~Originating(st[i]) => ~st[i].strip
        /\ ~st[i].strip /\ ~Originating(st[i]) =>
             (st[i].pending.kind = "free" <=> v = 0 /\ Base[i] = a)
    BY TokenFacts
  <2>2. CASE Originating(st[i])
    BY <2>1, <2>2 DEF TokenAt, PlaceAt
  <2>3. CASE ~Originating(st[i])
    BY <2>1, <2>3 DEF TokenAt, PlaceAt
  <2> QED BY <2>2, <2>3
<1> QED BY <1>1, PlacesByNode

\* There is one of them.
LEMMA OneTokenPlace ==
    ASSUME NEW a \in Places
    PROVE  \E p : \A q : (\E i \in Nodes : TokenAt(a, i, q)) <=> q = p
<1>1. PICK i \in Nodes : Base[i] <= a /\ a < Base[i] + 2 + Cable[i]
  BY PlaceHasNode
<1>2. a \in Nat /\ \A j \in Nodes : Base[j] \in Nat /\ Cable[j] \in Nat
  BY BaseShape DEF Places
<1>3. ASSUME NEW j \in Nodes, NEW q, TokenAt(a, j, q) PROVE j = i
  <2>1. Base[j] <= a /\ a < Base[j] + 2 + Cable[j]
    BY <1>2, <1>3 DEF TokenAt
  <2>2. ~(i < j) /\ ~(j < i)
    <3>1. i < j => Base[i] + 2 + Cable[i] <= Base[j]
      BY BaseShape
    <3>2. j < i => Base[j] + 2 + Cable[j] <= Base[i]
      BY BaseShape
    <3> QED BY <1>1, <1>2, <2>1, <3>1, <3>2
  <2> QED BY <2>2 DEF Nodes
<1>4. CASE a = Base[i]
  <2> DEFINE p == <<IF Originating(st[i]) THEN "orig" ELSE "pending", i, 0>>
  <2>1. \A q : TokenAt(a, i, q) <=> q = p
    BY <1>2, <1>4 DEF TokenAt
  <2> HIDE DEF p
  <2> QED BY <1>3, <2>1
<1>5. CASE a = Base[i] + 1
  <2> DEFINE p == <<"driven", i, 0>>
  <2>1. \A q : TokenAt(a, i, q) <=> q = p
    BY <1>2, <1>5 DEF TokenAt
  <2> HIDE DEF p
  <2> QED BY <1>3, <2>1
<1>6. CASE a > Base[i] + 1
  <2> DEFINE k == Cable[i] + 2 - (a - Base[i])
             p == <<"line", i, k>>
  <2>1. k \in 1 .. Cable[i] /\ Base[i] + (Cable[i] + 2 - k) = a
    BY <1>1, <1>2, <1>6
  <2>2. \A l \in 1 .. Cable[i] : Base[i] + (Cable[i] + 2 - l) = a => l = k
    BY <1>2
  <2> HIDE DEF k
  <2>3. \A q : TokenAt(a, i, q) <=> q = p
    BY <1>2, <1>6, <2>1, <2>2 DEF TokenAt
  <2> HIDE DEF p
  <2> QED BY <1>3, <2>3
<1> QED BY <1>1, <1>2, <1>4, <1>5, <1>6

\* On a ring that keeps its token there is one token: free, or owed by one owner.
LEMMA OneToken ==
    ASSUME RingInv, RingFits
    PROVE  TokenConserved
<1>1. PICK a \in Places, v \in 0 .. MaxFrame, e \in [Nodes -> Nat], o \in [Nodes -> Nat] :
        Ring(a, v, e, o)
  BY DEF RingInv
<1>2. \A i \in Nodes : i \in Owners <=> v > 0 /\ Base[i] = a
  BY <1>1 DEF Ring, Node, Owning, Sending, Owners
<1>3. \A p : p \in PlacesOf({"free"}) <=> v = 0 /\ \E i \in Nodes : TokenAt(a, i, p)
  BY <1>1, FreePlaces
<1>4. \A x : Cardinality({x}) = 1
  BY FS_Singleton
<1>5. Cardinality({}) = 0
  BY FS_EmptySet
<1>6. CASE v = 0
  <2>1. Owners = {}
    BY <1>2, <1>6 DEF Owners
  <2>2. PICK p : \A q : (\E i \in Nodes : TokenAt(a, i, q)) <=> q = p
    BY OneTokenPlace
  <2>3. PlacesOf({"free"}) = {p}
    BY <1>3, <1>6, <2>2
  <2>4. Cardinality(Owners) = 0 /\ Cardinality(PlacesOf({"free"})) = 1
    BY <1>4, <1>5, <2>1, <2>3
  <2> QED BY <2>4 DEF TokenConserved
<1>7. CASE v > 0
  <2>1. PICK w \in Nodes : Base[w] = a
    BY <1>1, <1>7 DEF Ring, Distances
  <2>2. \A i \in Nodes : Base[i] = a => i = w
    <3>1. \A i \in Nodes : Base[i] \in Nat /\ Cable[i] \in Nat
      BY BaseShape
    <3>2. \A i, j \in Nodes : i < j => Base[i] + 2 + Cable[i] <= Base[j]
      BY BaseShape
    <3>3. \A i \in Nodes : i = w \/ i < w \/ w < i
      BY BaseFacts DEF Nodes
    <3> QED BY ONLY <2>1, <3>1, <3>2, <3>3
  <2>3. Owners = {w}
    BY <1>2, <1>7, <2>1, <2>2 DEF Owners
  <2>4. PlacesOf({"free"}) = {}
    BY <1>3, <1>7
  <2>5. Cardinality(Owners) = 1 /\ Cardinality(PlacesOf({"free"})) = 0
    BY <1>4, <1>5, <2>3, <2>4
  <2> QED BY <2>5 DEF TokenConserved
<1> QED BY <1>6, <1>7

\* A ring where nobody strips carries the token and nothing else.
LEMMA NothingLeft ==
    ASSUME RingInv, RingFits
    PROVE  NoOrphans
<1> SUFFICES ASSUME \A i \in Nodes : ~st[i].strip, NEW p, p \in PlacesOf(FrameKinds) PROVE FALSE
  BY DEF NoOrphans
<1>1. PICK a \in Places, v \in 0 .. MaxFrame, e \in [Nodes -> Nat], o \in [Nodes -> Nat] :
        Ring(a, v, e, o)
  BY DEF RingInv
<1>2. ASSUME NEW c, NEW x, Cell(e, o, c, x) PROVE c \in {Free, Zero}
  BY <1>2 DEF Cell, Holds, Carries
<1>3. \A c \in {Free, Zero, None} : c.kind \notin FrameKinds
  BY KindsDiffer DEF FrameKinds
<1>4. PICK i \in Nodes : PlaceAt(FrameKinds, i, p)
  BY PlacesByNode
<1>5. Segment /\ Station(i) /\ Owning(a, v, i) /\ HoldTrue(a, v, e, o, i)
      /\ LineTrue(a, v, e, o, i)
  BY <1>1 DEF Ring, Node
<1>6. \A k \in DOMAIN m.line[i] : m.line[i][k].kind \notin FrameKinds
  <2>1. DOMAIN m.line[i] = 1 .. Cable[i]
    BY <1>5 DEF Segment
  <2> QED BY <1>2, <1>3, <1>5, <2>1 DEF LineTrue
<1>7. m.driving[i].kind \notin FrameKinds
  BY <1>2, <1>3, <1>5 DEF LineTrue
<1>8. st[i].orig.kind \notin FrameKinds
  BY <1>3, <1>5 DEF Station, Sound
<1>9. ~Originating(st[i]) => st[i].pending.kind \notin FrameKinds
  BY <1>2, <1>3, <1>5 DEF Owning, Sending, HoldTrue, Hold
<1> QED BY <1>4, <1>6, <1>7, <1>8, <1>9 DEF PlaceAt

\* No station's timers have run out.
LEMMA NeverTimedOut ==
    ASSUME RingInv
    PROVE  NoTimeouts
  BY DEF RingInv, Ring, Node, Station, Sound, NoTimeouts

\* No frame was copied twice, or by whom it is not for.
LEMMA OnlyOnce ==
    ASSUME RingInv
    PROVE  DeliveredOnce
  BY DEF RingInv, Ring, Node, Counts, Size, DeliveredOnce

\* A frame is sent where a host sends it.
LEMMA DestOfFrame ==
    ASSUME NEW j \in Nodes, NEW tx, IsFrame(tx, j)
    PROVE  tx[3].dest \in Dests
<1>1. PICK to \in Dests \ {j}, d \in DataKinds : tx = FrameEmit(j, to, d)
  BY DEF IsFrame
<1>2. DOMAIN Plain("header") = {"kind", "src", "dest", "ack"}
  BY DEF Plain
<1>3. Header(j, to).dest = to
  BY <1>2 DEF Header
<1>4. tx[3] = Header(j, to)
  <2> DEFINE A == <<Start, Sep, Header(j, to), Sep>>
             B == IF d THEN <<Plain("data")>> ELSE <<>>
             C == <<Sep, Plain("check"), Plain("late")>>
  <2>1. tx = (A \o B) \o C
    BY <1>1 DEF FrameEmit
  <2>2. A[3] = Header(j, to) /\ Len(A) = 4
    OBVIOUS
  <2> QED BY <2>1, <2>2
<1> QED BY <1>3, <1>4

\* The status says what was done with the frame.
LEMMA StatusTrue ==
    ASSUME RingInv, RingFits, Broadcast \notin Dests
    PROVE  AckTruth
<1> SUFFICES ASSUME NEW j \in Nodes, ctl[j].ackSeen, j \notin torn
             PROVE  LET n == Cardinality({i \in Nodes : taken[j][i] = 1})
                    IN  /\ "cpd" \in ctl[j].status <=> n > 0
                        /\ Dest(j) # Broadcast => ("wak" \in ctl[j].status <=> n = 0)
  BY DEF AckTruth
<1>1. PICK a \in Places, v \in 0 .. MaxFrame, e \in [Nodes -> Nat], o \in [Nodes -> Nat] :
        Ring(a, v, e, o)
  BY DEF RingInv
<1>2. Station(j) /\ Heard(j) /\ Counts(e, o, j) /\ Tables
  BY <1>1 DEF Ring, Node
<1>3. Size(j) > 0
  BY <1>2 DEF Heard
<1>4. IsFrame(st[j].tx, j)
  <2>1. Len(<<>>) = 0
    OBVIOUS
  <2> QED BY <1>2, <1>3, <2>1 DEF Station, Size
<1>5. Dest(j) # Broadcast /\ Dest(j) \in Nodes /\ Dest(j) # j
  <2>1. Dest(j) \in Dests
    BY <1>4, DestOfFrame DEF Dest
  <2>2. Dest(j) \in Nodes \cup {Broadcast} /\ Dest(j) # j
    BY <1>4, FrameSymbols DEF Dest
  <2> QED BY <2>1, <2>2
<1>6. /\ "cpd" \in ctl[j].status <=> Taken(j)
      /\ "wak" \in ctl[j].status <=> taken[j][Dest(j)] = 0
  BY <1>2, <1>5 DEF Heard
<1> DEFINE C == {i \in Nodes : taken[j][i] = 1}
           n == Cardinality(C)
<1>7. IsFiniteSet(C)
  <2>1. IsFiniteSet(Nodes)
    BY FS_Interval, BaseFacts DEF Nodes
  <2> QED BY <2>1, FS_Subset
<1>8. n \in Nat /\ (n = 0 <=> C = {})
  BY <1>7, FS_CardinalityType, FS_EmptySet
<1>9. Taken(j) <=> C # {}
  BY DEF Taken
<1>10. taken[j][Dest(j)] = 0 <=> C = {}
  <2>1. ASSUME NEW i \in Nodes
        PROVE  /\ taken[j][i] \in Nat
               /\ taken[j][i] <= IF Dest(j) = i /\ i # j THEN 1 ELSE 0
    BY <1>2, <1>3, <1>5 DEF Counts, Tables
  <2>2. ASSUME NEW i \in Nodes, i # Dest(j) PROVE taken[j][i] # 1
    BY <2>1, <2>2
  <2>3. taken[j][Dest(j)] = 0 \/ taken[j][Dest(j)] = 1
    <3>1. taken[j][Dest(j)] \in Nat /\ taken[j][Dest(j)] <= 1
      BY <1>5, <2>1
    <3> QED BY <3>1
  <2> QED BY <1>5, <2>2, <2>3
<1> HIDE DEF C
<1>11. n > 0 <=> C # {}
  BY <1>8
<1>12. "cpd" \in ctl[j].status <=> n > 0
  BY <1>6, <1>9, <1>11
<1>13. "wak" \in ctl[j].status <=> n = 0
  BY <1>6, <1>8, <1>10
<1> QED BY <1>12, <1>13 DEF C

\* A ring that starts with its token and keeps its relays closed keeps the order of
\* everything on it: RingInv is an invariant of ap_ring_medium_advance, the stations'
\* drive and receive and the hosts' commands.
THEOREM RingInvHolds ==
    ASSUME Warm, RingFits, NctValues \subseteq {TRUE}
    PROVE  Spec => []RingInv
<1>1. Init => RingInv
  BY RingInvInit
<1>2. RingInv /\ [Next]_vars => RingInv'
  BY RingInvStep
<1> QED BY <1>1, <1>2, PTL DEF Spec

\* The token is never lost and never doubled, for any number of nodes and any cables,
\* while any number of stations send and strip (ap_ring_station_drive).
THEOREM TokenIsConserved ==
    ASSUME Warm, RingFits, NctValues \subseteq {TRUE}
    PROVE  Spec => []TokenConserved
<1>1. RingInv => TokenConserved
  BY OneToken
<1> QED BY <1>1, RingInvHolds, PTL

\* When the last station stops stripping (ap_ring_station_receive counts its own frame),
\* nothing of any frame is left on the ring.
THEOREM NothingIsOrphaned ==
    ASSUME Warm, RingFits, NctValues \subseteq {TRUE}
    PROVE  Spec => []NoOrphans
<1>1. RingInv => NoOrphans
  BY NothingLeft
<1> QED BY <1>1, RingInvHolds, PTL

\* Neither the stripping timeout nor the loss timer runs out (ap_ring_station_drive): every
\* station meets its own frame, and a token, free or claimed, before that.
THEOREM NothingTimesOut ==
    ASSUME Warm, RingFits, NctValues \subseteq {TRUE}
    PROVE  Spec => []NoTimeouts
<1>1. RingInv => NoTimeouts
  BY NeverTimedOut
<1> QED BY <1>1, RingInvHolds, PTL

\* Each node a frame is addressed to copies it at most once, and nobody else does
\* (frames_copied in ap_ring_station_receive).
THEOREM FramesDeliveredOnce ==
    ASSUME Warm, RingFits, NctValues \subseteq {TRUE}
    PROVE  Spec => []DeliveredOnce
<1>1. RingInv => DeliveredOnce
  BY OnlyOnce
<1> QED BY <1>1, RingInvHolds, PTL

\* cpd and wak of XMIT_STAT say what the addressed node did with the frame
\* (ap_ring_ctl_poll_ring). A broadcast is left out: its sender, addressed as well, sets
\* the bits of its own frame.
THEOREM AcksAreTrue ==
    ASSUME Warm, RingFits, NctValues \subseteq {TRUE}, Broadcast \notin Dests
    PROVE  Spec => []AckTruth
<1>1. RingInv => AckTruth
  BY StatusTrue
<1> QED BY <1>1, RingInvHolds, PTL
=============================================================================
