--------------------------- MODULE RingBaseProofs ---------------------------
(***************************************************************************)
(* Proofs about the three modules a ring stands on, which share no state.  *)
(* RingSched, for every time base, bit period, number of nodes, set of     *)
(* frequencies and sequence of runs.  RingLink, whose link between two     *)
(* emulators is a Cable for every batch length and size of buffer and any  *)
(* number of exchanges.                                                    *)
(*                                                                         *)
(* And RingMac: what a station captures is what was written, for frames of *)
(* every size.  The stuffing keeps a character's six ones out of the       *)
(* fields, so that the receiver meets a character exactly where the        *)
(* transmitter wrote one, and drops exactly the zeros it stuffed.  And the *)
(* late acknowledge that leaves the second of two stations is right: the   *)
(* first alters bits of the fields only, and what it sends on is again a   *)
(* stream that a transmitter could have written, one bit later, which the  *)
(* second follows.                                                         *)
(***************************************************************************)
EXTENDS RingSched, RingLink, RingMac, SequenceTheorems, TLAPS

-----------------------------------------------------------------------------
(* Arithmetic.                                                             *)

\* Multiplying by a positive rate keeps a strict order.
LEMMA TimesLess ==
    ASSUME NEW x \in Int, NEW y \in Int, NEW r \in Nat \ {0}, x < y
    PROVE  x * r < y * r
OBVIOUS

\* ... and a weak one.
LEMMA TimesLeq ==
    ASSUME NEW x \in Int, NEW y \in Int, NEW r \in Nat, x <= y
    PROVE  x * r <= y * r
OBVIOUS

\* One or two more.
LEMMA OneOrTwo ==
    ASSUME NEW i \in Nat, NEW j \in Nat, i + 1 <= j, j <= i + 2
    PROVE  j = i + 1 \/ j = i + 2
OBVIOUS

\* One more step is one more period.
LEMMA OneMore ==
    ASSUME NEW p \in Nat, NEW s \in Nat
    PROVE  p * (s + 1) = p * s + p
OBVIOUS

\* ap_clock_init accepts a frequency only when its period is exact.
LEMMA ClockIsExact ==
    ASSUME NEW hz \in Nat, BaseDivides(hz)
    PROVE  /\ ClockPeriod(hz) \in Nat \ {0}
           /\ ClockPeriod(hz) * hz = Base
BY ClockAssumption DEF BaseDivides, ClockPeriod

-----------------------------------------------------------------------------
(* The inductive invariant.                                                *)

\* A present node's clock is exact and its due instant is at most one period
\* away, and so is the bit clock's.
Clocks ==
    /\ nextBit <= now + BitPeriod
    /\ \A i \in Present : /\ period[i] \in Nat \ {0}
                          /\ rate[i] \in Nat \ {0}
                          /\ period[i] * rate[i] = Base
                          /\ next[i] <= now + period[i]

\* Within a run nothing is due before now, and between runs nothing at now
\* either: run_until has played every event up to the instant it was given.
Ahead ==
    /\ last.when <= now
    /\ running => /\ now <= until
                  /\ now <= nextBit
                  /\ \A i \in Present : now <= next[i]
    /\ ~running => /\ now < nextBit
                   /\ \A i \in Present : now < next[i]

IInv == TypeOK /\ NothingOverdue /\ OnPhase /\ Clocks /\ Ahead

\* A power-up scheduler (ap_ring_sched_init), with no node and both clocks at zero,
\* satisfies the inductive invariant.
LEMMA InitIInv == Init => IInv
<1> SUFFICES ASSUME Init PROVE IInv
  OBVIOUS
<1>1. Present = {}
  BY DEF Init, Present
<1>2. TypeOK
  <2>1. used \in 0 .. MaxNodes
    BY ClockAssumption DEF Init
  <2>2. /\ period \in [Slots -> Nat] /\ next \in [Slots -> Nat]
        /\ rate \in [Slots -> Nat] /\ joined \in [Slots -> Nat]
        /\ steps \in [Slots -> Nat]
    BY DEF Init
  <2>3. nextBit \in Nat /\ bitTime \in Nat /\ now \in Nat /\ until \in Nat
    BY ClockAssumption DEF Init
  <2>4. running \in BOOLEAN /\ last \in [when : Nat, who : Slots \cup {Bit}]
    BY DEF Init
  <2> QED BY <2>1, <2>2, <2>3, <2>4 DEF TypeOK
<1>3. NothingOverdue /\ OnPhase /\ Clocks /\ Ahead
  BY <1>1, ClockAssumption
     DEF Init, NothingOverdue, OnPhase, Clocks, Ahead, Before, Bit
<1> QED BY <1>2, <1>3 DEF IInv

\* ap_ring_sched_add keeps the invariant: the new node is due one exact period
\* after now, and every other clock is untouched.
LEMMA AddIInv ==
    ASSUME IInv, NEW hz \in Rates, Add(hz)
    PROVE  IInv'
<1> DEFINE p == ClockPeriod(hz)
<1>1. hz \in Nat /\ p \in Nat \ {0} /\ p * hz = Base
  BY ClockAssumption, ClockIsExact DEF Add
<1>2. hz # 0
  BY DEF Add, BaseDivides
<1> HIDE DEF p
<1>3. /\ used \in Slots /\ used' = used + 1
      /\ Present' = Present \cup {used} /\ used \notin Present
      /\ Present \subseteq Slots
  BY ClockAssumption DEF IInv, TypeOK, Add, HasRoom, Slots, Present
<1>4. /\ \A i \in Present : /\ next'[i] = next[i] /\ period'[i] = period[i]
                            /\ rate'[i] = rate[i] /\ joined'[i] = joined[i]
                            /\ steps'[i] = steps[i]
      /\ next'[used] = now + p /\ period'[used] = p /\ rate'[used] = hz
      /\ joined'[used] = now /\ steps'[used] = 0
  BY <1>3 DEF IInv, TypeOK, Add, FirstDue, p
<1>5. TypeOK'
  <2>1. used' \in 0 .. MaxNodes
    BY ClockAssumption DEF IInv, TypeOK, Add, HasRoom
  <2>2. /\ period' \in [Slots -> Nat] /\ next' \in [Slots -> Nat]
        /\ rate' \in [Slots -> Nat] /\ joined' \in [Slots -> Nat]
        /\ steps' \in [Slots -> Nat]
    BY <1>1, <1>3 DEF IInv, TypeOK, Add, FirstDue, p
  <2> QED BY <2>1, <2>2 DEF IInv, TypeOK, Add
<1>6. NothingOverdue'
  BY <1>1, <1>3, <1>4 DEF IInv, TypeOK, NothingOverdue, Ahead, Before, Add
<1>7. OnPhase'
  BY <1>1, <1>3, <1>4 DEF IInv, TypeOK, OnPhase, Add
<1>8. Clocks'
  BY <1>1, <1>2, <1>3, <1>4 DEF IInv, TypeOK, Clocks, Add
<1>9. Ahead'
  BY <1>1, <1>3, <1>4 DEF IInv, TypeOK, Ahead, Add
<1> QED BY <1>5, <1>6, <1>7, <1>8, <1>9 DEF IInv

\* Entering a run moves no clock.
LEMMA RunUntilIInv ==
    ASSUME IInv, NEW t \in Targets, RunUntil(t)
    PROVE  IInv'
<1>1. TypeOK'
  BY ClockAssumption DEF IInv, TypeOK, RunUntil
<1>2. NothingOverdue' /\ OnPhase' /\ Clocks'
  BY DEF IInv, NothingOverdue, OnPhase, Clocks, Before, Present, RunUntil
<1>3. Ahead'
  <2>1. /\ ~running /\ running' /\ until' = t /\ now <= t
        /\ now' = now /\ nextBit' = nextBit /\ next' = next /\ last' = last
        /\ Present' = Present
    BY DEF RunUntil, Present
  <2>2. /\ last.when <= now /\ now < nextBit
        /\ \A i \in Present : now < next[i]
    BY <2>1 DEF IInv, Ahead
  <2>3. /\ now \in Nat /\ nextBit \in Nat
        /\ \A i \in Present : next[i] \in Nat
    BY ClockAssumption DEF IInv, TypeOK, Present, Slots
  <2>4. now <= nextBit /\ \A i \in Present : now <= next[i]
    BY <2>2, <2>3
  <2> QED BY <2>1, <2>2, <2>4 DEF Ahead
<1> QED BY <1>1, <1>2, <1>3 DEF IInv

\* A bit time keeps the invariant: the bit clock was the earliest of all.
LEMMA BitStepIInv ==
    ASSUME IInv, BitStep
    PROVE  IInv'
<1>1. TypeOK'
  BY ClockAssumption DEF IInv, TypeOK, BitStep
<1>2. NothingOverdue'
  <2>1. /\ last'.when = nextBit /\ last'.who = Bit
        /\ nextBit' = nextBit + BitPeriod /\ next' = next
        /\ Present' = Present
    BY DEF BitStep, Present
  <2>2. /\ nextBit \in Nat /\ BitPeriod \in Nat \ {0}
        /\ \A i \in Present : i \in Nat /\ next[i] \in Nat /\ nextBit <= next[i]
    BY ClockAssumption DEF IInv, TypeOK, Present, Slots, BitStep, PicksBit
  <2>3. Before(last'.when, last'.who, nextBit', Bit)
    BY <2>1, <2>2 DEF Before
  <2>4. ASSUME NEW i \in Present
        PROVE  Before(last'.when, last'.who, next'[i], i)
    BY <2>1, <2>2, <2>4 DEF Before, Bit
  <2> QED BY <2>1, <2>3, <2>4 DEF NothingOverdue
<1>3. OnPhase'
  BY ClockAssumption, OneMore DEF IInv, TypeOK, OnPhase, Present, BitStep
<1>4. Clocks'
  BY ClockAssumption
     DEF IInv, TypeOK, Clocks, Ahead, Present, Slots, BitStep, PicksBit
<1>5. Ahead'
  BY ClockAssumption
     DEF IInv, TypeOK, Ahead, Present, Slots, BitStep, PicksBit
<1> QED BY <1>1, <1>2, <1>3, <1>4, <1>5 DEF IInv

\* A node's step keeps the invariant: it was the earliest, and among equals
\* the lowest slot.
LEMMA NodeStepIInv ==
    ASSUME IInv, NEW k \in Present, NodeStep(k)
    PROVE  IInv'
<1>1. k \in Slots /\ Present \subseteq Slots /\ Present' = Present
  BY ClockAssumption DEF IInv, TypeOK, Present, Slots, NodeStep
<1>2. period[k] \in Nat \ {0}
  BY DEF IInv, Clocks
<1>3. /\ next'[k] = next[k] + period[k] /\ steps'[k] = steps[k] + 1
      /\ \A i \in Present : i # k => next'[i] = next[i] /\ steps'[i] = steps[i]
  BY <1>1 DEF IInv, TypeOK, NodeStep
<1>4. TypeOK'
  BY <1>1, <1>2 DEF IInv, TypeOK, NodeStep
<1>5. NothingOverdue'
  BY <1>1, <1>2, <1>3
     DEF IInv, TypeOK, NothingOverdue, Before, Slots, Bit, NodeStep, PicksNode
<1>6. OnPhase'
  <2>1. next'[k] = joined[k] + period[k] * (steps[k] + 1) + period[k]
    BY <1>3 DEF IInv, OnPhase
  <2>2. period[k] * (steps[k] + 1 + 1) = period[k] * (steps[k] + 1) + period[k]
    BY <1>1, <1>2, OneMore DEF IInv, TypeOK
  <2>3. next'[k] = joined[k] + period[k] * (steps'[k] + 1)
    BY <2>1, <2>2, <1>1, <1>2, <1>3 DEF IInv, TypeOK
  <2> QED BY <2>3, <1>1, <1>3 DEF IInv, OnPhase, NodeStep
<1>7. Clocks'
  <2>1. now <= next[k] /\ now' = next[k]
    BY DEF IInv, Ahead, NodeStep
  <2>2. nextBit' <= now' + BitPeriod
    BY <2>1, <1>1, ClockAssumption DEF IInv, TypeOK, Clocks, NodeStep
  <2>3. ASSUME NEW i \in Present
        PROVE  /\ period'[i] \in Nat \ {0} /\ rate'[i] \in Nat \ {0}
               /\ period'[i] * rate'[i] = Base
    BY DEF IInv, Clocks, NodeStep
  <2>4. ASSUME NEW i \in Present
        PROVE  next'[i] <= now' + period'[i]
    BY <2>1, <1>1, <1>2, <1>3 DEF IInv, TypeOK, Clocks, NodeStep
  <2> QED BY <2>2, <2>3, <2>4, <1>1 DEF Clocks
<1>8. Ahead'
  BY <1>1, <1>2, <1>3 DEF IInv, TypeOK, Ahead, NodeStep, PicksNode
<1> QED BY <1>4, <1>5, <1>6, <1>7, <1>8 DEF IInv

\* The end of a run keeps the invariant: nothing was left up to its target.
LEMMA ReturnIInv ==
    ASSUME IInv, Return
    PROVE  IInv'
<1>1. TypeOK'
  BY DEF IInv, TypeOK, Return
<1>2. NothingOverdue' /\ OnPhase'
  BY DEF IInv, NothingOverdue, OnPhase, Before, Present, Return
<1>3. now <= until
  BY DEF IInv, Ahead, Return
<1>4. Present \subseteq Slots /\ Present' = Present
  BY ClockAssumption DEF IInv, TypeOK, Present, Slots, Return
<1>5. Clocks'
  <2>1. nextBit' <= now' + BitPeriod
    BY <1>3, ClockAssumption DEF IInv, TypeOK, Clocks, Return
  <2>2. ASSUME NEW i \in Present
        PROVE  /\ period'[i] \in Nat \ {0} /\ rate'[i] \in Nat \ {0}
               /\ period'[i] * rate'[i] = Base
    BY DEF IInv, Clocks, Return
  <2>3. ASSUME NEW i \in Present
        PROVE  next'[i] <= now' + period'[i]
    BY <1>3, <1>4 DEF IInv, TypeOK, Clocks, Return
  <2> QED BY <2>1, <2>2, <2>3, <1>4 DEF Clocks
<1>6. Ahead'
  BY <1>3, <1>4 DEF IInv, TypeOK, Ahead, Return, PicksNothing
<1> QED BY <1>1, <1>2, <1>5, <1>6 DEF IInv

\* Every call and every turn of run_until's loop preserves the inductive invariant.
LEMMA NextIInv == IInv /\ [Next]_vars => IInv'
<1> SUFFICES ASSUME IInv, [Next]_vars PROVE IInv'
  OBVIOUS
<1>1. CASE \E hz \in Rates : Add(hz)
  BY <1>1, AddIInv
<1>2. CASE \E t \in Targets : RunUntil(t)
  BY <1>2, RunUntilIInv
<1>3. CASE BitStep
  BY <1>3, BitStepIInv
<1>4. CASE \E i \in Present : NodeStep(i)
  BY <1>4, NodeStepIInv
<1>5. CASE Return
  BY <1>5, ReturnIInv
<1>6. CASE UNCHANGED vars
  BY <1>6 DEF vars, IInv, TypeOK, NothingOverdue, OnPhase, Clocks, Ahead, Before,
              Present
<1> QED BY <1>1, <1>2, <1>3, <1>4, <1>5, <1>6 DEF Next, Loop

\* The inductive invariant holds of every state the scheduler can reach.
LEMMA SpecIInv == Spec => []IInv
BY InitIInv, NextIInv, PTL DEF Spec

-----------------------------------------------------------------------------
\* Type correctness of the scheduler.
THEOREM TypeCorrect == Spec => []TypeOK
BY SpecIInv, PTL DEF IInv

\* No event of run_until is ever overdue or skipped.
THEOREM NeverOverdue == Spec => []NothingOverdue
BY SpecIInv, PTL DEF IInv

\* The phase of every clock is kept through any number of runs.
THEOREM KeepsPhase == Spec => []OnPhase
BY SpecIInv, PTL DEF IInv

\* Between two runs the counts are exact, for every frequency the scheduler
\* accepts and every way of cutting an interval into runs.
THEOREM CountsAreExact == Spec => []ExactCounts
<1>1. IInv => ExactCounts
  <2> SUFFICES ASSUME IInv, ~running PROVE
        /\ bitTime * BitPeriod <= now /\ now < (bitTime + 1) * BitPeriod
        /\ \A i \in Present : /\ steps[i] * Base <= (now - joined[i]) * rate[i]
                              /\ (now - joined[i]) * rate[i] < (steps[i] + 1) * Base
    BY DEF ExactCounts
  <2>1. bitTime * BitPeriod <= now /\ now < (bitTime + 1) * BitPeriod
    BY OneMore, ClockAssumption DEF IInv, TypeOK, OnPhase, Clocks, Ahead
  <2>2. ASSUME NEW i \in Present
        PROVE  /\ steps[i] * Base <= (now - joined[i]) * rate[i]
               /\ (now - joined[i]) * rate[i] < (steps[i] + 1) * Base
    <3> DEFINE p == period[i]
               s == steps[i]
               e == now - joined[i]
               r == rate[i]
    <3>1. i \in Slots
      BY ClockAssumption DEF IInv, TypeOK, Present, Slots
    <3>2. p \in Nat \ {0} /\ s \in Nat /\ e \in Int /\ r \in Nat \ {0} /\ p * r = Base
      BY <3>1 DEF IInv, TypeOK, Clocks
    <3>3. p * s <= e /\ e < p * (s + 1)
      BY <3>1, <3>2, OneMore DEF IInv, TypeOK, OnPhase, Clocks, Ahead
    <3> HIDE DEF p, s, e, r
    <3>4. (p * s) * r <= e * r /\ e * r < (p * (s + 1)) * r
      BY <3>2, <3>3, TimesLeq, TimesLess
    <3>5. (p * s) * r = s * (p * r) /\ (p * (s + 1)) * r = (s + 1) * (p * r)
      BY <3>2
    <3>6. s * Base <= e * r /\ e * r < (s + 1) * Base
      BY <3>2, <3>4, <3>5
    <3> QED BY <3>6 DEF p, s, e, r
  <2> QED BY <2>1, <2>2
<1> QED BY <1>1, SpecIInv, PTL

\* Events are played in strictly increasing (time, slot) order and time never
\* runs backwards, whatever the frequencies and the runs.
THEOREM PlaysInOrder == Spec => EventsInOrder
<1> DEFINE Ordered == /\ now' >= now
                      /\ last' # last =>
                            Before(last.when, last.who, last'.when, last'.who)
<1>1. IInv /\ [Next]_vars => [Ordered]_vars
  <2> SUFFICES ASSUME IInv, Next PROVE Ordered
    OBVIOUS
  <2>1. ASSUME last' = last, now' >= now PROVE Ordered
    BY <2>1
  <2>2. CASE \E hz \in Rates : Add(hz)
    BY <2>1, <2>2 DEF Add, IInv, TypeOK
  <2>3. CASE \E t \in Targets : RunUntil(t)
    BY <2>1, <2>3 DEF RunUntil, IInv, TypeOK
  <2>4. CASE BitStep
    BY <2>4 DEF BitStep, IInv, NothingOverdue, Ahead, TypeOK
  <2>5. CASE \E i \in Present : NodeStep(i)
    <3> PICK k \in Present : NodeStep(k)
      BY <2>5
    <3>1. k \in Slots
      BY ClockAssumption DEF IInv, TypeOK, Present, Slots
    <3> QED BY <3>1 DEF NodeStep, IInv, NothingOverdue, Ahead, TypeOK
  <2>6. CASE Return
    BY <2>1, <2>6 DEF Return, IInv, Ahead, TypeOK
  <2> QED BY <2>2, <2>3, <2>4, <2>5, <2>6 DEF Next, Loop
<1> QED BY <1>1, SpecIInv, PTL DEF Spec, EventsInOrder

-----------------------------------------------------------------------------
(* The link.  Of two batches at most that one end has driven and the other *)
(* not yet been given, every byte is in one place: read already, in the    *)
(* buffer, or still to be written, in that order.  An end that goes away   *)
(* takes some of the last of them with it.                                 *)

Byte == Drivable \cup Foreign

LinkTypeOK == /\ at \in [Ends -> {"outside", "sending", "receiving"}]
              /\ out \in [Ends -> Seq(Byte)] /\ in \in [Ends -> Seq(Byte)]
              /\ wire \in [Ends -> Seq(Byte)]
              /\ failed \in [Ends -> BOOLEAN] /\ open \in [Ends -> BOOLEAN]
              /\ driven \in [Ends -> Seq(Batches)] /\ seen \in [Ends -> Seq(Seq(Byte))]

\* An end is in the middle of one exchange or of none, and has not been given
\* more than the other drove.
InStep(e) ==
    /\ Len(driven[e]) = Len(seen[e]) + (IF Busy(e) \/ failed[e] THEN 1 ELSE 0)
    /\ failed[e] => ~Busy(e)
    /\ Len(seen[e]) <= Len(driven[Peer(e)])

\* What was driven and not yet given to the end: two batches at most.
Due(e) ==
    LET p == Peer(e)
        s == Len(seen[e])
        k == Len(driven[p]) - s
    IN  IF k <= 0 THEN <<>> ELSE IF k = 1 THEN driven[p][s + 1]
        ELSE driven[p][s + 1] \o driven[p][s + 2]

\* It is what the end has read, what waits in the buffer, and the rest: still to
\* be written, or lost when the other end went away.
Kept(e) ==
    open[e] /\ ~failed[e] =>
      /\ at[Peer(e)] # "sending" => out[Peer(e)] = <<>>
      /\ \E rest \in Seq(Byte) : /\ Due(e) = in[e] \o (wire[e] \o rest)
                                 /\ open[Peer(e)] => rest = out[Peer(e)]

Inv == LinkTypeOK /\ \A e \in Ends : InStep(e) /\ Kept(e)

-----------------------------------------------------------------------------
\* The two ends of a link, each the other's.
LEMMA PeerFacts ==
    /\ \A e \in Ends : Peer(e) \in Ends /\ Peer(e) # e /\ Peer(Peer(e)) = e
    /\ \A e, p \in Ends : p # e => p = Peer(e)
<1>1. PICK x, y \in Ends : x # y /\ Ends = {x, y}
  BY LinkAssumption
<1>2. Peer(x) = y /\ Peer(y) = x
  BY <1>1 DEF Peer
<1> QED BY <1>1, <1>2

\* A batch is cable_bits bytes.
LEMMA BatchFacts ==
    /\ Bits \in Nat /\ Bits >= 1 /\ Byte \subseteq Nat
    /\ \A y \in Batches : y \in Seq(Byte) /\ Len(y) = Bits /\ DOMAIN y = 1 .. Bits
<1>1. Bits \in Nat /\ Bits >= 1 /\ Byte \subseteq Nat
  BY LinkAssumption DEF Byte
<1>2. ASSUME NEW y \in Batches PROVE y \in Seq(Byte) /\ Len(y) = Bits /\ DOMAIN y = 1 .. Bits
  <2>1. y \in [1 .. Bits -> Byte]
    BY DEF Batches, Byte
  <2> QED BY <1>1, <2>1
<1> QED BY <1>1, <1>2

\* A sequence cut in two is the two joined again.
LEMMA Cut ==
    ASSUME NEW S, NEW s \in Seq(S), NEW n \in 0 .. Len(s)
    PROVE  /\ SubSeq(s, 1, n) \in Seq(S) /\ SubSeq(s, n + 1, Len(s)) \in Seq(S)
           /\ Len(SubSeq(s, 1, n)) = n
           /\ s = SubSeq(s, 1, n) \o SubSeq(s, n + 1, Len(s))
<1>1. /\ SubSeq(s, 1, n) \in Seq(S) /\ SubSeq(s, n + 1, Len(s)) \in Seq(S)
      /\ Len(SubSeq(s, 1, n)) = n
  OBVIOUS
<1>2. 1 \in 1 .. Len(s) + 1 /\ n \in 1 - 1 .. Len(s) /\ Len(s) \in n .. Len(s)
  BY LenProperties
<1>3. SubSeq(s, 1, Len(s)) = SubSeq(s, 1, n) \o SubSeq(s, n + 1, Len(s))
  BY <1>2, ConcatAdjacentSubSeq
<1> QED BY <1>1, <1>3, SubSeqFull

\* Bytes joined, in any grouping.
LEMMA Joined ==
    \A s, t, u \in Seq(Byte) : s \o t \in Seq(Byte) /\ (s \o t) \o u = s \o (t \o u)
BY ConcatProperties, ConcatAssociative

\* Two cuts of one sequence at the same place.
LEMMA SameCut ==
    \A s, t, u, v \in Seq(Byte) : s \o t = u \o v /\ Len(s) = Len(u) => s = u /\ t = v
<1> SUFFICES ASSUME NEW s \in Seq(Byte), NEW t \in Seq(Byte),
                    NEW u \in Seq(Byte), NEW v \in Seq(Byte),
                    s \o t = u \o v, Len(s) = Len(u)
             PROVE  s = u /\ t = v
  OBVIOUS
<1>1. ASSUME NEW i \in 1 .. Len(s) PROVE s[i] = u[i]
  <2>1. (s \o t)[i] = s[i] /\ (u \o v)[i] = u[i]
    BY <1>1, LenProperties, ConcatProperties
  <2> QED BY <2>1
<1>2. s = u
  BY <1>1, SeqEqual
<1> QED BY <1>2, ConcatSimplifications

-----------------------------------------------------------------------------
\* ap_ring_link_init at both ends leaves nothing due.
LEMMA InitInv == LinkInit => Inv
<1> SUFFICES ASSUME LinkInit PROVE Inv
  OBVIOUS
<1>1. LinkTypeOK
  BY DEF LinkInit, LinkTypeOK
<1>2. ASSUME NEW e \in Ends PROVE InStep(e) /\ Kept(e)
  <2>1. InStep(e)
    BY PeerFacts DEF LinkInit, InStep, Busy
  <2>2. Due(e) = <<>> /\ in[e] = <<>> /\ wire[e] = <<>> /\ out[Peer(e)] = <<>>
    BY PeerFacts DEF LinkInit, Due
  <2>3. <<>> = <<>> \o (<<>> \o <<>>) /\ <<>> \in Seq(Byte)
    BY EmptySeq, ConcatEmptySeq
  <2> QED BY <2>1, <2>2, <2>3 DEF Kept
<1> QED BY <1>1, <1>2 DEF Inv

\* What is due to an end stays so while neither it nor the other moves a byte.
LEMMA KeptUnmoved ==
    ASSUME NEW e \in Ends, Kept(e),
           open'[e] => open[e], failed[e] => failed'[e], open'[Peer(e)] = open[Peer(e)],
           in'[e] = in[e], wire'[e] = wire[e], seen'[e] = seen[e],
           out'[Peer(e)] = out[Peer(e)], driven'[Peer(e)] = driven[Peer(e)],
           at'[Peer(e)] # "sending" => at[Peer(e)] # "sending" \/ out[Peer(e)] = <<>>
    PROVE  Kept(e)'
<1>1. Due(e)' = Due(e)
  BY DEF Due
<1> QED BY <1>1 DEF Kept

\* A batch begins behind what is on its way already, which is one batch at most.
LEMMA ExchangeInv ==
    ASSUME Inv, NEW e \in Ends, NEW batch \in Batches, Exchange(e, batch)
    PROVE  Inv'
<1> DEFINE p == Peer(e)
<1>1. p \in Ends /\ p # e /\ Peer(p) = e /\ \A x \in Ends : x # e => x = p
  BY PeerFacts
<1>2. LinkTypeOK /\ InStep(e) /\ InStep(p) /\ Kept(e) /\ Kept(p)
  BY <1>1 DEF Inv
<1>3. batch \in Seq(Byte) /\ Bits \in Nat /\ Bits >= 1
  BY BatchFacts
<1>4. LinkTypeOK'
  BY <1>2, <1>3 DEF LinkTypeOK, Exchange
<1>5. InStep(e)' /\ InStep(p)'
  BY <1>1, <1>2 DEF LinkTypeOK, InStep, Exchange, Busy
<1>6. Kept(e)'
  BY <1>1, <1>2, KeptUnmoved DEF LinkTypeOK, Exchange
<1>7. Kept(p)'
  <2> SUFFICES ASSUME open[p], ~failed[p] PROVE Kept(p)'
    BY DEF Kept, Exchange
  <2>1. /\ out'[e] = batch /\ in'[p] = in[p] /\ wire'[p] = wire[p] /\ seen'[p] = seen[p]
        /\ driven'[e] = Append(driven[e], batch) /\ at'[e] = "sending" /\ at[e] = "outside"
        /\ open[e] /\ open'[e] /\ ~failed[e]
    BY <1>2 DEF LinkTypeOK, Exchange
  <2>2. out[e] = <<>> /\ Due(p) = in[p] \o (wire[p] \o <<>>)
    BY <1>1, <1>2, <2>1 DEF Kept
  <2>3. /\ in[p] \in Seq(Byte) /\ wire[p] \in Seq(Byte)
        /\ driven[e] \in Seq(Batches) /\ seen[p] \in Seq(Seq(Byte))
    BY <1>1, <1>2 DEF LinkTypeOK
  <2>4. Len(driven[e]) - Len(seen[p]) \in 0 .. 1 /\ Len(driven[e]) \in Nat /\ Len(seen[p]) \in Nat
    BY <1>1, <1>2, <2>1, <2>3 DEF InStep, LinkTypeOK, Busy
  <2>5. Due(p)' = Due(p) \o batch
    <3>1. /\ Len(driven'[e]) = Len(driven[e]) + 1 /\ driven'[e][Len(driven[e]) + 1] = batch
          /\ \A i \in 1 .. Len(driven[e]) : driven'[e][i] = driven[e][i]
      BY <2>1, <2>3
    <3>2. CASE Len(driven[e]) = Len(seen[p])
      <4>1. Due(p) = <<>> /\ Due(p)' = batch
        BY <1>1, <2>1, <2>4, <3>1, <3>2 DEF Due
      <4> QED BY <1>3, <4>1, ConcatEmptySeq
    <3>3. CASE Len(driven[e]) = Len(seen[p]) + 1
      <4>1. Due(p) = driven[e][Len(seen[p]) + 1]
        <5>1. Len(driven[e]) - Len(seen[p]) = 1
          BY <2>4, <3>3
        <5> QED BY <1>1, <5>1 DEF Due
      <4>2. Len(driven'[e]) - Len(seen'[p]) = 2 /\ Len(seen'[p]) + 2 = Len(driven[e]) + 1
        BY <2>1, <2>4, <3>1, <3>3
      <4>3. Due(p)' = driven'[e][Len(seen'[p]) + 1] \o driven'[e][Len(seen'[p]) + 2]
        <5>1. ~(Len(driven'[e]) - Len(seen'[p]) <= 0) /\ Len(driven'[e]) - Len(seen'[p]) # 1
          BY <4>2
        <5> QED BY <1>1, <5>1, Zenon DEF Due
      <4>4. driven'[e][Len(seen'[p]) + 1] = driven[e][Len(seen[p]) + 1]
        BY <2>1, <2>4, <3>1, <3>3
      <4>5. driven'[e][Len(seen'[p]) + 2] = batch
        BY <3>1, <4>2
      <4> QED BY <4>1, <4>3, <4>4, <4>5
    <3> QED BY <2>4, <3>2, <3>3
  <2>6. Due(p)' = in[p] \o (wire[p] \o batch)
    <3>1. wire[p] \o <<>> = wire[p]
      BY <2>3, ConcatEmptySeq
    <3>2. (in[p] \o wire[p]) \o batch = in[p] \o (wire[p] \o batch)
      BY <1>3, <2>3, Joined, Zenon
    <3>3. Due(p)' = (in[p] \o wire[p]) \o batch
      BY <2>2, <2>5, <3>1, Zenon
    <3> QED BY <3>2, <3>3, Zenon
  <2> QED BY <1>1, <1>3, <2>1, <2>6 DEF Kept
<1> QED BY <1>1, <1>4, <1>5, <1>6, <1>7 DEF Inv

\* A write moves bytes from the batch to the buffer, in their order.
LEMMA WroteInv ==
    ASSUME Inv, NEW e \in Ends, open[e], at[e] = "sending",
           NEW n \in 1 .. Len(out[e]), Wrote(e, n)
    PROVE  Inv'
<1> DEFINE p == Peer(e)
<1>1. p \in Ends /\ p # e /\ Peer(p) = e /\ \A x \in Ends : x # e => x = p
  BY PeerFacts
<1>2. LinkTypeOK /\ InStep(e) /\ InStep(p) /\ Kept(e) /\ Kept(p)
  BY <1>1 DEF Inv
<1> DEFINE some == SubSeq(out[e], 1, n)
           left == SubSeq(out[e], n + 1, Len(out[e]))
<1>3. /\ out[e] \in Seq(Byte) /\ wire[p] \in Seq(Byte) /\ in[p] \in Seq(Byte)
      /\ n \in 0 .. Len(out[e]) /\ Len(out[e]) \in Nat
  BY <1>1, <1>2 DEF LinkTypeOK
<1>4. some \in Seq(Byte) /\ left \in Seq(Byte) /\ out[e] = some \o left
  BY <1>3, Cut
<1>5. n = Len(out[e]) => left = <<>>
  BY <1>3, SubSeqEmpty
<1>6. wire[p] \o some \in Seq(Byte)
  BY <1>3, <1>4, ConcatProperties
<1>7. /\ out' = [out EXCEPT ![e] = left]
      /\ at' = [at EXCEPT ![e] = IF n = Len(out[e]) THEN "receiving" ELSE @]
      /\ wire' = IF open[p] THEN [wire EXCEPT ![p] = @ \o some] ELSE wire
      /\ UNCHANGED <<in, failed, open, driven, seen>>
  BY DEF Wrote
<1> HIDE DEF some, left
<1>8. LinkTypeOK'
  <2>1. at' \in [Ends -> {"outside", "sending", "receiving"}] /\ out' \in [Ends -> Seq(Byte)]
    BY <1>2, <1>4, <1>7 DEF LinkTypeOK
  <2>2. wire' \in [Ends -> Seq(Byte)]
    BY <1>1, <1>2, <1>6, <1>7 DEF LinkTypeOK
  <2> QED BY <1>2, <1>7, <2>1, <2>2 DEF LinkTypeOK
<1>9. InStep(e)' /\ InStep(p)'
  BY <1>1, <1>2, <1>7 DEF LinkTypeOK, InStep, Busy
<1>10. Kept(e)'
  <2>1. wire'[e] = wire[e] /\ out'[p] = out[p] /\ at'[p] = at[p]
    BY <1>1, <1>2, <1>7 DEF LinkTypeOK
  <2> QED BY <1>1, <1>2, <1>7, <2>1, KeptUnmoved
<1>11. Kept(p)'
  <2> SUFFICES ASSUME open[p], ~failed[p] PROVE Kept(p)'
    BY <1>7 DEF Kept
  <2>1. /\ wire'[p] = wire[p] \o some /\ out'[e] = left /\ in' = in
        /\ at'[e] = (IF n = Len(out[e]) THEN "receiving" ELSE "sending")
    BY <1>1, <1>2, <1>7 DEF LinkTypeOK
  <2>2. Due(p)' = Due(p)
    BY <1>7 DEF Due
  <2>3. Due(p) = in[p] \o (wire[p] \o (some \o left))
    BY <1>1, <1>2, <1>4 DEF Kept
  <2>4. Due(p)' = in'[p] \o (wire'[p] \o left)
    <3>1. (wire[p] \o some) \o left = wire[p] \o (some \o left)
      BY <1>3, <1>4, Joined, ZenonT(30)
    <3>2. Due(p)' = in[p] \o ((wire[p] \o some) \o left)
      BY <2>2, <2>3, <3>1, Zenon
    <3> QED BY <2>1, <3>2, Zenon
  <2> QED BY <1>1, <1>4, <1>5, <2>1, <2>4 DEF Kept
<1> QED BY <1>1, <1>8, <1>9, <1>10, <1>11 DEF Inv

\* A whole batch read is the oldest that was due.
LEMMA Given ==
    ASSUME Inv, NEW e \in Ends, Busy(e), NEW bytes \in Seq(Byte), NEW more \in Seq(Byte),
           Len(bytes) = Bits, Due(e) = bytes \o more
    PROVE  /\ Len(seen[e]) + 1 <= Len(driven[Peer(e)])
           /\ bytes = driven[Peer(e)][Len(seen[e]) + 1]
           /\ more = IF Len(driven[Peer(e)]) = Len(seen[e]) + 1 THEN <<>>
                     ELSE driven[Peer(e)][Len(seen[e]) + 2]
<1> DEFINE p == Peer(e)
           s == Len(seen[e])
           d == Len(driven[p])
<1>1. p \in Ends /\ Peer(p) = e /\ Bits \in Nat /\ Bits >= 1
  BY PeerFacts, BatchFacts
<1>2. s \in Nat /\ d \in Nat /\ driven[p] \in Seq(Batches)
  BY <1>1 DEF Inv, LinkTypeOK
<1>3. d <= s + 2
  <2>1. /\ Len(driven[p]) <= Len(seen[p]) + 1 /\ Len(seen[p]) <= Len(driven[e])
        /\ Len(driven[e]) = s + 1
    BY <1>1, PeerFacts DEF Inv, LinkTypeOK, InStep, Busy
  <2>2. Len(seen[p]) \in Nat /\ Len(driven[e]) \in Nat
    BY <1>1 DEF Inv, LinkTypeOK
  <2> QED BY <1>2, <2>1, <2>2
<1>4. Len(bytes \o more) >= Bits
  BY <1>1, ConcatProperties, LenProperties
<1>5. d >= s + 1
  <2> SUFFICES ASSUME d <= s PROVE FALSE
    BY <1>2
  <2>1. Due(e) = <<>>
    <3>1. d - s <= 0
      BY <1>2
    <3> QED BY <3>1 DEF Due
  <2>2. Len(bytes \o more) = 0
    BY <2>1
  <2> QED BY <1>1, <1>4, <2>2
<1>6. driven[p][s + 1] \in Batches /\ (d = s + 2 => driven[p][s + 2] \in Batches)
  BY <1>2, <1>5, ElementOfSeq
<1>7. driven[p][s + 1] \in Seq(Byte) /\ Len(driven[p][s + 1]) = Bits
  BY <1>6, BatchFacts
<1>8. CASE d = s + 1
  <2>1. Due(e) = driven[p][s + 1]
    <3>1. d - s = 1
      BY <1>2, <1>8
    <3> QED BY <3>1 DEF Due
  <2>2. bytes \o more = driven[p][s + 1] \o <<>> /\ <<>> \in Seq(Byte)
    BY <1>7, <2>1, ConcatEmptySeq, EmptySeq
  <2>3. bytes = driven[p][s + 1] /\ more = <<>>
    BY <1>7, <2>2, SameCut, Zenon
  <2> QED BY <1>5, <1>8, <2>3
<1>9. CASE d = s + 2
  <2>1. Due(e) = driven[p][s + 1] \o driven[p][s + 2]
    <3>1. ~(d - s <= 0) /\ d - s # 1
      BY <1>2, <1>9
    <3> QED BY <3>1 DEF Due
  <2>2. driven[p][s + 2] \in Seq(Byte)
    BY <1>6, <1>9, BatchFacts
  <2>3. bytes = driven[p][s + 1] /\ more = driven[p][s + 2]
    <3>1. bytes \o more = driven[p][s + 1] \o driven[p][s + 2]
      BY <2>1, Zenon
    <3>2. Len(bytes) = Len(driven[p][s + 1])
      BY <1>7
    <3>3. \A x, y \in Seq(Byte) : bytes \o more = x \o y /\ Len(bytes) = Len(x)
                                   => bytes = x /\ more = y
      BY SameCut, Zenon
    <3> QED BY <1>7, <2>2, <3>1, <3>2, <3>3, Zenon
  <2>4. s + 1 <= d /\ d # s + 1
    BY <1>2, <1>9
  <2> QED BY <2>3, <2>4, Zenon
<1>10. d = s + 1 \/ d = s + 2
  <2>1. \A i, j \in Nat : j <= i + 2 /\ j >= i + 1 => j = i + 1 \/ j = i + 2
    OBVIOUS
  <2> QED BY <1>2, <1>3, <1>5, <2>1, Zenon
<1> QED BY <1>8, <1>9, <1>10

\* A read takes bytes from the buffer, in their order; the one that completes
\* the batch hands it over or fails the link.
LEMMA ReadGives ==
    ASSUME Inv, NEW e \in Ends, open[e], at[e] = "receiving",
           NEW n \in 1 .. Fewest(Len(wire[e]), Bits - Len(in[e])), Read(e, n)
    PROVE  \E bytes, left, rest \in Seq(Byte) :
             /\ Due(e) = bytes \o (left \o rest)
             /\ open[Peer(e)] => rest = out[Peer(e)]
             /\ wire' = [wire EXCEPT ![e] = left]
             /\ UNCHANGED <<out, open, driven>>
             /\ \/ /\ in' = [in EXCEPT ![e] = bytes]
                   /\ UNCHANGED <<at, seen, failed>>
                \/ /\ Len(bytes) = Bits
                   /\ in' = [in EXCEPT ![e] = <<>>] /\ at' = [at EXCEPT ![e] = "outside"]
                   /\ \/ /\ \A i \in DOMAIN bytes : bytes[i] < 4
                         /\ seen' = [seen EXCEPT ![e] = Append(@, bytes)] /\ failed' = failed
                      \/ seen' = seen /\ failed' = [failed EXCEPT ![e] = TRUE]
<1>1. LinkTypeOK /\ InStep(e) /\ Kept(e) /\ ~failed[e]
  BY DEF Inv, InStep, Busy
<1>2. PICK rest \in Seq(Byte) : /\ Due(e) = in[e] \o (wire[e] \o rest)
                                /\ open[Peer(e)] => rest = out[Peer(e)]
  BY <1>1 DEF Kept
<1> DEFINE chunk == SubSeq(wire[e], 1, n)
           left == SubSeq(wire[e], n + 1, Len(wire[e]))
           bytes == in[e] \o chunk
<1>3. wire[e] \in Seq(Byte) /\ in[e] \in Seq(Byte)
  BY <1>1 DEF LinkTypeOK
<1>4. n \in 0 .. Len(wire[e])
  <2>1. Len(wire[e]) \in Nat /\ Len(in[e]) \in Nat /\ Bits \in Nat
    BY <1>3, BatchFacts, LenProperties
  <2> QED BY <2>1 DEF Fewest
<1>5. wire[e] = chunk \o left
  BY <1>3, <1>4, Cut
<1>6. chunk \in Seq(Byte) /\ left \in Seq(Byte)
  BY <1>3, <1>4, Cut
<1>7. /\ wire' = [wire EXCEPT ![e] = left]
      /\ in' = [in EXCEPT ![e] = IF Len(bytes) = Bits THEN <<>> ELSE bytes]
      /\ at' = [at EXCEPT ![e] = IF Len(bytes) = Bits THEN "outside" ELSE @]
      /\ seen' = [seen EXCEPT ![e] = IF Len(bytes) = Bits /\ \A i \in DOMAIN bytes : bytes[i] < 4
                                     THEN Append(@, bytes) ELSE @]
      /\ failed' = [failed EXCEPT ![e] = Len(bytes) = Bits /\ ~\A i \in DOMAIN bytes : bytes[i] < 4]
      /\ UNCHANGED <<out, open, driven>>
  BY Zenon DEF Read, Finished
<1> HIDE DEF chunk, left
<1>8. bytes \in Seq(Byte) /\ Due(e) = bytes \o (left \o rest)
  <2>1. bytes \in Seq(Byte) /\ left \o rest \in Seq(Byte)
    BY <1>2, <1>3, <1>6, Joined, Zenon
  <2>2. (chunk \o left) \o rest = chunk \o (left \o rest)
    BY <1>2, <1>6, Joined, SMTT(30)
  <2>3. Due(e) = in[e] \o (chunk \o (left \o rest))
    BY <1>2, <1>5, <2>2, Zenon
  <2>4. \A more \in Seq(Byte) : (in[e] \o chunk) \o more = in[e] \o (chunk \o more)
    BY <1>3, <1>6, Joined, ZenonT(60)
  <2> QED BY <2>1, <2>3, <2>4, Zenon
<1> HIDE DEF bytes
<1>9. CASE Len(bytes) # Bits
  BY <1>1, <1>2, <1>6, <1>7, <1>8, <1>9 DEF LinkTypeOK
<1>10. CASE Len(bytes) = Bits /\ \A i \in DOMAIN bytes : bytes[i] < 4
  BY <1>1, <1>2, <1>6, <1>7, <1>8, <1>10 DEF LinkTypeOK
<1>11. CASE Len(bytes) = Bits /\ ~\A i \in DOMAIN bytes : bytes[i] < 4
  BY <1>1, <1>2, <1>6, <1>7, <1>8, <1>11 DEF LinkTypeOK
<1> QED BY <1>9, <1>10, <1>11

\* A read keeps what is due whole, and the batch it completes is no longer due.
LEMMA ReadInv ==
    ASSUME Inv, NEW e \in Ends, open[e], at[e] = "receiving",
           NEW n \in 1 .. Fewest(Len(wire[e]), Bits - Len(in[e])), Read(e, n)
    PROVE  Inv'
<1> DEFINE p == Peer(e)
<1>1. p \in Ends /\ p # e /\ Peer(p) = e /\ \A x \in Ends : x # e => x = p
  BY PeerFacts
<1>2. LinkTypeOK /\ InStep(e) /\ InStep(p) /\ Kept(e) /\ Kept(p) /\ Busy(e) /\ ~failed[e]
  BY <1>1 DEF Inv, InStep, Busy
<1>3. PICK bytes, left, rest \in Seq(Byte) :
        /\ Due(e) = bytes \o (left \o rest)
        /\ open[p] => rest = out[p]
        /\ wire' = [wire EXCEPT ![e] = left]
        /\ UNCHANGED <<out, open, driven>>
        /\ \/ /\ in' = [in EXCEPT ![e] = bytes]
              /\ UNCHANGED <<at, seen, failed>>
           \/ /\ Len(bytes) = Bits
              /\ in' = [in EXCEPT ![e] = <<>>] /\ at' = [at EXCEPT ![e] = "outside"]
              /\ \/ /\ \A i \in DOMAIN bytes : bytes[i] < 4
                    /\ seen' = [seen EXCEPT ![e] = Append(@, bytes)] /\ failed' = failed
                 \/ seen' = seen /\ failed' = [failed EXCEPT ![e] = TRUE]
  BY ReadGives
<1>4. <<>> \in Seq(Byte) /\ left \o rest \in Seq(Byte)
  BY <1>3, EmptySeq, ConcatProperties
<1>5. Kept(p)'
  <2>1. /\ in'[p] = in[p] /\ wire'[p] = wire[p] /\ seen'[p] = seen[p] /\ failed'[p] = failed[p]
        /\ at[e] # "sending" /\ UNCHANGED <<out, open, driven>>
    BY <1>1, <1>2, <1>3 DEF LinkTypeOK
  <2> QED BY <1>1, <1>2, <2>1, KeptUnmoved
<1>6. CASE in' = [in EXCEPT ![e] = bytes] /\ UNCHANGED <<at, seen, failed>>
  <2>1. LinkTypeOK'
    BY <1>2, <1>3, <1>6 DEF LinkTypeOK
  <2>2. InStep(e)' /\ InStep(p)'
    BY <1>1, <1>2, <1>3, <1>6 DEF InStep, Busy
  <2>3. Due(e)' = Due(e) /\ in'[e] = bytes /\ wire'[e] = left /\ open' = open
    BY <1>2, <1>3, <1>6 DEF Due, LinkTypeOK
  <2>4. Kept(e)'
    BY <1>2, <1>3, <1>6, <2>3 DEF Kept
  <2> QED BY <1>1, <1>5, <2>1, <2>2, <2>4 DEF Inv
<1>7. ASSUME Len(bytes) = Bits, in' = [in EXCEPT ![e] = <<>>], at' = [at EXCEPT ![e] = "outside"],
             seen' = seen, failed' = [failed EXCEPT ![e] = TRUE]
      PROVE  Inv'
  <2>1. LinkTypeOK'
    BY <1>2, <1>3, <1>4, <1>7 DEF LinkTypeOK
  <2>2. InStep(e)' /\ InStep(p)'
    BY <1>1, <1>2, <1>3, <1>7 DEF InStep, Busy, LinkTypeOK
  <2>3. Kept(e)'
    BY <1>2, <1>7 DEF Kept, LinkTypeOK
  <2> QED BY <1>1, <1>5, <2>1, <2>2, <2>3 DEF Inv
<1>8. ASSUME Len(bytes) = Bits, in' = [in EXCEPT ![e] = <<>>], at' = [at EXCEPT ![e] = "outside"],
             seen' = [seen EXCEPT ![e] = Append(@, bytes)], failed' = failed
      PROVE  Inv'
  <2>1. /\ Len(seen[e]) + 1 <= Len(driven[p])
        /\ left \o rest = IF Len(driven[p]) = Len(seen[e]) + 1 THEN <<>>
                          ELSE driven[p][Len(seen[e]) + 2]
    <3>1. ASSUME NEW more \in Seq(Byte), Due(e) = bytes \o more
          PROVE  /\ Len(seen[e]) + 1 <= Len(driven[p])
                 /\ more = IF Len(driven[p]) = Len(seen[e]) + 1 THEN <<>>
                           ELSE driven[p][Len(seen[e]) + 2]
      BY <1>2, <1>8, <3>1, Given
    <3> QED BY <1>3, <1>4, <3>1, Zenon
  <2>2. /\ seen[e] \in Seq(Seq(Byte)) /\ Len(seen[e]) \in Nat /\ Len(driven[p]) \in Nat
        /\ seen'[e] = Append(seen[e], bytes) /\ seen'[p] = seen[p]
        /\ Len(seen'[e]) = Len(seen[e]) + 1
    <3>1. seen[e] \in Seq(Seq(Byte)) /\ driven[p] \in Seq(Batches)
      BY <1>1, <1>2 DEF LinkTypeOK
    <3>2. seen'[e] = Append(seen[e], bytes) /\ seen'[p] = seen[p]
      BY <1>1, <1>2, <1>8 DEF LinkTypeOK
    <3>3. Len(Append(seen[e], bytes)) = Len(seen[e]) + 1
      BY <1>3, <3>1, AppendProperties
    <3> QED BY <3>1, <3>2, <3>3, LenProperties
  <2>3. LinkTypeOK'
    <3>1. seen' \in [Ends -> Seq(Seq(Byte))]
      <4>1. Append(seen[e], bytes) \in Seq(Seq(Byte))
        BY <1>3, <2>2, AppendProperties
      <4> QED BY <1>2, <1>8, <4>1 DEF LinkTypeOK
    <3> QED BY <1>2, <1>3, <1>4, <1>8, <3>1 DEF LinkTypeOK
  <2>4. InStep(e)'
    <3>1. /\ Len(driven'[e]) = Len(seen'[e]) /\ ~Busy(e)' /\ ~failed'[e]
          /\ Len(seen'[e]) <= Len(driven'[p])
      <4>1. at'[e] = "outside" /\ failed' = failed /\ driven' = driven
        BY <1>2, <1>3, <1>8 DEF LinkTypeOK
      <4>2. Len(driven[e]) = Len(seen[e]) + 1
        BY <1>2 DEF InStep
      <4> QED BY <1>2, <2>1, <2>2, <4>1, <4>2 DEF Busy
    <3>2. Len(seen'[e]) \in Nat
      BY <2>2
    <3>3. (IF Busy(e)' \/ failed'[e] THEN 1 ELSE 0) = 0
      BY <3>1, Zenon
    <3>4. Len(seen'[e]) = Len(seen'[e]) + 0
      BY <3>2
    <3> QED BY <3>1, <3>3, <3>4, Zenon DEF InStep
  <2>5. InStep(p)'
    BY <1>1, <1>2, <1>3, <1>8, <2>2 DEF InStep, Busy, LinkTypeOK
  <2>6. Due(e)' = left \o rest
    <3>1. CASE Len(driven[p]) = Len(seen[e]) + 1
      <4>1. Len(driven'[p]) - Len(seen'[e]) <= 0
        BY <1>3, <2>2, <3>1
      <4> QED BY <2>1, <3>1, <4>1 DEF Due
    <3>2. CASE Len(driven[p]) = Len(seen[e]) + 2
      <4>1. Len(driven'[p]) - Len(seen'[e]) = 1
        BY <1>3, <2>2, <3>2
      <4>2. Due(e)' = driven'[p][Len(seen'[e]) + 1]
        BY <4>1 DEF Due
      <4>3. driven'[p][Len(seen'[e]) + 1] = driven[p][Len(seen[e]) + 2]
        BY <1>3, <2>2
      <4>4. Len(driven[p]) # Len(seen[e]) + 1
        BY <2>2, <3>2
      <4> QED BY <2>1, <4>2, <4>3, <4>4, Zenon
    <3>3. Len(driven[p]) <= Len(seen[e]) + 2
      <4>1. /\ Len(driven[p]) <= Len(seen[p]) + 1 /\ Len(seen[p]) <= Len(driven[e])
            /\ Len(driven[e]) = Len(seen[e]) + 1
        BY <1>1, <1>2 DEF LinkTypeOK, InStep
      <4>2. Len(seen[p]) \in Nat /\ Len(driven[e]) \in Nat
        BY <1>1, <1>2 DEF LinkTypeOK
      <4> QED BY <2>2, <4>1, <4>2
    <3>4. Len(driven[p]) = Len(seen[e]) + 1 \/ Len(driven[p]) = Len(seen[e]) + 2
      BY <2>1, <2>2, <3>3, OneOrTwo
    <3> QED BY <3>1, <3>2, <3>4
  <2>7. Kept(e)'
    <3>1. Due(e)' = <<>> \o (left \o rest)
      BY <1>4, <2>6, ConcatEmptySeq
    <3>2. in'[e] = <<>> /\ wire'[e] = left /\ at'[p] = at[p] /\ open' = open /\ out' = out
      BY <1>1, <1>2, <1>3, <1>8 DEF LinkTypeOK
    <3> QED BY <1>2, <1>3, <1>8, <3>1, <3>2 DEF Kept
  <2> QED BY <1>1, <1>5, <2>3, <2>4, <2>5, <2>7 DEF Inv
<1> QED BY <1>3, <1>6, <1>7, <1>8

\* A link fails when the other end is gone, or with nothing left to write.
LEMMA FailInv ==
    ASSUME Inv, NEW e \in Ends, Busy(e), at[e] # "sending" \/ ~open[Peer(e)], Fail(e)
    PROVE  Inv'
<1> DEFINE p == Peer(e)
<1>1. p \in Ends /\ p # e /\ Peer(p) = e /\ \A x \in Ends : x # e => x = p
  BY PeerFacts
<1>2. LinkTypeOK /\ InStep(e) /\ InStep(p) /\ Kept(e) /\ Kept(p)
  BY <1>1 DEF Inv
<1>3. LinkTypeOK'
  BY <1>2 DEF LinkTypeOK, Fail
<1>4. InStep(e)' /\ InStep(p)'
  BY <1>1, <1>2 DEF LinkTypeOK, InStep, Fail, Busy
<1>5. Kept(e)'
  BY <1>2 DEF LinkTypeOK, Kept, Fail
<1>6. Kept(p)'
  <2>1. CASE at[e] # "sending"
    BY <1>1, <1>2, <2>1, KeptUnmoved DEF LinkTypeOK, Fail
  <2>2. CASE ~open[p]
    BY <2>2 DEF Kept, Fail
  <2> QED BY <2>1, <2>2
<1> QED BY <1>1, <1>3, <1>4, <1>5, <1>6 DEF Inv

\* An end that goes away leaves a part of what it wrote, the earlier part.
LEMMA CloseInv ==
    ASSUME Inv, NEW e \in Ends, Close(e)
    PROVE  Inv'
<1> DEFINE p == Peer(e)
<1>1. p \in Ends /\ p # e /\ Peer(p) = e /\ \A x \in Ends : x # e => x = p
  BY PeerFacts
<1>2. LinkTypeOK /\ InStep(e) /\ InStep(p) /\ Kept(e) /\ Kept(p)
  BY <1>1 DEF Inv
<1>3. PICK kept \in 0 .. Len(wire[p]) :
        wire' = [wire EXCEPT ![e] = <<>>, ![p] = SubSeq(wire[p], 1, kept)]
  BY <1>1, <1>2 DEF Close, LinkTypeOK
<1> DEFINE some == SubSeq(wire[p], 1, kept)
           lost == SubSeq(wire[p], kept + 1, Len(wire[p]))
<1>4. wire[p] \in Seq(Byte)
  BY <1>1, <1>2 DEF LinkTypeOK
<1>5. some \in Seq(Byte) /\ lost \in Seq(Byte) /\ wire[p] = some \o lost
  BY <1>4, Cut
<1>6. /\ wire' = [wire EXCEPT ![e] = <<>>, ![p] = some] /\ open' = [open EXCEPT ![e] = FALSE]
      /\ UNCHANGED <<at, out, in, failed, driven, seen>>
  BY <1>3 DEF Close
<1> HIDE DEF some, lost
<1>7. LinkTypeOK'
  BY <1>2, <1>5, <1>6, EmptySeq DEF LinkTypeOK
<1>8. InStep(e)' /\ InStep(p)'
  BY <1>2, <1>6 DEF InStep, Busy
<1>9. Kept(e)'
  BY <1>2, <1>6 DEF LinkTypeOK, Kept
<1>10. Kept(p)'
  <2> SUFFICES ASSUME open[p], ~failed[p] PROVE Kept(p)'
    BY <1>1, <1>2, <1>6 DEF LinkTypeOK, Kept
  <2>1. PICK rest \in Seq(Byte) : Due(p) = in[p] \o (wire[p] \o rest)
    BY <1>2 DEF Kept
  <2>2. Due(p)' = Due(p) /\ in'[p] = in[p] /\ wire'[p] = some /\ ~open'[e] /\ at' = at /\ out' = out
    BY <1>1, <1>2, <1>6 DEF LinkTypeOK, Due
  <2>3. (some \o lost) \o rest = some \o (lost \o rest) /\ lost \o rest \in Seq(Byte)
    BY <1>5, <2>1, Joined
  <2>4. Due(p)' = in'[p] \o (wire'[p] \o (lost \o rest))
    BY <1>5, <2>1, <2>2, <2>3, Zenon
  <2>5. at[e] # "sending" => out[e] = <<>>
    BY <1>1, <1>2 DEF Kept
  <2> QED BY <1>1, <2>2, <2>3, <2>4, <2>5 DEF Kept
<1> QED BY <1>1, <1>7, <1>8, <1>9, <1>10 DEF Inv

\* Every step of the link keeps each driven byte in its one place, until it is
\* given or its end goes away (write_all, read_all).
THEOREM StepInv == Inv /\ [LinkNext]_linkVars => Inv'
<1> SUFFICES ASSUME Inv, [LinkNext]_linkVars PROVE Inv'
  OBVIOUS
<1>1. ASSUME NEW e \in Ends, NEW batch \in Batches, Exchange(e, batch) PROVE Inv'
  BY <1>1, ExchangeInv
<1>2. ASSUME NEW e \in Ends, SendSome(e) PROVE Inv'
  <2>1. ASSUME NEW n \in 1 .. Len(out[e]), Wrote(e, n) PROVE Inv'
    BY <1>2, <2>1, WroteInv DEF SendSome
  <2>2. ASSUME ~open[Peer(e)], Fail(e) PROVE Inv'
    BY <1>2, <2>2, FailInv DEF SendSome, Busy
  <2> QED BY <1>2, <2>1, <2>2 DEF SendSome
<1>3. ASSUME NEW e \in Ends, ReceiveSome(e) PROVE Inv'
  <2>1. ASSUME NEW n \in 1 .. Fewest(Len(wire[e]), Bits - Len(in[e])), Read(e, n) PROVE Inv'
    BY <1>3, <2>1, ReadInv DEF ReceiveSome
  <2>2. ASSUME Fail(e) PROVE Inv'
    BY <1>3, <2>2, FailInv DEF ReceiveSome, Busy
  <2> QED BY <1>3, <2>1, <2>2 DEF ReceiveSome
<1>4. ASSUME NEW e \in Ends, Close(e) PROVE Inv'
  BY <1>4, CloseInv
<1>5. CASE UNCHANGED linkVars
  BY <1>5 DEF linkVars, Inv, LinkTypeOK, InStep, Kept, Due, Busy
<1> QED BY <1>1, <1>2, <1>3, <1>4, <1>5 DEF LinkNext

-----------------------------------------------------------------------------
\* What the cable shows of the link's state.
cable == <<driven, seen, [e \in Ends |-> ~failed[e]]>>

\* The cable's other end is the link's.
LEMMA WirePeer == \A e \in Ends : Wire!OtherEnd(e) = Peer(e)
BY DEF Wire!OtherEnd, Peer

\* Each step of ap_ring_link_exchange is the cable's, or moves bytes and changes
\* nothing the cable shows.
THEOREM StepIsWire == Inv /\ [LinkNext]_linkVars => [Wire!Next]_cable
<1> SUFFICES ASSUME Inv, [LinkNext]_linkVars PROVE [Wire!Next]_cable
  OBVIOUS
<1>1. ASSUME NEW e \in Ends, NEW batch \in Batches, Exchange(e, batch)
      PROVE  Wire!Next
  <2>1. Len(driven[e]) = Len(seen[e]) /\ driven[e] \in Seq(Batches)
    BY <1>1 DEF Inv, InStep, LinkTypeOK, Exchange, Busy
  <2>2. driven'[e] = Append(driven[e], batch)
    BY <1>1 DEF Inv, LinkTypeOK, Exchange
  <2>3. driven'[e] # driven[e] /\ driven'[e][Len(driven'[e])] = batch
    BY <2>1, <2>2
  <2>4. Wire!Drive(e, batch)
    BY <1>1, <2>1 DEF Wire!Drive, Exchange
  <2> QED BY <2>3, <2>4 DEF Wire!Next
<1>2. ASSUME NEW e \in Ends, ~failed[e], Fail(e) PROVE Wire!Next
  <2>1. Wire!Fail(e)
    BY <1>2 DEF Wire!Fail, Fail, Inv, LinkTypeOK
  <2> QED BY <2>1 DEF Wire!Next
<1>3. ASSUME NEW e \in Ends, SendSome(e) PROVE [Wire!Next]_cable
  <2>1. ASSUME NEW n \in 1 .. Len(out[e]), Wrote(e, n) PROVE UNCHANGED cable
    BY <2>1 DEF Wrote, cable
  <2>2. ~failed[e]
    BY <1>3 DEF SendSome, Inv, InStep, Busy
  <2> QED BY <1>2, <1>3, <2>1, <2>2 DEF SendSome
<1>4. ASSUME NEW e \in Ends, ReceiveSome(e) PROVE [Wire!Next]_cable
  <2> DEFINE p == Peer(e)
  <2>1. ~failed[e] /\ Busy(e) /\ open[e] /\ at[e] = "receiving" /\ p \in Ends
    BY <1>4, PeerFacts DEF ReceiveSome, Inv, InStep, Busy
  <2>2. ASSUME NEW n \in 1 .. Fewest(Len(wire[e]), Bits - Len(in[e])), Read(e, n)
        PROVE  [Wire!Next]_cable
    <3>1. PICK bytes, left, rest \in Seq(Byte) :
            /\ Due(e) = bytes \o (left \o rest)
            /\ open[p] => rest = out[p]
            /\ wire' = [wire EXCEPT ![e] = left]
            /\ UNCHANGED <<out, open, driven>>
            /\ \/ /\ in' = [in EXCEPT ![e] = bytes]
                  /\ UNCHANGED <<at, seen, failed>>
               \/ /\ Len(bytes) = Bits
                  /\ in' = [in EXCEPT ![e] = <<>>] /\ at' = [at EXCEPT ![e] = "outside"]
                  /\ \/ /\ \A i \in DOMAIN bytes : bytes[i] < 4
                        /\ seen' = [seen EXCEPT ![e] = Append(@, bytes)] /\ failed' = failed
                     \/ seen' = seen /\ failed' = [failed EXCEPT ![e] = TRUE]
      BY <2>1, <2>2, ReadGives
    <3>2. CASE UNCHANGED <<at, seen, failed>>
      BY <3>1, <3>2 DEF cable
    <3>3. CASE seen' = seen /\ failed' = [failed EXCEPT ![e] = TRUE]
      <4>1. Wire!Fail(e)
        BY <2>1, <3>1, <3>3 DEF Wire!Fail, Inv, LinkTypeOK
      <4> QED BY <4>1 DEF Wire!Next
    <3>4. ASSUME Len(bytes) = Bits, \A i \in DOMAIN bytes : bytes[i] < 4,
                 seen' = [seen EXCEPT ![e] = Append(@, bytes)], failed' = failed
          PROVE  Wire!Next
      <4>1. left \o rest \in Seq(Byte)
        BY <3>1, ConcatProperties
      <4>2. ASSUME NEW more \in Seq(Byte), Due(e) = bytes \o more
            PROVE  /\ Len(seen[e]) + 1 <= Len(driven[p])
                   /\ bytes = driven[p][Len(seen[e]) + 1]
        BY <2>1, <3>4, <4>2, Given
      <4>3. Len(seen[e]) + 1 <= Len(driven[p]) /\ bytes = driven[p][Len(seen[e]) + 1]
        BY <3>1, <4>1, <4>2, Zenon
      <4>4. Len(driven[e]) = Len(seen[e]) + 1
        BY <2>1 DEF Inv, InStep
      <4>5. \A i \in DOMAIN bytes : bytes[i] \in 0 .. 3
        <5>1. ASSUME NEW i \in DOMAIN bytes PROVE bytes[i] \in Nat
          <6>1. bytes \in Seq(Byte)
            BY <3>1
          <6>2. bytes[i] \in Byte
            BY <5>1, <6>1, ElementOfSeq, LenProperties
          <6> QED BY <6>2, BatchFacts
        <5> QED BY <3>4, <5>1
      <4>6. Wire!See(e)
        BY <2>1, <3>1, <3>4, <4>3, <4>4, <4>5, WirePeer, Zenon DEF Wire!See
      <4> QED BY <4>6 DEF Wire!Next
    <3> QED BY <3>1, <3>2, <3>3, <3>4
  <2> QED BY <1>2, <1>4, <2>1, <2>2 DEF ReceiveSome
<1>5. ASSUME NEW e \in Ends, Close(e) PROVE UNCHANGED cable
  BY <1>5 DEF Close, cable
<1>6. CASE UNCHANGED linkVars
  BY <1>6 DEF linkVars, cable
<1> QED BY <1>1, <1>3, <1>4, <1>5, <1>6 DEF LinkNext

\* Two links just initialised are a cable that nothing has been driven on.
LEMMA InitIsWire == LinkInit => Wire!Init
BY DEF LinkInit, Wire!Init

\* The link is a cable: however the kernel cuts the writes and the reads, and
\* wherever an end goes away, an end is given the batches the other drove, whole,
\* in order and in lock-step, and nothing after its link failed (ap_ring_link.c).
THEOREM LinkImplementsCable == LinkSpec => LinkIsACable
<1>1. LinkSpec => []Inv
  BY InitInv, StepInv, PTL DEF LinkSpec
<1>2. Inv /\ [LinkNext]_linkVars => [Wire!Next]_<<driven, seen, [e \in Ends |-> ~failed[e]]>>
  BY StepIsWire DEF cable
<1> QED BY <1>1, <1>2, InitIsWire, PTL DEF LinkSpec, LinkIsACable, Wire!Spec

-----------------------------------------------------------------------------
(* The parts of the stream, spelt out. *)

\* The parts and their kinds.
LEMMA TheParts ==
    /\ DOMAIN Parts = 1 .. 12 /\ Len(Parts) = 12
    /\ Parts[1] = "gap" /\ Parts[2] = "claimed" /\ Parts[3] = "start" /\ Parts[4] = "null"
    /\ Parts[5] = "sep" /\ Parts[6] = "header" /\ Parts[7] = "sep" /\ Parts[8] = "data"
    /\ Parts[9] = "sep" /\ Parts[10] = "check" /\ Parts[11] = "late" /\ Parts[12] = "free"
BY DEF Parts

\* The parts that are characters, and the lengths of all.
Characters == {2, 3, 5, 7, 9, 12}

\* The four kinds of character are the parts named above.
LEMMA WhichAreCharacters ==
    \A part \in 1 .. 12 : IsOob(Parts[part]) <=> part \in Characters
<1> SUFFICES ASSUME NEW part \in 1 .. 12
             PROVE  IsOob(Parts[part]) <=> part \in Characters
  OBVIOUS
<1> HIDE DEF Parts
<1> QED BY TheParts DEF IsOob, Characters

\* The length of each part in bits.
LEMMA Lengths ==
    ASSUME NEW x
    PROVE  /\ PartLength(x, 1) = 1 /\ PartLength(x, 4) = 8
           /\ \A part \in Characters : PartLength(x, part) = 9
           /\ PartLength(x, 6) = 8 * HeaderBytes
           /\ PartLength(x, 8) = 8 * x.dlen
           /\ PartLength(x, 10) = 8 * CheckBytes + 8
           /\ PartLength(x, 11) = 8
<1>1. PartLength(x, 1) = 1
  BY TheParts DEF PartLength, IsOob
<1>2. PartLength(x, 4) = 8
  BY TheParts DEF PartLength, IsOob, NullBits
<1>3. ASSUME NEW part \in Characters PROVE PartLength(x, part) = 9
  BY TheParts DEF PartLength, IsOob, Characters
<1>4. PartLength(x, 6) = 8 * HeaderBytes
  BY TheParts DEF PartLength, IsOob
<1>5. PartLength(x, 8) = 8 * x.dlen
  BY TheParts DEF PartLength, IsOob
<1>6. PartLength(x, 10) = 8 * CheckBytes + 8
  BY TheParts DEF PartLength, IsOob, NullBits
<1>7. PartLength(x, 11) = 8
  BY TheParts DEF PartLength, IsOob
<1> QED BY <1>1, <1>2, <1>3, <1>4, <1>5, <1>6, <1>7

\* The bits of a character: a zero, six ones, two of its own.
LEMMA CharacterBits ==
    ASSUME NEW k \in {"sep", "start", "free", "claimed"}
    PROVE  /\ Oob(k)[1] = 0 /\ \A i \in 2 .. 7 : Oob(k)[i] = 1
           /\ Oob(k)[8] = TypeBits(k)[1] /\ Oob(k)[9] = TypeBits(k)[2]
           /\ TypeBits(k)[1] \in BitValues /\ TypeBits(k)[2] \in BitValues
<1>1. ASSUME NEW x \in BitValues, NEW y \in BitValues
      PROVE  /\ <<x, y>> \in Seq(BitValues) /\ Len(<<x, y>>) = 2
             /\ <<x, y>>[1] = x /\ <<x, y>>[2] = y
  OBVIOUS
<1>2. \E x, y \in BitValues : TypeBits(k) = <<x, y>>
  BY DEF TypeBits, BitValues
<1> DEFINE T == TypeBits(k)
           P == <<0, 1, 1, 1, 1, 1, 1>>
<1>3. T \in Seq(BitValues) /\ Len(T) = 2 /\ T[1] \in BitValues /\ T[2] \in BitValues
  BY <1>1, <1>2
<1>4. /\ P \in Seq(BitValues) /\ Len(P) = 7 /\ P[1] = 0 /\ P[2] = 1 /\ P[3] = 1
      /\ P[4] = 1 /\ P[5] = 1 /\ P[6] = 1 /\ P[7] = 1
  BY DEF BitValues
<1>5. Oob(k) = P \o T
  BY DEF Oob
<1> HIDE DEF P, T
<1> DEFINE C == P \o T
<1>6. \A i \in 1 .. Len(P) + Len(T) : C[i] = IF i <= Len(P) THEN P[i] ELSE T[i - Len(P)]
  BY <1>3, <1>4, ConcatProperties, Zenon
<1> HIDE DEF C
<1>7. \A i \in 1 .. 9 : C[i] = IF i <= 7 THEN P[i] ELSE T[i - 7]
  BY <1>3, <1>4, <1>6
<1>8. C[1] = 0 /\ C[8] = T[1] /\ C[9] = T[2]
  BY <1>4, <1>7
<1>9. ASSUME NEW i \in 2 .. 7 PROVE C[i] = 1
  BY <1>4, <1>7
<1> QED BY <1>3, <1>5, <1>8, <1>9 DEF T, C

-----------------------------------------------------------------------------
(* The window: the last nine bits received. *)

Shift(v, bit) == (2 * v + bit) % 512

\* The window ends in a zero and k ones.
Run(v, k) ==
    \/ k = 0 /\ v % 2 = 0
    \/ k = 1 /\ v % 4 = 1
    \/ k = 2 /\ v % 8 = 3
    \/ k = 3 /\ v % 16 = 7
    \/ k = 4 /\ v % 32 = 15
    \/ k = 5 /\ v % 64 = 31
    \/ k = 6 /\ v % 128 = 63

\* No character's zero and six ones: at the window's end, and a bit before it.
QuietNow(v) == v % 128 # 63
QuietNext(v) == (v \div 2) % 128 # 63

\* A one lengthens the run, a zero ends it.
LEMMA RunGrows ==
    ASSUME NEW v \in 0 .. 511, NEW k \in 0 .. 5, Run(v, k)
    PROVE  Run(Shift(v, 1), k + 1)
BY SMTT(30) DEF Run, Shift

\* A zero ends a run of ones.
LEMMA RunEnds ==
    ASSUME NEW v \in 0 .. 511
    PROVE  Run(Shift(v, 0), 0)
BY DEF Run, Shift

\* Six ones at the end need five before them, and then a one.
LEMMA QuietAfter ==
    ASSUME NEW v \in 0 .. 511, NEW bit \in BitValues, NEW k \in 0 .. 5, Run(v, k),
           k = 5 => bit = 0
    PROVE  QuietNow(Shift(v, bit))
BY DEF Run, Shift, QuietNow, BitValues

\* A zero is no end of a character's six ones.
LEMMA QuietAfterZero ==
    ASSUME NEW v \in 0 .. 511
    PROVE  QuietNow(Shift(v, 0))
BY DEF Shift, QuietNow

\* What the window ends in is a bit further in after the next one.
LEMMA QuietMovesOn ==
    ASSUME NEW v \in 0 .. 511, NEW bit \in BitValues, QuietNow(v)
    PROVE  QuietNext(Shift(v, bit))
BY DEF QuietNext, Shift, QuietNow, BitValues

\* No character is recognised where none was on its way.
LEMMA QuietIsNoSymbol ==
    ASSUME NEW v \in 0 .. 511, NEW bit \in BitValues, QuietNext(v)
    PROVE  Shift(v, bit) \div 4 # 63
BY DEF QuietNext, Shift, BitValues

\* One that was is, with its own two bits.
LEMMA SeventhBit ==
    ASSUME NEW v \in 0 .. 511, NEW t \in BitValues, Run(v, 6)
    PROVE  Shift(v, t) % 256 = 126 + t /\ QuietNow(Shift(v, t))
BY DEF Run, Shift, BitValues, QuietNow

\* The ninth bit makes a frame start, a separator or a free token.
LEMMA NinthBit ==
    ASSUME NEW v \in 0 .. 511
    PROVE  /\ v % 256 = 126 => Shift(v, 1) = 253 /\ Shift(v, 0) = 252
           /\ v % 256 = 127 => Shift(v, 0) = 254
BY DEF Shift

-----------------------------------------------------------------------------
(* The transmitter. *)

\* What a bit of a byte weighs.
Weight(n) == IF n = 0 THEN 128 ELSE IF n = 1 THEN 64 ELSE IF n = 2 THEN 32
             ELSE IF n = 3 THEN 16 ELSE IF n = 4 THEN 8 ELSE IF n = 5 THEN 4
             ELSE IF n = 6 THEN 2 ELSE 1

\* The shift of ap_ring_write_data_bits, without the exponent.
LEMMA Weights ==
    ASSUME NEW n \in 0 .. 7
    PROVE  2^(7 - n) = Weight(n)
<1>1. CASE n = 0  BY <1>1, 7 - n = 7, 2^7 = 128 DEF Weight
<1>2. CASE n = 1  BY <1>2, 7 - n = 6, 2^6 = 64 DEF Weight
<1>3. CASE n = 2  BY <1>3, 7 - n = 5, 2^5 = 32 DEF Weight
<1>4. CASE n = 3  BY <1>4, 7 - n = 4, 2^4 = 16 DEF Weight
<1>5. CASE n = 4  BY <1>5, 7 - n = 3, 2^3 = 8 DEF Weight
<1>6. CASE n = 5  BY <1>6, 7 - n = 2, 2^2 = 4 DEF Weight
<1>7. CASE n = 6  BY <1>7, 7 - n = 1, 2^1 = 2 DEF Weight
<1>8. CASE n = 7  BY <1>8, 7 - n = 0, 2^0 = 1 DEF Weight
<1> QED BY <1>1, <1>2, <1>3, <1>4, <1>5, <1>6, <1>7, <1>8

\* Every part has a length, but for the data of a frame that has none.
LEMMA LengthsPositive ==
    ASSUME NEW x \in Writers, NEW part \in 1 .. 12
    PROVE  /\ PartLength(x, part) \in Nat
           /\ PartLength(x, part) = 0 <=> part = 8 /\ x.dlen = 0
<1>1. x.dlen \in Nat
  BY FrameAssumption DEF Writers
<1>2. HeaderBytes \in Nat \ {0} /\ CheckBytes \in Nat
  BY FrameAssumption
<1> QED BY <1>1, <1>2, Lengths DEF Characters

\* Where the transmitter goes on.
Onward(x) == IF x.part = 12 THEN 1 ELSE IF x.part = 7 /\ x.dlen = 0 THEN 9 ELSE x.part + 1

\* The next part is the next in order, a frame without data skipping it.
LEMMA NextParts ==
    ASSUME NEW x \in Writers
    PROVE  NextPart(x) = Onward(x) /\ NextPart(x) \in 1 .. 12
<1>1. x.part \in 1 .. 12
  BY TheParts DEF Writers
<1> DEFINE after == IF x.part = 12 THEN 1 ELSE x.part + 1
<1>2. after \in 1 .. 12
  BY <1>1
<1>3. PartLength(x, after) = 0 <=> after = 8 /\ x.dlen = 0
  BY <1>2, LengthsPositive
<1>4. NextPart(x) = IF PartLength(x, after) = 0 THEN after + 1 ELSE after
  BY TheParts DEF NextPart
<1> QED BY <1>1, <1>3, <1>4 DEF Onward

\* Whether the part is a character, a field, the header or the data.
LEMMA KindOfPart ==
    ASSUME NEW x \in Writers
    PROVE  /\ x.part \in 1 .. 12
           /\ IsOob(Kind(x)) <=> x.part \in Characters
           /\ Kind(x) = "gap" <=> x.part = 1
           /\ Kind(x) = "start" <=> x.part = 3
           /\ Kind(x) = "null" <=> x.part = 4
           /\ Kind(x) = "header" <=> x.part = 6
           /\ Kind(x) = "data" <=> x.part = 8
           /\ Kind(x) = "check" <=> x.part = 10
           /\ Kind(x) = "sep" <=> x.part \in {5, 7, 9}
<1>1. x.part \in 1 .. 12
  BY TheParts DEF Writers
<1>2. IsOob(Kind(x)) <=> x.part \in Characters
  BY <1>1, WhichAreCharacters DEF Kind
<1> QED BY <1>1, <1>2, TheParts DEF Kind

\* What is written is bytes; zeros outside the fields.
LEMMA BytesWritten ==
    ASSUME NEW x \in Writers
    PROVE  /\ FieldBytes(x) \subseteq 0 .. 255
           /\ x.part \notin {6, 8, 10} =>
                FieldBytes(x) = IF x.pos % 8 # 0 THEN {x.byte} ELSE {0}
<1>1. x.byte \in 0 .. 255 /\ Bytes \subseteq 0 .. 255
  BY FrameAssumption DEF Writers
<1>2. x.part \notin {6, 8, 10} => FieldBytes(x) = IF x.pos % 8 # 0 THEN {x.byte} ELSE {0}
  BY KindOfPart DEF FieldBytes
<1>3. ASSUME Kind(x) = "header" PROVE FieldBytes(x) \subseteq 0 .. 255
  BY <1>1, <1>3 DEF FieldBytes
<1>4. ASSUME Kind(x) = "data" PROVE FieldBytes(x) \subseteq 0 .. 255
  BY <1>1, <1>4 DEF FieldBytes
<1>5. ASSUME Kind(x) = "check" PROVE FieldBytes(x) \subseteq 0 .. 255
  BY <1>1, <1>5 DEF FieldBytes
<1>6. ASSUME Kind(x) \notin {"header", "data", "check"} PROVE FieldBytes(x) \subseteq 0 .. 255
  BY <1>1, <1>2, <1>6, KindOfPart
<1> QED BY <1>2, <1>3, <1>4, <1>5, <1>6

\* The bit that is written.
LEMMA BitsWritten ==
    ASSUME NEW x \in Writers, NEW byte \in 0 .. 255, x.pos < PartLength(x, x.part)
    PROVE  /\ BitOf(x, byte) \in BitValues
           /\ ~IsOob(Kind(x)) => BitOf(x, byte) = (byte \div Weight(x.pos % 8)) % 2
           /\ IsOob(Kind(x)) =>
                BitOf(x, byte) = IF x.pos = 0 THEN 0 ELSE IF x.pos <= 6 THEN 1
                                 ELSE IF x.pos = 7 THEN TypeBits(Kind(x))[1]
                                 ELSE TypeBits(Kind(x))[2]
<1>1. x.pos \in Nat /\ x.pos % 8 \in 0 .. 7
  BY DEF Writers
<1>2. CASE ~IsOob(Kind(x))
  <2>1. BitOf(x, byte) = (byte \div Weight(x.pos % 8)) % 2
    BY <1>1, <1>2, Weights DEF BitOf
  <2>2. Weight(x.pos % 8) \in Nat \ {0}
    BY <1>1 DEF Weight
  <2>3. BitOf(x, byte) \in BitValues
    BY <2>1, <2>2 DEF BitValues
  <2> QED BY <1>2, <2>1, <2>3
<1>3. CASE IsOob(Kind(x))
  <2>1. x.pos \in 0 .. 8
    BY <1>1, <1>3, KindOfPart, Lengths
  <2>2. BitOf(x, byte) = Oob(Kind(x))[x.pos + 1]
    BY <1>3 DEF BitOf
  <2>3. Kind(x) \in {"sep", "start", "free", "claimed"}
    BY <1>3 DEF IsOob
  <2> HIDE DEF BitValues
  <2>4. 0 \in BitValues /\ 1 \in BitValues
    BY DEF BitValues
  <2>5. CASE x.pos = 0
    BY <2>2, <2>3, <2>4, <2>5, <1>3, CharacterBits
  <2>6. CASE x.pos \in 1 .. 6
    <3>1. x.pos + 1 \in 2 .. 7
      BY <2>6
    <3> QED BY <2>2, <2>3, <2>4, <2>6, <3>1, <1>3, CharacterBits
  <2>7. CASE x.pos = 7
    BY <2>2, <2>3, <2>7, <1>3, CharacterBits
  <2>8. CASE x.pos = 8
    BY <2>2, <2>3, <2>8, <1>3, CharacterBits
  <2> QED BY <2>1, <2>5, <2>6, <2>7, <2>8
<1> QED BY <1>2, <1>3

\* The ones in a row once the bit is written.
OnesAfter(x, bit) == IF IsOob(Kind(x)) \/ bit = 0 THEN 0 ELSE x.ones + 1

PartDone(x) == x.pos + 1 = PartLength(x, x.part)

ByteDone(x) == x.part \in {6, 8} /\ x.pos % 8 = 7

\* One bit of the stream, field by field.
LEMMA WriteBitAfter ==
    ASSUME NEW x \in Writers, ~x.stuff, x.ones < 5, x.pos < PartLength(x, x.part),
           NEW byte \in 0 .. 255, NEW d \in DataLengths
    PROVE  LET y == WriteBit(x, byte, d)
               bit == BitOf(x, byte)
           IN  /\ y \in Writers
               /\ y.part = IF PartDone(x) THEN Onward(x) ELSE x.part
               /\ y.pos = IF PartDone(x) THEN 0 ELSE x.pos + 1
               /\ y.ones = OnesAfter(x, bit)
               /\ y.stuff <=> OnesAfter(x, bit) = 5
               /\ y.dlen = IF x.part = 1 THEN d ELSE x.dlen
               /\ y.byte = IF x.pos % 8 = 7 THEN 0 ELSE byte
               /\ y.last = IF ByteDone(x) THEN byte ELSE x.last
               /\ y.count = IF ByteDone(x) THEN x.count + 1
                            ELSE IF x.part = 3 THEN 0 ELSE x.count
<1> DEFINE bit == BitOf(x, byte)
           k == Kind(x)
           field == ~IsOob(k)
           ones == IF bit = 1 THEN x.ones + 1 ELSE 0
           done == x.pos + 1 = PartLength(x, x.part)
           whole == k \in {"header", "data"} /\ x.pos % 8 = 7
           part == IF done THEN NextPart(x) ELSE x.part
           pos == IF done THEN 0 ELSE x.pos + 1
           run == IF field THEN ones ELSE 0
           stuff == field /\ OwesZero(ones)
           left == IF x.pos % 8 = 7 THEN 0 ELSE byte
           final == IF whole THEN byte ELSE x.last
           count == IF whole THEN x.count + 1 ELSE IF k = "start" THEN 0 ELSE x.count
           dlen == IF k = "gap" THEN d ELSE x.dlen
<1>1. WriteBit(x, byte, d) =
        [x EXCEPT !.part = part, !.pos = pos, !.ones = run, !.stuff = stuff, !.byte = left,
                  !.last = final, !.count = count, !.dlen = dlen]
  BY DEF WriteBit
<1>2. bit \in BitValues
  BY BitsWritten
<1>3. part \in DOMAIN Parts /\ part = IF PartDone(x) THEN Onward(x) ELSE x.part
  BY NextParts, TheParts DEF PartDone, Writers
<1>4. pos \in Nat /\ pos = IF PartDone(x) THEN 0 ELSE x.pos + 1
  BY DEF PartDone, Writers
<1>5. run \in 0 .. 5 /\ run = OnesAfter(x, bit)
  BY <1>2 DEF OnesAfter, BitValues, Writers
<1>6. stuff \in BOOLEAN /\ (stuff <=> OnesAfter(x, bit) = 5)
  BY <1>2 DEF OnesAfter, BitValues, Writers, OwesZero, StuffAfterOnes
<1>7. left \in 0 .. 255
  OBVIOUS
<1>8. whole <=> ByteDone(x)
  BY KindOfPart DEF ByteDone
<1>9. final \in 0 .. 255 /\ final = IF ByteDone(x) THEN byte ELSE x.last
  BY <1>8 DEF Writers
<1>10. count \in Nat /\ count = IF ByteDone(x) THEN x.count + 1
                                ELSE IF x.part = 3 THEN 0 ELSE x.count
  BY <1>8, KindOfPart DEF Writers
<1>11. dlen \in DataLengths /\ dlen = IF x.part = 1 THEN d ELSE x.dlen
  BY KindOfPart DEF Writers
<1> HIDE DEF bit, part, pos, run, stuff, left, final, count, dlen
<1>types. /\ part \in DOMAIN Parts /\ pos \in Nat /\ run \in 0 .. 5 /\ stuff \in BOOLEAN
          /\ left \in 0 .. 255 /\ final \in 0 .. 255 /\ count \in Nat /\ dlen \in DataLengths
  BY <1>3, <1>4, <1>5, <1>6, <1>7, <1>9, <1>10, <1>11
<1>12. WriteBit(x, byte, d) \in Writers
  <2> DEFINE D == DOMAIN Parts
             N == Nat
             O == 0 .. 5
             B == 0 .. 255
             T == BOOLEAN
  <2>1. /\ x \in [part : D, pos : N, ones : O, stuff : T, dlen : DataLengths, byte : B,
                  last : B, count : N]
        /\ part \in D /\ pos \in N /\ run \in O /\ stuff \in T /\ left \in B /\ final \in B
        /\ count \in N /\ dlen \in DataLengths
    BY <1>types DEF Writers
  <2> HIDE DEF D, N, O, B, T
  <2>2. [x EXCEPT !.part = part, !.pos = pos, !.ones = run, !.stuff = stuff, !.byte = left,
                  !.last = final, !.count = count, !.dlen = dlen]
          \in [part : D, pos : N, ones : O, stuff : T, dlen : DataLengths, byte : B,
               last : B, count : N]
    BY <2>1, ZenonT(60)
  <2> QED BY <1>1, <2>2 DEF D, N, O, B, T, Writers
<1>13. LET y == WriteBit(x, byte, d)
       IN  /\ y.part = part /\ y.pos = pos /\ y.ones = run /\ y.stuff = stuff
           /\ y.dlen = dlen /\ y.byte = left /\ y.last = final /\ y.count = count
  BY <1>1 DEF Writers
<1> QED BY <1>3, <1>4, <1>5, <1>6, <1>9, <1>10, <1>11, <1>12, <1>13 DEF left, bit

-----------------------------------------------------------------------------
(* The station, one bit at a time, field by field. *)

Fields == {"window", "seen", "rx", "seps", "ones", "byte", "n", "bits", "bytes", "last",
           "overrun", "headerBytes", "mine", "enabled", "addressed", "flipped", "fcs",
           "late", "lateBits", "pending"}

Phases == {"idle", "await", "header", "body", "fcs", "late"}

\* What is known of a station wherever the stream is.
Station(r) == /\ DOMAIN r = Fields /\ r.window \in 0 .. 511 /\ r.seen \in 0 .. 9
              /\ r.rx \in Phases

\* No step but the sampling touches the window.
MacKept(r, s) == /\ DOMAIN s = Fields /\ s.window = r.window /\ s.seen = r.seen
                 /\ s.rx \in Phases

\* The bit enters the window.
Sampled(r, bit) == [Sample(r, bit) EXCEPT !.pending = bit]

\* The bit in the window: nothing else of the station changes.
LEMMA SampledAfter ==
    ASSUME NEW r, Station(r), NEW bit \in BitValues
    PROVE  LET s == Sampled(r, bit)
           IN  /\ Station(s)
               /\ s.window = Shift(r.window, bit)
               /\ s.seen = IF r.seen < 9 THEN r.seen + 1 ELSE 9
               /\ s.rx = r.rx /\ s.seps = r.seps /\ s.ones = r.ones /\ s.byte = r.byte
               /\ s.n = r.n /\ s.bytes = r.bytes /\ s.last = r.last
               /\ s.overrun = r.overrun /\ s.headerBytes = r.headerBytes
               /\ s.fcs = r.fcs /\ s.lateBits = r.lateBits
<1> DEFINE s == Sampled(r, bit)
<1>1. /\ DOMAIN s = Fields
      /\ s.window = Shift(r.window, bit)
      /\ s.seen = IF r.seen < 9 THEN r.seen + 1 ELSE 9
      /\ s.rx = r.rx /\ s.seps = r.seps /\ s.ones = r.ones /\ s.byte = r.byte
      /\ s.n = r.n /\ s.bytes = r.bytes /\ s.last = r.last
      /\ s.overrun = r.overrun /\ s.headerBytes = r.headerBytes
      /\ s.fcs = r.fcs /\ s.lateBits = r.lateBits
  BY DEF Station, Fields, Sampled, Sample, Shift
<1> HIDE DEF s
<1>2. Shift(r.window, bit) \in 0 .. 511
  BY DEF Shift, Station, BitValues
<1>3. Station(s)
  BY <1>1, <1>2 DEF Station
<1> QED BY <1>1, <1>3 DEF s

\* The bit counted: only the run of ones changes.
LEMMA CountOnesAfter ==
    ASSUME NEW r, DOMAIN r = Fields, NEW bit
    PROVE  LET s == CountOnes(r, bit)
           IN  /\ DOMAIN s = Fields
               /\ s.ones = IF bit = 0 THEN 0 ELSE IF r.ones < 5 THEN r.ones + 1 ELSE 5
               /\ s.window = r.window /\ s.seen = r.seen
               /\ s.rx = r.rx /\ s.seps = r.seps /\ s.byte = r.byte
               /\ s.n = r.n /\ s.bytes = r.bytes /\ s.last = r.last
               /\ s.overrun = r.overrun /\ s.headerBytes = r.headerBytes
               /\ s.fcs = r.fcs /\ s.lateBits = r.lateBits
BY DEF CountOnes, Fields

\* The value of a byte one bit on.
Longer(byte, bit) == (2 * byte + bit) % 256

\* A bit assembled: what bytes, n and byte become.
Assembled(r, bit, s) ==
    /\ s.ones = r.ones /\ s.seps = r.seps /\ s.rx = r.rx /\ s.headerBytes = r.headerBytes
    /\ s.fcs = r.fcs /\ s.lateBits = r.lateBits
    /\ r.n < 7 => /\ s.n = r.n + 1 /\ s.byte = Longer(r.byte, bit)
                  /\ s.bytes = r.bytes /\ s.last = r.last /\ s.overrun = r.overrun
    /\ ~(r.n < 7) =>
         /\ s.n = 0 /\ s.byte = 0
         /\ r.bytes < Capacity => /\ s.bytes = r.bytes + 1 /\ s.overrun = r.overrun
                                  /\ s.last = Longer(r.byte, bit)
         /\ ~(r.bytes < Capacity) => /\ s.bytes = r.bytes /\ s.overrun = TRUE
                                     /\ s.last = r.last

\* A bit of data goes into the byte, and the eighth stores it.
LEMMA AssembleAfter ==
    ASSUME NEW r, DOMAIN r = Fields, r.rx \in Phases, NEW bit
    PROVE  MacKept(r, Assemble(r, bit)) /\ Assembled(r, bit, Assemble(r, bit))
<1>1. CASE r.n < 7
  BY <1>1 DEF Assemble, Assembled, MacKept, Longer, Fields
<1>2. CASE ~(r.n < 7) /\ r.bytes < Capacity
  BY <1>2 DEF Assemble, Assembled, MacKept, Longer, Fields
<1>3. CASE ~(r.n < 7) /\ ~(r.bytes < Capacity)
  BY <1>3 DEF Assemble, Assembled, MacKept, Longer, Fields
<1> QED BY <1>1, <1>2, <1>3

\* So does a bit of the header; what it forwards changes nothing here.
LEMMA HeaderBitAfter ==
    ASSUME NEW r, DOMAIN r = Fields, r.rx \in Phases, NEW bit
    PROVE  MacKept(r, HeaderBit(r, bit)) /\ Assembled(r, bit, HeaderBit(r, bit))
<1> DEFINE more == r.bits + 1
           q == [r EXCEPT !.bits = more]
           got == Assemble(q, bit)
<1>1. PICK mine, flipped, pending : HeaderBit(r, bit) =
        [got EXCEPT !.addressed = mine, !.flipped = flipped, !.pending = pending]
  BY DEF HeaderBit
<1> HIDE DEF more
<1>2. /\ DOMAIN q = Fields /\ q.rx = r.rx /\ q.window = r.window /\ q.seen = r.seen
      /\ q.ones = r.ones /\ q.seps = r.seps /\ q.headerBytes = r.headerBytes
      /\ q.fcs = r.fcs /\ q.lateBits = r.lateBits /\ q.n = r.n /\ q.byte = r.byte
      /\ q.bytes = r.bytes /\ q.last = r.last /\ q.overrun = r.overrun
  BY DEF Fields
<1> HIDE DEF q
<1>3. MacKept(q, got) /\ Assembled(q, bit, got)
  BY <1>2, AssembleAfter
<1> HIDE DEF got
<1>4. MacKept(r, got) /\ Assembled(r, bit, got)
  BY <1>2, <1>3 DEF MacKept, Assembled
<1> DEFINE h == HeaderBit(r, bit)
<1>5. /\ DOMAIN h = Fields /\ h.rx = got.rx /\ h.window = got.window /\ h.seen = got.seen
      /\ h.ones = got.ones /\ h.seps = got.seps /\ h.headerBytes = got.headerBytes
      /\ h.fcs = got.fcs /\ h.lateBits = got.lateBits /\ h.n = got.n /\ h.byte = got.byte
      /\ h.bytes = got.bytes /\ h.last = got.last /\ h.overrun = got.overrun
  <2>1. DOMAIN got = Fields
    BY <1>4 DEF MacKept
  <2> QED BY <1>1, <2>1 DEF Fields
<1> HIDE DEF h
<1>6. MacKept(r, h) /\ Assembled(r, bit, h)
  BY <1>4, <1>5 DEF MacKept, Assembled
<1> QED BY <1>6 DEF h

\* What the capture has so far.
SameCapture(r, s) == /\ s.bytes = r.bytes /\ s.last = r.last /\ s.overrun = r.overrun
                     /\ s.headerBytes = r.headerBytes

\* A bit of the frame check is only counted.
LEMMA FcsAfter ==
    ASSUME NEW r, DOMAIN r = Fields, r.rx = "fcs"
    PROVE  LET s == FcsStep(r)
           IN  /\ MacKept(r, s) /\ SameCapture(r, s) /\ s.ones = r.ones
               /\ s.fcs = r.fcs + 1 /\ s.lateBits = r.lateBits /\ s.seps = r.seps
               /\ s.rx = IF r.fcs + 1 >= 8 * CheckBytes + 8 THEN "late" ELSE "fcs"
BY DEF FcsStep, MacKept, SameCapture, Fields, Phases, NullBits

\* A bit of the late acknowledge is counted, and the eighth ends the frame.
LEMMA LateAfter ==
    ASSUME NEW r, DOMAIN r = Fields, r.rx = "late", NEW bit
    PROVE  LET s == LateStep(r, bit)
           IN  /\ MacKept(r, s) /\ SameCapture(r, s) /\ s.ones = r.ones
               /\ s.lateBits = IF r.lateBits < 7 THEN r.lateBits + 1 ELSE 0
               /\ s.rx = IF r.lateBits = 7 THEN "idle" ELSE "late"
<1> DEFINE bitOut == LateBit(r, bit)
<1> HIDE DEF bitOut
<1> QED BY DEF LateStep, MacKept, SameCapture, Fields, Phases, bitOut

\* The characters the station knows.
LEMMA SymbolsAre ==
    ASSUME NEW r
    PROVE  /\ SymbolIs(r, "start") <=> AtSymbol(r) /\ r.window % 4 = 1
           /\ SymbolIs(r, "sep") <=> AtSymbol(r) /\ r.window % 4 = 0
<1>1. 2 * TypeBits("start")[1] + TypeBits("start")[2] = 1
  BY DEF TypeBits
<1>2. 2 * TypeBits("sep")[1] + TypeBits("sep")[2] = 0
  BY DEF TypeBits
<1> QED BY <1>1, <1>2 DEF SymbolIs

\* A frame start leaves what was captured before.
LEMMA FrameStartAfter ==
    ASSUME NEW r, DOMAIN r = Fields
    PROVE  LET s == FrameStart(r)
           IN  MacKept(r, s) /\ SameCapture(r, s) /\ s.rx = "await" /\ s.seps = 0
BY DEF FrameStart, MacKept, SameCapture, Fields, Phases

\* The station counts the separators of a frame.
LEMMA SeparatorAfter ==
    ASSUME NEW r, DOMAIN r = Fields, r.seps \in 0 .. 3
    PROVE  LET s == Separator(r)
           IN  /\ MacKept(r, s)
               /\ r.seps = 0 => /\ s.rx = "header" /\ s.seps = 1 /\ s.ones = 0 /\ s.n = 0
                                /\ s.byte = 0 /\ s.bytes = 0 /\ s.overrun = FALSE
               /\ r.seps = 1 => /\ s.rx = "body" /\ s.seps = 2 /\ s.ones = 0 /\ s.n = 0
                                /\ s.byte = 0 /\ s.headerBytes = r.bytes
                                /\ s.bytes = r.bytes /\ s.last = r.last
                                /\ s.overrun = r.overrun
               /\ r.seps = 2 => /\ s.rx = "fcs" /\ s.seps = 3 /\ s.ones = 0 /\ s.fcs = 0
                                /\ s.lateBits = 0 /\ SameCapture(r, s)
               /\ r.seps = 3 => s.seps = 3
<1> DEFINE s == Separator(r)
<1>1. CASE r.seps = 0
  <2>1. s = [r EXCEPT !.seps = 1, !.rx = "header", !.ones = 0, !.n = 0, !.byte = 0,
                      !.bits = 0, !.bytes = 0, !.headerBytes = 0, !.overrun = FALSE]
    BY <1>1 DEF Separator
  <2> HIDE DEF s
  <2>2. /\ s.rx = "header" /\ s.seps = 1 /\ s.ones = 0 /\ s.n = 0
        /\ s.byte = 0 /\ s.bytes = 0 /\ s.overrun = FALSE
        /\ DOMAIN s = Fields /\ s.window = r.window /\ s.seen = r.seen
    BY <2>1 DEF Fields
  <2> QED BY <1>1, <2>2 DEF s, MacKept, Phases
<1>2. CASE r.seps = 1
  <2>1. s = [r EXCEPT !.seps = 2, !.rx = "body", !.headerBytes = r.bytes,
                      !.ones = 0, !.n = 0, !.byte = 0]
    BY <1>2 DEF Separator
  <2> HIDE DEF s
  <2>2. /\ s.rx = "body" /\ s.seps = 2 /\ s.ones = 0 /\ s.n = 0 /\ s.byte = 0
        /\ s.headerBytes = r.bytes /\ s.bytes = r.bytes /\ s.last = r.last
        /\ s.overrun = r.overrun
        /\ DOMAIN s = Fields /\ s.window = r.window /\ s.seen = r.seen
    BY <2>1 DEF Fields
  <2> QED BY <1>2, <2>2 DEF s, MacKept, Phases
<1>3. CASE r.seps = 2
  <2>1. s = [r EXCEPT !.seps = 3, !.rx = "fcs", !.fcs = 0, !.ones = 0,
                      !.lateBits = 0, !.late = 0]
    BY <1>3 DEF Separator
  <2> HIDE DEF s
  <2>2. /\ s.rx = "fcs" /\ s.seps = 3 /\ s.ones = 0 /\ s.fcs = 0 /\ s.lateBits = 0
        /\ s.bytes = r.bytes /\ s.last = r.last /\ s.overrun = r.overrun
        /\ s.headerBytes = r.headerBytes
        /\ DOMAIN s = Fields /\ s.window = r.window /\ s.seen = r.seen
    BY <2>1 DEF Fields
  <2> QED BY <1>3, <2>2 DEF s, MacKept, SameCapture, Phases
<1>4. CASE r.seps = 3
  <2>1. s = [r EXCEPT !.rx = "body"]
    BY <1>4 DEF Separator
  <2> HIDE DEF s
  <2>2. /\ s.rx = "body" /\ s.seps = 3
        /\ DOMAIN s = Fields /\ s.window = r.window /\ s.seen = r.seen
    BY <1>4, <2>1 DEF Fields
  <2> QED BY <1>4, <2>2 DEF s, MacKept, Phases
<1>5. r.seps = 0 \/ r.seps = 1 \/ r.seps = 2 \/ r.seps = 3
  OBVIOUS
<1> QED BY <1>1, <1>2, <1>3, <1>4, <1>5, Zenon

\* Wherever the stream is, the window holds what was received.
LEMMA TakeStation ==
    ASSUME NEW r, Station(r), r.seps \in 0 .. 3, NEW bit \in BitValues
    PROVE  LET t == Take(r, bit)
           IN  /\ Station(t)
               /\ t.window = Shift(r.window, bit)
               /\ t.seen = IF r.seen < 9 THEN r.seen + 1 ELSE 9
               /\ t.seps \in 0 .. 3
<1> DEFINE s == Sampled(r, bit)
           c == CountOnes(s, bit)
           t == Take(r, bit)
<1>1. /\ Station(s) /\ s.window = Shift(r.window, bit) /\ s.seps = r.seps /\ s.rx = r.rx
      /\ s.seen = IF r.seen < 9 THEN r.seen + 1 ELSE 9
  BY SampledAfter
<1>2. t = IF SymbolIs(s, "start") THEN FrameStart(s)
          ELSE IF SymbolIs(s, "sep") /\ s.rx # "idle" THEN Separator(s)
          ELSE IF s.rx \in {"idle", "await"} THEN s
          ELSE IF Stuffed(s, bit) THEN c ELSE FieldStep(c, bit)
  BY DEF Take, Sampled
<1> HIDE DEF s
<1>3. MacKept(s, c) /\ c.seps = s.seps /\ c.rx = s.rx
  BY <1>1, CountOnesAfter DEF MacKept, Station
<1> HIDE DEF c
<1> SUFFICES MacKept(s, t) /\ t.seps \in 0 .. 3
  BY <1>1 DEF MacKept, Station
<1>4. CASE SymbolIs(s, "start")
  BY <1>1, <1>2, <1>4, FrameStartAfter DEF Station
<1>5. CASE ~SymbolIs(s, "start") /\ SymbolIs(s, "sep") /\ s.rx # "idle"
  <2>1. t = Separator(s)
    BY <1>2, <1>5
  <2>2. MacKept(s, Separator(s))
    BY <1>1, SeparatorAfter DEF Station
  <2>3. Separator(s).seps \in 0 .. 3
    <3>1. s.seps \in 0 .. 3 /\ DOMAIN s = Fields
      BY <1>1 DEF Station
    <3>2. s.seps = 0 \/ s.seps = 1 \/ s.seps = 2 \/ s.seps = 3
      BY <3>1
    <3>3. Separator(s).seps \in {1, 2, 3}
      BY <3>1, <3>2, SeparatorAfter
    <3> QED BY <3>3
  <2> QED BY <2>1, <2>2, <2>3
<1>6. CASE ~SymbolIs(s, "start") /\ ~(SymbolIs(s, "sep") /\ s.rx # "idle")
  <2>1. CASE s.rx \in {"idle", "await"}
    BY <1>1, <1>2, <1>6, <2>1 DEF Station, MacKept
  <2>2. CASE s.rx \notin {"idle", "await"} /\ Stuffed(s, bit)
    BY <1>1, <1>2, <1>3, <1>6, <2>2
  <2>3. CASE s.rx \notin {"idle", "await"} /\ ~Stuffed(s, bit)
    <3>1. t = FieldStep(c, bit) /\ DOMAIN c = Fields /\ c.rx \in Phases \ {"idle", "await"}
      BY <1>1, <1>2, <1>3, <1>6, <2>3 DEF MacKept
    <3>2. MacKept(c, t) /\ t.seps = c.seps
      <4>1. CASE c.rx = "header"
        <5>1. t = HeaderBit(c, bit)
          BY <3>1, <4>1 DEF FieldStep
        <5>2. MacKept(c, HeaderBit(c, bit)) /\ Assembled(c, bit, HeaderBit(c, bit))
          BY <3>1, HeaderBitAfter
        <5>3. HeaderBit(c, bit).seps = c.seps
          BY <5>2 DEF Assembled
        <5> QED BY <5>1, <5>2, <5>3
      <4>2. CASE c.rx = "body"
        <5>1. t = Assemble(c, bit)
          BY <3>1, <4>2 DEF FieldStep
        <5>2. MacKept(c, Assemble(c, bit)) /\ Assembled(c, bit, Assemble(c, bit))
          BY <3>1, AssembleAfter
        <5>3. Assemble(c, bit).seps = c.seps
          BY <5>2 DEF Assembled
        <5> QED BY <5>1, <5>2, <5>3
      <4>3. CASE c.rx = "fcs"
        BY <3>1, <4>3, FcsAfter DEF FieldStep
      <4>4. CASE c.rx = "late"
        <5>1. t = LateStep(c, bit)
          BY <3>1, <4>4 DEF FieldStep
        <5>2. MacKept(c, LateStep(c, bit))
          BY <3>1, <4>4, LateAfter
        <5>3. LateStep(c, bit).seps = c.seps
          BY <3>1 DEF LateStep, Fields
        <5> QED BY <5>1, <5>2, <5>3
      <4> QED BY <3>1, <4>1, <4>2, <4>3, <4>4 DEF Phases
    <3>3. MacKept(s, t)
      <4> HIDE DEF t
      <4> QED BY <1>3, <3>2 DEF MacKept
    <3> QED BY <1>1, <1>3, <3>2, <3>3
  <2> QED BY <2>1, <2>2, <2>3
<1> QED BY <1>4, <1>5, <1>6

\* Where no character ends, a bit is left alone, dropped, or goes into the
\* sequence the station follows.
LEMMA QuietTake ==
    ASSUME NEW r, Station(r), r.seen = 9, NEW bit \in BitValues, QuietNext(r.window)
    PROVE  LET s == Sampled(r, bit)
               c == CountOnes(s, bit)
           IN  Take(r, bit) = IF r.rx \in {"idle", "await"} THEN s
                              ELSE IF r.ones >= 5 /\ bit = 0 THEN c ELSE FieldStep(c, bit)
<1> DEFINE s == Sampled(r, bit)
           c == CountOnes(s, bit)
           t == Take(r, bit)
<1>1. s.window = Shift(r.window, bit) /\ s.rx = r.rx /\ s.ones = r.ones
  BY SampledAfter
<1>2. t = IF SymbolIs(s, "start") THEN FrameStart(s)
          ELSE IF SymbolIs(s, "sep") /\ s.rx # "idle" THEN Separator(s)
          ELSE IF s.rx \in {"idle", "await"} THEN s
          ELSE IF Stuffed(s, bit) THEN c ELSE FieldStep(c, bit)
  BY DEF Take, Sampled
<1> HIDE DEF s
<1>3. ~AtSymbol(s)
  BY <1>1, QuietIsNoSymbol DEF AtSymbol, Station
<1>4. ~SymbolIs(s, "start") /\ ~SymbolIs(s, "sep")
  BY <1>3, SymbolsAre
<1>5. Stuffed(s, bit) <=> r.ones >= 5 /\ bit = 0
  BY <1>1 DEF Stuffed, StuffAfterOnes
<1> QED BY <1>1, <1>2, <1>4, <1>5 DEF s

\* A station that follows no sequence keeps what it has.
LEMMA TakeWaiting ==
    ASSUME NEW r, Station(r), r.seen = 9, NEW bit \in BitValues,
           r.rx \in {"idle", "await"},
           QuietNext(r.window) \/ (r.window % 256 = 127 /\ bit = 0)
    PROVE  LET t == Take(r, bit)
           IN  t.rx = r.rx /\ t.seps = r.seps /\ SameCapture(r, t)
<1> DEFINE s == Sampled(r, bit)
<1>1. /\ s.rx = r.rx /\ s.seps = r.seps /\ SameCapture(r, s)
      /\ s.window = Shift(r.window, bit)
  BY SampledAfter DEF SameCapture
<1>2. CASE QuietNext(r.window)
  <2>1. Take(r, bit) = s
    BY <1>2, QuietTake
  <2> HIDE DEF s
  <2> QED BY <1>1, <2>1
<1>3. CASE r.window % 256 = 127 /\ bit = 0
  <2> HIDE DEF s
  <2>1. s.window % 4 = 2
    <3>1. r.window \in 0 .. 511
      BY DEF Station
    <3>2. Shift(r.window, 0) = 254
      BY <1>3, <3>1, NinthBit
    <3> QED BY <1>1, <1>3, <3>2
  <2>2. ~SymbolIs(s, "start") /\ ~SymbolIs(s, "sep")
    BY <2>1, SymbolsAre
  <2>3. Take(r, bit) = s
    BY <1>1, <2>2 DEF Take, Sampled, s
  <2> QED BY <1>1, <2>3
<1> QED BY <1>2, <1>3

\* A stuffed zero changes nothing but the run of ones.
LEMMA TakeStuffed ==
    ASSUME NEW r, Station(r), r.seen = 9, QuietNext(r.window),
           r.rx \notin {"idle", "await"}, r.ones = 5
    PROVE  LET t == Take(r, 0)
           IN  /\ t.rx = r.rx /\ t.seps = r.seps /\ SameCapture(r, t)
               /\ t.ones = 0 /\ t.n = r.n /\ t.byte = r.byte
               /\ t.fcs = r.fcs /\ t.lateBits = r.lateBits
<1> DEFINE s == Sampled(r, 0)
           c == CountOnes(s, 0)
<1>0. 0 \in BitValues
  BY DEF BitValues
<1>1. Take(r, 0) = c
  BY <1>0, QuietTake
<1>2. /\ DOMAIN s = Fields /\ s.rx = r.rx /\ s.seps = r.seps /\ SameCapture(r, s)
      /\ s.n = r.n /\ s.byte = r.byte /\ s.fcs = r.fcs /\ s.lateBits = r.lateBits
  BY <1>0, SampledAfter DEF SameCapture, Station
<1> HIDE DEF s
<1>3. /\ c.rx = s.rx /\ c.seps = s.seps /\ SameCapture(s, c) /\ c.ones = 0
      /\ c.n = s.n /\ c.byte = s.byte /\ c.fcs = s.fcs /\ c.lateBits = s.lateBits
  BY <1>2, CountOnesAfter DEF SameCapture
<1> HIDE DEF c
<1> QED BY <1>1, <1>2, <1>3 DEF SameCapture

\* The run of ones as the station counts it.
Counted(ones, bit) == IF bit = 0 THEN 0 ELSE IF ones < 5 THEN ones + 1 ELSE 5

\* The bit counted, before it goes into its sequence.
LEMMA CountedAfter ==
    ASSUME NEW r, Station(r), NEW bit \in BitValues
    PROVE  LET c == CountOnes(Sampled(r, bit), bit)
           IN  /\ DOMAIN c = Fields /\ c.rx = r.rx /\ c.seps = r.seps /\ SameCapture(r, c)
               /\ c.ones = Counted(r.ones, bit)
               /\ c.n = r.n /\ c.byte = r.byte /\ c.fcs = r.fcs /\ c.lateBits = r.lateBits
<1> DEFINE s == Sampled(r, bit)
           c == CountOnes(s, bit)
<1>2. /\ DOMAIN s = Fields /\ s.rx = r.rx /\ s.seps = r.seps /\ SameCapture(r, s)
      /\ s.n = r.n /\ s.byte = r.byte /\ s.fcs = r.fcs /\ s.lateBits = r.lateBits
      /\ s.ones = r.ones
  BY SampledAfter DEF SameCapture, Station
<1> HIDE DEF s
<1>3. /\ DOMAIN c = Fields /\ c.rx = s.rx /\ c.seps = s.seps /\ SameCapture(s, c)
      /\ c.ones = Counted(s.ones, bit)
      /\ c.n = s.n /\ c.byte = s.byte /\ c.fcs = s.fcs /\ c.lateBits = s.lateBits
  BY <1>2, CountOnesAfter DEF SameCapture, Counted
<1> HIDE DEF c
<1>4. /\ DOMAIN c = Fields /\ c.rx = r.rx /\ c.seps = r.seps /\ SameCapture(r, c)
      /\ c.ones = Counted(r.ones, bit)
      /\ c.n = r.n /\ c.byte = r.byte /\ c.fcs = r.fcs /\ c.lateBits = r.lateBits
  BY <1>2, <1>3 DEF SameCapture
<1> QED BY <1>4 DEF c, s

\* What a bit of header or data does.
Assembles(r, bit, t) ==
    /\ t.rx = r.rx /\ t.seps = r.seps /\ t.headerBytes = r.headerBytes
    /\ t.ones = Counted(r.ones, bit)
    /\ r.n < 7 => /\ t.n = r.n + 1 /\ t.byte = Longer(r.byte, bit)
                  /\ t.bytes = r.bytes /\ t.last = r.last /\ t.overrun = r.overrun
    /\ ~(r.n < 7) =>
         /\ t.n = 0 /\ t.byte = 0
         /\ r.bytes < Capacity => /\ t.bytes = r.bytes + 1 /\ t.overrun = r.overrun
                                  /\ t.last = Longer(r.byte, bit)
         /\ ~(r.bytes < Capacity) => /\ t.bytes = r.bytes /\ t.overrun = TRUE
                                     /\ t.last = r.last

\* A bit of header or data, received.
LEMMA TakeByteBit ==
    ASSUME NEW r, Station(r), r.seen = 9, NEW bit \in BitValues, QuietNext(r.window),
           r.rx \in {"header", "body"}, ~(r.ones >= 5 /\ bit = 0)
    PROVE  Assembles(r, bit, Take(r, bit))
<1> DEFINE c == CountOnes(Sampled(r, bit), bit)
           t == Take(r, bit)
<1>1. t = FieldStep(c, bit)
  BY QuietTake
<1>2. /\ DOMAIN c = Fields /\ c.rx = r.rx /\ c.seps = r.seps /\ SameCapture(r, c)
      /\ c.ones = Counted(r.ones, bit)
      /\ c.n = r.n /\ c.byte = r.byte
  BY CountedAfter
<1> HIDE DEF c, t
<1>3. c.rx \in Phases
  BY <1>2 DEF Phases
<1>4. Assembled(c, bit, t)
  <2>1. CASE c.rx = "header"
    <3>1. t = HeaderBit(c, bit)
      BY <1>1, <2>1 DEF FieldStep
    <3> QED BY <1>2, <1>3, <3>1, HeaderBitAfter
  <2>2. CASE c.rx = "body"
    <3>1. t = Assemble(c, bit)
      BY <1>1, <2>2 DEF FieldStep
    <3> QED BY <1>2, <1>3, <3>1, AssembleAfter
  <2> QED BY <1>2, <2>1, <2>2
<1>5. Assembles(r, bit, t)
  BY <1>2, <1>4 DEF Assembled, Assembles, SameCapture
<1> QED BY <1>5 DEF t

\* A bit of the frame check, received.
LEMMA TakeFcsBit ==
    ASSUME NEW r, Station(r), r.seen = 9, NEW bit \in BitValues, QuietNext(r.window),
           r.rx = "fcs", ~(r.ones >= 5 /\ bit = 0)
    PROVE  LET t == Take(r, bit)
           IN  /\ SameCapture(r, t) /\ t.ones = Counted(r.ones, bit)
               /\ t.fcs = r.fcs + 1 /\ t.lateBits = r.lateBits
               /\ t.rx = IF r.fcs + 1 >= 8 * CheckBytes + 8 THEN "late" ELSE "fcs"
<1> DEFINE c == CountOnes(Sampled(r, bit), bit)
           t == Take(r, bit)
<1>1. t = FieldStep(c, bit)
  BY QuietTake
<1>2. /\ DOMAIN c = Fields /\ c.rx = r.rx /\ SameCapture(r, c)
      /\ c.ones = Counted(r.ones, bit) /\ c.fcs = r.fcs /\ c.lateBits = r.lateBits
  BY CountedAfter
<1> HIDE DEF c, t
<1>3. t = FcsStep(c)
  BY <1>1, <1>2 DEF FieldStep
<1>4. /\ SameCapture(c, t) /\ t.ones = c.ones /\ t.fcs = c.fcs + 1
      /\ t.lateBits = c.lateBits
      /\ t.rx = IF c.fcs + 1 >= 8 * CheckBytes + 8 THEN "late" ELSE "fcs"
  BY <1>2, <1>3, FcsAfter
<1>5. /\ SameCapture(r, t) /\ t.ones = Counted(r.ones, bit)
      /\ t.fcs = r.fcs + 1 /\ t.lateBits = r.lateBits
      /\ t.rx = IF r.fcs + 1 >= 8 * CheckBytes + 8 THEN "late" ELSE "fcs"
  BY <1>2, <1>4 DEF SameCapture
<1> QED BY <1>5 DEF t

\* A bit of the late acknowledge, received.
LEMMA TakeLateBit ==
    ASSUME NEW r, Station(r), r.seen = 9, NEW bit \in BitValues, QuietNext(r.window),
           r.rx = "late", ~(r.ones >= 5 /\ bit = 0)
    PROVE  LET t == Take(r, bit)
           IN  /\ SameCapture(r, t) /\ t.ones = Counted(r.ones, bit)
               /\ t.lateBits = IF r.lateBits < 7 THEN r.lateBits + 1 ELSE 0
               /\ t.rx = IF r.lateBits = 7 THEN "idle" ELSE "late"
<1> DEFINE c == CountOnes(Sampled(r, bit), bit)
           t == Take(r, bit)
<1>1. t = FieldStep(c, bit)
  BY QuietTake
<1>2. /\ DOMAIN c = Fields /\ c.rx = r.rx /\ SameCapture(r, c)
      /\ c.ones = Counted(r.ones, bit) /\ c.lateBits = r.lateBits
  BY CountedAfter
<1> HIDE DEF c, t
<1>3. t = LateStep(c, bit)
  BY <1>1, <1>2 DEF FieldStep
<1>4. /\ SameCapture(c, t) /\ t.ones = c.ones
      /\ t.lateBits = IF c.lateBits < 7 THEN c.lateBits + 1 ELSE 0
      /\ t.rx = IF c.lateBits = 7 THEN "idle" ELSE "late"
  BY <1>2, <1>3, LateAfter
<1>5. /\ SameCapture(r, t) /\ t.ones = Counted(r.ones, bit)
      /\ t.lateBits = IF r.lateBits < 7 THEN r.lateBits + 1 ELSE 0
      /\ t.rx = IF r.lateBits = 7 THEN "idle" ELSE "late"
  BY <1>2, <1>4 DEF SameCapture
<1> QED BY <1>5 DEF t

\* The ninth bit of a frame start, wherever the station was.
LEMMA TakeStart ==
    ASSUME NEW r, Station(r), r.seen >= 8, r.window % 256 = 126
    PROVE  LET t == Take(r, 1)
           IN  t.rx = "await" /\ t.seps = 0 /\ t.window = 253 /\ t.seen = 9
<1> DEFINE s == Sampled(r, 1)
<1>1. 1 \in BitValues /\ 0 \in BitValues
  BY DEF BitValues
<1>2. Station(s) /\ s.window = Shift(r.window, 1) /\ s.seen = 9
  BY <1>1, SampledAfter DEF Station
<1>3. r.window \in 0 .. 511
  BY DEF Station
<1>4. s.window = 253 /\ s.window \div 4 = 63 /\ s.window % 4 = 1
  BY <1>1, <1>2, <1>3, NinthBit
<1>5. SymbolIs(s, "start")
  BY <1>2, <1>4, SymbolsAre DEF AtSymbol
<1>6. Take(r, 1) = FrameStart(s)
  BY <1>5 DEF Take, Sampled
<1> HIDE DEF s
<1> QED BY <1>2, <1>4, <1>6, FrameStartAfter DEF Station, MacKept

\* What the first separator makes of the station, and what the second does.
HeaderOpened(t) == /\ t.rx = "header" /\ t.seps = 1 /\ t.ones = 0 /\ t.n = 0
                   /\ t.byte = 0 /\ t.bytes = 0 /\ t.overrun = FALSE

BodyOpened(r, t) == /\ t.rx = "body" /\ t.seps = 2 /\ t.ones = 0 /\ t.n = 0
                    /\ t.byte = 0 /\ t.headerBytes = r.bytes
                    /\ t.bytes = r.bytes /\ t.last = r.last /\ t.overrun = r.overrun

\* The ninth bit of a separator, in a frame.
LEMMA TakeSeparator ==
    ASSUME NEW r, Station(r), r.seps \in 0 .. 3, r.seen >= 8, r.window % 256 = 126,
           r.rx # "idle", NEW bit, bit = 0
    PROVE  LET t == Take(r, bit)
           IN  /\ t.window = 252 /\ t.seen = 9
               /\ r.seps = 0 => HeaderOpened(t)
               /\ r.seps = 1 => BodyOpened(r, t)
               /\ r.seps = 2 => /\ t.rx = "fcs" /\ t.seps = 3 /\ t.ones = 0 /\ t.fcs = 0
                                /\ t.lateBits = 0 /\ SameCapture(r, t)
<1> DEFINE s == Sampled(r, bit)
           t == Take(r, bit)
<1>1. bit \in BitValues
  BY DEF BitValues
<1>2. /\ Station(s) /\ s.window = Shift(r.window, bit) /\ s.seen = 9 /\ s.seps = r.seps
      /\ s.rx = r.rx /\ s.bytes = r.bytes /\ s.last = r.last /\ s.overrun = r.overrun
      /\ s.headerBytes = r.headerBytes
  BY <1>1, SampledAfter DEF Station
<1>3. r.window \in 0 .. 511
  BY DEF Station
<1>4. s.window = 252 /\ s.window \div 4 = 63 /\ s.window % 4 = 0
  BY <1>1, <1>2, <1>3, NinthBit
<1>5. SymbolIs(s, "sep") /\ ~SymbolIs(s, "start")
  BY <1>2, <1>4, SymbolsAre DEF AtSymbol
<1>6. t = Separator(s)
  BY <1>2, <1>5 DEF Take, Sampled
<1>7. DOMAIN s = Fields /\ s.seps \in 0 .. 3
  BY <1>2 DEF Station
<1> HIDE DEF s, t
<1>8. /\ MacKept(s, t)
      /\ s.seps = 0 => HeaderOpened(t)
      /\ s.seps = 1 => BodyOpened(s, t)
      /\ s.seps = 2 => /\ t.rx = "fcs" /\ t.seps = 3 /\ t.ones = 0 /\ t.fcs = 0
                       /\ t.lateBits = 0 /\ SameCapture(s, t)
  BY <1>6, <1>7, SeparatorAfter, ZenonT(40) DEF HeaderOpened, BodyOpened
<1> QED BY <1>2, <1>4, <1>8 DEF MacKept, SameCapture, BodyOpened, t

-----------------------------------------------------------------------------
(* The inductive invariant: how the station's state goes with the          *)
(* transmitter's.                                                          *)

\* The transmitter by itself: it owes a zero after five ones and only then, and
\* its count is of whole bytes.
Writing(x) ==
    /\ x \in Writers /\ x.pos < PartLength(x, x.part)
    /\ x.stuff <=> x.ones = 5
    /\ x.part \in Characters /\ x.pos > 0 => x.ones = 0
    /\ x.part = 4 => x.byte = 0
    /\ x.part \in {4, 5} => x.ones = 0 /\ x.count = 0
    /\ x.part = 6 => x.count = x.pos \div 8
    /\ x.part = 7 => x.count = HeaderBytes

\* In a character the window ends in as much of it as was written, even if the
\* station was switched to the stream in the middle of it.
Prefix(x, r) ==
    x.part \in Characters =>
      /\ x.pos \in 1 .. 7 => r.seen >= x.pos /\ Run(r.window, x.pos - 1)
      /\ x.pos = 8 => r.seen >= 8 /\ r.window % 256 = 126 + TypeBits(Kind(x))[1]

\* From the frame start on, six ones are nowhere but in the characters, and the
\* window ends in the ones the transmitter counts.
Quiet(x, r) ==
    /\ r.seen = 9
    /\ QuietNow(r.window) \/ (x.part \in Characters /\ x.pos = 7)
    /\ QuietNext(r.window) \/ (x.part \in Characters /\ x.pos = 8)
    /\ ~(x.part = 4 /\ x.pos = 0) /\ ~(x.part \in Characters /\ x.pos > 0)
         => Run(r.window, x.ones)

\* In a field of bytes the station has the bits of the byte that were written.
InBytes(x, r) ==
    /\ r.ones = x.ones /\ r.n = x.pos % 8
    /\ r.byte = x.byte \div (2 * Weight(x.pos % 8))

\* A separator after it is too short for a byte, its second zero being dropped.
InSeparator(x, r) ==
    /\ x.pos = 0 => r.ones = x.ones /\ r.n = 0
    /\ x.pos \in 1 .. 7 => r.ones = Least(x.pos - 1, 5) /\ r.n = x.pos

\* The sequence the station follows is the part that is being written.
InSequence(x, r) ==
    /\ x.part \in {4, 5} => r.rx = "await" /\ r.seps = 0
    /\ x.part = 6 => r.rx = "header" /\ r.seps = 1 /\ InBytes(x, r)
    /\ x.part = 7 => r.rx = "header" /\ r.seps = 1 /\ InSeparator(x, r)
    /\ x.part = 8 => r.rx = "body" /\ r.seps = 2 /\ InBytes(x, r)
    /\ x.part = 9 => r.rx = "body" /\ r.seps = 2 /\ InSeparator(x, r)
    /\ x.part = 10 => /\ r.rx = "fcs" /\ r.ones = x.ones /\ r.fcs = x.pos
                      /\ r.lateBits = 0
    /\ x.part = 11 => r.rx = "late" /\ r.ones = x.ones /\ r.lateBits = x.pos
    /\ x.part = 12 => r.rx = "idle"

\* What was captured is what was written.
Captured(x, r) ==
    x.part >= 6 =>
      /\ r.bytes = Least(x.count, Capacity)
      /\ r.overrun <=> x.count > Capacity
      /\ x.count \in 1 .. Capacity => r.last = x.last
      /\ x.part >= 8 => r.headerBytes = Least(HeaderBytes, Capacity)

Follows(x, r) == x.part >= 4 => Quiet(x, r) /\ InSequence(x, r) /\ Captured(x, r)

MacInv == /\ Writing(w) /\ Station(a) /\ a.seps \in 0 .. 3
          /\ Prefix(w, a) /\ Follows(w, a)

-----------------------------------------------------------------------------
(* A bit of a part. *)

\* What writing a bit of a part makes of the transmitter.
HasWritten(x, byte, d, y) ==
    /\ y \in Writers
    /\ y.part = IF PartDone(x) THEN Onward(x) ELSE x.part
    /\ y.pos = IF PartDone(x) THEN 0 ELSE x.pos + 1
    /\ y.ones = OnesAfter(x, BitOf(x, byte))
    /\ y.stuff <=> OnesAfter(x, BitOf(x, byte)) = 5
    /\ y.dlen = IF x.part = 1 THEN d ELSE x.dlen
    /\ y.byte = IF x.pos % 8 = 7 THEN 0 ELSE byte
    /\ y.last = IF ByteDone(x) THEN byte ELSE x.last
    /\ y.count = IF ByteDone(x) THEN x.count + 1 ELSE IF x.part = 3 THEN 0 ELSE x.count

\* The types of what the steps use.
LEMMA WritingTyped ==
    ASSUME NEW x, Writing(x)
    PROVE  /\ x \in Writers /\ x.part \in 1 .. 12 /\ x.pos \in Nat /\ x.ones \in 0 .. 5
           /\ x.stuff \in BOOLEAN /\ x.dlen \in Nat /\ x.byte \in 0 .. 255
           /\ x.last \in 0 .. 255 /\ x.count \in Nat
           /\ IsOob(Kind(x)) <=> x.part \in Characters
           /\ HeaderBytes \in Nat /\ HeaderBytes > 0 /\ CheckBytes \in Nat /\ CheckBytes > 0
           /\ Capacity \in Nat
<1>1. x \in Writers
  BY DEF Writing
<1>2. x.dlen \in Nat
  BY <1>1, FrameAssumption DEF Writers
<1> QED BY <1>1, <1>2, KindOfPart, FrameAssumption DEF Writers

\* What the proofs need of the byte being written: its bits that have gone out
\* stay, and the zeros after a frame start are zeros.
Writable(x, byte) ==
    /\ byte \in 0 .. 255
    /\ x.part \in {6, 8} =>
         byte \div (2 * Weight(x.pos % 8)) = x.byte \div (2 * Weight(x.pos % 8))
    /\ x.part = 4 \/ (x.part = 3 /\ x.pos = 8) => byte = 0

\* What the transmitter writes is so.
LEMMA FieldBytesWritable ==
    ASSUME NEW x, Writing(x), NEW byte \in FieldBytes(x)
    PROVE  Writable(x, byte)
<1>1. /\ x \in Writers /\ x.pos \in Nat /\ x.byte \in 0 .. 255
      /\ x.part = 4 => x.byte = 0
  BY WritingTyped DEF Writing
<1>2. byte \in 0 .. 255
  BY <1>1, BytesWritten
<1>3. x.pos % 8 # 0 => byte = x.byte
  BY DEF FieldBytes
<1>4. x.pos % 8 = 0 => 2 * Weight(x.pos % 8) = 256
  BY DEF Weight
<1>5. byte \div 256 = 0 /\ x.byte \div 256 = 0
  BY <1>1, <1>2
<1>6. byte \div (2 * Weight(x.pos % 8)) = x.byte \div (2 * Weight(x.pos % 8))
  BY <1>3, <1>4, <1>5
<1>7. x.part = 4 \/ (x.part = 3 /\ x.pos = 8) => byte = 0
  BY <1>1, BytesWritten
<1> QED BY <1>2, <1>6, <1>7 DEF Writable

\* Every bit that is not stuffed is written so.
LEMMA BitWrites ==
    ASSUME NEW x, Writing(x), ~x.stuff, NEW byte, Writable(x, byte), NEW d \in DataLengths
    PROVE  /\ HasWritten(x, byte, d, WriteBit(x, byte, d))
           /\ byte \in 0 .. 255 /\ BitOf(x, byte) \in BitValues
<1>1. x \in Writers /\ x.ones < 5 /\ x.pos < PartLength(x, x.part)
  BY WritingTyped DEF Writing
<1>2. byte \in 0 .. 255
  BY DEF Writable
<1>3. BitOf(x, byte) \in BitValues
  BY <1>1, <1>2, BitsWritten
<1>4. d \in DataLengths /\ ~x.stuff
  OBVIOUS
<1>5. HasWritten(x, byte, d, WriteBit(x, byte, d))
  BY <1>1, <1>2, <1>4, WriteBitAfter, ZenonT(40) DEF HasWritten
<1> QED BY <1>2, <1>3, <1>5

\* The lengths of the parts, by number.
PartSize(part, dlen) ==
    IF part = 1 THEN 1 ELSE IF part \in {4, 11} THEN 8
    ELSE IF part = 6 THEN 8 * HeaderBytes ELSE IF part = 8 THEN 8 * dlen
    ELSE IF part = 10 THEN 8 * CheckBytes + 8 ELSE 9

\* The two ways to give a part's length agree.
LEMMA PartSizes ==
    ASSUME NEW x, NEW part \in 1 .. 12
    PROVE  PartLength(x, part) = PartSize(part, x.dlen)
BY Lengths DEF PartSize, Characters

\* The zeros after a frame start.
LEMMA NullBit ==
    ASSUME NEW x, Writing(x), x.part = 4, NEW byte, Writable(x, byte)
    PROVE  byte = 0 /\ BitOf(x, byte) = 0
<1>1. byte = 0
  BY DEF Writable
<1>2. BitOf(x, byte) = (byte \div Weight(x.pos % 8)) % 2
  BY <1>1, WritingTyped, BitsWritten DEF Writing, Characters
<1>3. Weight(x.pos % 8) \in Nat \ {0}
  BY DEF Weight
<1> DEFINE k == Weight(x.pos % 8)
<1> HIDE DEF k
<1>4. k \in Nat \ {0} /\ BitOf(x, byte) = (0 \div k) % 2
  BY <1>1, <1>2, <1>3 DEF k
<1>5. 0 \div k = 0
  BY <1>4
<1> QED BY <1>1, <1>4, <1>5

\* The bits of the characters in a frame and of its start and end.
LEMMA CharacterBit ==
    ASSUME NEW x, Writing(x), x.part \in Characters, NEW byte \in 0 .. 255
    PROVE  LET bit == BitOf(x, byte)
           IN  /\ x.pos \in 0 .. 8 /\ TypeBits(Kind(x))[1] \in BitValues
               /\ x.pos = 0 => bit = 0
               /\ x.pos \in 1 .. 6 => bit = 1
               /\ x.pos = 7 => bit = TypeBits(Kind(x))[1]
               /\ x.part = 3 => TypeBits(Kind(x))[1] = 0 /\ (x.pos = 8 => bit = 1)
               /\ x.part \in {5, 7, 9} => TypeBits(Kind(x))[1] = 0 /\ (x.pos = 8 => bit = 0)
               /\ x.part = 12 => TypeBits(Kind(x))[1] = 1 /\ (x.pos = 8 => bit = 0)
<1> DEFINE bit == BitOf(x, byte)
<1>1. /\ x \in Writers /\ x.pos \in Nat /\ IsOob(Kind(x)) /\ x.pos < PartLength(x, x.part)
      /\ x.part \in 1 .. 12
  BY WritingTyped DEF Writing
<1>2. x.pos \in 0 .. 8
  BY <1>1, Lengths
<1>3. bit = IF x.pos = 0 THEN 0 ELSE IF x.pos <= 6 THEN 1
            ELSE IF x.pos = 7 THEN TypeBits(Kind(x))[1] ELSE TypeBits(Kind(x))[2]
  BY <1>1, BitsWritten
<1>4. TypeBits(Kind(x))[1] \in BitValues
  BY <1>1, CharacterBits DEF IsOob
<1>5. x.part = 3 => TypeBits(Kind(x))[1] = 0 /\ TypeBits(Kind(x))[2] = 1
  BY TheParts DEF Kind, TypeBits
<1>6. x.part \in {5, 7, 9} => TypeBits(Kind(x))[1] = 0 /\ TypeBits(Kind(x))[2] = 0
  BY TheParts DEF Kind, TypeBits
<1>7. x.part = 12 => TypeBits(Kind(x))[1] = 1 /\ TypeBits(Kind(x))[2] = 0
  BY TheParts DEF Kind, TypeBits
<1> HIDE DEF bit
<1>8. /\ x.pos = 0 => bit = 0
      /\ x.pos \in 1 .. 6 => bit = 1
      /\ x.pos = 7 => bit = TypeBits(Kind(x))[1]
      /\ x.pos = 8 => bit = TypeBits(Kind(x))[2]
  BY <1>2, <1>3
<1> QED BY <1>2, <1>4, <1>5, <1>6, <1>7, <1>8 DEF bit

\* The transmitter keeps its own account: zeros owed, bytes counted.
LEMMA WritingKept ==
    ASSUME NEW x, Writing(x), ~x.stuff, NEW byte, Writable(x, byte), NEW d \in DataLengths,
           NEW y, HasWritten(x, byte, d, y)
    PROVE  Writing(y)
<1> DEFINE bit == BitOf(x, byte)
<1>1. /\ x \in Writers /\ x.part \in 1 .. 12 /\ x.pos \in Nat /\ x.ones \in 0 .. 4
      /\ x.dlen \in Nat /\ byte \in 0 .. 255 /\ bit \in BitValues /\ x.count \in Nat
      /\ IsOob(Kind(x)) <=> x.part \in Characters
      /\ HeaderBytes \in Nat /\ HeaderBytes > 0 /\ CheckBytes \in Nat /\ CheckBytes > 0
      /\ d \in Nat
  BY WritingTyped, BitWrites, FrameAssumption DEF Writing
<1>2. x.pos < PartSize(x.part, x.dlen) /\ (PartDone(x) <=> x.pos + 1 = PartSize(x.part, x.dlen))
  BY <1>1, PartSizes DEF Writing, PartDone
<1> HIDE DEF bit
<1>3. /\ y.part = IF PartDone(x) THEN Onward(x) ELSE x.part
      /\ y.pos = IF PartDone(x) THEN 0 ELSE x.pos + 1
      /\ y.ones = OnesAfter(x, bit) /\ (y.stuff <=> OnesAfter(x, bit) = 5)
      /\ y.dlen = IF x.part = 1 THEN d ELSE x.dlen
      /\ y.byte = IF x.pos % 8 = 7 THEN 0 ELSE byte
      /\ y.count = IF ByteDone(x) THEN x.count + 1 ELSE IF x.part = 3 THEN 0 ELSE x.count
      /\ y \in Writers
  BY DEF HasWritten, bit
<1>4. y.part \in 1 .. 12
  BY <1>1, <1>3 DEF Onward
<1>5. y.pos < PartLength(y, y.part)
  <2>1. y.pos < PartSize(y.part, y.dlen)
    <3>1. CASE PartDone(x)
      BY <1>1, <1>3, <3>1 DEF PartSize, Onward
    <3>2. CASE ~PartDone(x)
      BY <1>1, <1>2, <1>3, <3>2 DEF PartSize
    <3> QED BY <3>1, <3>2
  <2> QED BY <1>4, <2>1, PartSizes
<1>6. y.part \in Characters /\ y.pos > 0 => y.ones = 0
  BY <1>1, <1>3 DEF OnesAfter
<1>7. y.part = 4 => y.byte = 0
  <2>1. x.part = 4 => byte = 0
    BY NullBit
  <2>2. ASSUME x.part = 3, PartDone(x) PROVE byte = 0
    <3>1. x.pos = 8
      BY <1>1, <1>2, <2>2 DEF PartSize
    <3> QED BY <2>2, <3>1 DEF Writable
  <2> QED BY <1>1, <1>3, <2>1, <2>2 DEF Onward
<1>8. y.part \in {4, 5} => y.ones = 0 /\ y.count = 0
  <2>1. CASE x.part = 4
    BY <1>1, <1>3, <2>1, NullBit DEF OnesAfter, ByteDone, Writing, bit
  <2>2. CASE x.part \in {3, 5}
    BY <1>1, <1>3, <2>2 DEF OnesAfter, ByteDone, Writing, Characters
  <2> QED BY <1>1, <1>3, <2>1, <2>2 DEF Onward
<1>9. y.part = 6 => y.count = y.pos \div 8
  <2>1. CASE x.part = 5
    BY <1>1, <1>3, <2>1 DEF ByteDone, Writing, Onward
  <2>2. CASE x.part = 6
    BY <1>1, <1>3, <2>2 DEF ByteDone, Writing, Onward
  <2> QED BY <1>1, <1>3, <2>1, <2>2 DEF Onward
<1>10. y.part = 7 => y.count = HeaderBytes
  <2>1. CASE x.part = 6
    BY <1>1, <1>2, <1>3, <2>1 DEF ByteDone, Writing, Onward, PartSize
  <2>2. CASE x.part = 7
    BY <1>1, <1>3, <2>2 DEF ByteDone, Writing, Onward
  <2> QED BY <1>1, <1>3, <2>1, <2>2 DEF Onward
<1> QED BY <1>3, <1>5, <1>6, <1>7, <1>8, <1>9, <1>10 DEF Writing

\* What receiving a bit does to the window.
Sees(r, bit, t) == /\ t.window = Shift(r.window, bit)
                   /\ t.seen = IF r.seen < 9 THEN r.seen + 1 ELSE 9

\* A character comes into the window as it is written.
LEMMA PrefixKept ==
    ASSUME NEW x, Writing(x), NEW byte \in 0 .. 255, NEW d,
           NEW y, HasWritten(x, byte, d, y), NEW r, Station(r), Prefix(x, r),
           NEW t, Sees(r, BitOf(x, byte), t)
    PROVE  Prefix(y, t)
<1> SUFFICES ASSUME y.part \in Characters, y.pos \in 1 .. 8
             PROVE  /\ y.pos \in 1 .. 7 => t.seen >= y.pos /\ Run(t.window, y.pos - 1)
                    /\ y.pos = 8 => /\ t.seen >= 8
                                    /\ t.window % 256 = 126 + TypeBits(Kind(y))[1]
  BY DEF Prefix
<1> DEFINE bit == BitOf(x, byte)
<1>1. x.part = y.part /\ x.pos = y.pos - 1 /\ x.part \in Characters
  BY WritingTyped DEF HasWritten
<1>2. /\ x.pos \in 0 .. 8 /\ TypeBits(Kind(x))[1] \in BitValues
      /\ x.pos = 0 => bit = 0
      /\ x.pos \in 1 .. 6 => bit = 1
      /\ x.pos = 7 => bit = TypeBits(Kind(x))[1]
  BY <1>1, CharacterBit, ZenonT(40)
<1>3. r.window \in 0 .. 511 /\ r.seen \in 0 .. 9
  BY DEF Station
<1>4. t.window = Shift(r.window, bit) /\ t.seen = IF r.seen < 9 THEN r.seen + 1 ELSE 9
  BY DEF Sees
<1>5. Kind(y) = Kind(x)
  BY <1>1 DEF Kind
<1>6. x.pos \in 1 .. 7 => r.seen >= x.pos /\ Run(r.window, x.pos - 1)
  BY <1>1 DEF Prefix
<1> HIDE DEF bit
<1>7. CASE x.pos = 0
  <2>1. Run(Shift(r.window, 0), 0)
    BY <1>3, RunEnds
  <2>2. y.pos = 1 /\ t.seen >= 1 /\ t.window = Shift(r.window, 0)
    BY <1>1, <1>2, <1>3, <1>4, <1>7
  <2>3. Run(t.window, y.pos - 1)
    BY <2>1, <2>2
  <2> QED BY <2>2, <2>3
<1>8. CASE x.pos \in 1 .. 6
  <2> DEFINE k == x.pos - 1
  <2>1. k \in 0 .. 5 /\ Run(r.window, k) /\ k + 1 = y.pos - 1
    BY <1>1, <1>6, <1>8
  <2> HIDE DEF k
  <2>2. Run(Shift(r.window, 1), k + 1)
    BY <1>3, <2>1, RunGrows
  <2>3. Run(t.window, y.pos - 1)
    BY <1>2, <1>4, <1>8, <2>1, <2>2
  <2>4. t.seen >= y.pos /\ y.pos # 8
    BY <1>1, <1>3, <1>4, <1>6, <1>8
  <2> QED BY <2>3, <2>4
<1>9. CASE x.pos = 7
  <2>1. Run(r.window, 6) /\ r.seen >= 7
    BY <1>6, <1>9
  <2>2. Shift(r.window, bit) % 256 = 126 + bit
    <3>1. bit \in BitValues
      BY <1>2, <1>9
    <3> QED BY <1>3, <2>1, <3>1, SeventhBit
  <2> QED BY <1>1, <1>2, <1>3, <1>4, <1>5, <1>9, <2>1, <2>2
<1> QED BY <1>1, <1>2, <1>7, <1>8, <1>9

\* After the last bit of a character nothing of it is taken for the next one.
LEMMA QuietAfterCharacter ==
    ASSUME NEW v \in 0 .. 511, NEW bit \in BitValues, v % 256 \in {126, 127}
    PROVE  QuietNow(Shift(v, bit))
BY DEF Shift, BitValues, QuietNow

\* No step of a field puts six ones into the window.
LEMMA QuietKept ==
    ASSUME NEW x, Writing(x), ~x.stuff, NEW byte, Writable(x, byte), NEW d,
           NEW y, HasWritten(x, byte, d, y), NEW r, Station(r), Prefix(x, r), Quiet(x, r),
           NEW t, Sees(r, BitOf(x, byte), t), x.part >= 4, y.part >= 4
    PROVE  Quiet(y, t)
<1> DEFINE bit == BitOf(x, byte)
<1>1. /\ x.part \in 1 .. 12 /\ x.pos \in Nat /\ x.ones \in 0 .. 4 /\ bit \in BitValues
      /\ (IsOob(Kind(x)) <=> x.part \in Characters) /\ byte \in 0 .. 255
      /\ r.window \in 0 .. 511
  <2>1. x \in Writers /\ x.pos < PartLength(x, x.part) /\ byte \in 0 .. 255
    BY WritingTyped DEF Writing, Writable
  <2>2. bit \in BitValues
    BY <2>1, BitsWritten
  <2>3. x.ones # 5 /\ r.window \in 0 .. 511
    BY DEF Writing, Station
  <2> QED BY <2>1, <2>2, <2>3, WritingTyped
<1>2. t.window = Shift(r.window, bit) /\ t.seen = 9
  BY DEF Sees, Quiet
<1>3. /\ y.part = IF PartDone(x) THEN Onward(x) ELSE x.part
      /\ y.pos = IF PartDone(x) THEN 0 ELSE x.pos + 1
      /\ y.ones = OnesAfter(x, bit)
  BY DEF HasWritten
<1>4. PartDone(x) <=> x.pos + 1 = PartSize(x.part, x.dlen)
  BY <1>1, PartSizes DEF PartDone
<1>5. ASSUME x.part \in Characters
      PROVE  /\ x.pos \in 0 .. 8 /\ TypeBits(Kind(x))[1] \in BitValues
             /\ x.pos = 0 => bit = 0
             /\ x.pos \in 1 .. 6 => bit = 1
             /\ x.pos = 7 => bit = TypeBits(Kind(x))[1]
             /\ x.part \in {5, 7, 9} => TypeBits(Kind(x))[1] = 0 /\ (x.pos = 8 => bit = 0)
             /\ x.part = 12 => TypeBits(Kind(x))[1] = 1 /\ (x.pos = 8 => bit = 0)
             /\ PartDone(x) <=> x.pos = 8
  <2>1. PartSize(x.part, x.dlen) = 9
    BY <1>5 DEF PartSize, Characters
  <2>2. PartDone(x) <=> x.pos = 8
    BY <1>1, <1>4, <2>1
  <2>3. /\ x.pos \in 0 .. 8 /\ TypeBits(Kind(x))[1] \in BitValues
        /\ x.pos = 0 => bit = 0
        /\ x.pos \in 1 .. 6 => bit = 1
        /\ x.pos = 7 => bit = TypeBits(Kind(x))[1]
        /\ x.part \in {5, 7, 9} => TypeBits(Kind(x))[1] = 0 /\ (x.pos = 8 => bit = 0)
        /\ x.part = 12 => TypeBits(Kind(x))[1] = 1 /\ (x.pos = 8 => bit = 0)
    <3>1. byte \in 0 .. 255
      BY <1>1
    <3> QED BY <1>5, <3>1, CharacterBit, ZenonT(40)
  <2> QED BY <2>2, <2>3
<1>6. x.part = 4 => bit = 0
  BY NullBit
<1>7. QuietNext(t.window) \/ (y.part \in Characters /\ y.pos = 8)
  <2>1. CASE QuietNow(r.window)
    BY <1>1, <1>2, <2>1, QuietMovesOn
  <2>2. CASE x.part \in Characters /\ x.pos = 7
    BY <1>3, <1>5, <2>2
  <2> QED BY <2>1, <2>2 DEF Quiet
<1>8. CASE x.part \notin Characters
  <2>1. QuietNow(t.window)
    <3>1. CASE bit = 0
      BY <1>1, <1>2, <3>1, QuietAfterZero
    <3>2. CASE bit # 0
      <4> DEFINE k == x.ones
      <4>1. k \in 0 .. 5 /\ k # 5 /\ Run(r.window, k)
        BY <1>1, <1>6, <1>8, <3>2 DEF Quiet
      <4> HIDE DEF k
      <4> QED BY <1>1, <1>2, <4>1, QuietAfter
    <3> QED BY <3>1, <3>2
  <2>2. Run(t.window, y.ones)
    <3>1. CASE bit = 0
      <4>1. y.ones = 0
        BY <1>3, <3>1 DEF OnesAfter
      <4> QED BY <1>1, <1>2, <3>1, <4>1, RunEnds
    <3>2. CASE bit = 1
      <4> DEFINE k == x.ones
      <4>1. k \in 0 .. 5 /\ Run(r.window, k)
        BY <1>1, <1>6, <1>8, <3>2 DEF Quiet
      <4>2. y.ones = k + 1
        BY <1>1, <1>3, <1>8, <3>2 DEF OnesAfter
      <4>3. t.window = Shift(r.window, 1)
        BY <1>2, <3>2
      <4> HIDE DEF k
      <4> QED BY <1>1, <4>1, <4>2, <4>3, RunGrows
    <3> QED BY <1>1, <3>1, <3>2 DEF BitValues
  <2> QED BY <1>2, <1>7, <2>1, <2>2 DEF Quiet
<1>9. CASE x.part \in Characters
  <2>1. /\ x.pos \in 0 .. 8 /\ TypeBits(Kind(x))[1] \in BitValues
        /\ x.pos = 0 => bit = 0
        /\ x.pos \in 1 .. 6 => bit = 1
        /\ x.pos = 7 => bit = TypeBits(Kind(x))[1]
        /\ x.part \in {5, 7, 9} => TypeBits(Kind(x))[1] = 0 /\ (x.pos = 8 => bit = 0)
        /\ x.part = 12 => TypeBits(Kind(x))[1] = 1 /\ (x.pos = 8 => bit = 0)
    BY <1>5, <1>9
  <2> HIDE DEF bit
  <2>2. /\ x.pos \in 1 .. 7 => Run(r.window, x.pos - 1)
        /\ x.pos = 8 => r.window % 256 = 126 + TypeBits(Kind(x))[1]
    BY <1>9 DEF Prefix
  <2>3. QuietNow(t.window) \/ (y.part \in Characters /\ y.pos = 7)
    <3>1. CASE x.pos = 0
      BY <1>1, <1>2, <2>1, <3>1, QuietAfterZero
    <3>2. CASE x.pos \in 1 .. 5
      <4> DEFINE k == x.pos - 1
      <4>1. k \in 0 .. 5 /\ Run(r.window, k) /\ k # 5
        BY <2>2, <3>2
      <4> HIDE DEF k
      <4> QED BY <1>1, <1>2, <4>1, QuietAfter
    <3>3. CASE x.pos = 6
      <4>1. ~PartDone(x)
        BY <1>5, <1>9, <3>3
      <4> QED BY <1>3, <1>9, <3>3, <4>1
    <3>4. CASE x.pos = 7
      <4>1. Run(r.window, 6)
        BY <2>2, <3>4
      <4> QED BY <1>1, <1>2, <4>1, SeventhBit
    <3>5. CASE x.pos = 8
      <4>1. r.window % 256 \in {126, 127}
        BY <2>1, <2>2, <3>5 DEF BitValues
      <4> QED BY <1>1, <1>2, <4>1, QuietAfterCharacter
    <3> QED BY <2>1, <3>1, <3>2, <3>3, <3>4, <3>5
  <2>4. y.part \notin Characters \/ y.pos = 0 => Run(t.window, y.ones)
    <3>1. CASE x.pos # 8
      BY <1>1, <1>3, <1>5, <1>9, <3>1
    <3>2. CASE x.pos = 8
      <4>1. x.part \in {5, 7, 9}
        BY <1>1, <1>3, <1>5, <1>9, <3>2 DEF Onward, Characters
      <4>2. bit = 0 /\ y.ones = 0
        BY <1>1, <1>3, <1>9, <2>1, <3>2, <4>1 DEF OnesAfter
      <4> QED BY <1>1, <1>2, <4>2, RunEnds
    <3> QED BY <3>1, <3>2
  <2>5. ~(y.part = 4 /\ y.pos = 0) /\ ~(y.part \in Characters /\ y.pos > 0)
          => y.part \notin Characters \/ y.pos = 0
    BY <1>1, <1>3
  <2> QED BY <1>2, <1>7, <2>3, <2>4, <2>5 DEF Quiet
<1> QED BY <1>8, <1>9

\* The bits of a byte received so far are its first ones.
LEMMA ByteGrows ==
    ASSUME NEW v \in 0 .. 255, NEW n \in 0 .. 7
    PROVE  /\ n < 7 => Longer(v \div (2 * Weight(n)), (v \div Weight(n)) % 2)
                         = v \div (2 * Weight(n + 1))
           /\ n = 7 => Longer(v \div (2 * Weight(n)), (v \div Weight(n)) % 2) = v
           /\ n = 0 => v \div (2 * Weight(n)) = 0
<1>1. CASE n = 0  BY <1>1, 0 + 1 = 1 DEF Longer, Weight
<1>2. CASE n = 1  BY <1>2, 1 + 1 = 2 DEF Longer, Weight
<1>3. CASE n = 2  BY <1>3, 2 + 1 = 3 DEF Longer, Weight
<1>4. CASE n = 3  BY <1>4, 3 + 1 = 4 DEF Longer, Weight
<1>5. CASE n = 4  BY <1>5, 4 + 1 = 5 DEF Longer, Weight
<1>6. CASE n = 5  BY <1>6, 5 + 1 = 6 DEF Longer, Weight
<1>7. CASE n = 6  BY <1>7, 6 + 1 = 7 DEF Longer, Weight
<1>8. CASE n = 7  BY <1>8 DEF Longer, Weight
<1> QED BY <1>1, <1>2, <1>3, <1>4, <1>5, <1>6, <1>7, <1>8

\* What the parts have in common: types, the bit, and where the transmitter is
\* afterwards.
LEMMA BitFacts ==
    ASSUME NEW x, Writing(x), ~x.stuff, NEW byte, Writable(x, byte), NEW d \in DataLengths,
           NEW y, HasWritten(x, byte, d, y)
    PROVE  /\ x.part \in 1 .. 12 /\ x.pos \in Nat /\ x.ones \in 0 .. 4 /\ x.dlen \in Nat
           /\ x.count \in Nat /\ x.byte \in 0 .. 255 /\ byte \in 0 .. 255
           /\ BitOf(x, byte) \in BitValues
           /\ PartDone(x) <=> x.pos + 1 = PartSize(x.part, x.dlen)
           /\ x.pos < PartSize(x.part, x.dlen)
           /\ y.part = IF PartDone(x) THEN Onward(x) ELSE x.part
           /\ y.pos = IF PartDone(x) THEN 0 ELSE x.pos + 1
           /\ y.ones = OnesAfter(x, BitOf(x, byte))
           /\ y.byte \in 0 .. 255 /\ y.byte = IF x.pos % 8 = 7 THEN 0 ELSE byte
           /\ y.last = IF ByteDone(x) THEN byte ELSE x.last
           /\ y.count = IF ByteDone(x) THEN x.count + 1
                        ELSE IF x.part = 3 THEN 0 ELSE x.count
           /\ y.count \in Nat /\ y \in Writers
<1>1. /\ x.part \in 1 .. 12 /\ x.pos \in Nat /\ x.ones \in 0 .. 4 /\ x.dlen \in Nat
      /\ x.count \in Nat /\ x.byte \in 0 .. 255
  BY WritingTyped DEF Writing
<1>2. byte \in 0 .. 255 /\ BitOf(x, byte) \in BitValues
  BY BitWrites
<1>3. /\ PartDone(x) <=> x.pos + 1 = PartSize(x.part, x.dlen)
      /\ x.pos < PartSize(x.part, x.dlen)
  BY <1>1, PartSizes DEF PartDone, Writing
<1>4. y \in Writers /\ y.count \in Nat /\ y.byte \in 0 .. 255
  BY DEF HasWritten, Writers
<1> QED BY <1>1, <1>2, <1>3, <1>4 DEF HasWritten

\* A bit of the header or of the data.
LEMMA ByteBit ==
    ASSUME NEW x, Writing(x), ~x.stuff, NEW byte, Writable(x, byte), NEW d \in DataLengths,
           NEW y, HasWritten(x, byte, d, y), x.part \in {6, 8},
           NEW r, Station(r), Quiet(x, r), r.rx \in {"header", "body"}, InBytes(x, r),
           Captured(x, r)
    PROVE  LET t == Take(r, BitOf(x, byte))
           IN  /\ t.rx = r.rx /\ t.seps = r.seps /\ t.headerBytes = r.headerBytes
               /\ y.part = x.part => InBytes(y, t)
               /\ y.part # x.part => y.pos = 0 /\ t.ones = y.ones /\ t.n = 0
               /\ t.bytes = Least(y.count, Capacity)
               /\ t.overrun <=> y.count > Capacity
               /\ y.count \in 1 .. Capacity => t.last = y.last
<1> DEFINE bit == BitOf(x, byte)
           t == Take(r, bit)
           n == x.pos % 8
<1>1. /\ x.part \in 1 .. 12 /\ x.pos \in Nat /\ x.ones \in 0 .. 4 /\ x.dlen \in Nat
      /\ x.count \in Nat /\ x.byte \in 0 .. 255 /\ byte \in 0 .. 255
      /\ bit \in BitValues
      /\ PartDone(x) <=> x.pos + 1 = PartSize(x.part, x.dlen)
      /\ y.part = IF PartDone(x) THEN Onward(x) ELSE x.part
      /\ y.pos = IF PartDone(x) THEN 0 ELSE x.pos + 1
      /\ y.ones = OnesAfter(x, bit)
      /\ y.byte = IF n = 7 THEN 0 ELSE byte
      /\ y.last = IF ByteDone(x) THEN byte ELSE x.last
      /\ y.count = IF ByteDone(x) THEN x.count + 1 ELSE x.count
  BY BitFacts
<1>2. Capacity \in Nat /\ HeaderBytes \in Nat /\ n \in 0 .. 7
  BY <1>1, FrameAssumption
<1>3. ~IsOob(Kind(x)) /\ (ByteDone(x) <=> n = 7)
  BY WritingTyped DEF Characters, ByteDone
<1>4. bit = (byte \div Weight(n)) % 2
  BY <1>1, <1>3, BitsWritten, WritingTyped DEF Writing
<1>5. r.ones = x.ones /\ r.n = n /\ r.byte = byte \div (2 * Weight(n))
  BY DEF InBytes, Writable
<1>6. Assembles(r, bit, t)
  <2>1. QuietNext(r.window) /\ r.seen = 9
    BY DEF Quiet, Characters
  <2>2. ~(r.ones >= 5 /\ bit = 0)
    BY <1>1, <1>5
  <2> QED BY <1>1, <2>1, <2>2, TakeByteBit
<1>7. r.bytes = Least(x.count, Capacity) /\ (r.overrun <=> x.count > Capacity)
      /\ (x.count \in 1 .. Capacity => r.last = x.last)
  BY DEF Captured
<1>8. t.ones = y.ones
  BY <1>1, <1>3, <1>5, <1>6 DEF Assembles, Counted, OnesAfter, BitValues
<1>9. PartDone(x) => n = 7
  BY <1>1, <1>2 DEF PartSize
<1> HIDE DEF t, bit
<1>10. Longer(r.byte, bit) = IF n = 7 THEN byte ELSE byte \div (2 * Weight(n + 1))
  <2> HIDE DEF n
  <2>1. /\ n < 7 => Longer(byte \div (2 * Weight(n)), (byte \div Weight(n)) % 2)
                      = byte \div (2 * Weight(n + 1))
        /\ n = 7 => Longer(byte \div (2 * Weight(n)), (byte \div Weight(n)) % 2) = byte
    BY <1>1, <1>2, ByteGrows
  <2>2. n < 7 \/ n = 7
    BY <1>2
  <2>3. Longer(r.byte, bit) = Longer(byte \div (2 * Weight(n)), (byte \div Weight(n)) % 2)
    BY <1>4, <1>5
  <2> QED BY <1>2, <2>1, <2>2, <2>3
<1>11. CASE n # 7
  <2>1. /\ t.n = n + 1 /\ t.byte = byte \div (2 * Weight(n + 1))
        /\ t.bytes = r.bytes /\ t.last = r.last /\ t.overrun = r.overrun
        /\ t.rx = r.rx /\ t.seps = r.seps /\ t.headerBytes = r.headerBytes
    BY <1>2, <1>5, <1>6, <1>10, <1>11 DEF Assembles
  <2>2. y.part = x.part /\ y.pos = x.pos + 1 /\ y.byte = byte /\ y.count = x.count
        /\ y.last = x.last
    BY <1>1, <1>3, <1>9, <1>11
  <2>3. y.pos % 8 = n + 1
    BY <1>1, <1>2, <1>11, <2>2
  <2>4. InBytes(y, t)
    BY <1>8, <2>1, <2>2, <2>3 DEF InBytes
  <2> QED BY <1>7, <2>1, <2>2, <2>4 DEF t, bit
<1>12. CASE n = 7
  <2>1. /\ t.n = 0 /\ t.byte = 0
        /\ r.bytes < Capacity => /\ t.bytes = r.bytes + 1 /\ t.overrun = r.overrun
                                 /\ t.last = byte
        /\ ~(r.bytes < Capacity) => /\ t.bytes = r.bytes /\ t.overrun = TRUE
                                    /\ t.last = r.last
        /\ t.rx = r.rx /\ t.seps = r.seps /\ t.headerBytes = r.headerBytes
    BY <1>2, <1>5, <1>6, <1>10, <1>12 DEF Assembles
  <2>2. y.byte = 0 /\ y.count = x.count + 1 /\ y.last = byte
    BY <1>1, <1>3, <1>12
  <2>3. y.part = x.part => InBytes(y, t)
    <3>1. y.pos % 8 = 0
      BY <1>1, <1>2, <1>12
    <3>2. 0 \div (2 * Weight(0)) = 0
      BY DEF Weight
    <3> QED BY <1>8, <2>1, <2>2, <3>1, <3>2 DEF InBytes
  <2>4. y.part # x.part => y.pos = 0
    BY <1>1
  <2>5. t.bytes = Least(y.count, Capacity)
    BY <1>1, <1>2, <1>7, <2>1, <2>2 DEF Least
  <2>6. t.overrun <=> y.count > Capacity
    BY <1>1, <1>2, <1>7, <2>1, <2>2 DEF Least
  <2>7. y.count \in 1 .. Capacity => t.last = y.last
    BY <1>1, <1>2, <1>7, <2>1, <2>2 DEF Least
  <2> QED BY <1>8, <2>1, <2>3, <2>4, <2>5, <2>6, <2>7 DEF t, bit
<1> QED BY <1>11, <1>12

\* A bit of the separator after header or data, but the last: no byte of it.
LEMMA SeparatorBit ==
    ASSUME NEW x, Writing(x), ~x.stuff, NEW byte, Writable(x, byte), NEW d \in DataLengths,
           NEW y, HasWritten(x, byte, d, y), x.part \in {7, 9}, x.pos < 8,
           NEW r, Station(r), Quiet(x, r), r.rx \in {"header", "body"}, InSeparator(x, r)
    PROVE  LET t == Take(r, BitOf(x, byte))
           IN  t.rx = r.rx /\ t.seps = r.seps /\ SameCapture(r, t) /\ InSeparator(y, t)
<1> DEFINE bit == BitOf(x, byte)
           t == Take(r, bit)
<1>1. /\ x.pos \in Nat /\ x.ones \in 0 .. 4 /\ bit \in BitValues /\ byte \in 0 .. 255
      /\ PartDone(x) <=> x.pos + 1 = PartSize(x.part, x.dlen)
      /\ y.part = IF PartDone(x) THEN Onward(x) ELSE x.part
      /\ y.pos = IF PartDone(x) THEN 0 ELSE x.pos + 1
      /\ y.ones = OnesAfter(x, bit)
  BY BitFacts
<1>2. ~PartDone(x)
  BY <1>1 DEF PartSize
<1>3. y.part = x.part /\ y.pos = x.pos + 1
  BY <1>1, <1>2
<1>4. /\ x.pos = 0 => bit = 0
      /\ x.pos \in 1 .. 6 => bit = 1
      /\ x.pos = 7 => bit = 0
  BY <1>1, CharacterBit, ZenonT(40) DEF Characters
<1>5. QuietNext(r.window) /\ r.seen = 9
  BY DEF Quiet
<1>6. ASSUME x.pos < 7
      PROVE  /\ t.rx = r.rx /\ t.seps = r.seps /\ SameCapture(r, t)
             /\ t.ones = Counted(r.ones, bit) /\ t.n = r.n + 1
  <2>1. r.n = x.pos
    BY <1>1, <1>6 DEF InSeparator
  <2>2. ~(r.ones >= 5 /\ bit = 0)
    BY <1>1, <1>4, <1>6 DEF InSeparator
  <2>3. Assembles(r, bit, t)
    BY <1>1, <1>5, <2>2, TakeByteBit
  <2> QED BY <1>1, <1>6, <2>1, <2>3 DEF Assembles, SameCapture
<1>7. CASE x.pos = 0
  <2> HIDE DEF t, bit
  <2>1. t.ones = 0 /\ t.n = 1 /\ y.pos = 1
    BY <1>3, <1>4, <1>6, <1>7 DEF Counted, InSeparator
  <2>2. InSeparator(y, t)
    BY <2>1 DEF InSeparator, Least
  <2> QED BY <1>6, <1>7, <2>2 DEF t, bit
<1>8. CASE x.pos \in 1 .. 6
  <2> HIDE DEF t, bit
  <2>1. r.ones = Least(x.pos - 1, 5) /\ r.n = x.pos
    BY <1>8 DEF InSeparator
  <2>2. t.ones = Least(x.pos, 5) /\ t.n = x.pos + 1
    BY <1>4, <1>6, <1>8, <2>1 DEF Counted, Least
  <2>3. InSeparator(y, t)
    BY <1>3, <1>8, <2>2 DEF InSeparator
  <2> QED BY <1>6, <1>8, <2>3 DEF t, bit
<1>9. CASE x.pos = 7
  <2>1. r.ones = 5
    BY <1>9 DEF InSeparator, Least
  <2>2. bit = 0
    BY <1>4, <1>9
  <2>3. LET u == Take(r, 0) IN u.rx = r.rx /\ u.seps = r.seps /\ SameCapture(r, u)
    BY <1>5, <2>1, TakeStuffed
  <2> HIDE DEF bit
  <2>4. InSeparator(y, t)
    BY <1>3, <1>9 DEF InSeparator
  <2> QED BY <2>2, <2>3, <2>4 DEF bit
<1> QED BY <1>1, <1>7, <1>8, <1>9

\* Wherever the stream is, a bit is received as it was written.
LEMMA FollowsKept ==
    ASSUME NEW x, Writing(x), ~x.stuff, NEW byte, Writable(x, byte), NEW d \in DataLengths,
           NEW y, HasWritten(x, byte, d, y),
           NEW r, Station(r), r.seps \in 0 .. 3, Prefix(x, r), Follows(x, r)
    PROVE  Follows(y, Take(r, BitOf(x, byte)))
<1> DEFINE bit == BitOf(x, byte)
           t == Take(r, bit)
<1>1. /\ x.part \in 1 .. 12 /\ x.pos \in Nat /\ x.ones \in 0 .. 4 /\ x.dlen \in Nat
      /\ bit \in BitValues /\ byte \in 0 .. 255
      /\ PartDone(x) <=> x.pos + 1 = PartSize(x.part, x.dlen)
      /\ x.pos < PartSize(x.part, x.dlen)
      /\ y.part = IF PartDone(x) THEN Onward(x) ELSE x.part
      /\ y.pos = IF PartDone(x) THEN 0 ELSE x.pos + 1
      /\ y.ones = OnesAfter(x, bit)
      /\ y.byte \in 0 .. 255 /\ y.byte = IF x.pos % 8 = 7 THEN 0 ELSE byte
      /\ y.last = IF ByteDone(x) THEN byte ELSE x.last
      /\ y.count = IF ByteDone(x) THEN x.count + 1
                   ELSE IF x.part = 3 THEN 0 ELSE x.count
      /\ y.count \in Nat
  BY BitFacts
<1>2. Sees(r, bit, t)
  BY <1>1, TakeStation DEF Sees
<1>3. x.part >= 4 /\ y.part >= 4 => Quiet(y, t)
  BY <1>2, QuietKept DEF Follows
<1>4. x.part \in Characters =>
        /\ x.pos = 8 => r.seen >= 8 /\ r.window % 256 = 126 + TypeBits(Kind(x))[1]
        /\ x.part = 3 => TypeBits(Kind(x))[1] = 0 /\ (x.pos = 8 => bit = 1)
        /\ x.part \in {5, 7, 9} => TypeBits(Kind(x))[1] = 0 /\ (x.pos = 8 => bit = 0)
        /\ x.part = 12 => TypeBits(Kind(x))[1] = 1 /\ (x.pos = 8 => bit = 0)
  BY <1>1, CharacterBit DEF Prefix
<1>5. HeaderBytes \in Nat /\ Capacity \in Nat /\ CheckBytes \in Nat
  BY FrameAssumption
<1>6. CASE x.part < 3 \/ y.part < 4
  <2>1. y.part < 4
    BY <1>1, <1>6 DEF Onward
  <2> QED BY <1>1, <2>1 DEF Follows, Onward
<1>7. CASE x.part = 3 /\ y.part >= 4
  <2>1. x.pos = 8 /\ PartDone(x)
    BY <1>1, <1>7 DEF PartSize
  <2>2. y.part = 4 /\ y.pos = 0
    BY <1>1, <1>7, <2>1 DEF Onward
  <2>3. bit = 1 /\ r.seen >= 8 /\ r.window % 256 = 126
    BY <1>4, <1>7, <2>1 DEF Characters
  <2>4. t.rx = "await" /\ t.seps = 0 /\ t.window = 253 /\ t.seen = 9
    BY <2>3, TakeStart
  <2> HIDE DEF t
  <2>5. QuietNow(t.window) /\ QuietNext(t.window)
    BY <2>4 DEF QuietNow, QuietNext
  <2>6. Quiet(y, t)
    BY <2>2, <2>4, <2>5 DEF Quiet
  <2>7. InSequence(y, t) /\ Captured(y, t)
    BY <2>2, <2>4 DEF InSequence, Captured
  <2> QED BY <2>6, <2>7 DEF Follows, t
<1>8. CASE x.part >= 4 /\ y.part >= 4
  <2>1. Quiet(x, r) /\ InSequence(x, r) /\ Captured(x, r) /\ Quiet(y, t)
    BY <1>3, <1>8 DEF Follows
  <2> SUFFICES InSequence(y, t) /\ Captured(y, t)
    BY <2>1 DEF Follows
  <2>2. r.seen = 9 /\ (~(x.part \in Characters /\ x.pos = 8) => QuietNext(r.window))
    BY <2>1 DEF Quiet
  <2>3. CASE x.part = 4
    <3>1. r.rx = "await" /\ r.seps = 0 /\ QuietNext(r.window)
      BY <2>1, <2>2, <2>3 DEF InSequence, Characters
    <3>2. t.rx = "await" /\ t.seps = 0
      BY <1>1, <2>2, <3>1, TakeWaiting
    <3>3. y.part \in {4, 5}
      BY <1>1, <2>3 DEF Onward
    <3> HIDE DEF t
    <3> QED BY <3>2, <3>3 DEF InSequence, Captured
  <2>4. CASE x.part = 5 /\ x.pos < 8
    <3>1. r.rx = "await" /\ r.seps = 0 /\ QuietNext(r.window)
      BY <2>1, <2>2, <2>4 DEF InSequence
    <3>2. t.rx = "await" /\ t.seps = 0
      BY <1>1, <2>2, <3>1, TakeWaiting
    <3>3. y.part = 5
      BY <1>1, <2>4 DEF PartSize
    <3> HIDE DEF t
    <3> QED BY <3>2, <3>3 DEF InSequence, Captured
  <2>5. CASE x.part = 5 /\ x.pos = 8
    <3>1. bit = 0 /\ r.seen >= 8 /\ r.window % 256 = 126 /\ r.rx = "await" /\ r.seps = 0
      BY <1>4, <2>1, <2>5 DEF InSequence, Characters
    <3>2. HeaderOpened(t)
      BY <3>1, TakeSeparator
    <3>3. y.part = 6 /\ y.pos = 0 /\ y.ones = 0 /\ y.count = 0
      BY <1>1, <2>5, WritingTyped DEF PartSize, Onward, OnesAfter, ByteDone, Writing, Characters
    <3> HIDE DEF t
    <3>4. y.byte \div (2 * Weight(0)) = 0 /\ 0 % 8 = 0
      BY <1>1 DEF Weight
    <3>5. InBytes(y, t)
      BY <3>2, <3>3, <3>4 DEF InBytes, HeaderOpened
    <3>6. Captured(y, t)
      BY <1>5, <3>2, <3>3 DEF Captured, Least, HeaderOpened
    <3> QED BY <3>2, <3>3, <3>5, <3>6 DEF InSequence, HeaderOpened
  <2>6. CASE x.part \in {6, 8}
    <3>1. r.rx \in {"header", "body"} /\ InBytes(x, r)
      BY <2>1, <2>6 DEF InSequence
    <3>2. /\ t.rx = r.rx /\ t.seps = r.seps /\ t.headerBytes = r.headerBytes
          /\ y.part = x.part => InBytes(y, t)
          /\ y.part # x.part => y.pos = 0 /\ t.ones = y.ones /\ t.n = 0
          /\ t.bytes = Least(y.count, Capacity)
          /\ t.overrun <=> y.count > Capacity
          /\ y.count \in 1 .. Capacity => t.last = y.last
      BY <2>1, <2>6, <3>1, ByteBit
    <3>3. y.part = x.part \/ y.part = x.part + 1
      BY <1>1, <2>6 DEF Onward
    <3> HIDE DEF t
    <3>4. y.part # x.part => InSeparator(y, t)
      BY <3>2 DEF InSeparator
    <3>5. Captured(y, t)
      BY <2>1, <2>6, <3>2, <3>3 DEF Captured
    <3>6. InSequence(y, t)
      <4>1. CASE x.part = 6
        BY <2>1, <3>2, <3>3, <3>4, <4>1 DEF InSequence
      <4>2. CASE x.part = 8
        BY <2>1, <3>2, <3>3, <3>4, <4>2 DEF InSequence
      <4> QED BY <2>6, <4>1, <4>2
    <3> QED BY <3>5, <3>6
  <2>7. CASE x.part \in {7, 9} /\ x.pos < 8
    <3>1. r.rx \in {"header", "body"} /\ InSeparator(x, r)
      BY <2>1, <2>7 DEF InSequence
    <3>2. t.rx = r.rx /\ t.seps = r.seps /\ SameCapture(r, t) /\ InSeparator(y, t)
      BY <2>1, <2>7, <3>1, SeparatorBit
    <3>3. y.part = x.part /\ y.count = x.count /\ y.last = x.last
      BY <1>1, <2>7 DEF PartSize, ByteDone
    <3> HIDE DEF t
    <3>4. Captured(y, t)
      BY <2>1, <2>7, <3>2, <3>3 DEF Captured, SameCapture
    <3>5. InSequence(y, t)
      BY <2>1, <2>7, <3>2, <3>3 DEF InSequence
    <3> QED BY <3>4, <3>5
  <2>8. CASE x.part = 7 /\ x.pos = 8
    <3>1. bit = 0 /\ r.seen >= 8 /\ r.window % 256 = 126 /\ r.rx = "header" /\ r.seps = 1
      BY <1>4, <2>1, <2>8 DEF InSequence, Characters
    <3>2. BodyOpened(r, t)
      BY <3>1, TakeSeparator
    <3>3. /\ y.part \in {8, 9} /\ y.pos = 0 /\ y.ones = 0 /\ y.count = x.count
          /\ y.last = x.last /\ x.count = HeaderBytes
      BY <1>1, <2>8, WritingTyped DEF PartSize, Onward, OnesAfter, ByteDone, Writing, Characters
    <3> HIDE DEF t
    <3>4. y.byte \div (2 * Weight(0)) = 0 /\ 0 % 8 = 0
      BY <1>1 DEF Weight
    <3>5. InBytes(y, t) /\ InSeparator(y, t)
      BY <3>2, <3>3, <3>4 DEF InBytes, InSeparator, BodyOpened
    <3>6. Captured(y, t)
      BY <2>1, <2>8, <3>2, <3>3 DEF Captured, BodyOpened
    <3> QED BY <3>2, <3>3, <3>5, <3>6 DEF InSequence, BodyOpened
  <2>9. CASE x.part = 9 /\ x.pos = 8
    <3>1. bit = 0 /\ r.seen >= 8 /\ r.window % 256 = 126 /\ r.rx = "body" /\ r.seps = 2
      BY <1>4, <2>1, <2>9 DEF InSequence, Characters
    <3>2. /\ t.rx = "fcs" /\ t.seps = 3 /\ t.ones = 0 /\ t.fcs = 0
          /\ t.lateBits = 0 /\ SameCapture(r, t)
      BY <3>1, TakeSeparator
    <3>3. /\ y.part = 10 /\ y.pos = 0 /\ y.ones = 0 /\ y.count = x.count
          /\ y.last = x.last
      BY <1>1, <2>9, WritingTyped DEF PartSize, Onward, OnesAfter, ByteDone, Characters
    <3> HIDE DEF t
    <3>4. Captured(y, t)
      BY <2>1, <2>9, <3>2, <3>3 DEF Captured, SameCapture
    <3> QED BY <3>2, <3>3, <3>4 DEF InSequence
  <2>10. CASE x.part = 10
    <3>1. /\ r.rx = "fcs" /\ r.ones = x.ones /\ r.fcs = x.pos /\ r.lateBits = 0
          /\ QuietNext(r.window)
      BY <2>1, <2>2, <2>10 DEF InSequence, Characters
    <3>2. ~(r.ones >= 5 /\ bit = 0)
      BY <1>1, <3>1
    <3>3. /\ SameCapture(r, t) /\ t.ones = Counted(r.ones, bit)
          /\ t.fcs = r.fcs + 1 /\ t.lateBits = r.lateBits
          /\ t.rx = IF r.fcs + 1 >= 8 * CheckBytes + 8 THEN "late" ELSE "fcs"
      BY <1>1, <2>2, <3>1, <3>2, TakeFcsBit
    <3> HIDE DEF t
    <3>4. t.ones = y.ones
      BY <1>1, <2>10, <3>1, <3>3, WritingTyped DEF Counted, OnesAfter, BitValues, Characters
    <3>5. y.count = x.count /\ y.last = x.last
      BY <1>1, <2>10 DEF ByteDone
    <3>6. Captured(y, t)
      BY <1>1, <2>1, <2>10, <3>3, <3>5 DEF Captured, SameCapture
    <3>7. CASE PartDone(x)
      BY <1>1, <1>5, <2>10, <3>1, <3>3, <3>4, <3>6, <3>7 DEF InSequence, PartSize, Onward
    <3>8. CASE ~PartDone(x)
      BY <1>1, <1>5, <2>10, <3>1, <3>3, <3>4, <3>6, <3>8 DEF InSequence, PartSize
    <3> QED BY <3>7, <3>8
  <2>11. CASE x.part = 11
    <3>1. /\ r.rx = "late" /\ r.ones = x.ones /\ r.lateBits = x.pos
          /\ QuietNext(r.window)
      BY <2>1, <2>2, <2>11 DEF InSequence, Characters
    <3>2. ~(r.ones >= 5 /\ bit = 0)
      BY <1>1, <3>1
    <3>3. /\ SameCapture(r, t) /\ t.ones = Counted(r.ones, bit)
          /\ t.lateBits = IF r.lateBits < 7 THEN r.lateBits + 1 ELSE 0
          /\ t.rx = IF r.lateBits = 7 THEN "idle" ELSE "late"
      BY <1>1, <2>2, <3>1, <3>2, TakeLateBit
    <3> HIDE DEF t
    <3>4. t.ones = y.ones
      BY <1>1, <2>11, <3>1, <3>3, WritingTyped DEF Counted, OnesAfter, BitValues, Characters
    <3>5. y.count = x.count /\ y.last = x.last
      BY <1>1, <2>11 DEF ByteDone
    <3>6. Captured(y, t)
      BY <1>1, <2>1, <2>11, <3>3, <3>5 DEF Captured, SameCapture
    <3>7. CASE PartDone(x)
      BY <1>1, <2>11, <3>1, <3>3, <3>4, <3>6, <3>7 DEF InSequence, PartSize, Onward
    <3>8. CASE ~PartDone(x)
      BY <1>1, <2>11, <3>1, <3>3, <3>4, <3>6, <3>8 DEF InSequence, PartSize
    <3> QED BY <3>7, <3>8
  <2>12. CASE x.part = 12
    <3>1. y.part = 12
      BY <1>1, <1>8, <2>12 DEF Onward
    <3>2. r.rx = "idle" /\ (QuietNext(r.window) \/ (r.window % 256 = 127 /\ bit = 0))
      BY <1>4, <2>1, <2>2, <2>12 DEF InSequence, Characters
    <3>3. t.rx = "idle" /\ SameCapture(r, t)
      BY <1>1, <2>2, <3>2, TakeWaiting
    <3>4. y.count = x.count /\ y.last = x.last
      BY <1>1, <2>12 DEF ByteDone
    <3> HIDE DEF t
    <3> QED BY <2>1, <2>12, <3>1, <3>3, <3>4 DEF InSequence, Captured, SameCapture
  <2>13. x.part \in {5, 7, 9} => x.pos < 8 \/ x.pos = 8
    BY <1>1 DEF PartSize
  <2>14. x.part \in 4 .. 12
    BY <1>1, <1>8
  <2> QED BY <2>3, <2>4, <2>5, <2>6, <2>7, <2>8, <2>9, <2>10, <2>11, <2>12, <2>13, <2>14
<1>9. y.part \in 1 .. 12
  BY <1>1 DEF Onward
<1> QED BY <1>1, <1>6, <1>7, <1>8, <1>9

-----------------------------------------------------------------------------
(* The other two steps of the stream. *)

\* The stuffed zero, field by field.
LEMMA StuffedAfter ==
    ASSUME NEW x, x \in Writers
    PROVE  LET y == WriteStuffed(x)
           IN  /\ y \in Writers /\ y.part = x.part /\ y.pos = x.pos /\ y.ones = 0
               /\ y.stuff = FALSE /\ y.dlen = x.dlen /\ y.byte = x.byte /\ y.last = x.last
               /\ y.count = x.count
<1> DEFINE F == FALSE
           y == [x EXCEPT !.ones = 0, !.stuff = F]
<1>1. WriteStuffed(x) = y
  BY DEF WriteStuffed
<1>2. F \in BOOLEAN
  OBVIOUS
<1> HIDE DEF F
<1>3. 0 \in 0 .. 5
  OBVIOUS
<1>4. y \in Writers
  <2> DEFINE O == 0 .. 5
             B == 0 .. 255
             T == BOOLEAN
  <2>1. /\ x \in [part : DOMAIN Parts, pos : Nat, ones : O, stuff : T, dlen : DataLengths,
                  byte : B, last : B, count : Nat]
        /\ 0 \in O /\ F \in T
    BY <1>2, <1>3 DEF Writers
  <2> HIDE DEF O, B, T, y
  <2>2. [x EXCEPT !.ones = 0, !.stuff = F]
          \in [part : DOMAIN Parts, pos : Nat, ones : O, stuff : T, dlen : DataLengths,
               byte : B, last : B, count : Nat]
    BY <2>1, ZenonT(60)
  <2> QED BY <2>2 DEF O, B, T, Writers, y
<1>5. /\ y.part = x.part /\ y.pos = x.pos /\ y.ones = 0
      /\ y.stuff = F /\ y.dlen = x.dlen /\ y.byte = x.byte /\ y.last = x.last
      /\ y.count = x.count
  BY DEF Writers
<1> HIDE DEF y
<1> QED BY <1>1, <1>4, <1>5 DEF F

\* A zero is owed in a field or at the first bit of the character after it.
LEMMA WhereZeroIsOwed ==
    ASSUME NEW x, Writing(x), x.stuff
    PROVE  x.ones = 5 /\ x.part \notin {4, 5} /\ (x.part \in Characters => x.pos = 0)
BY WritingTyped DEF Writing

\* The stuffed zero is no part of the field's length.
LEMMA PartLengthKept ==
    ASSUME NEW x, Writing(x)
    PROVE  PartLength(WriteStuffed(x), x.part) = PartLength(x, x.part)
<1> DEFINE y == WriteStuffed(x)
<1>1. x.part \in 1 .. 12 /\ x \in Writers
  BY WritingTyped
<1>2. y.dlen = x.dlen
  BY <1>1, StuffedAfter
<1> HIDE DEF y
<1>3. PartLength(y, x.part) = PartLength(x, x.part)
  BY <1>1, <1>2, PartSizes
<1> QED BY <1>3 DEF y

\* The station drops the zero that was stuffed.
LEMMA StuffingKept ==
    ASSUME NEW x, Writing(x), x.stuff, NEW y, y = WriteStuffed(x),
           NEW r, Station(r), r.seps \in 0 .. 3, Prefix(x, r), Follows(x, r)
    PROVE  LET t == Take(r, 0)
           IN  Writing(y) /\ Prefix(y, t) /\ Follows(y, t)
<1> DEFINE t == Take(r, 0)
<1>1. /\ y \in Writers /\ y.part = x.part /\ y.pos = x.pos /\ y.ones = 0
      /\ y.stuff = FALSE /\ y.dlen = x.dlen /\ y.byte = x.byte /\ y.last = x.last
      /\ y.count = x.count
  BY WritingTyped, StuffedAfter, ZenonT(40)
<1>2. x.ones = 5 /\ x.part \notin {4, 5} /\ (x.part \in Characters => x.pos = 0)
  BY WhereZeroIsOwed
<1>3. 0 \in BitValues
  BY DEF BitValues
<1>4. x.part \in 1 .. 12 /\ r.window \in 0 .. 511
  BY WritingTyped DEF Station
<1>5. Writing(y)
  <2>1. y.pos < PartLength(y, y.part)
    BY <1>1, PartLengthKept DEF Writing
  <2> QED BY <1>1, <2>1 DEF Writing
<1>6. Sees(r, 0, t)
  BY <1>3, TakeStation DEF Sees
<1>7. Prefix(y, t)
  BY <1>1, <1>2 DEF Prefix
<1>8. ASSUME x.part >= 4 PROVE Quiet(y, t) /\ InSequence(y, t) /\ Captured(y, t)
  <2>1. Quiet(x, r) /\ InSequence(x, r) /\ Captured(x, r)
    BY <1>8 DEF Follows
  <2>2. QuietNow(r.window) /\ QuietNext(r.window) /\ r.seen = 9
    BY <1>2, <2>1 DEF Quiet
  <2>3. QuietNow(t.window) /\ QuietNext(t.window) /\ Run(t.window, 0) /\ t.seen = 9
    <3> HIDE DEF t
    <3>1. t.window = Shift(r.window, 0) /\ t.seen = 9
      BY <1>6, <2>2 DEF Sees
    <3>2. QuietNow(Shift(r.window, 0)) /\ Run(Shift(r.window, 0), 0)
      BY <1>4, QuietAfterZero, RunEnds
    <3>3. QuietNext(Shift(r.window, 0))
      BY <1>3, <1>4, <2>2, QuietMovesOn
    <3> QED BY <3>1, <3>2, <3>3
  <2>4. CASE x.part \in 6 .. 11
    <3>1. r.rx \notin {"idle", "await"} /\ r.ones = 5
      BY <1>2, <2>1, <2>4 DEF InSequence, InBytes, InSeparator, Characters
    <3>2. /\ t.rx = r.rx /\ t.seps = r.seps /\ SameCapture(r, t)
          /\ t.ones = 0 /\ t.n = r.n /\ t.byte = r.byte
          /\ t.fcs = r.fcs /\ t.lateBits = r.lateBits
      BY <2>2, <3>1, TakeStuffed
    <3> HIDE DEF t
    <3>3. Quiet(y, t)
      BY <1>1, <2>3 DEF Quiet
    <3>4. InBytes(x, r) => InBytes(y, t)
      BY <1>1, <3>2 DEF InBytes
    <3>5. x.part \in {7, 9} => InSeparator(y, t)
      BY <1>1, <1>2, <2>1, <3>2 DEF InSeparator, InSequence, Characters
    <3>6. InSequence(y, t)
      BY <1>1, <2>1, <2>4, <3>2, <3>4, <3>5 DEF InSequence
    <3>7. Captured(y, t)
      BY <1>1, <2>1, <3>2 DEF Captured, SameCapture
    <3> QED BY <3>3, <3>6, <3>7
  <2>5. CASE x.part = 12
    <3>1. r.rx = "idle"
      BY <2>1, <2>5 DEF InSequence
    <3>2. t.rx = r.rx /\ t.seps = r.seps /\ SameCapture(r, t)
      BY <1>3, <2>2, <3>1, TakeWaiting
    <3> HIDE DEF t
    <3>3. Quiet(y, t)
      BY <1>1, <2>3 DEF Quiet
    <3>4. InSequence(y, t)
      BY <1>1, <2>5, <3>1, <3>2 DEF InSequence
    <3>5. Captured(y, t)
      BY <1>1, <2>1, <3>2 DEF Captured, SameCapture
    <3> QED BY <3>3, <3>4, <3>5
  <2> QED BY <1>2, <1>4, <1>8, <2>4, <2>5
<1>9. Follows(y, t)
  BY <1>1, <1>8 DEF Follows
<1> QED BY <1>5, <1>7, <1>9

\* A stream that starts, or that was cut off and starts again: nothing is asked
\* of the station before the next frame start.
LEMMA FromTheGap ==
    ASSUME NEW d \in DataLengths, NEW r
    PROVE  LET y == WriterInit(d) IN Writing(y) /\ Prefix(y, r) /\ Follows(y, r)
<1> DEFINE F == FALSE
           y == WriterInit(d)
<1>1. F \in BOOLEAN
  OBVIOUS
<1>2. 1 \in DOMAIN Parts
  BY TheParts
<1>3. y = [part |-> 1, pos |-> 0, ones |-> 0, stuff |-> F, dlen |-> d, byte |-> 0,
           last |-> 0, count |-> 0]
  BY DEF WriterInit
<1> HIDE DEF y
<1>4. y \in Writers
  <2> HIDE DEF F
  <2> QED BY <1>1, <1>2, <1>3 DEF Writers
<1>5. y.part = 1 /\ y.pos = 0 /\ y.ones = 0 /\ y.stuff = F
  BY <1>3
<1>6. Writing(y)
  BY <1>4, <1>5, Lengths DEF Writing, Characters
<1> QED BY <1>5, <1>6 DEF Prefix, Follows, Characters, y

-----------------------------------------------------------------------------
(* The invariant, and what it is for. *)

\* The invariant holds at first: the stream starts in the gap.
LEMMA InitMacInv == MacInit => MacInv
<1> SUFFICES ASSUME MacInit PROVE MacInv
  OBVIOUS
<1>1. PICK d \in DataLengths : w = WriterInit(d)
  BY DEF MacInit
<1>2. PICK mine \in BOOLEAN, enabled \in BOOLEAN : a = ReceiverInit(mine, enabled)
  BY DEF MacInit, NewReceivers
<1>3. Station(a) /\ a.seps \in 0 .. 3
  <2> DEFINE F == FALSE
  <2>1. a = [window |-> 0, seen |-> 0, rx |-> "idle", seps |-> 0, ones |-> 0, byte |-> 0,
             n |-> 0, bits |-> 0, bytes |-> 0, last |-> 0, overrun |-> F,
             headerBytes |-> 0, mine |-> mine, enabled |-> enabled, addressed |-> F,
             flipped |-> F, fcs |-> 0, late |-> 0, lateBits |-> 0, pending |-> 0]
    BY <1>2 DEF ReceiverInit
  <2> HIDE DEF F
  <2> QED BY <2>1 DEF Station, Fields, Phases
<1>4. Writing(WriterInit(d)) /\ Prefix(WriterInit(d), a) /\ Follows(WriterInit(d), a)
  BY FromTheGap
<1> QED BY <1>1, <1>3, <1>4 DEF MacInv

\* A bit of the frame, a stuffed zero and a cut: the station is still where the
\* transmitter is.
LEMMA NextMacInv == MacInv /\ [MacNext]_macVars => MacInv'
<1> SUFFICES ASSUME MacInv, [MacNext]_macVars PROVE MacInv'
  OBVIOUS
<1>1. /\ Writing(w) /\ Station(a) /\ a.seps \in 0 .. 3 /\ Prefix(w, a) /\ Follows(w, a)
      /\ w \in Writers /\ w.dlen \in DataLengths
  BY WritingTyped DEF MacInv, Writers
<1>2. 0 \in BitValues
  BY DEF BitValues
<1>3. CASE FieldBit
  <2>1. ~w.stuff
    BY <1>3 DEF FieldBit
  <2>2. PICK byte \in FieldBytes(w), d \in DataLengths :
          w' = WriteBit(w, byte, d) /\ a' = Take(a, BitOf(w, byte))
    BY <1>1, <1>3 DEF FieldBit, Pass
  <2>a. Writable(w, byte)
    BY <1>1, FieldBytesWritable
  <2>3. HasWritten(w, byte, d, w') /\ byte \in 0 .. 255 /\ BitOf(w, byte) \in BitValues
    BY <1>1, <2>1, <2>2, <2>a, BitWrites
  <2>4. Station(a') /\ a'.seps \in 0 .. 3 /\ Sees(a, BitOf(w, byte), a')
    BY <1>1, <2>2, <2>3, TakeStation DEF Sees
  <2>5. Writing(w')
    BY <1>1, <2>1, <2>3, <2>a, WritingKept
  <2>6. Prefix(w', a')
    BY <1>1, <2>3, <2>4, PrefixKept
  <2>7. Follows(w', a')
    BY <1>1, <2>1, <2>2, <2>3, <2>a, FollowsKept
  <2> QED BY <2>4, <2>5, <2>6, <2>7 DEF MacInv
<1>4. CASE StuffedBit
  <2>1. w.stuff /\ w' = WriteStuffed(w) /\ a' = Take(a, 0)
    BY <1>4 DEF StuffedBit, Pass
  <2>2. Station(a') /\ a'.seps \in 0 .. 3
    BY <1>1, <1>2, <2>1, TakeStation
  <2>3. Writing(w') /\ Prefix(w', a') /\ Follows(w', a')
    BY <1>1, <2>1, StuffingKept
  <2> QED BY <2>2, <2>3 DEF MacInv
<1>5. CASE CutOff
  <2>1. w' = WriterInit(w.dlen) /\ a' = Take(a, 0)
    BY <1>5 DEF CutOff, Pass
  <2>2. Station(a') /\ a'.seps \in 0 .. 3
    BY <1>1, <1>2, <2>1, TakeStation
  <2>3. Writing(w') /\ Prefix(w', a') /\ Follows(w', a')
    BY <1>1, <2>1, FromTheGap
  <2> QED BY <2>2, <2>3 DEF MacInv
<1>6. CASE UNCHANGED macVars
  BY <1>1, <1>6 DEF macVars, MacInv
<1> QED BY <1>3, <1>4, <1>5, <1>6 DEF MacNext

\* The invariant says what the run checks.
LEMMA IInvCaptures == MacInv => CapturedAsSent
<1> SUFFICES ASSUME MacInv, w.part > 5 PROVE
      /\ a.bytes = Least(w.count, Capacity)
      /\ a.overrun <=> w.count > Capacity
      /\ w.count \in 1 .. Capacity => a.last = w.last
      /\ w.part > 7 => a.headerBytes = Least(HeaderBytes, Capacity)
  BY DEF CapturedAsSent
<1>1. w.part \in 1 .. 12
  BY WritingTyped DEF MacInv
<1>2. Captured(w, a)
  BY <1>1 DEF MacInv, Follows
<1> QED BY <1>1, <1>2 DEF Captured

\* Whatever the bytes of a frame, however long it is and however small the
\* station's buffer, the station next to the transmitter stores the bytes of
\* header and data that were written, in number and one by one, and says so
\* when they did not fit: no separator and no stuffed zero becomes a byte, and
\* no byte is taken for a separator (ap_ring_station_receive).
THEOREM CapturesWhatWasSent == MacSpec => []CapturedAsSent
<1>1. MacInit => MacInv
  BY InitMacInv
<1>2. MacInv /\ [MacNext]_macVars => MacInv'
  BY NextMacInv
<1>3. MacInv => CapturedAsSent
  BY IInvCaptures
<1> QED BY <1>1, <1>2, <1>3, PTL DEF MacSpec

-----------------------------------------------------------------------------
(* What a station does with one bit. *)

\* What a station has of a frame besides its bytes.
SameFrame(r, t) == /\ t.bits = r.bits /\ t.addressed = r.addressed /\ t.flipped = r.flipped
                   /\ t.late = r.late /\ t.mine = r.mine /\ t.enabled = r.enabled

\* The bit goes out as it came in.
Passed(r, bit, t) == t.pending = bit /\ SameFrame(r, t)

\* A bit sampled and counted is still to go out as it came in.
LEMMA SampledPasses ==
    ASSUME NEW r, Station(r), NEW bit \in BitValues
    PROVE  LET s == Sampled(r, bit)
               c == CountOnes(s, bit)
           IN  /\ DOMAIN s = Fields /\ Passed(r, bit, s) /\ DOMAIN c = Fields /\ Passed(r, bit, c)
<1> DEFINE s == Sampled(r, bit)
           c == CountOnes(s, bit)
<1>1. DOMAIN s = Fields /\ Passed(r, bit, s)
  BY DEF Station, Fields, Sampled, Sample, Passed, SameFrame
<1> HIDE DEF s
<1>2. DOMAIN c = Fields /\ Passed(s, s.pending, c)
  BY <1>1 DEF CountOnes, Fields, Passed, SameFrame
<1> HIDE DEF c
<1> QED BY <1>1, <1>2 DEF Passed, SameFrame, s, c

\* The bit ends a frame start, or a separator that the station heeds.
Starts(r, bit) == r.seen >= 8 /\ Shift(r.window, bit) = 253

Separates(r, bit) == r.seen >= 8 /\ Shift(r.window, bit) = 252 /\ r.rx # "idle"

Plain(r, bit) == ~Starts(r, bit) /\ ~Separates(r, bit)

\* The tests of the code on the window say so.
LEMMA WhatEnds ==
    ASSUME NEW r, Station(r), NEW bit \in BitValues
    PROVE  LET s == Sampled(r, bit)
           IN  /\ SymbolIs(s, "start") <=> Starts(r, bit)
               /\ SymbolIs(s, "sep") /\ s.rx # "idle" <=> Separates(r, bit)
<1> DEFINE s == Sampled(r, bit)
           v == Shift(r.window, bit)
<1>1. /\ s.window = v /\ s.rx = r.rx
      /\ s.seen = IF r.seen < 9 THEN r.seen + 1 ELSE 9
  BY SampledAfter
<1>2. v \in 0 .. 511 /\ r.seen \in 0 .. 9
  BY DEF Shift, Station, BitValues
<1> HIDE DEF s, v
<1>3. s.seen = 9 <=> r.seen >= 8
  BY <1>1, <1>2
<1>4. (v \div 4 = 63 /\ v % 4 = 1 <=> v = 253) /\ (v \div 4 = 63 /\ v % 4 = 0 <=> v = 252)
  BY <1>2
<1>5. SymbolIs(s, "start") <=> r.seen >= 8 /\ v = 253
  BY <1>1, <1>3, <1>4, SymbolsAre DEF AtSymbol
<1>6. SymbolIs(s, "sep") <=> r.seen >= 8 /\ v = 252
  BY <1>1, <1>3, <1>4, SymbolsAre DEF AtSymbol
<1> QED BY <1>1, <1>5, <1>6 DEF s, v, Starts, Separates

\* Where no character ends, a bit is left alone, dropped, or goes into the
\* sequence the station follows.
LEMMA PlainTake ==
    ASSUME NEW r, Station(r), NEW bit \in BitValues, Plain(r, bit)
    PROVE  LET s == Sampled(r, bit)
               c == CountOnes(s, bit)
           IN  Take(r, bit) = IF r.rx \in {"idle", "await"} THEN s
                              ELSE IF r.ones >= 5 /\ bit = 0 THEN c ELSE FieldStep(c, bit)
<1> DEFINE s == Sampled(r, bit)
           c == CountOnes(s, bit)
           t == Take(r, bit)
<1>1. s.rx = r.rx /\ s.ones = r.ones
  BY SampledAfter
<1>2. t = IF SymbolIs(s, "start") THEN FrameStart(s)
          ELSE IF SymbolIs(s, "sep") /\ s.rx # "idle" THEN Separator(s)
          ELSE IF s.rx \in {"idle", "await"} THEN s
          ELSE IF Stuffed(s, bit) THEN c ELSE FieldStep(c, bit)
  BY DEF Take, Sampled
<1>4. ~SymbolIs(s, "start") /\ ~(SymbolIs(s, "sep") /\ s.rx # "idle")
  BY WhatEnds DEF Plain
<1> HIDE DEF s
<1>5. Stuffed(s, bit) <=> r.ones >= 5 /\ bit = 0
  BY <1>1 DEF Stuffed, StuffAfterOnes
<1> QED BY <1>1, <1>2, <1>4, <1>5 DEF s

\* A station that follows no sequence passes the bit on.
LEMMA WaitingPasses ==
    ASSUME NEW r, Station(r), NEW bit \in BitValues, Plain(r, bit),
           r.rx \in {"idle", "await"}
    PROVE  LET t == Take(r, bit)
           IN  Passed(r, bit, t) /\ t.rx = r.rx /\ t.seps = r.seps
<1> DEFINE s == Sampled(r, bit)
<1>1. Take(r, bit) = s
  BY PlainTake
<1>2. Passed(r, bit, s) /\ s.rx = r.rx /\ s.seps = r.seps
  BY SampledPasses, SampledAfter
<1> HIDE DEF s
<1> QED BY <1>1, <1>2

\* A stuffed zero is passed on, and nothing is done with it.
LEMMA StuffedPasses ==
    ASSUME NEW r, Station(r), NEW bit \in BitValues, Plain(r, bit),
           r.rx \notin {"idle", "await"}, r.ones >= 5, bit = 0
    PROVE  LET t == Take(r, bit)
           IN  /\ Passed(r, bit, t) /\ t.rx = r.rx /\ t.seps = r.seps /\ t.ones = 0
               /\ t.fcs = r.fcs /\ t.lateBits = r.lateBits
<1> DEFINE c == CountOnes(Sampled(r, bit), bit)
<1>1. Take(r, bit) = c
  BY PlainTake
<1>2. /\ Passed(r, bit, c) /\ c.rx = r.rx /\ c.seps = r.seps /\ c.ones = 0
      /\ c.fcs = r.fcs /\ c.lateBits = r.lateBits
  BY SampledPasses, CountedAfter DEF Counted
<1> HIDE DEF c
<1> QED BY <1>1, <1>2

\* A bit of data is passed on.
LEMMA BodyPasses ==
    ASSUME NEW r, Station(r), NEW bit \in BitValues, Plain(r, bit),
           r.rx = "body", ~(r.ones >= 5 /\ bit = 0)
    PROVE  LET t == Take(r, bit)
           IN  /\ Passed(r, bit, t) /\ t.rx = r.rx /\ t.seps = r.seps
               /\ t.ones = Counted(r.ones, bit)
<1> DEFINE c == CountOnes(Sampled(r, bit), bit)
           t == Take(r, bit)
<1>1. t = FieldStep(c, bit)
  BY PlainTake
<1>2. /\ DOMAIN c = Fields /\ Passed(r, bit, c) /\ c.rx = r.rx /\ c.seps = r.seps
      /\ c.ones = Counted(r.ones, bit)
  BY SampledPasses, CountedAfter
<1> HIDE DEF c, t
<1>3. t = Assemble(c, bit)
  BY <1>1, <1>2 DEF FieldStep
<1>4. Passed(c, c.pending, t) /\ t.rx = c.rx /\ t.seps = c.seps /\ t.ones = c.ones
  <2>1. CASE c.n < 7
    BY <1>2, <1>3, <2>1 DEF Assemble, Passed, SameFrame, Fields
  <2>2. CASE ~(c.n < 7) /\ c.bytes < Capacity
    BY <1>2, <1>3, <2>2 DEF Assemble, Passed, SameFrame, Fields
  <2>3. CASE ~(c.n < 7) /\ ~(c.bytes < Capacity)
    BY <1>2, <1>3, <2>3 DEF Assemble, Passed, SameFrame, Fields
  <2> QED BY <2>1, <2>2, <2>3
<1>5. /\ Passed(r, bit, t) /\ t.rx = r.rx /\ t.seps = r.seps
      /\ t.ones = Counted(r.ones, bit)
  BY <1>2, <1>4 DEF Passed, SameFrame
<1> QED BY <1>5 DEF t

\* A bit of the frame check is passed on.
LEMMA FcsPasses ==
    ASSUME NEW r, Station(r), NEW bit \in BitValues, Plain(r, bit),
           r.rx = "fcs", ~(r.ones >= 5 /\ bit = 0)
    PROVE  LET t == Take(r, bit)
           IN  /\ Passed(r, bit, t) /\ t.seps = r.seps /\ t.ones = Counted(r.ones, bit)
               /\ t.fcs = r.fcs + 1 /\ t.lateBits = r.lateBits
               /\ t.rx = IF r.fcs + 1 >= 8 * CheckBytes + 8 THEN "late" ELSE "fcs"
<1> DEFINE c == CountOnes(Sampled(r, bit), bit)
           t == Take(r, bit)
<1>1. t = FieldStep(c, bit)
  BY PlainTake
<1>2. /\ DOMAIN c = Fields /\ Passed(r, bit, c) /\ c.rx = r.rx /\ c.seps = r.seps
      /\ c.ones = Counted(r.ones, bit) /\ c.fcs = r.fcs /\ c.lateBits = r.lateBits
  BY SampledPasses, CountedAfter
<1> HIDE DEF c, t
<1>3. t = FcsStep(c)
  BY <1>1, <1>2 DEF FieldStep
<1>4. Passed(c, c.pending, t)
  BY <1>2, <1>3 DEF FcsStep, Passed, SameFrame, Fields
<1>5. /\ t.seps = c.seps /\ t.ones = c.ones /\ t.fcs = c.fcs + 1
      /\ t.lateBits = c.lateBits
      /\ t.rx = IF c.fcs + 1 >= 8 * CheckBytes + 8 THEN "late" ELSE "fcs"
  BY <1>2, <1>3, FcsAfter
<1>6. /\ Passed(r, bit, t) /\ t.seps = r.seps /\ t.ones = Counted(r.ones, bit)
      /\ t.fcs = r.fcs + 1 /\ t.lateBits = r.lateBits
      /\ t.rx = IF r.fcs + 1 >= 8 * CheckBytes + 8 THEN "late" ELSE "fcs"
  BY <1>2, <1>4, <1>5 DEF Passed, SameFrame
<1> QED BY <1>6 DEF t

\* The first bit of the early acknowledge.
EarlyBits == 8 * EarlyAck

\* The bit an addressee sets, and the parity bit it flips for that.
Sets(r, bit) == r.addressed /\ r.bits = EarlyBits + 4 /\ bit = 0

Flips(r) == r.addressed /\ r.bits = EarlyBits + 6 /\ r.flipped

\* What a bit of the header changes.
HeaderGoesOn(r, bit, t) ==
    /\ t.rx = "header" /\ t.seps = r.seps /\ t.ones = Counted(r.ones, bit)
    /\ t.bits = r.bits + 1
    /\ t.addressed = IF r.bits + 1 = 8 * DecideBytes THEN r.mine ELSE r.addressed
    /\ t.flipped = (r.flipped \/ Sets(r, bit))
    /\ t.pending = IF Sets(r, bit) \/ Flips(r) THEN 1 - bit ELSE bit
    /\ t.late = r.late /\ t.lateBits = r.lateBits
    /\ t.mine = r.mine /\ t.enabled = r.enabled

\* A bit of the header.
LEMMA HeaderPasses ==
    ASSUME NEW r, Station(r), NEW bit \in BitValues, Plain(r, bit),
           r.rx = "header", ~(r.ones >= 5 /\ bit = 0), r.bits \in Nat
    PROVE  HeaderGoesOn(r, bit, Take(r, bit))
<1> DEFINE c == CountOnes(Sampled(r, bit), bit)
           t == Take(r, bit)
<1>1. t = FieldStep(c, bit)
  BY PlainTake
<1>2. /\ DOMAIN c = Fields /\ SameFrame(r, c) /\ c.rx = r.rx /\ c.seps = r.seps
      /\ c.ones = Counted(r.ones, bit) /\ c.lateBits = r.lateBits
  BY SampledPasses, CountedAfter DEF Passed
<1> HIDE DEF c, t
<1>3. t = HeaderBit(c, bit)
  BY <1>1, <1>2 DEF FieldStep
<1> DEFINE q == [c EXCEPT !.bits = c.bits + 1]
           got == Assemble(q, bit)
           field == c.addressed /\ c.bits \div 8 = EarlyAck
           sets == field /\ c.bits % 8 = 4 /\ bit = 0
           flips == field /\ c.bits % 8 = 6 /\ c.flipped
           addressed == IF got.bits = 8 * DecideBytes THEN c.mine ELSE got.addressed
           flipped == got.flipped \/ sets
           pending == IF sets \/ flips THEN 1 - bit ELSE bit
<1>4. t = [got EXCEPT !.addressed = addressed, !.flipped = flipped, !.pending = pending]
  BY <1>3 DEF HeaderBit
<1>5. EarlyAck \in Nat /\ c.bits \in Nat
  BY <1>2, FrameAssumption DEF EarlyAck, SameFrame
<1>6. (sets <=> Sets(r, bit)) /\ (flips <=> Flips(r))
  <2>1. c.bits \div 8 = EarlyAck /\ c.bits % 8 = 4 <=> c.bits = EarlyBits + 4
    BY <1>5 DEF EarlyBits
  <2>2. c.bits \div 8 = EarlyAck /\ c.bits % 8 = 6 <=> c.bits = EarlyBits + 6
    BY <1>5 DEF EarlyBits
  <2> QED BY <1>2, <2>1, <2>2 DEF Sets, Flips, SameFrame
<1>7. pending = IF Sets(r, bit) \/ Flips(r) THEN 1 - bit ELSE bit
  BY <1>6
<1>8. /\ DOMAIN q = Fields /\ q.bits = r.bits + 1 /\ q.addressed = r.addressed
      /\ q.flipped = r.flipped /\ q.late = r.late /\ q.lateBits = r.lateBits
      /\ q.mine = r.mine /\ q.enabled = r.enabled /\ q.rx = "header" /\ q.seps = r.seps
      /\ q.ones = Counted(r.ones, bit)
  BY <1>2 DEF Fields, SameFrame
<1> HIDE DEF q, sets, flips
<1>9. /\ DOMAIN got = Fields /\ got.bits = q.bits /\ got.addressed = q.addressed
      /\ got.flipped = q.flipped /\ got.late = q.late /\ got.lateBits = q.lateBits
      /\ got.mine = q.mine /\ got.enabled = q.enabled /\ got.rx = q.rx /\ got.seps = q.seps
      /\ got.ones = q.ones
  <2>1. CASE q.n < 7
    BY <1>8, <2>1 DEF Assemble, Fields
  <2>2. CASE ~(q.n < 7) /\ q.bytes < Capacity
    BY <1>8, <2>2 DEF Assemble, Fields
  <2>3. CASE ~(q.n < 7) /\ ~(q.bytes < Capacity)
    BY <1>8, <2>3 DEF Assemble, Fields
  <2> QED BY <2>1, <2>2, <2>3
<1> HIDE DEF got
<1>10. addressed = IF r.bits + 1 = 8 * DecideBytes THEN r.mine ELSE r.addressed
  BY <1>2, <1>8, <1>9 DEF SameFrame
<1>11. flipped = (r.flipped \/ Sets(r, bit))
  BY <1>6, <1>8, <1>9, Zenon
<1> HIDE DEF addressed, flipped, pending
<1>12. /\ t.rx = got.rx /\ t.seps = got.seps /\ t.ones = got.ones /\ t.bits = got.bits
       /\ t.late = got.late /\ t.lateBits = got.lateBits /\ t.mine = got.mine
       /\ t.enabled = got.enabled /\ t.addressed = addressed /\ t.pending = pending
       /\ t.flipped = flipped
  BY <1>4, <1>9 DEF Fields
<1>13. HeaderGoesOn(r, bit, t)
  <2>1. t.flipped = (r.flipped \/ Sets(r, bit))
    BY <1>11, <1>12, Zenon
  <2>2. t.pending = IF Sets(r, bit) \/ Flips(r) THEN 1 - bit ELSE bit
    BY <1>7, <1>12, Zenon
  <2>3. t.addressed = IF r.bits + 1 = 8 * DecideBytes THEN r.mine ELSE r.addressed
    BY <1>10, <1>12, Zenon
  <2>4. /\ t.rx = "header" /\ t.seps = r.seps /\ t.ones = Counted(r.ones, bit)
        /\ t.bits = r.bits + 1 /\ t.late = r.late /\ t.lateBits = r.lateBits
        /\ t.mine = r.mine /\ t.enabled = r.enabled
    BY <1>8, <1>9, <1>12
  <2> QED BY <2>1, <2>2, <2>3, <2>4, Zenon DEF HeaderGoesOn
<1> QED BY <1>13 DEF t

\* What a bit of the late acknowledge changes.
LateGoesOn(r, bit, t) ==
    /\ t.late = (2 * r.late + LateBit(r, bit)) % 256 /\ t.pending = LateBit(r, bit)
    /\ t.lateBits = IF r.lateBits < 7 THEN r.lateBits + 1 ELSE 0
    /\ t.rx = IF r.lateBits = 7 THEN "idle" ELSE "late"
    /\ t.seps = r.seps /\ t.ones = Counted(r.ones, bit) /\ t.bits = r.bits
    /\ t.addressed = r.addressed /\ t.flipped = r.flipped
    /\ t.mine = r.mine /\ t.enabled = r.enabled

\* A bit of the late acknowledge.
LEMMA LatePasses ==
    ASSUME NEW r, Station(r), NEW bit \in BitValues, Plain(r, bit),
           r.rx = "late", ~(r.ones >= 5 /\ bit = 0)
    PROVE  LateGoesOn(r, bit, Take(r, bit))
<1> DEFINE c == CountOnes(Sampled(r, bit), bit)
           t == Take(r, bit)
<1>1. t = FieldStep(c, bit)
  BY PlainTake
<1>2. /\ DOMAIN c = Fields /\ SameFrame(r, c) /\ c.rx = r.rx /\ c.seps = r.seps
      /\ c.ones = Counted(r.ones, bit) /\ c.lateBits = r.lateBits
  BY SampledPasses, CountedAfter DEF Passed
<1> HIDE DEF c, t
<1>3. t = LateStep(c, bit)
  BY <1>1, <1>2 DEF FieldStep
<1>4. LateBit(c, bit) = LateBit(r, bit)
  BY <1>2 DEF LateBit, SameFrame
<1> DEFINE bitOut == LateBit(r, bit)
<1> HIDE DEF bitOut
<1>5. t = [c EXCEPT !.late = (2 * c.late + bitOut) % 256, !.pending = bitOut,
                    !.lateBits = IF c.lateBits < 7 THEN c.lateBits + 1 ELSE 0,
                    !.rx = IF c.lateBits = 7 THEN "idle" ELSE c.rx]
  BY <1>3, <1>4 DEF LateStep, bitOut
<1>6. /\ t.late = (2 * c.late + bitOut) % 256 /\ t.pending = bitOut
      /\ t.lateBits = IF c.lateBits < 7 THEN c.lateBits + 1 ELSE 0
      /\ t.rx = IF c.lateBits = 7 THEN "idle" ELSE c.rx
      /\ t.seps = c.seps /\ t.ones = c.ones /\ t.bits = c.bits
      /\ t.addressed = c.addressed /\ t.flipped = c.flipped
      /\ t.mine = c.mine /\ t.enabled = c.enabled
  BY <1>2, <1>5 DEF Fields
<1>7. LateGoesOn(r, bit, t)
  BY <1>2, <1>6 DEF LateGoesOn, SameFrame, bitOut
<1> QED BY <1>7 DEF t

\* Where the window ends in anything but a character there is no symbol.
LEMMA NothingEnds ==
    ASSUME NEW r, NEW bit, Shift(r.window, bit) \div 4 # 63
    PROVE  Plain(r, bit)
BY DEF Plain, Starts, Separates

\* A frame start puts the station before a new frame, and passes.
FrameStarts(r, bit, t) ==
    /\ t.rx = "await" /\ t.seps = 0 /\ t.pending = bit /\ t.addressed = FALSE
    /\ t.flipped = FALSE /\ t.ones = r.ones /\ t.bits = r.bits
    /\ t.late = r.late /\ t.lateBits = r.lateBits
    /\ t.mine = r.mine /\ t.enabled = r.enabled

\* What starts a frame does so.
LEMMA StartPasses ==
    ASSUME NEW r, Station(r), NEW bit \in BitValues, Starts(r, bit)
    PROVE  FrameStarts(r, bit, Take(r, bit))
<1> DEFINE s == Sampled(r, bit)
           t == Take(r, bit)
<1>1. t = FrameStart(s)
  BY WhatEnds DEF Take, Sampled
<1>2. /\ DOMAIN s = Fields /\ Passed(r, bit, s) /\ s.ones = r.ones
      /\ s.lateBits = r.lateBits
  BY SampledPasses, SampledAfter
<1> HIDE DEF s, t
<1> DEFINE F == FALSE
<1>3. t = [s EXCEPT !.rx = "await", !.addressed = F, !.flipped = F, !.seps = 0]
  BY <1>1 DEF FrameStart
<1> HIDE DEF F
<1>4. /\ t.rx = "await" /\ t.seps = 0 /\ t.pending = s.pending /\ t.addressed = F
      /\ t.flipped = F /\ t.ones = s.ones /\ t.bits = s.bits
      /\ t.late = s.late /\ t.lateBits = s.lateBits
      /\ t.mine = s.mine /\ t.enabled = s.enabled
  BY <1>2, <1>3 DEF Fields
<1>5. FrameStarts(r, bit, t)
  BY <1>2, <1>4, ZenonT(40) DEF FrameStarts, F, Passed, SameFrame
<1> QED BY <1>5 DEF t

\* A separator opens the next sequence, and passes.
SequenceOpens(r, bit, t) ==
    /\ t.pending = bit /\ t.addressed = r.addressed /\ t.flipped = r.flipped
    /\ t.mine = r.mine /\ t.enabled = r.enabled
    /\ t.ones \in {0, r.ones}
    /\ r.seps = 0 => t.rx = "header" /\ t.seps = 1 /\ t.bits = 0 /\ t.ones = 0
    /\ r.seps # 0 => t.bits = r.bits
    /\ r.seps = 1 => t.rx = "body" /\ t.seps = 2 /\ t.ones = 0
    /\ r.seps = 2 => t.rx = "fcs" /\ t.seps = 3 /\ t.ones = 0 /\ t.late = 0 /\ t.lateBits = 0
    /\ r.seps # 2 => t.late = r.late /\ t.lateBits = r.lateBits
    /\ r.seps = 3 => t.rx = "body" /\ t.seps = 3

\* What ends a sequence does so.
LEMMA SeparatorPasses ==
    ASSUME NEW r, Station(r), r.seps \in 0 .. 3, NEW bit \in BitValues, Separates(r, bit)
    PROVE  SequenceOpens(r, bit, Take(r, bit))
<1> DEFINE s == Sampled(r, bit)
           t == Take(r, bit)
<1>1. t = Separator(s)
  <2>1. ~Starts(r, bit)
    BY DEF Starts, Separates
  <2> QED BY <2>1, WhatEnds DEF Take, Sampled
<1>2. /\ DOMAIN s = Fields /\ Passed(r, bit, s) /\ s.ones = r.ones
      /\ s.lateBits = r.lateBits /\ s.seps = r.seps
  BY SampledPasses, SampledAfter
<1> HIDE DEF s, t
<1>3. SequenceOpens(s, s.pending, t)
  <2> DEFINE F == FALSE
  <2> HIDE DEF F
  <2>1. CASE s.seps = 0
    <3>1. t = [s EXCEPT !.seps = 1, !.rx = "header", !.ones = 0, !.n = 0, !.byte = 0,
                        !.bits = 0, !.bytes = 0, !.headerBytes = 0, !.overrun = F]
      BY <1>1, <2>1 DEF Separator, F
    <3>2. /\ t.pending = s.pending /\ t.addressed = s.addressed /\ t.flipped = s.flipped
          /\ t.mine = s.mine /\ t.enabled = s.enabled
          /\ t.rx = "header" /\ t.seps = 1 /\ t.bits = 0 /\ t.ones = 0
          /\ t.late = s.late /\ t.lateBits = s.lateBits
      BY <1>2, <3>1 DEF Fields
    <3> QED BY <2>1, <3>2 DEF SequenceOpens
  <2>2. CASE s.seps = 1
    <3>1. t = [s EXCEPT !.seps = 2, !.rx = "body", !.headerBytes = s.bytes,
                        !.ones = 0, !.n = 0, !.byte = 0]
      BY <1>1, <2>2 DEF Separator
    <3>2. /\ t.pending = s.pending /\ t.addressed = s.addressed /\ t.flipped = s.flipped
          /\ t.mine = s.mine /\ t.enabled = s.enabled
          /\ t.rx = "body" /\ t.seps = 2 /\ t.ones = 0 /\ t.bits = s.bits
          /\ t.late = s.late /\ t.lateBits = s.lateBits
      BY <1>2, <3>1 DEF Fields
    <3> QED BY <2>2, <3>2 DEF SequenceOpens
  <2>3. CASE s.seps = 2
    <3>1. t = [s EXCEPT !.seps = 3, !.rx = "fcs", !.fcs = 0, !.ones = 0,
                        !.lateBits = 0, !.late = 0]
      BY <1>1, <2>3 DEF Separator
    <3>2. /\ t.pending = s.pending /\ t.addressed = s.addressed /\ t.flipped = s.flipped
          /\ t.mine = s.mine /\ t.enabled = s.enabled
          /\ t.rx = "fcs" /\ t.seps = 3 /\ t.ones = 0 /\ t.bits = s.bits
          /\ t.late = 0 /\ t.lateBits = 0
      BY <1>2, <3>1 DEF Fields
    <3> QED BY <2>3, <3>2 DEF SequenceOpens
  <2>4. CASE s.seps = 3
    <3>1. t = [s EXCEPT !.rx = "body"]
      BY <1>1, <2>4 DEF Separator
    <3>2. /\ t.pending = s.pending /\ t.addressed = s.addressed /\ t.flipped = s.flipped
          /\ t.mine = s.mine /\ t.enabled = s.enabled
          /\ t.rx = "body" /\ t.seps = 3 /\ t.ones = s.ones /\ t.bits = s.bits
          /\ t.late = s.late /\ t.lateBits = s.lateBits
      BY <1>2, <2>4, <3>1 DEF Fields
    <3> QED BY <2>4, <3>2 DEF SequenceOpens
  <2>5. s.seps \in 0 .. 3
    BY <1>2
  <2> QED BY <2>1, <2>2, <2>3, <2>4, <2>5
<1>4. SequenceOpens(r, bit, t)
  BY <1>2, <1>3 DEF SequenceOpens, Passed, SameFrame
<1> QED BY <1>4 DEF t

\* The types of what a station keeps, between any two bits.
Sane(r) == /\ Station(r) /\ r.seps \in 0 .. 3 /\ r.ones \in 0 .. 5 /\ r.bits \in Nat
           /\ r.late \in 0 .. 255 /\ r.lateBits \in 0 .. 7
           /\ r.mine \in BOOLEAN /\ r.enabled \in BOOLEAN
           /\ r.addressed \in BOOLEAN /\ r.flipped \in BOOLEAN /\ r.pending \in BitValues

\* The bit that goes through a station that drops it, or follows no sequence.
Waits(r, bit, t) == /\ Passed(r, bit, t) /\ t.rx = r.rx /\ t.seps = r.seps
                    /\ t.ones = r.ones /\ t.lateBits = r.lateBits

Drops(r, bit, t) == /\ Passed(r, bit, t) /\ t.rx = r.rx /\ t.seps = r.seps
                    /\ t.ones = 0 /\ t.lateBits = r.lateBits

\* The bit that is one more of the data or of the frame check.
BodyGoesOn(r, bit, t) == /\ Passed(r, bit, t) /\ t.rx = r.rx /\ t.seps = r.seps
                         /\ t.ones = Counted(r.ones, bit) /\ t.lateBits = r.lateBits

FcsGoesOn(r, bit, t) == /\ Passed(r, bit, t) /\ t.rx \in {"fcs", "late"} /\ t.seps = r.seps
                        /\ t.ones = Counted(r.ones, bit) /\ t.lateBits = r.lateBits

\* Whether a bit goes into the sequence the station follows.
Unstuffed(r, bit) == Plain(r, bit) /\ ~(r.ones >= 5 /\ bit = 0)

\* The eight things a station does with a bit.
LEMMA WhatBitDoes ==
    ASSUME NEW r, Sane(r), NEW bit \in BitValues
    PROVE  LET t == Take(r, bit)
           IN  \/ Starts(r, bit) /\ FrameStarts(r, bit, t)
               \/ Separates(r, bit) /\ SequenceOpens(r, bit, t)
               \/ Plain(r, bit) /\ r.rx \in {"idle", "await"} /\ Waits(r, bit, t)
               \/ /\ Plain(r, bit) /\ r.rx \notin {"idle", "await"} /\ r.ones >= 5 /\ bit = 0
                  /\ Drops(r, bit, t)
               \/ Unstuffed(r, bit) /\ r.rx = "header" /\ HeaderGoesOn(r, bit, t)
               \/ Unstuffed(r, bit) /\ r.rx = "body" /\ BodyGoesOn(r, bit, t)
               \/ Unstuffed(r, bit) /\ r.rx = "fcs" /\ FcsGoesOn(r, bit, t)
               \/ Unstuffed(r, bit) /\ r.rx = "late" /\ LateGoesOn(r, bit, t)
<1> DEFINE t == Take(r, bit)
           s == Sampled(r, bit)
           c == CountOnes(s, bit)
<1>1. Station(r) /\ r.seps \in 0 .. 3 /\ r.bits \in Nat /\ r.rx \in Phases
  BY DEF Sane, Station
<1>2. CASE Starts(r, bit)
  BY <1>1, <1>2, StartPasses
<1>3. CASE Separates(r, bit)
  BY <1>1, <1>3, SeparatorPasses
<1>4. CASE Plain(r, bit) /\ r.rx \in {"idle", "await"}
  <2>1. t = s
    BY <1>1, <1>4, PlainTake
  <2>2. /\ Passed(r, bit, s) /\ s.rx = r.rx /\ s.seps = r.seps /\ s.ones = r.ones
        /\ s.lateBits = r.lateBits
    BY <1>1, SampledPasses, SampledAfter
  <2> HIDE DEF t, s
  <2>3. Waits(r, bit, t)
    BY <2>1, <2>2 DEF Waits
  <2> QED BY <1>4, <2>3 DEF t
<1>5. CASE Plain(r, bit) /\ r.rx \notin {"idle", "await"} /\ r.ones >= 5 /\ bit = 0
  <2>1. Drops(r, bit, t)
    BY <1>1, <1>5, StuffedPasses DEF Drops
  <2> QED BY <1>5, <2>1
<1>6. CASE Unstuffed(r, bit) /\ r.rx = "header"
  BY <1>1, <1>6, HeaderPasses DEF Unstuffed
<1>7. CASE Unstuffed(r, bit) /\ r.rx = "body"
  <2>1. t = FieldStep(c, bit)
    BY <1>1, <1>7, PlainTake DEF Unstuffed
  <2>2. DOMAIN c = Fields /\ c.rx = "body" /\ c.lateBits = r.lateBits
    BY <1>1, <1>7, SampledPasses, CountedAfter
  <2> HIDE DEF c, t
  <2>3. t = Assemble(c, bit)
    BY <2>1, <2>2 DEF FieldStep
  <2>4. c.rx \in Phases
    BY <2>2 DEF Phases
  <2>5. t.lateBits = r.lateBits
    <3>1. Assembled(c, bit, t)
      BY <2>2, <2>3, <2>4, AssembleAfter
    <3>2. t.lateBits = c.lateBits
      BY <3>1 DEF Assembled
    <3> QED BY <2>2, <3>2
  <2>6. BodyGoesOn(r, bit, t)
    BY <1>1, <1>7, <2>5, BodyPasses DEF BodyGoesOn, Unstuffed, t
  <2> QED BY <1>7, <2>6 DEF t
<1>8. CASE Unstuffed(r, bit) /\ r.rx = "fcs"
  <2>1. FcsGoesOn(r, bit, t)
    BY <1>1, <1>8, FcsPasses DEF FcsGoesOn, Unstuffed
  <2> QED BY <1>8, <2>1
<1>9. CASE Unstuffed(r, bit) /\ r.rx = "late"
  BY <1>1, <1>9, LatePasses DEF Unstuffed
<1>10. \/ Starts(r, bit) \/ Separates(r, bit) \/ Plain(r, bit)
  BY DEF Plain
<1>11. Plain(r, bit) => \/ r.rx \in {"idle", "await"}
                        \/ r.rx \notin {"idle", "await"} /\ r.ones >= 5 /\ bit = 0
                        \/ Unstuffed(r, bit) /\ r.rx = "header"
                        \/ Unstuffed(r, bit) /\ r.rx = "body"
                        \/ Unstuffed(r, bit) /\ r.rx = "fcs"
                        \/ Unstuffed(r, bit) /\ r.rx = "late"
  BY <1>1 DEF Unstuffed, Phases
<1> QED BY <1>2, <1>3, <1>4, <1>5, <1>6, <1>7, <1>8, <1>9, <1>10, <1>11

\* What the late acknowledge carries is bits.
LEMMA LateBitIsBit ==
    ASSUME NEW r, Sane(r), NEW bit \in BitValues
    PROVE  LateBit(r, bit) \in BitValues
<1>1. 1 - (OnesIn(r.late % 64) % 2) \in BitValues
  <2> DEFINE o == OnesIn(r.late % 64)
  <2>1. r.late % 64 \in 0 .. 63
    BY DEF Sane
  <2>2. o \in Int
    BY <2>1 DEF OnesIn
  <2> HIDE DEF o
  <2>3. 1 - (o % 2) \in BitValues
    BY <2>2 DEF BitValues
  <2> QED BY <2>3 DEF o
<1> DEFINE p == 1 - (OnesIn(r.late % 64) % 2)
<1>2. LateBit(r, bit) \in {1, p, bit}
  BY DEF LateBit
<1> HIDE DEF p
<1>3. p \in BitValues
  BY <1>1 DEF p
<1> QED BY <1>2, <1>3 DEF BitValues

\* What the station knows of itself stays, whatever it hears.
LEMMA SaneKept ==
    ASSUME NEW r, Sane(r), NEW bit \in BitValues
    PROVE  LET t == Take(r, bit)
           IN  Sane(t) /\ t.mine = r.mine /\ t.enabled = r.enabled
<1> DEFINE t == Take(r, bit)
<1>1. Station(t) /\ t.seps \in 0 .. 3
  BY TakeStation DEF Sane
<1>2. /\ r.seps \in 0 .. 3 /\ r.ones \in 0 .. 5 /\ r.bits \in Nat
      /\ r.late \in 0 .. 255 /\ r.lateBits \in 0 .. 7 /\ r.mine \in BOOLEAN
      /\ r.enabled \in BOOLEAN /\ r.addressed \in BOOLEAN /\ r.flipped \in BOOLEAN
  BY DEF Sane
<1>3. bit \in {0, 1}
  BY DEF BitValues
<1>4. Counted(r.ones, bit) \in 0 .. 5
  BY <1>2 DEF Counted
<1> DEFINE Kept2 == /\ t.ones \in 0 .. 5 /\ t.bits \in Nat /\ t.late \in 0 .. 255
                    /\ t.lateBits \in 0 .. 7 /\ t.addressed \in BOOLEAN
                    /\ t.flipped \in BOOLEAN /\ t.pending \in {0, 1}
                    /\ t.mine = r.mine /\ t.enabled = r.enabled
<1> HIDE DEF t
<1>5. ASSUME FrameStarts(r, bit, t) PROVE Kept2
  <2>1. t.addressed \in BOOLEAN /\ t.flipped \in BOOLEAN
    BY <1>5, Zenon DEF FrameStarts
  <2>2. /\ t.ones \in 0 .. 5 /\ t.bits \in Nat /\ t.late \in 0 .. 255
        /\ t.lateBits \in 0 .. 7 /\ t.pending \in {0, 1}
        /\ t.mine = r.mine /\ t.enabled = r.enabled
    BY <1>2, <1>3, <1>5 DEF FrameStarts
  <2> QED BY <2>1, <2>2
<1>6. ASSUME SequenceOpens(r, bit, t) PROVE Kept2
  BY <1>2, <1>3, <1>6 DEF SequenceOpens
<1>7. ASSUME Waits(r, bit, t) PROVE Kept2
  BY <1>2, <1>3, <1>7 DEF Waits, Passed, SameFrame
<1>8. ASSUME Drops(r, bit, t) PROVE Kept2
  BY <1>2, <1>3, <1>8 DEF Drops, Passed, SameFrame
<1>9. ASSUME HeaderGoesOn(r, bit, t) PROVE Kept2
  <2>1. /\ t.ones \in 0 .. 5 /\ t.bits \in Nat /\ t.late \in 0 .. 255
        /\ t.lateBits \in 0 .. 7 /\ t.mine = r.mine /\ t.enabled = r.enabled
    BY <1>2, <1>4, <1>9 DEF HeaderGoesOn
  <2>2. t.addressed \in BOOLEAN /\ t.flipped \in BOOLEAN
    BY <1>2, <1>9 DEF HeaderGoesOn
  <2>3. t.pending \in {0, 1}
    BY <1>3, <1>9 DEF HeaderGoesOn
  <2> QED BY <2>1, <2>2, <2>3
<1>10. ASSUME BodyGoesOn(r, bit, t) PROVE Kept2
  BY <1>2, <1>3, <1>4, <1>10 DEF BodyGoesOn, Passed, SameFrame
<1>11. ASSUME FcsGoesOn(r, bit, t) PROVE Kept2
  BY <1>2, <1>3, <1>4, <1>11 DEF FcsGoesOn, Passed, SameFrame
<1>12. ASSUME LateGoesOn(r, bit, t) PROVE Kept2
  <2> DEFINE bitOut == LateBit(r, bit)
  <2>1. bitOut \in {0, 1}
    BY LateBitIsBit DEF BitValues
  <2> HIDE DEF bitOut
  <2>2. t.late = (2 * r.late + bitOut) % 256 /\ t.pending = bitOut
    BY <1>12 DEF LateGoesOn, bitOut
  <2>3. (2 * r.late + bitOut) % 256 \in 0 .. 255
    BY <1>2, <2>1
  <2> QED BY <1>2, <1>4, <1>12, <2>1, <2>2, <2>3 DEF LateGoesOn
<1>13. Kept2
  <2> HIDE DEF Kept2
  <2> QED BY <1>5, <1>6, <1>7, <1>8, <1>9, <1>10, <1>11, <1>12, WhatBitDoes, Zenon DEF t
<1>14. Sane(t) /\ t.mine = r.mine /\ t.enabled = r.enabled
  BY <1>1, <1>2, <1>13 DEF Sane, BitValues
<1> QED BY <1>14 DEF t

-----------------------------------------------------------------------------
(* The claimed token brings what is left of a cut frame to rest. *)

\* What a station keeps of the frame it follows: the parity bit of the early
\* acknowledge is still to be flipped only once the bit before it was set, and
\* the bits of the late acknowledge are counted from its first.
Followed(r) ==
    /\ r.seps = 0 => ~r.flipped /\ r.rx # "header"
    /\ r.rx = "header" /\ r.flipped => r.bits >= EarlyBits + 5
    /\ r.rx = "fcs" => r.lateBits = 0

\* It keeps them, whatever it hears.
LEMMA FollowedKept ==
    ASSUME NEW r, Sane(r), Followed(r), NEW bit \in BitValues
    PROVE  Followed(Take(r, bit))
<1> DEFINE t == Take(r, bit)
<1>1. /\ r.seps \in 0 .. 3 /\ r.bits \in Nat /\ r.flipped \in BOOLEAN
      /\ EarlyBits \in Nat
  BY FrameAssumption DEF Sane, EarlyBits, EarlyAck
<1> HIDE DEF t
<1>2. ASSUME FrameStarts(r, bit, t) PROVE Followed(t)
  BY <1>2 DEF FrameStarts, Followed
<1>3. ASSUME SequenceOpens(r, bit, t) PROVE Followed(t)
  <2>1. CASE r.seps = 0
    BY <1>3, <2>1 DEF SequenceOpens, Followed
  <2>2. CASE r.seps = 1
    BY <1>3, <2>2 DEF SequenceOpens, Followed
  <2>3. CASE r.seps = 2
    BY <1>3, <2>3 DEF SequenceOpens, Followed
  <2>4. CASE r.seps = 3
    BY <1>3, <2>4 DEF SequenceOpens, Followed
  <2>5. r.seps = 0 \/ r.seps = 1 \/ r.seps = 2 \/ r.seps = 3
    BY <1>1
  <2> QED BY <2>1, <2>2, <2>3, <2>4, <2>5
<1>4. ASSUME Waits(r, bit, t) PROVE Followed(t)
  BY <1>4 DEF Waits, Passed, SameFrame, Followed
<1>5. ASSUME Drops(r, bit, t) PROVE Followed(t)
  BY <1>5 DEF Drops, Passed, SameFrame, Followed
<1>6. ASSUME HeaderGoesOn(r, bit, t), r.rx = "header" PROVE Followed(t)
  <2>1. CASE Sets(r, bit)
    <3>1. t.bits = EarlyBits + 5 /\ t.rx = "header" /\ t.seps = r.seps
      BY <1>1, <1>6, <2>1 DEF HeaderGoesOn, Sets
    <3>2. r.seps # 0
      BY <1>6 DEF Followed
    <3> QED BY <1>1, <3>1, <3>2 DEF Followed
  <2>2. CASE ~Sets(r, bit)
    <3>1. /\ t.bits = r.bits + 1 /\ t.rx = "header" /\ t.seps = r.seps
          /\ (t.flipped <=> r.flipped)
      BY <1>6, <2>2 DEF HeaderGoesOn
    <3> QED BY <1>1, <1>6, <3>1 DEF Followed
  <2> QED BY <2>1, <2>2
<1>7. ASSUME BodyGoesOn(r, bit, t), r.rx = "body" PROVE Followed(t)
  BY <1>7 DEF BodyGoesOn, Passed, SameFrame, Followed
<1>8. ASSUME FcsGoesOn(r, bit, t), r.rx = "fcs" PROVE Followed(t)
  BY <1>8 DEF FcsGoesOn, Passed, SameFrame, Followed
<1>9. ASSUME LateGoesOn(r, bit, t) PROVE Followed(t)
  BY <1>9 DEF LateGoesOn, Followed
<1>10. Followed(t)
  BY <1>2, <1>3, <1>4, <1>5, <1>6, <1>7, <1>8, <1>9, WhatBitDoes, Zenon DEF t
<1> QED BY <1>10 DEF t

\* The last bits of v are so many ones.
AllOnes(v, j) ==
    \/ j = 0
    \/ j = 1 /\ v % 2 = 1
    \/ j = 2 /\ v % 4 = 3
    \/ j = 3 /\ v % 8 = 7
    \/ j = 4 /\ v % 16 = 15
    \/ j = 5 /\ v % 32 = 31
    \/ j = 6 /\ v % 64 = 63

\* A one more.
LEMMA OneMoreBit ==
    ASSUME NEW v \in 0 .. 255, NEW j \in 0 .. 5, AllOnes(v, j)
    PROVE  AllOnes((2 * v + 1) % 256, j + 1)
BY DEF AllOnes

\* Fewer of them.
LEMMA Fewer ==
    ASSUME NEW v \in 0 .. 255, NEW j \in 0 .. 6, NEW i \in 0 .. j, AllOnes(v, j)
    PROVE  AllOnes(v, i)
<1>1. j \in {0, 1, 2, 3, 4, 5, 6} /\ i \in {0, 1, 2, 3, 4, 5, 6} /\ i <= j
  OBVIOUS
<1>2. /\ v % 64 = 63 => v % 32 = 31
      /\ v % 32 = 31 => v % 16 = 15
      /\ v % 16 = 15 => v % 8 = 7
      /\ v % 8 = 7 => v % 4 = 3
      /\ v % 4 = 3 => v % 2 = 1
  OBVIOUS
<1> QED BY <1>1, <1>2 DEF AllOnes

\* Six ones are even in number.
LEMMA SixOnes ==
    ASSUME NEW v \in 0 .. 255, AllOnes(v, 6)
    PROVE  1 - (OnesIn(v % 64) % 2) = 1
<1>1. v % 64 = 63
  BY DEF AllOnes
<1>2. OnesIn(63) = 6
  BY DEF OnesIn
<1> QED BY <1>1, <1>2

\* What a run of ones leaves of a frame that was cut off: o of them counted,
\* nothing left to flip after one of q, a late acknowledge that has them last.
Level(r, o, q) ==
    r.rx \notin {"idle", "await"} =>
      /\ r.ones >= Least(o, 5)
      /\ r.rx = "header" /\ r.flipped /\ q >= 1 => r.bits # EarlyBits + 5
      /\ r.rx = "header" /\ r.flipped /\ q >= 2 => r.bits # EarlyBits + 6
      /\ r.rx = "late" /\ r.lateBits <= 6 => AllOnes(r.late, Least(r.lateBits, q))

\* One more one; after six it goes out as it came.
LEMMA LevelOn ==
    ASSUME NEW r, Sane(r), Followed(r), NEW o \in Nat, NEW q \in Nat, Level(r, o, q),
           NEW bit \in BitValues, bit = 1
    PROVE  LET t == Take(r, bit)
           IN  Level(t, o + 1, q + 1) /\ (q >= 6 => t.pending = 1)
<1> DEFINE t == Take(r, bit)
           G == Level(t, o + 1, q + 1) /\ (q >= 6 => t.pending = 1)
<1>1. /\ r.seps \in 0 .. 3 /\ r.bits \in Nat /\ r.flipped \in BOOLEAN
      /\ EarlyBits \in Nat /\ r.ones \in 0 .. 5 /\ r.late \in 0 .. 255
      /\ r.lateBits \in 0 .. 7 /\ r.window \in 0 .. 511
  BY FrameAssumption DEF Sane, EarlyBits, EarlyAck, Station
<1>2. Counted(r.ones, bit) >= Least(o + 1, 5) \/ ~(r.ones >= Least(o, 5))
  BY <1>1 DEF Counted, Least
<1> HIDE DEF t
<1>3. ASSUME FrameStarts(r, bit, t) PROVE G
  BY <1>3 DEF FrameStarts, Level
<1>4. ~Separates(r, bit)
  BY <1>1 DEF Separates, Shift
<1>5. ASSUME Waits(r, bit, t), r.rx \in {"idle", "await"} PROVE G
  BY <1>5 DEF Waits, Passed, Level
<1>6. ASSUME HeaderGoesOn(r, bit, t), r.rx = "header" PROVE G
  <2>1. ~Sets(r, bit)
    BY DEF Sets
  <2>a. t.rx = "header" /\ t.ones = Counted(r.ones, bit) /\ t.bits = r.bits + 1
    BY <1>6 DEF HeaderGoesOn
  <2>b. t.flipped <=> r.flipped
    BY <1>6, <2>1 DEF HeaderGoesOn
  <2>c. ~Flips(r) => t.pending = 1
    BY <1>6, <2>1 DEF HeaderGoesOn
  <2>2. /\ t.rx = "header" /\ t.ones = Counted(r.ones, bit) /\ t.bits = r.bits + 1
        /\ (t.flipped <=> r.flipped) /\ (~Flips(r) => t.pending = 1)
    BY <2>a, <2>b, <2>c
  <2>3. /\ r.ones >= Least(o, 5)
        /\ r.flipped /\ q >= 1 => r.bits # EarlyBits + 5
        /\ r.flipped /\ q >= 2 => r.bits # EarlyBits + 6
        /\ r.flipped => r.bits >= EarlyBits + 5
    BY <1>6 DEF Level, Followed
  <2>4. q >= 6 => t.pending = 1
    BY <2>2, <2>3 DEF Flips
  <2>5. /\ t.flipped /\ q + 1 >= 1 => t.bits # EarlyBits + 5
        /\ t.flipped /\ q + 1 >= 2 => t.bits # EarlyBits + 6
    BY <1>1, <2>2, <2>3
  <2> QED BY <1>2, <2>2, <2>3, <2>4, <2>5 DEF Level
<1>7. ASSUME BodyGoesOn(r, bit, t), r.rx = "body" PROVE G
  BY <1>2, <1>7 DEF BodyGoesOn, Passed, Level
<1>8. ASSUME FcsGoesOn(r, bit, t), r.rx = "fcs" PROVE G
  <2>1. t.lateBits = 0 /\ t.ones = Counted(r.ones, bit) /\ t.pending = 1
    BY <1>8 DEF FcsGoesOn, Passed, Followed
  <2>2. Least(0, q + 1) = 0 /\ t.rx \in {"fcs", "late"}
    BY <1>8 DEF Least, FcsGoesOn
  <2>3. AllOnes(t.late, 0)
    BY DEF AllOnes
  <2> QED BY <1>2, <1>8, <2>1, <2>2, <2>3 DEF Level
<1>9. ASSUME LateGoesOn(r, bit, t), r.rx = "late" PROVE G
  <2> DEFINE bitOut == LateBit(r, bit)
  <2>1. r.lateBits # 6 => bitOut = 1
    BY DEF LateBit
  <2>2. r.lateBits = 6 => bitOut = 1 - (OnesIn(r.late % 64) % 2)
    BY DEF LateBit
  <2> HIDE DEF bitOut
  <2>3. /\ t.late = (2 * r.late + bitOut) % 256 /\ t.pending = bitOut
        /\ t.lateBits = IF r.lateBits < 7 THEN r.lateBits + 1 ELSE 0
        /\ t.rx = IF r.lateBits = 7 THEN "idle" ELSE "late"
        /\ t.ones = Counted(r.ones, bit)
    BY <1>9 DEF LateGoesOn, bitOut
  <2>4. r.ones >= Least(o, 5) /\ (r.lateBits <= 6 => AllOnes(r.late, Least(r.lateBits, q)))
    BY <1>9 DEF Level
  <2>5. q >= 6 => t.pending = 1
    <3>1. r.lateBits = 6 /\ q >= 6 => Least(r.lateBits, q) = 6
      BY DEF Least
    <3> QED BY <1>1, <2>1, <2>2, <2>3, <2>4, <3>1, SixOnes
  <2>6. ASSUME t.rx = "late", t.lateBits <= 6
        PROVE  AllOnes(t.late, Least(t.lateBits, q + 1))
    <3>1. r.lateBits <= 5 /\ t.lateBits = r.lateBits + 1 /\ bitOut = 1
      BY <1>1, <2>1, <2>3, <2>6
    <3> DEFINE j == Least(r.lateBits, q)
    <3>2. j \in 0 .. 5 /\ Least(t.lateBits, q + 1) = j + 1
      BY <1>1, <3>1 DEF Least
    <3>3. AllOnes(r.late, j)
      BY <1>1, <2>4, <3>1
    <3> HIDE DEF j
    <3>4. AllOnes((2 * r.late + 1) % 256, j + 1)
      BY <1>1, <3>2, <3>3, OneMoreBit
    <3> QED BY <2>3, <3>1, <3>2, <3>4
  <2> QED BY <1>2, <2>3, <2>4, <2>5, <2>6 DEF Level
<1>10. G
  <2> HIDE DEF G
  <2>1. bit # 0
    OBVIOUS
  <2> QED BY <1>3, <1>4, <1>5, <1>6, <1>7, <1>8, <1>9, <2>1, WhatBitDoes, Zenon DEF t
<1> QED BY <1>10 DEF t

\* A zero after five ones is dropped.
LEMMA LevelOff ==
    ASSUME NEW r, Sane(r), NEW o \in Nat, NEW q \in Nat, Level(r, o, q), o >= 5,
           NEW bit \in BitValues, bit = 0, Plain(r, bit)
    PROVE  LET t == Take(r, bit)
           IN  Level(t, 0, q) /\ t.pending = 0
<1> DEFINE t == Take(r, bit)
           G == Level(t, 0, q) /\ t.pending = 0
<1>1. r.rx \notin {"idle", "await"} => r.ones >= 5
  BY DEF Level, Least
<1>2. Least(0, 5) = 0 /\ r.ones \in 0 .. 5
  BY DEF Least, Sane
<1> HIDE DEF t
<1>3. ASSUME Waits(r, bit, t), r.rx \in {"idle", "await"} PROVE G
  BY <1>3 DEF Waits, Passed, Level
<1>4. ASSUME Drops(r, bit, t) PROVE G
  BY <1>2, <1>4 DEF Drops, Passed, SameFrame, Level
<1>5. r.rx \notin {"idle", "await"} => ~Unstuffed(r, bit)
  BY <1>1 DEF Unstuffed
<1>6. G
  <2> HIDE DEF G
  <2>1. r.rx = "header" \/ r.rx = "body" \/ r.rx = "fcs" \/ r.rx = "late"
          => r.rx \notin {"idle", "await"}
    OBVIOUS
  <2> QED BY <1>3, <1>4, <1>5, <2>1, WhatBitDoes, Zenon DEF t, Plain
<1> QED BY <1>6 DEF t

-----------------------------------------------------------------------------
(* The bytes that the transmitter knows. *)

\* Where the transmitter writes bytes that are known: no stuffing there.
Still(x) ==
    /\ x.part = 3 => x.ones = 0
    /\ x.part = 6 /\ x.pos \div 8 = EarlyAck - 1 /\ x.pos % 8 > 0 => x.byte = 0 /\ x.ones = 0
    /\ x.part = 6 /\ x.pos \div 8 = EarlyAck =>
         /\ x.pos % 8 > 0 => x.byte \in {0, 2, 8, 10}
         /\ x.ones = 0 \/ (x.pos % 8 \in {5, 7} /\ x.ones = 1)
    /\ x.part = 10 /\ x.pos \div 8 = CheckBytes /\ x.pos % 8 > 0 => x.byte = 0 /\ x.ones = 0
    /\ x.part = 11 => x.ones = 0 /\ x.byte = 0

\* The bits of an early acknowledge that are not defined are zeros.
LEMMA EarlyBytes ==
    ASSUME NEW v \in {0, 2, 8, 10}, NEW n \in 0 .. 7, n \notin {4, 6}
    PROVE  (v \div Weight(n)) % 2 = 0
<1>1. n = 0 \/ n = 1 \/ n = 2 \/ n = 3 \/ n = 5 \/ n = 7
  OBVIOUS
<1>2. /\ (v \div 128) % 2 = 0 /\ (v \div 64) % 2 = 0 /\ (v \div 32) % 2 = 0
      /\ (v \div 16) % 2 = 0 /\ (v \div 4) % 2 = 0 /\ (v \div 1) % 2 = 0
  OBVIOUS
<1> QED BY <1>1, <1>2 DEF Weight

\* The bytes that are known and their bits.
LEMMA KnownBytes ==
    ASSUME NEW x, Writing(x), Still(x), NEW byte \in FieldBytes(x)
    PROVE  LET bit == BitOf(x, byte)
           IN  /\ bit \in BitValues
               /\ x.part = 6 /\ x.pos \div 8 = EarlyAck - 1 => byte = 0 /\ bit = 0
               /\ x.part = 6 /\ x.pos \div 8 = EarlyAck =>
                    byte \in {0, 2, 8, 10} /\ (x.pos % 8 \notin {4, 6} => bit = 0)
               /\ x.part = 10 /\ x.pos \div 8 = CheckBytes => byte = 0 /\ bit = 0
               /\ x.part = 11 => byte = 0 /\ bit = 0
<1> DEFINE bit == BitOf(x, byte)
           n == x.pos % 8
<1>1. x \in Writers /\ x.pos \in Nat /\ n \in 0 .. 7 /\ x.pos < PartLength(x, x.part)
  BY WritingTyped DEF Writing
<1>2. byte \in 0 .. 255
  BY <1>1, BytesWritten
<1>3. bit \in BitValues /\ (x.part \notin Characters => bit = (byte \div Weight(n)) % 2)
  BY <1>1, <1>2, BitsWritten, KindOfPart
<1>4. ASSUME byte = 0, x.part \notin Characters PROVE bit = 0
  <2>1. Weight(n) \in Nat \ {0}
    BY DEF Weight
  <2> DEFINE k == Weight(n)
  <2> HIDE DEF k
  <2>2. k \in Nat \ {0} /\ bit = (0 \div k) % 2
    BY <1>3, <1>4, <2>1 DEF k
  <2>3. 0 \div k = 0
    BY <2>2
  <2> QED BY <2>2, <2>3
<1>5. n # 0 => FieldBytes(x) = {x.byte}
  BY DEF FieldBytes
<1>6. ASSUME x.part = 6, x.pos \div 8 = EarlyAck - 1 PROVE byte = 0
  <2>1. n = 0 => FieldBytes(x) = {0}
    BY <1>1, <1>6, KindOfPart DEF FieldBytes
  <2> QED BY <1>1, <1>5, <1>6, <2>1 DEF Still
<1>7. ASSUME x.part = 6, x.pos \div 8 = EarlyAck PROVE byte \in {0, 2, 8, 10}
  <2>1. EarlyAck \in Nat
    BY FrameAssumption DEF EarlyAck
  <2>2. n = 0 => FieldBytes(x) = {0, 2, 8, 10}
    BY <1>1, <1>7, <2>1, KindOfPart DEF FieldBytes
  <2> QED BY <1>1, <1>5, <1>7, <2>2 DEF Still
<1>8. ASSUME x.part = 10, x.pos \div 8 = CheckBytes PROVE byte = 0
  <2>1. n = 0 => FieldBytes(x) = {0}
    BY <1>1, <1>8, KindOfPart, FrameAssumption DEF FieldBytes
  <2> QED BY <1>1, <1>5, <1>8, <2>1 DEF Still
<1>9. ASSUME x.part = 11 PROVE byte = 0
  BY <1>1, <1>9, BytesWritten DEF Still
<1>10. x.part \in {6, 10, 11} => x.part \notin Characters
  BY DEF Characters
<1>11. ASSUME x.part = 6, x.pos \div 8 = EarlyAck, n \notin {4, 6} PROVE bit = 0
  BY <1>1, <1>3, <1>7, <1>10, <1>11, EarlyBytes
<1> QED BY <1>3, <1>4, <1>6, <1>7, <1>8, <1>9, <1>10, <1>11

\* It stays so.
LEMMA StillKept ==
    ASSUME NEW x, Writing(x), ~x.stuff, Still(x), NEW byte \in FieldBytes(x),
           NEW d \in DataLengths, NEW y, HasWritten(x, byte, d, y)
    PROVE  Still(y)
<1> DEFINE bit == BitOf(x, byte)
<1>1. Writable(x, byte)
  BY FieldBytesWritable
<1>2. /\ x.part \in 1 .. 12 /\ x.pos \in Nat /\ x.ones \in 0 .. 4 /\ x.dlen \in Nat
      /\ PartDone(x) <=> x.pos + 1 = PartSize(x.part, x.dlen)
      /\ x.pos < PartSize(x.part, x.dlen)
      /\ y.part = IF PartDone(x) THEN Onward(x) ELSE x.part
      /\ y.pos = IF PartDone(x) THEN 0 ELSE x.pos + 1
      /\ y.ones = OnesAfter(x, bit)
      /\ y.byte = IF x.pos % 8 = 7 THEN 0 ELSE byte
  BY <1>1, BitFacts
<1>3. /\ bit \in BitValues
      /\ x.part = 6 /\ x.pos \div 8 = EarlyAck - 1 => byte = 0 /\ bit = 0
      /\ x.part = 6 /\ x.pos \div 8 = EarlyAck =>
           byte \in {0, 2, 8, 10} /\ (x.pos % 8 \notin {4, 6} => bit = 0)
      /\ x.part = 10 /\ x.pos \div 8 = CheckBytes => byte = 0 /\ bit = 0
      /\ x.part = 11 => byte = 0 /\ bit = 0
  BY KnownBytes
<1>4. EarlyAck \in Nat /\ EarlyAck > 1 /\ CheckBytes \in Nat
      /\ HeaderBytes \in Nat /\ HeaderBytes > 0
  BY FrameAssumption DEF EarlyAck
<1>5. (x.part \in Characters \/ bit = 0 => y.ones = 0) /\ (bit = 1 => y.ones \in {0, x.ones + 1})
  BY <1>2, WritingTyped DEF OnesAfter
<1> HIDE DEF bit
<1>6. y.part = 3 => y.ones = 0
  BY <1>2, <1>5 DEF Onward, Characters
<1>7. ASSUME y.part = 6, y.pos \div 8 = EarlyAck - 1, y.pos % 8 > 0
      PROVE  y.byte = 0 /\ y.ones = 0
  <2>1. x.part = 6 /\ x.pos + 1 = y.pos
    BY <1>2, <1>7 DEF Onward
  <2>2. x.pos \div 8 = EarlyAck - 1
    BY <1>2, <1>4, <1>7, <2>1
  <2> QED BY <1>2, <1>3, <1>5, <2>1, <2>2
<1>8. ASSUME y.part = 6, y.pos \div 8 = EarlyAck
      PROVE  /\ y.pos % 8 > 0 => y.byte \in {0, 2, 8, 10}
             /\ y.ones = 0 \/ (y.pos % 8 \in {5, 7} /\ y.ones = 1)
  <2>1. x.part = 6 /\ x.pos + 1 = y.pos
    BY <1>2, <1>4, <1>8 DEF Onward
  <2>2. CASE y.pos % 8 = 0
    <3>1. x.pos \div 8 = EarlyAck - 1
      BY <1>2, <1>4, <1>8, <2>1, <2>2
    <3> QED BY <1>3, <1>5, <2>1, <2>2, <3>1
  <2>3. CASE y.pos % 8 > 0
    <3>1. x.pos \div 8 = EarlyAck /\ (x.pos % 8) + 1 = y.pos % 8
      BY <1>2, <1>4, <1>8, <2>1, <2>3
    <3>2. y.byte \in {0, 2, 8, 10}
      BY <1>2, <1>3, <2>1, <3>1
    <3>3. CASE x.pos % 8 \in {4, 6}
      <4>1. x.ones = 0
        BY <2>1, <3>1, <3>3 DEF Still
      <4>2. y.ones \in {0, 1}
        BY <1>3, <1>5, <4>1 DEF BitValues
      <4>3. y.pos % 8 \in {5, 7}
        BY <3>1, <3>3
      <4> QED BY <3>2, <4>2, <4>3
    <3>4. CASE x.pos % 8 \notin {4, 6}
      BY <1>3, <1>5, <2>1, <3>1, <3>2, <3>4
    <3> QED BY <3>3, <3>4
  <2>4. y.pos \in Nat
    BY <1>2, <2>1
  <2> QED BY <2>2, <2>3, <2>4
<1>9. ASSUME y.part = 10, y.pos \div 8 = CheckBytes, y.pos % 8 > 0
      PROVE  y.byte = 0 /\ y.ones = 0
  <2>1. x.part = 10 /\ x.pos + 1 = y.pos
    BY <1>2, <1>9 DEF Onward
  <2>2. x.pos \div 8 = CheckBytes
    BY <1>2, <1>4, <1>9, <2>1
  <2> QED BY <1>2, <1>3, <1>5, <2>1, <2>2
<1>10. ASSUME y.part = 11 PROVE y.ones = 0 /\ y.byte = 0
  <2>1. CASE x.part = 11
    BY <1>2, <1>3, <1>5, <2>1
  <2>2. CASE x.part # 11
    <3>1. x.part = 10 /\ x.pos = 8 * CheckBytes + 7
      BY <1>2, <1>4, <1>10, <2>2 DEF Onward, PartSize
    <3>2. x.pos \div 8 = CheckBytes /\ x.pos % 8 = 7
      BY <1>4, <3>1
    <3> QED BY <1>2, <1>3, <1>5, <3>1, <3>2
  <2> QED BY <2>1, <2>2
<1> QED BY <1>6, <1>7, <1>8, <1>9, <1>10 DEF Still

\* While the claimed token passes and the frame start after it.
Calm(x, r) ==
    /\ x.part = 2 /\ x.pos >= 1 => Level(r, x.pos - 1, x.pos - 1)
    /\ x.part = 3 /\ x.pos = 0 => Level(r, 5, 8) /\ r.window = 255
    /\ x.part = 3 /\ x.pos \in 1 .. 7 => Level(r, x.pos - 1, 8)

\* The claimed token ends in two ones.
LEMMA ClaimedBit ==
    ASSUME NEW x, Writing(x), x.part = 2, NEW byte \in 0 .. 255
    PROVE  /\ TypeBits(Kind(x))[1] = 1
           /\ x.pos \in 7 .. 8 => BitOf(x, byte) = 1
<1> DEFINE k == "claimed"
<1>1. Kind(x) = k
  BY TheParts DEF Kind
<1>2. k \in {"sep", "start", "free", "claimed"}
  OBVIOUS
<1>3. TypeBits(k)[1] = 1 /\ TypeBits(k)[2] = 1
  BY DEF TypeBits
<1>4. IsOob(Kind(x)) /\ x \in Writers /\ x.pos < PartLength(x, x.part)
  BY WritingTyped DEF Characters, Writing
<1> HIDE DEF k
<1>5. TypeBits(Kind(x))[1] = 1 /\ TypeBits(Kind(x))[2] = 1
  BY <1>1, <1>3, Zenon
<1>6. BitOf(x, byte) = IF x.pos = 0 THEN 0 ELSE IF x.pos <= 6 THEN 1
                       ELSE IF x.pos = 7 THEN TypeBits(Kind(x))[1]
                       ELSE TypeBits(Kind(x))[2]
  BY <1>4, BitsWritten, Zenon
<1>7. x.pos \in 7 .. 8 => BitOf(x, byte) = 1
  <2> DEFINE first == TypeBits(Kind(x))[1]
             second == TypeBits(Kind(x))[2]
  <2> HIDE DEF first, second
  <2> QED BY <1>5, <1>6 DEF first, second
<1> QED BY <1>5, <1>7

\* A level with more ones than it says.
LEMMA LevelLess ==
    ASSUME NEW r, Sane(r), NEW o \in Nat, NEW q \in Nat, Level(r, o, q),
           NEW p \in Nat, Least(p, 5) <= Least(o, 5), NEW s \in Nat, s <= q
    PROVE  Level(r, p, s)
<1>1. r.ones \in 0 .. 5 /\ r.lateBits \in 0 .. 7 /\ r.late \in 0 .. 255
  BY DEF Sane
<1>2. ASSUME r.rx = "late", r.lateBits <= 6 PROVE AllOnes(r.late, Least(r.lateBits, s))
  <2> DEFINE j == Least(r.lateBits, q)
             i == Least(r.lateBits, s)
  <2>1. j \in 0 .. 6 /\ i \in 0 .. j
    BY <1>1, <1>2 DEF Least
  <2>2. AllOnes(r.late, j)
    BY <1>2 DEF Level
  <2> HIDE DEF j, i
  <2>3. AllOnes(r.late, i)
    BY <1>1, <2>1, <2>2, Fewer
  <2> QED BY <2>3 DEF i
<1>3. r.rx \notin {"idle", "await"} => r.ones >= Least(p, 5)
  BY <1>1 DEF Level, Least
<1> QED BY <1>2, <1>3 DEF Level

\* The bits of a character at a station that has its beginning.
Spells(x, bit, r) ==
    /\ x.pos \in 0 .. 8
    /\ x.pos = 0 => bit = 0
    /\ x.pos \in 1 .. 6 => bit = 1
    /\ x.pos = 7 => bit = TypeBits(Kind(x))[1]
    /\ x.part = 3 => TypeBits(Kind(x))[1] = 0 /\ (x.pos = 8 => bit = 1)
    /\ x.part \in {5, 7, 9} => TypeBits(Kind(x))[1] = 0 /\ (x.pos = 8 => bit = 0)
    /\ x.part = 12 => TypeBits(Kind(x))[1] = 1 /\ (x.pos = 8 => bit = 0)
    /\ x.pos \in 1 .. 7 => Run(r.window, x.pos - 1)
    /\ x.pos = 8 => r.seen >= 8 /\ r.window % 256 = 126 + TypeBits(Kind(x))[1]

\* They are those of its kind.
LEMMA CharacterSpelt ==
    ASSUME NEW x, Writing(x), x.part \in Characters, NEW byte \in 0 .. 255,
           NEW r, Prefix(x, r)
    PROVE  Spells(x, BitOf(x, byte), r)
<1> DEFINE bit == BitOf(x, byte)
<1>1. /\ x.pos \in 0 .. 8
      /\ x.pos = 0 => bit = 0
      /\ x.pos \in 1 .. 6 => bit = 1
      /\ x.pos = 7 => bit = TypeBits(Kind(x))[1]
      /\ x.part = 3 => TypeBits(Kind(x))[1] = 0 /\ (x.pos = 8 => bit = 1)
      /\ x.part \in {5, 7, 9} => TypeBits(Kind(x))[1] = 0 /\ (x.pos = 8 => bit = 0)
      /\ x.part = 12 => TypeBits(Kind(x))[1] = 1 /\ (x.pos = 8 => bit = 0)
  BY CharacterBit, ZenonT(30)
<1>2. /\ x.pos \in 1 .. 7 => Run(r.window, x.pos - 1)
      /\ x.pos = 8 => r.seen >= 8 /\ r.window % 256 = 126 + TypeBits(Kind(x))[1]
  BY DEF Prefix
<1> HIDE DEF bit
<1>3. Spells(x, bit, r)
  BY <1>1, <1>2, ZenonT(30) DEF Spells
<1> QED BY <1>3 DEF bit

\* The ones of the claimed token bring what is left of an old frame to rest, and
\* the frame start that follows goes through whole.
LEMMA CalmKept ==
    ASSUME NEW x, Writing(x), ~x.stuff, NEW byte, Writable(x, byte),
           NEW d \in DataLengths, NEW y, HasWritten(x, byte, d, y),
           NEW r, Sane(r), Followed(r), Prefix(x, r), Calm(x, r)
    PROVE  LET t == Take(r, BitOf(x, byte))
           IN  Calm(y, t) /\ (x.part = 3 => t.pending = BitOf(x, byte))
<1> DEFINE bit == BitOf(x, byte)
           t == Take(r, bit)
<1>1. /\ x.part \in 1 .. 12 /\ x.pos \in Nat /\ x.dlen \in Nat
      /\ PartDone(x) <=> x.pos + 1 = PartSize(x.part, x.dlen)
      /\ x.pos < PartSize(x.part, x.dlen)
      /\ y.part = IF PartDone(x) THEN Onward(x) ELSE x.part
      /\ y.pos = IF PartDone(x) THEN 0 ELSE x.pos + 1
      /\ byte \in 0 .. 255 /\ bit \in BitValues
  BY BitFacts, SMTT(30)
<1>2. Sane(t) /\ r.window \in 0 .. 511 /\ Station(r)
  BY <1>1, SaneKept DEF Sane, Station
<1>3. x.part \in Characters =>
        /\ x.pos \in 0 .. 8
        /\ x.pos = 0 => bit = 0
        /\ x.pos \in 1 .. 6 => bit = 1
        /\ x.pos = 7 => bit = TypeBits(Kind(x))[1]
        /\ x.part = 3 => TypeBits(Kind(x))[1] = 0 /\ (x.pos = 8 => bit = 1)
        /\ x.pos \in 1 .. 7 => Run(r.window, x.pos - 1)
        /\ x.pos = 8 => r.seen >= 8 /\ r.window % 256 = 126 + TypeBits(Kind(x))[1]
  <2>1. x.part \in Characters => Spells(x, bit, r)
    BY <1>1, CharacterSpelt
  <2> HIDE DEF bit
  <2> QED BY <2>1 DEF Spells
<1>4. x.part = 2 => /\ TypeBits(Kind(x))[1] = 1
                    /\ x.pos \in 7 .. 8 => bit = 1
  BY <1>1, ClaimedBit
<1>5. t.window = Shift(r.window, bit)
  BY <1>1, TakeStation DEF Sane
<1>6. {2, 3} \subseteq Characters
  BY DEF Characters
<1> DEFINE G == Calm(y, t) /\ (x.part = 3 => t.pending = bit)
<1> HIDE DEF t, bit
<1>7. CASE x.part \notin {2, 3}
  <2>1. y.part # 3 /\ (y.part = 2 => y.pos = 0)
    BY <1>1, <1>7 DEF Onward, PartSize
  <2>2. G
    BY <1>7, <2>1 DEF Calm
  <2> QED BY <2>2 DEF t, bit
<1>8. CASE x.part = 2 /\ x.pos = 0
  <2>1. y.part = 2 /\ y.pos = 1
    BY <1>1, <1>8 DEF Onward, PartSize
  <2>2. Level(t, 0, 0)
    <3>1. t.ones \in 0 .. 5 /\ t.lateBits \in 0 .. 7
      BY <1>2 DEF Sane
    <3>2. Least(0, 5) = 0 /\ Least(t.lateBits, 0) = 0 /\ AllOnes(t.late, 0)
      BY <3>1 DEF Least, AllOnes
    <3> QED BY <3>1, <3>2 DEF Level
  <2>3. G
    BY <1>8, <2>1, <2>2 DEF Calm
  <2> QED BY <2>3 DEF t, bit
<1>9. CASE x.part = 2 /\ x.pos \in 1 .. 7
  <2>1. y.part = 2 /\ y.pos = x.pos + 1 /\ bit = 1
    BY <1>1, <1>3, <1>4, <1>6, <1>9 DEF Onward, PartSize
  <2>2. Level(r, x.pos - 1, x.pos - 1) /\ x.pos - 1 \in Nat
    BY <1>9 DEF Calm
  <2> DEFINE o == x.pos - 1
  <2> HIDE DEF o
  <2>3. Level(r, o, o) /\ o \in Nat
    BY <2>2 DEF o
  <2>4. Level(t, o + 1, o + 1)
    BY <1>1, <2>1, <2>3, LevelOn DEF t
  <2>5. o + 1 = y.pos - 1
    BY <1>1, <2>1 DEF o
  <2>6. G
    BY <1>9, <2>1, <2>4, <2>5 DEF Calm
  <2> QED BY <2>6 DEF t, bit
<1>10. CASE x.part = 2 /\ x.pos = 8
  <2>1. y.part = 3 /\ y.pos = 0 /\ bit = 1
    BY <1>1, <1>4, <1>10 DEF Onward, PartSize
  <2>2. Level(r, 7, 7)
    <3>1. x.pos - 1 = 7
      BY <1>10
    <3> QED BY <1>10, <3>1 DEF Calm
  <2>3. Level(t, 8, 8)
    <3>1. Level(t, 7 + 1, 7 + 1)
      BY <1>1, <2>1, <2>2, LevelOn DEF t
    <3> QED BY <3>1
  <2>4. Level(t, 5, 8)
    <3>1. Least(5, 5) <= Least(8, 5)
      BY DEF Least
    <3> QED BY <1>2, <2>3, <3>1, LevelLess
  <2>5. t.window = 255
    <3>1. r.window % 256 = 127
      BY <1>3, <1>4, <1>6, <1>10
    <3> QED BY <1>2, <1>5, <2>1, <3>1 DEF Shift
  <2>6. G
    BY <1>10, <2>1, <2>4, <2>5 DEF Calm
  <2> QED BY <2>6 DEF t, bit
<1>11. CASE x.part = 3 /\ x.pos = 0
  <2>1. y.part = 3 /\ y.pos = 1 /\ bit = 0
    BY <1>1, <1>3, <1>6, <1>11 DEF Onward, PartSize
  <2>2. Level(r, 5, 8) /\ r.window = 255
    BY <1>11 DEF Calm
  <2>3. Plain(r, bit)
    BY <2>1, <2>2 DEF Plain, Starts, Separates, Shift
  <2>4. Level(t, 0, 8) /\ t.pending = 0
    BY <1>1, <2>1, <2>2, <2>3, LevelOff DEF t
  <2>5. G
    BY <1>11, <2>1, <2>4 DEF Calm
  <2> QED BY <2>5 DEF t, bit
<1>12. CASE x.part = 3 /\ x.pos \in 1 .. 6
  <2>1. y.part = 3 /\ y.pos = x.pos + 1 /\ bit = 1
    BY <1>1, <1>3, <1>6, <1>12 DEF Onward, PartSize
  <2>2. Level(r, x.pos - 1, 8) /\ x.pos - 1 \in Nat
    BY <1>12 DEF Calm
  <2> DEFINE o == x.pos - 1
  <2> HIDE DEF o
  <2>3. Level(r, o, 8) /\ o \in Nat
    BY <2>2 DEF o
  <2>4. Level(t, o + 1, 8 + 1) /\ t.pending = 1
    BY <1>1, <2>1, <2>3, LevelOn DEF t
  <2>5. Level(t, o + 1, 8)
    <3>1. Least(o + 1, 5) <= Least(o + 1, 5) /\ o + 1 \in Nat /\ 8 + 1 \in Nat /\ 8 <= 8 + 1
      BY <2>3 DEF Least
    <3> QED BY <1>2, <2>4, <3>1, LevelLess
  <2>6. o + 1 = y.pos - 1
    BY <1>1, <2>1 DEF o
  <2>7. G
    BY <1>12, <2>1, <2>4, <2>5, <2>6 DEF Calm
  <2> QED BY <2>7 DEF t, bit
<1>13. CASE x.part = 3 /\ x.pos = 7
  <2>1. y.part = 3 /\ y.pos = 8 /\ bit = 0
    BY <1>1, <1>3, <1>6, <1>13 DEF Onward, PartSize
  <2>2. Level(r, 6, 8)
    <3>1. x.pos - 1 = 6
      BY <1>13
    <3> QED BY <1>13, <3>1 DEF Calm
  <2>3. Plain(r, bit)
    <3>1. Run(r.window, 6)
      <4>1. x.pos - 1 = 6
        BY <1>13
      <4> QED BY <1>3, <1>6, <1>13, <4>1
    <3>2. Shift(r.window, bit) % 256 = 126
      BY <1>1, <1>2, <2>1, <3>1 DEF Run, Shift
    <3> QED BY <3>2 DEF Plain, Starts, Separates
  <2>4. Level(t, 0, 8) /\ t.pending = 0
    BY <1>1, <2>1, <2>2, <2>3, LevelOff DEF t
  <2>5. G
    BY <1>13, <2>1, <2>4 DEF Calm
  <2> QED BY <2>5 DEF t, bit
<1>14. CASE x.part = 3 /\ x.pos = 8
  <2>1. y.part = 4 /\ bit = 1
    BY <1>1, <1>3, <1>6, <1>14 DEF Onward, PartSize
  <2>2. Starts(r, bit)
    <3>1. r.seen >= 8 /\ r.window % 256 = 126
      BY <1>3, <1>6, <1>14
    <3> QED BY <1>2, <2>1, <3>1 DEF Starts, Shift
  <2>3. t.pending = bit
    BY <1>1, <1>2, <2>2, StartPasses DEF FrameStarts, t
  <2>4. G
    BY <2>1, <2>3 DEF Calm
  <2> QED BY <2>4 DEF t, bit
<1> QED BY <1>1, <1>3, <1>6, <1>7, <1>8, <1>9, <1>10, <1>11, <1>12, <1>13, <1>14

-----------------------------------------------------------------------------
(* What the station next to the transmitter makes of the frame. *)

\* What a station that follows the stream does with the transmitter's next bit.
Does(x, r, bit, t) ==
    /\ x.part = 3 /\ x.pos = 8 => FrameStarts(r, bit, t)
    /\ x.part = 4 => Waits(r, bit, t)
    /\ x.part = 5 /\ x.pos < 8 => Waits(r, bit, t)
    /\ x.part \in {5, 7, 9} /\ x.pos = 8 => SequenceOpens(r, bit, t)
    /\ x.part = 6 => HeaderGoesOn(r, bit, t)
    /\ x.part = 7 /\ x.pos < 7 => HeaderGoesOn(r, bit, t)
    /\ x.part \in {7, 9} /\ x.pos = 7 => Drops(r, bit, t)
    /\ x.part = 8 => BodyGoesOn(r, bit, t)
    /\ x.part = 9 /\ x.pos < 7 => BodyGoesOn(r, bit, t)
    /\ x.part = 10 => FcsGoesOn(r, bit, t)
    /\ x.part = 11 => LateGoesOn(r, bit, t)
    /\ x.part = 12 => Waits(r, bit, t)

\* It is told by the part of the stream.
LEMMA WhatIsDone ==
    ASSUME NEW x, Writing(x), ~x.stuff, NEW byte, Writable(x, byte), NEW d \in DataLengths,
           NEW r, Sane(r), Prefix(x, r), Follows(x, r)
    PROVE  Does(x, r, BitOf(x, byte), Take(r, BitOf(x, byte)))
<1> DEFINE bit == BitOf(x, byte)
           t == Take(r, bit)
<1>1. /\ x.part \in 1 .. 12 /\ x.pos \in Nat /\ x.ones \in 0 .. 4
      /\ byte \in 0 .. 255 /\ bit \in BitValues
  BY BitWrites, WritingTyped DEF Writing
<1>2. Station(r) /\ r.window \in 0 .. 511 /\ r.seps \in 0 .. 3 /\ r.bits \in Nat
  BY DEF Sane, Station
<1>3. x.part \in Characters =>
        /\ x.pos \in 0 .. 8
        /\ x.pos = 0 => bit = 0
        /\ x.pos \in 1 .. 6 => bit = 1
        /\ x.pos = 7 => bit = TypeBits(Kind(x))[1]
        /\ x.part = 3 => TypeBits(Kind(x))[1] = 0 /\ (x.pos = 8 => bit = 1)
        /\ x.part \in {5, 7, 9} => TypeBits(Kind(x))[1] = 0 /\ (x.pos = 8 => bit = 0)
        /\ x.part = 12 => TypeBits(Kind(x))[1] = 1 /\ (x.pos = 8 => bit = 0)
        /\ x.pos = 8 => r.seen >= 8 /\ r.window % 256 = 126 + TypeBits(Kind(x))[1]
  <2>1. x.part \in Characters => Spells(x, bit, r)
    BY <1>1, CharacterSpelt
  <2> HIDE DEF bit
  <2> QED BY <2>1 DEF Spells
<1>4. x.part >= 4 => Quiet(x, r) /\ InSequence(x, r)
  BY DEF Follows
<1>5. {3, 5, 7, 9, 12} \subseteq Characters /\ Characters = {2, 3, 5, 7, 9, 12}
  BY DEF Characters
<1> HIDE DEF bit, t
<1>6. ASSUME x.part >= 4, ~(x.part \in Characters /\ x.pos = 8) PROVE Plain(r, bit)
  <2>1. QuietNext(r.window)
    BY <1>4, <1>6 DEF Quiet
  <2>2. Shift(r.window, bit) \div 4 # 63
    BY <1>1, <1>2, <2>1, QuietIsNoSymbol
  <2> QED BY <2>2, NothingEnds
<1>7. ASSUME x.part = 3, x.pos = 8 PROVE FrameStarts(r, bit, t)
  <2>1. r.seen >= 8 /\ r.window % 256 = 126 /\ bit = 1
    BY <1>3, <1>5, <1>7
  <2>2. Starts(r, bit)
    BY <1>2, <2>1 DEF Starts, Shift
  <2> QED BY <1>1, <1>2, <2>2, StartPasses DEF t
<1>8. ASSUME x.part \in {5, 7, 9}, x.pos = 8 PROVE SequenceOpens(r, bit, t)
  <2>1. r.seen >= 8 /\ r.window % 256 = 126 /\ bit = 0
    BY <1>3, <1>5, <1>8
  <2>2. r.rx # "idle"
    BY <1>4, <1>8 DEF InSequence
  <2>3. Separates(r, bit)
    BY <1>2, <2>1, <2>2 DEF Separates, Shift
  <2> QED BY <1>1, <1>2, <2>3, SeparatorPasses DEF t
<1>9. ASSUME Plain(r, bit), r.rx \in {"idle", "await"} PROVE Waits(r, bit, t)
  <2>1. r.rx # "header" /\ r.rx # "body" /\ r.rx # "fcs" /\ r.rx # "late"
    BY <1>9
  <2> QED BY <1>1, <1>9, <2>1, WhatBitDoes, Zenon DEF Plain, t
<1>10. ASSUME Plain(r, bit), r.rx \notin {"idle", "await"}, r.ones >= 5, bit = 0
       PROVE  Drops(r, bit, t)
  <2>1. ~Unstuffed(r, bit)
    BY <1>10 DEF Unstuffed
  <2> QED BY <1>1, <1>10, <2>1, WhatBitDoes, Zenon DEF Plain, t
<1>11. ASSUME Plain(r, bit), r.rx \notin {"idle", "await"}, ~(r.ones >= 5 /\ bit = 0)
       PROVE  /\ r.rx = "header" => HeaderGoesOn(r, bit, t)
              /\ r.rx = "body" => BodyGoesOn(r, bit, t)
              /\ r.rx = "fcs" => FcsGoesOn(r, bit, t)
              /\ r.rx = "late" => LateGoesOn(r, bit, t)
  <2>1. \/ r.rx = "header" /\ HeaderGoesOn(r, bit, t)
        \/ r.rx = "body" /\ BodyGoesOn(r, bit, t)
        \/ r.rx = "fcs" /\ FcsGoesOn(r, bit, t)
        \/ r.rx = "late" /\ LateGoesOn(r, bit, t)
    BY <1>1, <1>11, WhatBitDoes, Zenon DEF Plain, t
  <2> QED BY <2>1
<1>12. x.part = 4 => Waits(r, bit, t)
  BY <1>4, <1>5, <1>6, <1>9 DEF InSequence
<1>13. x.part = 5 /\ x.pos < 8 => Waits(r, bit, t)
  BY <1>1, <1>4, <1>6, <1>9 DEF InSequence
<1>14. x.part = 12 => Waits(r, bit, t)
  <2>1. ASSUME x.part = 12, x.pos = 8 PROVE Plain(r, bit)
    <3>1. r.window % 256 = 127 /\ bit = 0
      BY <1>3, <1>5, <2>1
    <3> QED BY <1>2, <3>1 DEF Plain, Starts, Separates, Shift
  <2>2. x.part = 12 => Plain(r, bit)
    BY <1>1, <1>6, <2>1
  <2> QED BY <1>4, <1>9, <2>2 DEF InSequence
<1>15. x.part = 6 => HeaderGoesOn(r, bit, t)
  BY <1>1, <1>4, <1>5, <1>6, <1>11 DEF InSequence, InBytes
<1>16. x.part = 8 => BodyGoesOn(r, bit, t)
  BY <1>1, <1>4, <1>5, <1>6, <1>11 DEF InSequence, InBytes
<1>17. x.part = 10 => FcsGoesOn(r, bit, t)
  BY <1>1, <1>4, <1>5, <1>6, <1>11 DEF InSequence
<1>18. x.part = 11 => LateGoesOn(r, bit, t)
  BY <1>1, <1>4, <1>5, <1>6, <1>11 DEF InSequence
<1>19. ASSUME x.part \in {7, 9}, x.pos < 7
       PROVE  /\ x.part = 7 => HeaderGoesOn(r, bit, t)
              /\ x.part = 9 => BodyGoesOn(r, bit, t)
  <2>1. InSeparator(x, r) /\ Plain(r, bit)
    BY <1>1, <1>4, <1>6, <1>19 DEF InSequence
  <2>2. ~(r.ones >= 5 /\ bit = 0)
    <3>1. CASE x.pos = 0
      BY <1>1, <2>1, <3>1 DEF InSeparator
    <3>2. CASE x.pos \in 1 .. 6
      BY <1>3, <1>5, <1>19, <3>2
    <3> QED BY <1>1, <1>19, <3>1, <3>2
  <2>3. x.part = 7 => r.rx = "header"
    BY <1>4 DEF InSequence
  <2>4. x.part = 9 => r.rx = "body"
    BY <1>4 DEF InSequence
  <2> QED BY <1>11, <1>19, <2>1, <2>2, <2>3, <2>4
<1>20. ASSUME x.part \in {7, 9}, x.pos = 7 PROVE Drops(r, bit, t)
  <2>1. InSeparator(x, r) /\ Plain(r, bit) /\ r.rx \notin {"idle", "await"}
    BY <1>1, <1>4, <1>6, <1>20 DEF InSequence
  <2>2. r.ones = 5
    BY <1>20, <2>1 DEF InSeparator, Least
  <2>3. bit = 0
    BY <1>3, <1>5, <1>20
  <2> QED BY <1>10, <2>1, <2>2, <2>3
<1>21. Does(x, r, bit, t)
  BY <1>7, <1>8, <1>12, <1>13, <1>14, <1>15, <1>16, <1>17, <1>18, <1>19, <1>20 DEF Does
<1> QED BY <1>21 DEF t, bit

\* What the station that follows the frame makes of it: how far into the header
\* it is, and whether it is the addressee.
Understood(x, r) ==
    /\ x.part \in {4, 5} => ~r.addressed
    /\ x.part = 6 => /\ r.bits = x.pos
                     /\ r.addressed <=> x.pos >= 8 * DecideBytes /\ r.mine
    /\ x.part = 7 => r.bits >= 8 * HeaderBytes
    /\ x.part \in 7 .. 11 => (r.addressed <=> r.mine)
    /\ x.part = 10 => r.late = 0

\* It goes on so.
LEMMA UnderstoodKept ==
    ASSUME NEW x, Writing(x), ~x.stuff, NEW byte, Writable(x, byte), NEW d \in DataLengths,
           NEW y, HasWritten(x, byte, d, y),
           NEW r, Sane(r), Follows(x, r), Understood(x, r),
           NEW bit, NEW t, Does(x, r, bit, t), t.mine = r.mine
    PROVE  Understood(y, t)
<1>1. /\ x.part \in 1 .. 12 /\ x.pos \in Nat /\ x.dlen \in Nat
      /\ PartDone(x) <=> x.pos + 1 = PartSize(x.part, x.dlen)
      /\ x.pos < PartSize(x.part, x.dlen)
      /\ y.part = IF PartDone(x) THEN Onward(x) ELSE x.part
      /\ y.pos = IF PartDone(x) THEN 0 ELSE x.pos + 1
  BY BitFacts
<1>2. /\ r.bits \in Nat /\ r.mine \in BOOLEAN /\ r.addressed \in BOOLEAN
      /\ DecideBytes \in Nat /\ DecideBytes > 0 /\ HeaderBytes \in Nat
      /\ HeaderBytes > DecideBytes
  BY FrameAssumption DEF Sane
<1>3. CASE x.part < 3
  <2>1. y.part < 4
    BY <1>1, <1>3 DEF Onward
  <2> QED BY <2>1, <1>1, <1>3 DEF Understood, Onward
<1>4. CASE x.part = 3
  <2>1. y.part = 3 \/ (y.part = 4 /\ x.pos = 8)
    BY <1>1, <1>4 DEF Onward, PartSize
  <2>2. x.pos = 8 => ~t.addressed
    BY <1>4 DEF Does, FrameStarts
  <2> QED BY <2>1, <2>2 DEF Understood
<1>5. CASE x.part = 4
  <2>1. y.part \in {4, 5}
    BY <1>1, <1>5 DEF Onward
  <2>2. ~t.addressed
    BY <1>5 DEF Does, Waits, Passed, SameFrame, Understood
  <2> QED BY <2>1, <2>2 DEF Understood
<1>6. CASE x.part = 5
  <2>1. CASE x.pos = 8
    <3>1. y.part = 6 /\ y.pos = 0
      BY <1>1, <1>6, <2>1 DEF Onward, PartSize
    <3>2. r.seps = 0 /\ ~r.addressed
      BY <1>6 DEF Follows, InSequence, Understood
    <3>3. t.bits = 0 /\ ~t.addressed
      BY <1>6, <2>1, <3>2 DEF Does, SequenceOpens
    <3> QED BY <1>2, <3>1, <3>3 DEF Understood
  <2>2. CASE x.pos # 8
    <3>1. y.part = 5 /\ x.pos < 8
      BY <1>1, <1>6, <2>2 DEF Onward, PartSize
    <3>2. ~t.addressed
      BY <1>6, <3>1 DEF Does, Waits, Passed, SameFrame, Understood
    <3> QED BY <3>1, <3>2 DEF Understood
  <2> QED BY <2>1, <2>2
<1>7. CASE x.part = 6
  <2>1. /\ t.bits = x.pos + 1
        /\ t.addressed = IF x.pos + 1 = 8 * DecideBytes THEN r.mine ELSE r.addressed
        /\ r.addressed <=> x.pos >= 8 * DecideBytes /\ r.mine
    BY <1>7 DEF Does, HeaderGoesOn, Understood
  <2>2. t.addressed <=> x.pos + 1 >= 8 * DecideBytes /\ r.mine
    <3>1. CASE x.pos + 1 = 8 * DecideBytes
      BY <1>1, <1>2, <2>1, <3>1
    <3>2. CASE x.pos + 1 # 8 * DecideBytes
      BY <1>1, <1>2, <2>1, <3>2
    <3> QED BY <3>1, <3>2
  <2>3. CASE x.pos + 1 = 8 * HeaderBytes
    <3>1. y.part = 7
      BY <1>1, <1>7, <2>3 DEF Onward, PartSize
    <3>2. t.addressed <=> r.mine
      BY <1>1, <1>2, <2>2, <2>3
    <3> QED BY <1>2, <2>1, <2>3, <3>1, <3>2 DEF Understood
  <2>4. CASE x.pos + 1 # 8 * HeaderBytes
    <3>1. y.part = 6 /\ y.pos = x.pos + 1
      BY <1>1, <1>7, <2>4 DEF Onward, PartSize
    <3> QED BY <2>1, <2>2, <3>1 DEF Understood
  <2> QED BY <2>3, <2>4
<1>8. CASE x.part = 7
  <2>1. r.bits >= 8 * HeaderBytes /\ (r.addressed <=> r.mine)
    BY <1>8 DEF Understood
  <2>2. t.bits >= 8 * HeaderBytes /\ (t.addressed <=> r.mine)
    <3>1. CASE x.pos < 7
      <4>1. /\ t.bits = r.bits + 1
            /\ t.addressed = IF r.bits + 1 = 8 * DecideBytes THEN r.mine ELSE r.addressed
        BY <1>8, <3>1 DEF Does, HeaderGoesOn
      <4> QED BY <1>2, <2>1, <4>1
    <3>2. CASE x.pos = 7
      BY <1>8, <2>1, <3>2 DEF Does, Drops, Passed, SameFrame
    <3>3. CASE x.pos = 8
      <4>1. r.seps = 1
        BY <1>8 DEF Follows, InSequence
      <4> QED BY <1>8, <2>1, <3>3, <4>1 DEF Does, SequenceOpens
    <3>4. x.pos \in 0 .. 8
      BY <1>1, <1>8 DEF PartSize
    <3> QED BY <3>1, <3>2, <3>3, <3>4
  <2>3. y.part \in {7, 8, 9}
    BY <1>1, <1>8 DEF Onward
  <2> QED BY <2>2, <2>3 DEF Understood
<1>9. CASE x.part = 8
  <2>1. t.addressed <=> t.mine
    BY <1>9 DEF Does, BodyGoesOn, Passed, SameFrame, Understood
  <2>2. y.part \in {8, 9}
    BY <1>1, <1>9 DEF Onward
  <2> QED BY <2>1, <2>2 DEF Understood
<1>10. CASE x.part = 9
  <2>1. r.addressed <=> r.mine
    BY <1>10 DEF Understood
  <2>2. t.addressed = r.addressed
    <3>1. CASE x.pos < 7
      BY <1>10, <3>1 DEF Does, BodyGoesOn, Passed, SameFrame
    <3>2. CASE x.pos = 7
      BY <1>10, <3>2 DEF Does, Drops, Passed, SameFrame
    <3>3. CASE x.pos = 8
      BY <1>10, <3>3 DEF Does, SequenceOpens
    <3>4. x.pos \in 0 .. 8
      BY <1>1, <1>10 DEF PartSize
    <3> QED BY <3>1, <3>2, <3>3, <3>4
  <2>3. y.part = 9 \/ (y.part = 10 /\ x.pos = 8)
    BY <1>1, <1>10 DEF Onward, PartSize
  <2>4. x.pos = 8 => t.late = 0
    <3>1. r.seps = 2
      BY <1>10 DEF Follows, InSequence
    <3> QED BY <1>10, <3>1 DEF Does, SequenceOpens
  <2> QED BY <2>1, <2>2, <2>3, <2>4 DEF Understood
<1>11. CASE x.part = 10
  <2>1. (t.addressed <=> t.mine) /\ t.late = 0
    BY <1>11 DEF Does, FcsGoesOn, Passed, SameFrame, Understood
  <2>2. y.part \in {10, 11}
    BY <1>1, <1>11 DEF Onward
  <2> QED BY <2>1, <2>2 DEF Understood
<1>12. CASE x.part = 11
  <2>1. t.addressed <=> t.mine
    BY <1>12 DEF Does, LateGoesOn, Understood
  <2>2. y.part \in {11, 12}
    BY <1>1, <1>12 DEF Onward
  <2> QED BY <2>1, <2>2 DEF Understood
<1>13. CASE x.part = 12
  <2>1. y.part \in {12, 1}
    BY <1>1, <1>13 DEF Onward
  <2> QED BY <2>1 DEF Understood
<1> QED BY <1>1, <1>3, <1>4, <1>5, <1>6, <1>7, <1>8, <1>9, <1>10, <1>11, <1>12, <1>13

\* The bits that a station may forward altered: intend-to-copy and its parity in
\* the early acknowledge, four bits of the late one.
Altered(x) == \/ x.part = 6 /\ x.pos \in {EarlyBits + 4, EarlyBits + 6}
              \/ x.part = 11 /\ x.pos \in {1, 2, 4, 6}

One(p) == IF p THEN 1 ELSE 0

\* What a station forwards of the bits written.
Forwarded(x, r, bit, beta) ==
    /\ ~Altered(x) => beta = bit
    /\ x.part = 11 => /\ x.pos = 1 => beta = One(r.mine /\ r.enabled)
                      /\ x.pos = 2 => beta = One(r.mine /\ ~r.enabled)
                      /\ x.pos = 4 => beta = One(r.mine)

\* It forwards the rest as it is.
LEMMA ForwardsTheRest ==
    ASSUME NEW x, Writing(x), ~x.stuff, x.part >= 4,
           NEW r, Sane(r), Follows(x, r), Understood(x, r),
           NEW bit \in BitValues, x.part = 11 => bit = 0, NEW t, Does(x, r, bit, t)
    PROVE  Forwarded(x, r, bit, t.pending)
<1>1. x.part \in 4 .. 12 /\ x.pos \in Nat /\ x.pos < PartSize(x.part, x.dlen) /\ x.dlen \in Nat
  BY WritingTyped, PartSizes DEF Writing
<1>2. EarlyBits \in Nat /\ HeaderBytes \in Nat /\ 8 * HeaderBytes >= EarlyBits + 8
  BY FrameAssumption DEF EarlyBits, EarlyAck
<1>3. r.bits \in Nat /\ r.mine \in BOOLEAN /\ r.enabled \in BOOLEAN
  BY DEF Sane
<1>4. CASE x.part \in {4, 12}
  <2>1. t.pending = bit
    BY <1>4 DEF Does, Waits, Passed
  <2> QED BY <1>4, <2>1 DEF Forwarded
<1>5. CASE x.part = 5
  <2>1. x.pos < 8 \/ x.pos = 8
    BY <1>1, <1>5 DEF PartSize
  <2>2. t.pending = bit
    BY <1>5, <2>1 DEF Does, Waits, Passed, SequenceOpens
  <2> QED BY <1>5, <2>2 DEF Forwarded
<1>6. CASE x.part = 6
  <2>1. ~Altered(x) => ~Sets(r, bit) /\ ~Flips(r)
    BY <1>6 DEF Altered, Sets, Flips, Understood
  <2>2. t.pending = IF Sets(r, bit) \/ Flips(r) THEN 1 - bit ELSE bit
    BY <1>6 DEF Does, HeaderGoesOn
  <2> QED BY <1>6, <2>1, <2>2 DEF Forwarded
<1>7. CASE x.part = 7
  <2>1. CASE x.pos < 7
    <3>1. r.bits >= 8 * HeaderBytes
      BY <1>7 DEF Understood
    <3>2. ~Sets(r, bit) /\ ~Flips(r)
      BY <1>2, <1>3, <3>1 DEF Sets, Flips
    <3>3. t.pending = bit
      BY <1>7, <2>1, <3>2 DEF Does, HeaderGoesOn
    <3> QED BY <1>7, <3>3 DEF Forwarded
  <2>2. CASE x.pos = 7
    <3>1. t.pending = bit
      BY <1>7, <2>2 DEF Does, Drops, Passed
    <3> QED BY <1>7, <3>1 DEF Forwarded
  <2>3. CASE x.pos = 8
    <3>1. t.pending = bit
      BY <1>7, <2>3 DEF Does, SequenceOpens
    <3> QED BY <1>7, <3>1 DEF Forwarded
  <2> QED BY <1>1, <1>7, <2>1, <2>2, <2>3 DEF PartSize
<1>8. CASE x.part = 8
  <2>1. t.pending = bit
    BY <1>8 DEF Does, BodyGoesOn, Passed
  <2> QED BY <1>8, <2>1 DEF Forwarded
<1>9. CASE x.part = 9
  <2>1. x.pos < 7 \/ x.pos = 7 \/ x.pos = 8
    BY <1>1, <1>9 DEF PartSize
  <2>2. t.pending = bit
    BY <1>9, <2>1 DEF Does, BodyGoesOn, Drops, SequenceOpens, Passed
  <2> QED BY <1>9, <2>2 DEF Forwarded
<1>10. CASE x.part = 10
  <2>1. t.pending = bit
    BY <1>10 DEF Does, FcsGoesOn, Passed
  <2> QED BY <1>10, <2>1 DEF Forwarded
<1>11. CASE x.part = 11
  <2>1. r.lateBits = x.pos /\ (r.addressed <=> r.mine) /\ bit = 0 /\ x.pos \in 0 .. 7
    BY <1>1, <1>11 DEF Follows, InSequence, Understood, PartSize
  <2>2. t.pending = LateBit(r, bit)
    BY <1>11 DEF Does, LateGoesOn
  <2>3. x.pos \notin {1, 2, 4, 6} => LateBit(r, bit) = bit
    BY <2>1 DEF LateBit
  <2>4. /\ x.pos = 1 => LateBit(r, bit) = One(r.mine /\ r.enabled)
        /\ x.pos = 2 => LateBit(r, bit) = One(r.mine /\ ~r.enabled)
        /\ x.pos = 4 => LateBit(r, bit) = One(r.mine)
    BY <2>1 DEF LateBit, One
  <2> QED BY <1>11, <2>2, <2>3, <2>4 DEF Forwarded, Altered
<1> QED BY <1>1, <1>4, <1>5, <1>6, <1>7, <1>8, <1>9, <1>10, <1>11

\* A stuffed zero is dropped and passed on, wherever the frame is.
LEMMA StuffingPasses ==
    ASSUME NEW x, Writing(x), x.stuff, x.part >= 4, NEW bit, bit = 0,
           NEW r, Sane(r), Follows(x, r)
    PROVE  Passed(r, bit, Take(r, bit))
<1> DEFINE t == Take(r, bit)
<1>1. /\ x.ones = 5 /\ x.part \notin {4, 5} /\ (x.part \in Characters => x.pos = 0)
      /\ x.part \in 1 .. 12
  BY WhereZeroIsOwed, WritingTyped
<1>2. Quiet(x, r) /\ InSequence(x, r)
  BY DEF Follows
<1>3. bit \in BitValues /\ r.window \in 0 .. 511
  BY DEF BitValues, Sane, Station
<1>4. Plain(r, bit)
  <2>1. QuietNext(r.window)
    BY <1>1, <1>2 DEF Quiet
  <2>2. Shift(r.window, bit) \div 4 # 63
    BY <1>3, <2>1, QuietIsNoSymbol
  <2> QED BY <2>2, NothingEnds
<1>5. r.rx = "idle" \/ (r.rx \notin {"idle", "await"} /\ r.ones = 5)
  BY <1>1, <1>2 DEF InSequence, InBytes, InSeparator, Characters
<1>6. CASE r.rx = "idle"
  BY <1>3, <1>4, <1>6, WaitingPasses DEF Sane
<1>7. CASE r.rx \notin {"idle", "await"} /\ r.ones = 5
  BY <1>3, <1>4, <1>7, StuffedPasses DEF Sane
<1> QED BY <1>5, <1>6, <1>7

\* Nothing else comes of it.
LEMMA UnderstoodThroughStuffing ==
    ASSUME NEW x, Writing(x), NEW y, y = WriteStuffed(x), x.part >= 4,
           NEW r, Understood(x, r), NEW bit, NEW t, Passed(r, bit, t)
    PROVE  Understood(y, t)
<1>1. y.part = x.part /\ y.pos = x.pos
  BY WritingTyped, StuffedAfter, ZenonT(40)
<1> QED BY <1>1 DEF Understood, Passed, SameFrame

-----------------------------------------------------------------------------
(* The late acknowledge. *)

\* Its first n bits, where some station copied (c), some had to refuse (k), some
\* was the addressee (i).
LateValue(c, k, i, n) ==
    IF n <= 1 THEN 0 ELSE IF n = 2 THEN c ELSE IF n = 3 THEN 2 * c + k
    ELSE IF n = 4 THEN 4 * c + 2 * k ELSE IF n = 5 THEN 8 * c + 4 * k + i
    ELSE IF n = 6 THEN 16 * c + 8 * k + 2 * i
    ELSE IF n = 7 THEN 32 * c + 16 * k + 4 * i + (1 - ((c + k + i) % 2))
    ELSE 64 * c + 32 * k + 8 * i + 2 * (1 - ((c + k + i) % 2))

\* The bit after the first n of them.
LateNext(c, k, i, n) ==
    IF n = 1 THEN c ELSE IF n = 2 THEN k ELSE IF n = 4 THEN i
    ELSE IF n = 6 THEN 1 - ((c + k + i) % 2) ELSE 0

\* The parity over the bits sent is the parity of the three.
LEMMA LateParity ==
    ASSUME NEW c \in BitValues, NEW k \in BitValues, NEW i \in BitValues
    PROVE  OnesIn((16 * c + 8 * k + 2 * i) % 64) % 2 = (c + k + i) % 2
<1>1. /\ OnesIn(0) % 2 = 0 /\ OnesIn(2) % 2 = 1 /\ OnesIn(8) % 2 = 1 /\ OnesIn(10) % 2 = 0
      /\ OnesIn(16) % 2 = 1 /\ OnesIn(18) % 2 = 0 /\ OnesIn(24) % 2 = 0
      /\ OnesIn(26) % 2 = 1
  BY DEF OnesIn
<1> DEFINE v == 16 * c + 8 * k + 2 * i
<1>2. v % 64 = v
  BY DEF BitValues
<1>3. /\ c = 0 /\ k = 0 /\ i = 0 => v = 0 /\ c + k + i = 0
      /\ c = 0 /\ k = 0 /\ i = 1 => v = 2 /\ c + k + i = 1
      /\ c = 0 /\ k = 1 /\ i = 0 => v = 8 /\ c + k + i = 1
      /\ c = 0 /\ k = 1 /\ i = 1 => v = 10 /\ c + k + i = 2
      /\ c = 1 /\ k = 0 /\ i = 0 => v = 16 /\ c + k + i = 1
      /\ c = 1 /\ k = 0 /\ i = 1 => v = 18 /\ c + k + i = 2
      /\ c = 1 /\ k = 1 /\ i = 0 => v = 24 /\ c + k + i = 2
      /\ c = 1 /\ k = 1 /\ i = 1 => v = 26 /\ c + k + i = 3
  OBVIOUS
<1> HIDE DEF v
<1>4. 0 % 2 = 0 /\ 1 % 2 = 1 /\ 2 % 2 = 0 /\ 3 % 2 = 1
  OBVIOUS
<1>5. OnesIn(v) % 2 = (c + k + i) % 2
  BY <1>1, <1>3, <1>4 DEF BitValues
<1> QED BY <1>2, <1>5 DEF v

\* BitValues by bit.
LEMMA LateGrows ==
    ASSUME NEW c \in BitValues, NEW k \in BitValues, NEW i \in BitValues, NEW n \in 0 .. 7
    PROVE  (2 * LateValue(c, k, i, n) + LateNext(c, k, i, n)) % 256 = LateValue(c, k, i, n + 1)
<1>1. (c + k + i) % 2 \in 0 .. 1
  BY DEF BitValues
<1> DEFINE p == (c + k + i) % 2
<1> HIDE DEF p
<1>2. CASE n = 0
  BY <1>2 DEF LateValue, LateNext
<1>3. CASE n = 1
  BY <1>3 DEF LateValue, LateNext, BitValues
<1>4. CASE n = 2
  BY <1>4 DEF LateValue, LateNext, BitValues
<1>5. CASE n = 3
  BY <1>5 DEF LateValue, LateNext, BitValues
<1>6. CASE n = 4
  BY <1>6 DEF LateValue, LateNext, BitValues
<1>7. CASE n = 5
  BY <1>7 DEF LateValue, LateNext, BitValues
<1>8. CASE n = 6
  BY <1>1, <1>8 DEF LateValue, LateNext, BitValues
<1>9. CASE n = 7
  BY <1>1, <1>9 DEF LateValue, LateNext, BitValues
<1> QED BY <1>2, <1>3, <1>4, <1>5, <1>6, <1>7, <1>8, <1>9

\* What it says of the frame at its end.
LEMMA LateSays ==
    ASSUME NEW c \in BitValues, NEW k \in BitValues, NEW i \in BitValues
    PROVE  LET v == LateValue(c, k, i, 8)
           IN  /\ OnesIn(v) % 2 = 1
               /\ (v \div 64) % 2 = c /\ (v \div 32) % 2 = k /\ (v \div 8) % 2 = i
<1>1. /\ OnesIn(2) = 1 /\ OnesIn(8) = 1 /\ OnesIn(32) = 1 /\ OnesIn(42) = 3
      /\ OnesIn(64) = 1 /\ OnesIn(74) = 3 /\ OnesIn(98) = 3 /\ OnesIn(104) = 3
  BY DEF OnesIn
<1> DEFINE v == LateValue(c, k, i, 8)
<1>2. 0 % 2 = 0 /\ 1 % 2 = 1 /\ 2 % 2 = 0 /\ 3 % 2 = 1
  OBVIOUS
<1>3. /\ c = 0 /\ k = 0 /\ i = 0 => v = 2
      /\ c = 0 /\ k = 0 /\ i = 1 => v = 8
      /\ c = 0 /\ k = 1 /\ i = 0 => v = 32
      /\ c = 0 /\ k = 1 /\ i = 1 => v = 42
      /\ c = 1 /\ k = 0 /\ i = 0 => v = 64
      /\ c = 1 /\ k = 0 /\ i = 1 => v = 74
      /\ c = 1 /\ k = 1 /\ i = 0 => v = 98
      /\ c = 1 /\ k = 1 /\ i = 1 => v = 104
  BY <1>2 DEF LateValue
<1> HIDE DEF v
<1>4. OnesIn(v) % 2 = 1
  BY <1>1, <1>2, <1>3 DEF BitValues
<1>5. (v \div 64) % 2 = c /\ (v \div 32) % 2 = k /\ (v \div 8) % 2 = i
  BY <1>3 DEF BitValues
<1> QED BY <1>4, <1>5 DEF v

\* What a station has of the late acknowledge.
HasLate(x, r, c, k, i) ==
    /\ x.part = 11 => r.late = LateValue(c, k, i, x.pos)
    /\ x.part = 12 => r.late = LateValue(c, k, i, 8)

\* What the second station hears of the late acknowledge when the first is f.
HearsLate(x, f, beta) ==
    x.part = 11 => /\ x.pos \in {0, 3, 5, 7} => beta = 0
                   /\ x.pos = 1 => beta = One(f.mine /\ f.enabled)
                   /\ x.pos = 2 => beta = One(f.mine /\ ~f.enabled)
                   /\ x.pos = 4 => beta = One(f.mine)

Copied(f, r) == One((f.mine /\ f.enabled) \/ (r.mine /\ r.enabled))

Refused(f, r) == One((f.mine /\ ~f.enabled) \/ (r.mine /\ ~r.enabled))

Intended(f, r) == One(f.mine \/ r.mine)

\* It has the bits of both.
LEMMA HasLateKept ==
    ASSUME NEW x, Writing(x), ~x.stuff, x.part >= 4, NEW byte, Writable(x, byte),
           NEW d \in DataLengths, NEW y, HasWritten(x, byte, d, y),
           NEW f, Sane(f), NEW r, Sane(r), Follows(x, r), Understood(x, r),
           HasLate(x, r, Copied(f, r), Refused(f, r), Intended(f, r)),
           NEW bit \in BitValues, HearsLate(x, f, bit), NEW t, Does(x, r, bit, t),
           t.mine = r.mine, t.enabled = r.enabled
    PROVE  HasLate(y, t, Copied(f, t), Refused(f, t), Intended(f, t))
<1>1. /\ x.part \in 1 .. 12 /\ x.pos \in Nat /\ x.dlen \in Nat
      /\ PartDone(x) <=> x.pos + 1 = PartSize(x.part, x.dlen)
      /\ x.pos < PartSize(x.part, x.dlen)
      /\ y.part = IF PartDone(x) THEN Onward(x) ELSE x.part
      /\ y.pos = IF PartDone(x) THEN 0 ELSE x.pos + 1
  BY BitFacts
<1> DEFINE c == Copied(f, r)
           k == Refused(f, r)
           i == Intended(f, r)
<1>2. c \in BitValues /\ k \in BitValues /\ i \in BitValues
  BY DEF Copied, Refused, Intended, One, BitValues
<1>3. Copied(f, t) = c /\ Refused(f, t) = k /\ Intended(f, t) = i
  BY DEF Copied, Refused, Intended
<1>4. CASE x.part \in 4 .. 9
  <2>1. y.part \in 4 .. 10
    BY <1>1, <1>4 DEF Onward
  <2> QED BY <2>1 DEF HasLate
<1>5. CASE x.part = 10
  <2>1. y.part = 10 \/ (y.part = 11 /\ y.pos = 0)
    BY <1>1, <1>5 DEF Onward
  <2>2. t.late = 0
    BY <1>5 DEF Does, FcsGoesOn, Passed, SameFrame, Understood
  <2> QED BY <2>1, <2>2 DEF HasLate, LateValue
<1>6. CASE x.part = 11
  <2> DEFINE n == x.pos
             v == LateValue(c, k, i, n)
             bitOut == LateBit(r, bit)
  <2>1. r.lateBits = n /\ (r.addressed <=> r.mine) /\ n \in 0 .. 7
    BY <1>1, <1>6 DEF Follows, InSequence, Understood, PartSize
  <2>2. r.late = v /\ t.late = (2 * r.late + bitOut) % 256
    BY <1>6 DEF HasLate, Does, LateGoesOn
  <2>3. bitOut = LateNext(c, k, i, n)
    <3>1. CASE n \in {0, 3, 5, 7}
      <4>1. bit = 0
        BY <1>6, <3>1 DEF HearsLate
      <4>2. LateBit(r, bit) = bit
        BY <2>1, <3>1 DEF LateBit
      <4>3. LateNext(c, k, i, n) = 0
        BY <3>1 DEF LateNext
      <4> QED BY <4>1, <4>2, <4>3
    <3>2. CASE n = 1
      <4>1. bit = One(f.mine /\ f.enabled)
        BY <1>6, <3>2 DEF HearsLate
      <4>2. LateBit(r, bit) = IF r.mine /\ r.enabled THEN 1 ELSE bit
        BY <2>1, <3>2 DEF LateBit
      <4>3. LateNext(c, k, i, n) = c
        BY <3>2 DEF LateNext
      <4> QED BY <4>1, <4>2, <4>3 DEF Copied, One
    <3>3. CASE n = 2
      <4>1. bit = One(f.mine /\ ~f.enabled)
        BY <1>6, <3>3 DEF HearsLate
      <4>2. LateBit(r, bit) = IF r.mine /\ ~r.enabled THEN 1 ELSE bit
        BY <2>1, <3>3 DEF LateBit
      <4>3. LateNext(c, k, i, n) = k
        BY <3>3 DEF LateNext
      <4> QED BY <4>1, <4>2, <4>3 DEF Refused, One
    <3>4. CASE n = 4
      <4>1. bit = One(f.mine)
        BY <1>6, <3>4 DEF HearsLate
      <4>2. LateBit(r, bit) = IF r.mine THEN 1 ELSE bit
        BY <2>1, <3>4 DEF LateBit
      <4>3. LateNext(c, k, i, n) = i
        BY <3>4 DEF LateNext
      <4> QED BY <4>1, <4>2, <4>3 DEF Intended, One
    <3>5. CASE n = 6
      <4>1. LateBit(r, bit) = 1 - (OnesIn(r.late % 64) % 2)
        BY <2>1, <3>5 DEF LateBit
      <4>2. r.late = 16 * c + 8 * k + 2 * i
        BY <2>2, <3>5 DEF LateValue
      <4>3. LateNext(c, k, i, n) = 1 - ((c + k + i) % 2)
        BY <3>5 DEF LateNext
      <4> HIDE DEF c, k, i
      <4>4. OnesIn((16 * c + 8 * k + 2 * i) % 64) % 2 = (c + k + i) % 2
        BY <1>2, LateParity
      <4> QED BY <4>1, <4>2, <4>3, <4>4
    <3> QED BY <2>1, <3>1, <3>2, <3>3, <3>4, <3>5
  <2> HIDE DEF c, k, i, n, v, bitOut
  <2>4. (2 * v + bitOut) % 256 = LateValue(c, k, i, n + 1)
    BY <1>2, <2>1, <2>3, LateGrows DEF v
  <2>5. t.late = LateValue(c, k, i, n + 1)
    BY <2>2, <2>4
  <2>6. (y.part = 11 /\ y.pos = n + 1) \/ (y.part = 12 /\ n = 7)
    BY <1>1, <1>6 DEF Onward, PartSize, n
  <2>7. HasLate(y, t, c, k, i)
    BY <2>5, <2>6 DEF HasLate
  <2> QED BY <1>3, <2>7
<1>7. CASE x.part = 12
  <2>1. y.part \in {12, 1}
    BY <1>1, <1>7 DEF Onward
  <2>2. t.late = r.late
    BY <1>7 DEF Does, Waits, Passed, SameFrame
  <2> QED BY <1>3, <1>7, <2>1, <2>2 DEF HasLate
<1> QED BY <1>1, <1>4, <1>5, <1>6, <1>7

-----------------------------------------------------------------------------
(* The second station follows a transmitter one bit behind. *)

\* The most ones that bits altered can have left running.
LateRun(n) == IF n = 3 THEN 2 ELSE IF n \in {2, 5, 7} THEN 1 ELSE 0

Early(x) == x.part = 6 /\ x.pos \div 8 = EarlyAck

\* The stream behind a station looks like one that a transmitter z writes, which
\* is where the transmitter x is.
Alike(x, z) ==
    /\ z.part = x.part /\ z.pos = x.pos /\ z.dlen = x.dlen
    /\ Early(x) => z.ones = 0 \/ (x.pos % 8 \in {5, 7} /\ z.ones = 1)
    /\ x.part = 11 => z.ones <= LateRun(x.pos)
    /\ ~Early(x) /\ x.part # 11 => z.ones = x.ones

\* The byte u begins with the first n bits of v, and goes on with beta.
Continues(u, v, n, beta) == /\ u \div (2 * Weight(n)) = v \div (2 * Weight(n))
                            /\ (u \div Weight(n)) % 2 = beta

\* Any bit can follow those of a byte that have gone out.
LEMMA AnyBit ==
    ASSUME NEW v \in 0 .. 255, NEW n \in 0 .. 7, NEW beta \in BitValues
    PROVE  \E u \in 0 .. 255 : Continues(u, v, n, beta)
<1> DEFINE k == Weight(n)
           q == v \div (2 * k)
           u == (2 * k) * q + k * beta
<1>1. k \in {1, 2, 4, 8, 16, 32, 64, 128}
  BY DEF Weight
<1> HIDE DEF k
<1>2. u \in 0 .. 255 /\ u \div (2 * k) = q /\ (u \div k) % 2 = beta
  <2>1. CASE k = 1  BY <2>1 DEF BitValues
  <2>2. CASE k = 2  BY <2>2 DEF BitValues
  <2>3. CASE k = 4  BY <2>3 DEF BitValues
  <2>4. CASE k = 8  BY <2>4 DEF BitValues
  <2>5. CASE k = 16  BY <2>5 DEF BitValues
  <2>6. CASE k = 32  BY <2>6 DEF BitValues
  <2>7. CASE k = 64  BY <2>7 DEF BitValues
  <2>8. CASE k = 128  BY <2>8 DEF BitValues
  <2> QED BY <1>1, <2>1, <2>2, <2>3, <2>4, <2>5, <2>6, <2>7, <2>8
<1> HIDE DEF u
<1>3. Continues(u, v, n, beta)
  BY <1>2 DEF k, Continues
<1> QED BY <1>2, <1>3

\* So a transmitter can write what a station made of the next bit.
LEMMA SomeByte ==
    ASSUME NEW z, Writing(z), NEW beta \in BitValues, NEW x, Writing(x), z.part = x.part,
           z.pos = x.pos, x.part >= 3, NEW byte, Writable(x, byte),
           x.part \in Characters \cup {4} => beta = BitOf(x, byte)
    PROVE  \E v : Writable(z, v) /\ BitOf(z, v) = beta
<1>1. /\ z \in Writers /\ z.pos \in Nat /\ z.pos < PartLength(z, z.part)
      /\ z.byte \in 0 .. 255 /\ z.part \in 3 .. 12
      /\ IsOob(Kind(z)) <=> z.part \in Characters
      /\ IsOob(Kind(x)) <=> x.part \in Characters
  BY WritingTyped DEF Writing
<1>2. CASE z.part \in Characters
  <2>1. Writable(z, 0)
    BY <1>2 DEF Writable, Characters
  <2>2. BitOf(z, 0) = BitOf(x, byte)
    <3>1. Kind(z) = Kind(x)
      BY DEF Kind
    <3> QED BY <1>1, <1>2, <3>1 DEF BitOf
  <2> QED BY <1>2, <2>1, <2>2
<1>3. CASE z.part = 4
  <2> DEFINE v == 0
  <2>1. Writable(z, v)
    BY <1>3 DEF Writable
  <2> HIDE DEF v
  <2>2. BitOf(z, v) = 0
    BY <1>3, <2>1, NullBit
  <2>3. beta = 0
    BY <1>3, NullBit
  <2> QED BY <2>1, <2>2, <2>3
<1>4. CASE z.part \notin Characters /\ z.part # 4
  <2> DEFINE n == z.pos % 8
  <2>1. n \in 0 .. 7
    BY <1>1
  <2> HIDE DEF n
  <2> DEFINE old == z.byte
  <2>2. old \in 0 .. 255
    BY <1>1
  <2> HIDE DEF old
  <2>3. PICK u \in 0 .. 255 : Continues(u, old, n, beta)
    BY <2>1, <2>2, AnyBit
  <2>4. Writable(z, u)
    BY <1>4, <2>3 DEF Writable, Continues, n, old, Characters
  <2>5. BitOf(z, u) = beta
    <3>1. BitOf(z, u) = (u \div Weight(z.pos % 8)) % 2
      BY <1>1, <1>4, BitsWritten
    <3> QED BY <2>3, <3>1 DEF Continues, n
  <2> QED BY <2>4, <2>5
<1> QED BY <1>2, <1>3, <1>4

\* The two go on side by side.
LEMMA AlikeKept ==
    ASSUME NEW x, Writing(x), ~x.stuff, Still(x), x.part >= 3, NEW byte \in FieldBytes(x),
           NEW d \in DataLengths, NEW y, HasWritten(x, byte, d, y),
           NEW z, Writing(z), Alike(x, z), NEW v, NEW beta \in BitValues,
           Writable(z, v), BitOf(z, v) = beta, ~Altered(x) => beta = BitOf(x, byte),
           NEW u, HasWritten(z, v, d, u)
    PROVE  Alike(y, u)
<1> DEFINE bit == BitOf(x, byte)
<1>1. Writable(x, byte)
  BY FieldBytesWritable
<1>2. /\ x.part \in 3 .. 12 /\ x.pos \in Nat /\ x.ones \in 0 .. 4 /\ x.dlen \in Nat
      /\ PartDone(x) <=> x.pos + 1 = PartSize(x.part, x.dlen)
      /\ x.pos < PartSize(x.part, x.dlen)
      /\ y.part = IF PartDone(x) THEN Onward(x) ELSE x.part
      /\ y.pos = IF PartDone(x) THEN 0 ELSE x.pos + 1
      /\ y.ones = OnesAfter(x, bit) /\ y.dlen = x.dlen
  BY <1>1, BitFacts DEF HasWritten
<1>3. /\ z.part = x.part /\ z.pos = x.pos /\ z.dlen = x.dlen /\ z.ones \in 0 .. 5
      /\ PartDone(z) <=> z.pos + 1 = PartSize(z.part, z.dlen)
  BY <1>2, PartSizes, WritingTyped DEF Alike, PartDone
<1>4. u.part = y.part /\ u.pos = y.pos /\ u.dlen = y.dlen /\ u.ones = OnesAfter(z, beta)
  <2>1. PartDone(z) <=> PartDone(x)
    BY <1>2, <1>3
  <2>2. Onward(z) = Onward(x)
    BY <1>3 DEF Onward
  <2> QED BY <1>2, <1>3, <2>1, <2>2 DEF HasWritten
<1>5. /\ bit \in BitValues
      /\ x.part = 6 /\ x.pos \div 8 = EarlyAck - 1 => byte = 0 /\ bit = 0
      /\ x.part = 6 /\ x.pos \div 8 = EarlyAck => (x.pos % 8 \notin {4, 6} => bit = 0)
      /\ x.part = 10 /\ x.pos \div 8 = CheckBytes => byte = 0 /\ bit = 0
      /\ x.part = 11 => byte = 0 /\ bit = 0
  BY KnownBytes
<1>6. /\ EarlyAck \in Nat /\ EarlyAck > 1 /\ CheckBytes \in Nat
      /\ EarlyBits = 8 * EarlyAck /\ HeaderBytes \in Nat /\ HeaderBytes > EarlyAck
  BY FrameAssumption DEF EarlyAck, EarlyBits
<1>7. /\ IsOob(Kind(x)) <=> x.part \in Characters
      /\ IsOob(Kind(z)) <=> x.part \in Characters
  BY <1>3, WritingTyped
<1>8. /\ x.part \in Characters => y.ones = 0 /\ u.ones = 0
      /\ bit = 0 => y.ones = 0
      /\ beta = 0 => u.ones = 0
      /\ u.ones \in {0, z.ones + 1}
      /\ x.ones = z.ones /\ beta = bit => u.ones = y.ones
  BY <1>2, <1>4, <1>7 DEF OnesAfter
<1> HIDE DEF bit
<1>9. beta \in {0, 1} /\ bit \in {0, 1} /\ (~Altered(x) => beta = bit)
  BY <1>5 DEF BitValues, bit
<1>10. CASE ~Early(x) /\ x.part # 11
  <2>1. ~Altered(x)
    BY <1>2, <1>6, <1>10 DEF Altered, Early
  <2>2. u.ones = y.ones
    BY <1>8, <1>9, <1>10, <2>1 DEF Alike
  <2>3. Early(y) => y.ones = 0
    <3>1. ASSUME Early(y) PROVE x.part = 6 /\ x.pos \div 8 = EarlyAck - 1
      <4>1. x.part = 6 /\ y.pos = x.pos + 1
        BY <1>2, <1>6, <3>1 DEF Early, Onward
      <4> QED BY <1>2, <1>6, <1>10, <3>1, <4>1 DEF Early
    <3> QED BY <1>5, <1>8, <3>1
  <2>4. y.part = 11 => y.ones = 0 /\ y.pos = 0
    <3>1. ASSUME y.part = 11 PROVE x.part = 10 /\ x.pos = 8 * CheckBytes + 7 /\ y.pos = 0
      BY <1>2, <1>6, <1>10, <3>1 DEF Onward, PartSize
    <3>2. y.part = 11 => x.pos \div 8 = CheckBytes
      BY <1>6, <3>1
    <3> QED BY <1>5, <1>8, <3>1, <3>2
  <2> QED BY <1>4, <2>2, <2>3, <2>4 DEF Alike, LateRun
<1>11. CASE Early(x)
  <2>1. x.part = 6 /\ x.pos \div 8 = EarlyAck
    BY <1>11 DEF Early
  <2>2. CASE x.pos % 8 \in {4, 6}
    <3>1. x.pos + 1 < 8 * HeaderBytes
      BY <1>2, <1>6, <2>1, <2>2
    <3>2. y.part = 6 /\ y.pos = x.pos + 1
      BY <1>2, <2>1, <3>1 DEF PartSize
    <3>3. y.pos \div 8 = EarlyAck /\ y.pos % 8 \in {5, 7}
      BY <1>2, <1>6, <2>1, <2>2, <3>2
    <3>4. z.ones = 0
      BY <1>11, <2>2 DEF Alike
    <3> QED BY <1>4, <1>8, <3>2, <3>3, <3>4 DEF Alike, Early
  <2>3. CASE x.pos % 8 \notin {4, 6}
    <3>1. ~Altered(x)
      BY <1>2, <1>6, <2>1, <2>3 DEF Altered
    <3>2. u.ones = 0 /\ y.ones = 0
      BY <1>5, <1>8, <1>9, <2>1, <2>3, <3>1 DEF bit
    <3>3. y.part \in {6, 7}
      BY <1>2, <2>1 DEF Onward
    <3> QED BY <1>4, <3>2, <3>3 DEF Alike
  <2> QED BY <2>2, <2>3
<1>12. CASE x.part = 11
  <2>1. bit = 0 /\ y.ones = 0 /\ z.ones <= LateRun(x.pos) /\ x.pos \in 0 .. 7
    BY <1>2, <1>5, <1>8, <1>12 DEF Alike, PartSize, bit
  <2>2. x.pos \in {0, 3, 5, 7} => u.ones = 0
    BY <1>8, <1>9, <1>12, <2>1 DEF Altered
  <2>3. CASE x.pos = 7
    <3>1. y.part = 12
      BY <1>2, <1>12, <2>3 DEF Onward, PartSize
    <3> QED BY <1>4, <2>1, <2>2, <2>3, <3>1 DEF Alike, Early
  <2>4. CASE x.pos # 7
    <3>1. y.part = 11 /\ y.pos = x.pos + 1
      BY <1>2, <1>12, <2>1, <2>4 DEF Onward, PartSize
    <3>2. u.ones <= LateRun(x.pos + 1)
      <4>1. u.ones = 0 \/ u.ones = z.ones + 1
        BY <1>8
      <4>2. x.pos \in {0, 1, 2, 3, 4, 5, 6}
        BY <2>1, <2>4
      <4> QED BY <1>3, <2>1, <2>2, <4>1, <4>2 DEF LateRun
    <3> QED BY <1>4, <3>1, <3>2 DEF Alike, Early
  <2> QED BY <2>3, <2>4
<1> QED BY <1>10, <1>11, <1>12

\* Zeros are stuffed in both or in neither.
LEMMA StuffedAlike ==
    ASSUME NEW x, Writing(x), Still(x), NEW z, Writing(z), Alike(x, z)
    PROVE  /\ z.stuff <=> x.stuff
           /\ x.stuff => x.part # 11 /\ Alike(WriteStuffed(x), WriteStuffed(z))
<1>1. (x.stuff <=> x.ones = 5) /\ (z.stuff <=> z.ones = 5)
  BY DEF Writing
<1>2. (Early(x) => x.ones \in {0, 1}) /\ (x.part = 11 => x.ones = 0)
  BY DEF Still, Early
<1>3. (Early(x) => z.ones \in {0, 1}) /\ (x.part = 11 => z.ones \in Int /\ z.ones <= 2)
  BY WritingTyped DEF Alike, LateRun
<1>4. ~Early(x) /\ x.part # 11 => z.ones = x.ones
  BY DEF Alike
<1>5. z.stuff <=> x.stuff
  BY <1>1, <1>2, <1>3, <1>4
<1>6. ASSUME x.stuff PROVE x.part # 11 /\ Alike(WriteStuffed(x), WriteStuffed(z))
  <2> DEFINE y == WriteStuffed(x)
             u == WriteStuffed(z)
  <2>1. ~Early(x) /\ x.part # 11
    BY <1>1, <1>2, <1>6
  <2>2. /\ y.part = x.part /\ y.pos = x.pos /\ y.ones = 0 /\ y.dlen = x.dlen
        /\ u.part = z.part /\ u.pos = z.pos /\ u.ones = 0 /\ u.dlen = z.dlen
    BY WritingTyped, StuffedAfter, ZenonT(40)
  <2> HIDE DEF y, u
  <2>3. Alike(y, u)
    BY <2>1, <2>2 DEF Alike, Early
  <2> QED BY <2>1, <2>3 DEF y, u
<1> QED BY <1>5, <1>6

\* The transmitter u writes the bit beta and is then z.
Sends(u, beta, z) ==
    \/ u.stuff /\ beta = 0 /\ z = WriteStuffed(u)
    \/ /\ ~u.stuff
       /\ \E byte : \E d \in DataLengths :
            Writable(u, byte) /\ beta = BitOf(u, byte) /\ z = WriteBit(u, byte, d)

\* The second station r follows a transmitter u that is one bit behind the real
\* one x, as far as that shows behind the first station f.
Behind(u, z, x, f, r) ==
    /\ Writing(u) /\ u.part >= 3 /\ Prefix(u, r) /\ Follows(u, r) /\ Understood(u, r)
    /\ HasLate(u, r, Copied(f, r), Refused(f, r), Intended(f, r))
    /\ Sends(u, f.pending, z) /\ HearsLate(u, f, f.pending)
    /\ Writing(z) /\ Alike(x, z)

\* It follows it to where it goes.
LEMMA BehindFollows ==
    ASSUME NEW u, NEW z, NEW x, NEW f, Sane(f), NEW r, Sane(r), Behind(u, z, x, f, r)
    PROVE  LET t == Take(r, f.pending)
           IN  /\ Prefix(z, t) /\ Follows(z, t) /\ Understood(z, t)
               /\ HasLate(z, t, Copied(f, t), Refused(f, t), Intended(f, t))
<1> DEFINE beta == f.pending
           t == Take(r, beta)
           G == /\ Prefix(z, t) /\ Follows(z, t) /\ Understood(z, t)
                /\ HasLate(z, t, Copied(f, t), Refused(f, t), Intended(f, t))
<1>1. /\ Writing(u) /\ u.part >= 3 /\ Prefix(u, r) /\ Follows(u, r) /\ Understood(u, r)
      /\ HasLate(u, r, Copied(f, r), Refused(f, r), Intended(f, r))
      /\ Sends(u, beta, z) /\ HearsLate(u, f, beta)
  BY DEF Behind
<1>2. beta \in BitValues /\ Station(r) /\ r.seps \in 0 .. 3
  BY DEF Sane
<1> HIDE DEF beta
<1>3. t.mine = r.mine /\ t.enabled = r.enabled /\ Sees(r, beta, t)
  BY <1>2, SaneKept, TakeStation DEF Sees
<1>4. Copied(f, t) = Copied(f, r) /\ Refused(f, t) = Refused(f, r)
      /\ Intended(f, t) = Intended(f, r)
  <2> HIDE DEF t
  <2> QED BY <1>3 DEF Copied, Refused, Intended
<1>5. ASSUME u.stuff, beta = 0, z = WriteStuffed(u) PROVE G
  <2>1. Prefix(z, t) /\ Follows(z, t)
    BY <1>1, <1>2, <1>5, StuffingKept
  <2>2. z.part = u.part /\ z.pos = u.pos
    BY <1>1, <1>5, WritingTyped, StuffedAfter, ZenonT(40)
  <2>3. CASE u.part = 3
    <3>1. Understood(z, t) /\ HasLate(z, t, Copied(f, t), Refused(f, t), Intended(f, t))
      BY <2>2, <2>3 DEF Understood, HasLate
    <3> QED BY <2>1, <3>1
  <2>4. CASE u.part # 3
    <3>1. u.part >= 4
      BY <1>1, <2>4, WritingTyped
    <3>2. Passed(r, beta, t)
      BY <1>1, <1>5, <3>1, StuffingPasses
    <3> HIDE DEF t
    <3>3. Understood(z, t)
      BY <1>1, <1>5, <3>1, <3>2, UnderstoodThroughStuffing
    <3>4. t.late = r.late
      BY <3>2 DEF Passed, SameFrame
    <3>5. HasLate(z, t, Copied(f, t), Refused(f, t), Intended(f, t))
      BY <1>1, <1>4, <2>2, <3>4 DEF HasLate
    <3> QED BY <2>1, <3>3, <3>5
  <2> QED BY <2>3, <2>4
<1>6. ASSUME ~u.stuff, NEW byte, NEW d \in DataLengths, Writable(u, byte),
             beta = BitOf(u, byte), z = WriteBit(u, byte, d)
      PROVE  G
  <2>1. HasWritten(u, byte, d, z)
    BY <1>1, <1>6, BitWrites
  <2>2. Does(u, r, beta, t)
    BY <1>1, <1>6, WhatIsDone
  <2>3. Prefix(z, t)
    <3>1. byte \in 0 .. 255
      BY <1>6 DEF Writable
    <3>2. Sees(r, BitOf(u, byte), t)
      BY <1>3, <1>6
    <3> HIDE DEF t
    <3> QED BY <1>1, <1>2, <2>1, <3>1, <3>2, PrefixKept
  <2>4. Follows(z, t)
    <3>1. t = Take(r, BitOf(u, byte))
      BY <1>6
    <3> HIDE DEF t
    <3> QED BY <1>1, <1>2, <1>6, <2>1, <3>1, FollowsKept
  <2> HIDE DEF t
  <2>5. Understood(z, t)
    BY <1>1, <1>3, <1>6, <2>1, <2>2, UnderstoodKept
  <2>6. HasLate(z, t, Copied(f, t), Refused(f, t), Intended(f, t))
    <3>1. CASE u.part = 3
      <4>1. z.part \in {3, 4}
        BY <1>1, <1>6, <2>1, <3>1, BitFacts DEF Onward
      <4> QED BY <4>1 DEF HasLate
    <3>2. CASE u.part # 3
      <4>1. u.part >= 4
        BY <1>1, <3>2, WritingTyped
      <4> QED BY <1>1, <1>2, <1>3, <1>6, <2>1, <2>2, <4>1, HasLateKept
    <3> QED BY <3>1, <3>2
  <2> QED BY <2>3, <2>4, <2>5, <2>6
<1>7. G
  <2> HIDE DEF G
  <2> QED BY <1>1, <1>5, <1>6 DEF Sends
<1> QED BY <1>7 DEF t, beta

\* The transmitter is still before the frame start, or the second station is.
Downstream(x, f, r) == \/ x.part <= 2 \/ (x.part = 3 /\ x.pos = 0)
                       \/ \E u, z : Behind(u, z, x, f, r)

\* The first bit of a frame start is all there is to hear.
LEMMA BehindAtStart ==
    ASSUME NEW x, Writing(x), ~x.stuff, x.part = 3, x.pos = 0, NEW byte, Writable(x, byte),
           NEW d \in DataLengths, NEW y, y = WriteBit(x, byte, d), NEW f, NEW r,
           f.pending = BitOf(x, byte)
    PROVE  Behind(x, y, y, f, r)
<1>1. HasWritten(x, byte, d, y)
  BY BitWrites
<1>2. Writing(y)
  BY <1>1, WritingKept
<1>3. y.part = 3
  BY <1>1, BitFacts DEF PartSize
<1>4. Prefix(x, r) /\ Follows(x, r) /\ Understood(x, r) /\ HearsLate(x, f, f.pending)
      /\ HasLate(x, r, Copied(f, r), Refused(f, r), Intended(f, r))
  BY DEF Prefix, Follows, Understood, HearsLate, HasLate
<1>5. Sends(x, f.pending, y)
  BY DEF Sends
<1>6. Alike(y, y)
  BY <1>3 DEF Alike, Early
<1> QED BY <1>2, <1>4, <1>5, <1>6 DEF Behind

\* A bit of the frame.
LEMMA BehindABit ==
    ASSUME NEW x, Writing(x), ~x.stuff, Still(x), x.part >= 3, NEW byte \in FieldBytes(x),
           NEW d \in DataLengths, NEW y, y = WriteBit(x, byte, d),
           NEW f, Sane(f), NEW g, Sane(g), g.mine = f.mine, g.enabled = f.enabled,
           Forwarded(x, f, BitOf(x, byte), g.pending),
           NEW r, Sane(r), NEW u, NEW z, Behind(u, z, x, f, r)
    PROVE  \E v : Behind(z, v, y, g, Take(r, f.pending))
<1> DEFINE t == Take(r, f.pending)
           beta == g.pending
<1>1. Writable(x, byte) /\ HasWritten(x, byte, d, y)
  BY FieldBytesWritable, BitWrites
<1>2. Writing(z) /\ Alike(x, z) /\ z.part = x.part /\ z.pos = x.pos /\ z.part >= 3
  BY DEF Behind, Alike
<1>3. /\ Prefix(z, t) /\ Follows(z, t) /\ Understood(z, t)
      /\ HasLate(z, t, Copied(f, t), Refused(f, t), Intended(f, t))
  BY BehindFollows
<1> HIDE DEF t
<1>4. HasLate(z, t, Copied(g, t), Refused(g, t), Intended(g, t))
  <2>1. Copied(g, t) = Copied(f, t) /\ Refused(g, t) = Refused(f, t)
        /\ Intended(g, t) = Intended(f, t)
    BY DEF Copied, Refused, Intended
  <2> QED BY <1>3, <2>1
<1>5. beta \in BitValues /\ (~Altered(x) => beta = BitOf(x, byte))
  BY DEF Sane, Forwarded
<1>6. ~z.stuff
  BY <1>2, StuffedAlike
<1>7. PICK v : Writable(z, v) /\ BitOf(z, v) = beta
  <2>1. x.part \in Characters \cup {4} => beta = BitOf(x, byte)
    BY <1>5 DEF Altered, Characters
  <2> QED BY <1>1, <1>2, <1>5, <2>1, SomeByte
<1> DEFINE n == WriteBit(z, v, d)
<1>8. HasWritten(z, v, d, n)
  BY <1>2, <1>6, <1>7, BitWrites
<1>9. Writing(n)
  BY <1>2, <1>6, <1>7, <1>8, WritingKept
<1>10. Alike(y, n)
  BY <1>1, <1>2, <1>5, <1>7, <1>8, AlikeKept
<1>11. Sends(z, beta, n)
  BY <1>6, <1>7 DEF Sends
<1>12. HearsLate(z, g, beta)
  <2>1. x.part = 11 => BitOf(x, byte) = 0
    BY KnownBytes
  <2>2. x.part = 11 /\ x.pos \in {0, 3, 5, 7} => ~Altered(x)
    BY DEF Altered
  <2> QED BY <1>2, <1>5, <2>1, <2>2 DEF HearsLate, Forwarded
<1> HIDE DEF n
<1>13. Behind(z, n, y, g, t)
  BY <1>2, <1>3, <1>4, <1>9, <1>10, <1>11, <1>12 DEF Behind
<1> QED BY <1>13 DEF t

\* A stuffed zero.
LEMMA BehindAZero ==
    ASSUME NEW x, Writing(x), x.stuff, Still(x), x.part >= 3, NEW y, y = WriteStuffed(x),
           NEW f, Sane(f), NEW g, g.mine = f.mine, g.enabled = f.enabled, g.pending = 0,
           NEW r, Sane(r), NEW u, NEW z, Behind(u, z, x, f, r)
    PROVE  \E v : Behind(z, v, y, g, Take(r, f.pending))
<1> DEFINE t == Take(r, f.pending)
           n == WriteStuffed(z)
<1>1. Writing(z) /\ Alike(x, z) /\ z.part = x.part /\ z.part >= 3
  BY DEF Behind, Alike
<1>2. /\ Prefix(z, t) /\ Follows(z, t) /\ Understood(z, t)
      /\ HasLate(z, t, Copied(f, t), Refused(f, t), Intended(f, t))
  BY BehindFollows
<1>3. z.stuff /\ x.part # 11 /\ Alike(y, n)
  BY <1>1, StuffedAlike
<1>4. Writing(n)
  <2>1. /\ n \in Writers /\ n.part = z.part /\ n.pos = z.pos /\ n.ones = 0
        /\ n.stuff = FALSE /\ n.dlen = z.dlen /\ n.byte = z.byte /\ n.last = z.last
        /\ n.count = z.count
    BY <1>1, WritingTyped, StuffedAfter, ZenonT(40)
  <2>2. n.pos < PartLength(n, n.part)
    BY <1>1, <2>1, PartLengthKept DEF Writing
  <2> HIDE DEF n
  <2> QED BY <1>1, <2>1, <2>2 DEF Writing
<1> HIDE DEF t
<1>5. HasLate(z, t, Copied(g, t), Refused(g, t), Intended(g, t))
  <2>1. Copied(g, t) = Copied(f, t) /\ Refused(g, t) = Refused(f, t)
        /\ Intended(g, t) = Intended(f, t)
    BY DEF Copied, Refused, Intended
  <2> QED BY <1>2, <2>1
<1>6. Sends(z, g.pending, n)
  BY <1>3 DEF Sends
<1>7. HearsLate(z, g, g.pending)
  BY <1>1, <1>3 DEF HearsLate
<1> HIDE DEF n
<1>8. Behind(z, n, y, g, t)
  BY <1>1, <1>2, <1>3, <1>4, <1>5, <1>6, <1>7 DEF Behind
<1> QED BY <1>8 DEF t

-----------------------------------------------------------------------------
(* The invariant of the two stations. *)

\* What holds between any two bits: the first station where the transmitter is,
\* the second a bit behind it.
LateInv == /\ MacInv /\ Still(w) /\ Sane(a) /\ Sane(b) /\ Followed(a)
           /\ Calm(w, a) /\ Understood(w, a) /\ Downstream(w, a, b)

\* A stream that starts, or starts again, asks nothing.
LEMMA GapAgain ==
    ASSUME NEW d \in DataLengths, NEW f, NEW r
    PROVE  LET y == WriterInit(d)
           IN  Still(y) /\ Calm(y, f) /\ Understood(y, f) /\ Downstream(y, f, r)
<1> DEFINE y == WriterInit(d)
<1>1. y.part = 1
  BY DEF WriterInit
<1> HIDE DEF y
<1>2. Still(y) /\ Calm(y, f) /\ Understood(y, f) /\ Downstream(y, f, r)
  BY <1>1 DEF Still, Calm, Understood, Downstream
<1> QED BY <1>2 DEF y

\* A station at first.
LEMMA NewIsSane ==
    ASSUME NEW r \in NewReceivers
    PROVE  Sane(r) /\ Followed(r)
<1> DEFINE F == FALSE
<1>1. PICK mine \in BOOLEAN, enabled \in BOOLEAN : r = ReceiverInit(mine, enabled)
  BY DEF NewReceivers
<1>2. r = [window |-> 0, seen |-> 0, rx |-> "idle", seps |-> 0, ones |-> 0, byte |-> 0,
           n |-> 0, bits |-> 0, bytes |-> 0, last |-> 0, overrun |-> F,
           headerBytes |-> 0, mine |-> mine, enabled |-> enabled, addressed |-> F,
           flipped |-> F, fcs |-> 0, late |-> 0, lateBits |-> 0, pending |-> 0]
  BY <1>1 DEF ReceiverInit
<1>3. F \in BOOLEAN /\ ~F
  OBVIOUS
<1> HIDE DEF F
<1>4. Station(r)
  BY <1>2 DEF Station, Fields, Phases
<1>5. /\ r.seps = 0 /\ r.ones = 0 /\ r.bits = 0 /\ r.late = 0 /\ r.lateBits = 0
      /\ r.mine = mine /\ r.enabled = enabled /\ r.addressed = F /\ r.flipped = F
      /\ r.pending = 0 /\ r.rx = "idle"
  BY <1>2
<1> QED BY <1>1, <1>3, <1>4, <1>5 DEF Sane, Followed, BitValues

\* The invariant holds at first.
LEMMA InitLateInv == MacInit => LateInv
<1> SUFFICES ASSUME MacInit PROVE LateInv
  OBVIOUS
<1>1. PICK d \in DataLengths : w = WriterInit(d)
  BY DEF MacInit
<1>2. Still(w) /\ Calm(w, a) /\ Understood(w, a) /\ Downstream(w, a, b)
  BY <1>1, GapAgain
<1>3. Sane(a) /\ Sane(b) /\ Followed(a)
  BY NewIsSane DEF MacInit
<1> QED BY <1>2, <1>3, InitMacInv DEF LateInv

\* A bit of the stream keeps it.
LEMMA BitLateInv ==
    ASSUME LateInv, FieldBit
    PROVE  /\ Still(w') /\ Followed(a') /\ Calm(w', a') /\ Understood(w', a')
           /\ Downstream(w', a', b')
<1>1. /\ Writing(w) /\ Prefix(w, a) /\ Follows(w, a) /\ Still(w) /\ Sane(a) /\ Sane(b)
      /\ Followed(a) /\ Calm(w, a) /\ Understood(w, a) /\ Downstream(w, a, b)
  BY DEF LateInv, MacInv
<1>2. ~w.stuff
  BY DEF FieldBit
<1>3. PICK byte \in FieldBytes(w), d \in DataLengths :
        /\ w' = WriteBit(w, byte, d) /\ a' = Take(a, BitOf(w, byte))
        /\ b' = Take(b, a.pending)
  BY <1>1, WritingTyped DEF FieldBit, Pass, Writers
<1> DEFINE bit == BitOf(w, byte)
<1>4. Writable(w, byte) /\ HasWritten(w, byte, d, w') /\ bit \in BitValues
  BY <1>1, <1>2, <1>3, FieldBytesWritable, BitWrites
<1>5. Sane(a') /\ a'.mine = a.mine /\ a'.enabled = a.enabled
  BY <1>1, <1>3, <1>4, SaneKept
<1>6. Still(w')
  BY <1>1, <1>2, <1>4, StillKept
<1>7. Followed(a')
  BY <1>1, <1>3, <1>4, FollowedKept
<1>8. Calm(w', a') /\ (w.part = 3 => a'.pending = bit)
  BY <1>1, <1>2, <1>3, <1>4, CalmKept
<1>9. Does(w, a, bit, a')
  BY <1>1, <1>2, <1>3, <1>4, WhatIsDone
<1>10. Understood(w', a')
  BY <1>1, <1>2, <1>4, <1>5, <1>9, UnderstoodKept
<1>11. w.part >= 3 => Forwarded(w, a, bit, a'.pending)
  <2>1. CASE w.part = 3
    BY <1>8, <2>1 DEF Forwarded
  <2>2. CASE w.part >= 4
    <3>1. w.part = 11 => bit = 0
      BY <1>1, KnownBytes
    <3> HIDE DEF bit
    <3> QED BY <1>1, <1>2, <1>4, <1>9, <2>2, <3>1, ForwardsTheRest
  <2>3. w.part \in 1 .. 12
    BY <1>1, WritingTyped
  <2> QED BY <2>1, <2>2, <2>3
<1>12. Downstream(w', a', b')
  <2>1. /\ w.part \in 1 .. 12 /\ w.pos \in Nat
        /\ PartDone(w) <=> w.pos + 1 = PartSize(w.part, w.dlen)
        /\ w'.part = IF PartDone(w) THEN Onward(w) ELSE w.part
        /\ w'.pos = IF PartDone(w) THEN 0 ELSE w.pos + 1
    BY <1>1, <1>2, <1>4, BitFacts
  <2>2. CASE w.part <= 2
    <3>1. w'.part <= 2 \/ (w'.part = 3 /\ w'.pos = 0)
      BY <2>1, <2>2 DEF Onward
    <3> QED BY <3>1 DEF Downstream
  <2>3. CASE w.part = 3 /\ w.pos = 0
    <3>1. a'.pending = BitOf(w, byte)
      BY <1>8, <2>3
    <3>2. Behind(w, w', w', a', b')
      BY <1>1, <1>2, <1>3, <1>4, <2>3, <3>1, BehindAtStart
    <3> QED BY <3>2 DEF Downstream
  <2>4. CASE ~(w.part <= 2) /\ ~(w.part = 3 /\ w.pos = 0)
    <3>1. PICK u, z : Behind(u, z, w, a, b)
      BY <1>1, <2>4 DEF Downstream
    <3>2. w.part >= 3
      BY <2>1, <2>4
    <3>3. \E v : Behind(z, v, w', a', Take(b, a.pending))
      BY <1>1, <1>2, <1>3, <1>5, <1>11, <3>1, <3>2, BehindABit
    <3> QED BY <1>3, <3>3 DEF Downstream
  <2> QED BY <2>2, <2>3, <2>4
<1> QED BY <1>6, <1>7, <1>8, <1>10, <1>12

\* So does a stuffed zero.
LEMMA ZeroLateInv ==
    ASSUME LateInv, StuffedBit
    PROVE  /\ Still(w') /\ Followed(a') /\ Calm(w', a') /\ Understood(w', a')
           /\ Downstream(w', a', b')
<1>1. /\ Writing(w) /\ Prefix(w, a) /\ Follows(w, a) /\ Still(w) /\ Sane(a) /\ Sane(b)
      /\ Followed(a) /\ Calm(w, a) /\ Understood(w, a) /\ Downstream(w, a, b)
  BY DEF LateInv, MacInv
<1> DEFINE bit == 0
<1>2. /\ w.stuff /\ w' = WriteStuffed(w) /\ a' = Take(a, bit)
      /\ b' = Take(b, a.pending)
  BY DEF StuffedBit, Pass
<1>3. bit = 0 /\ bit \in BitValues
  BY DEF BitValues
<1> HIDE DEF bit
<1>4. Sane(a') /\ a'.mine = a.mine /\ a'.enabled = a.enabled
  BY <1>1, <1>2, <1>3, SaneKept
<1>5. /\ w'.part = w.part /\ w'.pos = w.pos /\ w'.ones = 0 /\ w'.byte = w.byte
  BY <1>1, <1>2, WritingTyped, StuffedAfter, ZenonT(40)
<1>6. w.ones = 5 /\ (w.part \in Characters => w.pos = 0) /\ w.part \in 1 .. 12
  BY <1>1, <1>2, WhereZeroIsOwed, WritingTyped
<1>7. w.part # 3 /\ Still(w')
  BY <1>1, <1>5, <1>6 DEF Still
<1>8. Followed(a')
  BY <1>1, <1>2, <1>3, FollowedKept
<1>9. Calm(w', a')
  BY <1>5, <1>6, <1>7 DEF Calm, Characters
<1>10. CASE w.part <= 2
  BY <1>5, <1>7, <1>8, <1>9, <1>10 DEF Understood, Downstream
<1>11. CASE w.part >= 4
  <2>1. Passed(a, bit, a')
    BY <1>1, <1>2, <1>3, <1>11, StuffingPasses
  <2>2. Understood(w', a')
    BY <1>1, <1>2, <1>11, <2>1, UnderstoodThroughStuffing
  <2>3. a'.pending = 0
    BY <1>3, <2>1 DEF Passed
  <2>4. PICK u, z : Behind(u, z, w, a, b)
    BY <1>1, <1>6, <1>11 DEF Downstream
  <2>5. w.part >= 3
    BY <1>6, <1>11
  <2>6. \E v : Behind(z, v, w', a', Take(b, a.pending))
    BY <1>1, <1>2, <1>4, <2>3, <2>4, <2>5, BehindAZero
  <2> QED BY <1>2, <1>7, <1>8, <1>9, <2>2, <2>6 DEF Downstream
<1> QED BY <1>6, <1>7, <1>10, <1>11

\* Every step keeps it.
LEMMA NextLateInv == LateInv /\ [MacNext]_macVars => LateInv'
<1> SUFFICES ASSUME LateInv, [MacNext]_macVars PROVE LateInv'
  OBVIOUS
<1>1. MacInv'
  BY NextMacInv DEF LateInv
<1>2. Sane(a) /\ Sane(b) /\ Followed(a) /\ a.pending \in BitValues /\ Writing(w)
      /\ w.dlen \in DataLengths
  BY WritingTyped DEF LateInv, Sane, MacInv, Writers
<1>3. CASE FieldBit
  <2>1. PICK byte \in FieldBytes(w) : a' = Take(a, BitOf(w, byte)) /\ b' = Take(b, a.pending)
    BY <1>3 DEF FieldBit, Pass
  <2>2. BitOf(w, byte) \in BitValues
    BY <1>2, KnownBytes DEF LateInv
  <2>3. Sane(a') /\ Sane(b')
    BY <1>2, <2>1, <2>2, SaneKept
  <2> QED BY <1>1, <1>3, <2>3, BitLateInv DEF LateInv
<1>4. CASE StuffedBit
  <2>1. a' = Take(a, 0) /\ b' = Take(b, a.pending)
    BY <1>4 DEF StuffedBit, Pass
  <2>2. 0 \in BitValues
    BY DEF BitValues
  <2>3. Sane(a') /\ Sane(b')
    BY <1>2, <2>1, <2>2, SaneKept
  <2> QED BY <1>1, <1>4, <2>3, ZeroLateInv DEF LateInv
<1>5. CASE CutOff
  <2>1. w' = WriterInit(w.dlen) /\ a' = Take(a, 0) /\ b' = Take(b, a.pending)
    BY <1>5 DEF CutOff, Pass
  <2>2. 0 \in BitValues
    BY DEF BitValues
  <2>3. Sane(a') /\ Sane(b') /\ Followed(a')
    BY <1>2, <2>1, <2>2, SaneKept, FollowedKept
  <2>4. Still(w') /\ Calm(w', a') /\ Understood(w', a') /\ Downstream(w', a', b')
    BY <1>2, <2>1, GapAgain
  <2> QED BY <1>1, <2>3, <2>4 DEF LateInv
<1>6. CASE UNCHANGED macVars
  <2>1. w' = w /\ a' = a /\ b' = b
    BY <1>6 DEF macVars
  <2> QED BY <1>1, <2>1 DEF LateInv
<1> QED BY <1>3, <1>4, <1>5, <1>6 DEF MacNext

\* Once the frame has passed both, the second station has the whole field.
LEMMA LateInvSays == LateInv => LateAckRight
<1> SUFFICES ASSUME LateInv, w.part = 12, w.pos > 0 PROVE
      /\ OnesIn(b.late) % 2 = 1
      /\ (b.late \div 64) % 2 = 1 <=> \E r \in {a, b} : r.mine /\ r.enabled
      /\ (b.late \div 32) % 2 = 1 <=> \E r \in {a, b} : r.mine /\ ~r.enabled
      /\ (b.late \div 8) % 2 = 1 <=> \E r \in {a, b} : r.mine
  BY DEF LateAckRight
<1>1. PICK u, z : Behind(u, z, w, a, b)
  BY DEF LateInv, Downstream
<1>2. z.part = 12 /\ z.pos > 0 /\ Writing(u)
  BY <1>1 DEF Behind, Alike
<1>3. u.part = 12
  <2>1. CASE u.stuff /\ z = WriteStuffed(u)
    BY <1>2, <2>1, WritingTyped, StuffedAfter, ZenonT(40)
  <2>2. ASSUME ~u.stuff, NEW byte, NEW d \in DataLengths, Writable(u, byte),
               z = WriteBit(u, byte, d)
        PROVE  u.part = 12
    <3>1. HasWritten(u, byte, d, z)
      BY <1>2, <2>2, BitWrites
    <3> QED BY <1>2, <3>1 DEF HasWritten
  <2> QED BY <1>1, <2>1, <2>2 DEF Behind, Sends
<1> DEFINE c == Copied(a, b)
           k == Refused(a, b)
           i == Intended(a, b)
<1>4. b.late = LateValue(c, k, i, 8)
  BY <1>1, <1>3 DEF Behind, HasLate
<1>5. c \in BitValues /\ k \in BitValues /\ i \in BitValues
  BY DEF Copied, Refused, Intended, One, BitValues
<1>6. /\ c = 1 <=> (a.mine /\ a.enabled) \/ (b.mine /\ b.enabled)
      /\ k = 1 <=> (a.mine /\ ~a.enabled) \/ (b.mine /\ ~b.enabled)
      /\ i = 1 <=> a.mine \/ b.mine
  BY DEF Copied, Refused, Intended, One
<1> HIDE DEF c, k, i
<1>7. /\ OnesIn(b.late) % 2 = 1
      /\ (b.late \div 64) % 2 = c /\ (b.late \div 32) % 2 = k /\ (b.late \div 8) % 2 = i
  BY <1>4, <1>5, LateSays
<1> QED BY <1>6, <1>7

\* Whatever the bytes, the lengths and the buffers, and wherever an earlier frame
\* was cut off, the late acknowledge that leaves the second of two stations has
\* odd parity and says whether one of them copied the frame, refused it, was
\* meant (the in-flight alterations of ap_ring_station_receive).
THEOREM LateAcknowledgeIsRight == MacSpec => []LateAckRight
<1>1. MacInit => LateInv
  BY InitLateInv
<1>2. LateInv /\ [MacNext]_macVars => LateInv'
  BY NextLateInv
<1>3. LateInv => LateAckRight
  BY LateInvSays
<1> QED BY <1>1, <1>2, <1>3, PTL DEF MacSpec
=============================================================================
