---------------------------- MODULE SerialProofs ----------------------------
(***************************************************************************)
(* Proofs about Serial, for any depth of the FIFO, any rooms of the        *)
(* keyboard's ring, any times, scripts, programming of the channel and     *)
(* number of bytes: no byte is lost unseen, the keyboard's bytes are read  *)
(* in the order they were queued, and the keyboard's allowances are what   *)
(* its ring holds.                                                         *)
(***************************************************************************)
EXTENDS Serial, FiniteSetTheorems, WellFoundedInduction, TLAPS

-----------------------------------------------------------------------------
(* Induction over the naturals, stated with sets, and the runs of a loop.  *)

\* The order of the naturals, as the set of its pairs, is well founded.
LEMMA NatOrder == IsWellFoundedOn({ss \in Nat \X Nat : ss[1] < ss[2]}, Nat)
  BY NatLessThanWellFounded DEF OpToRel

\* A set of naturals that is not empty has a least element.
LEMMA Least ==
  ASSUME NEW T \in SUBSET Nat, T # {}
  PROVE  \E x \in T : \A y \in T : x <= y
<1> DEFINE R == {ss \in Nat \X Nat : ss[1] < ss[2]}
<1>1. IsWellFoundedOn(R, Nat)
  BY NatOrder
<1>2. \E x \in T : \A y \in T : ~ (<<y, x>> \in R)
  <2> HIDE DEF R
  <2> QED BY <1>1, WFMin
<1>3. PICK x \in T : \A y \in T : ~ (<<y, x>> \in R)
  BY <1>2
<1>4. ASSUME NEW y \in T PROVE x <= y
  <2>1. <<y, x>> \in Nat \X Nat /\ ~ (<<y, x>> \in R)
    BY <1>3
  <2>2. ~ (y < x)
    BY <2>1
  <2> QED BY <2>2
<1> QED BY <1>4

\* Induction: a set that holds zero and with a number its successor holds all.
LEMMA NatSetInduction ==
  ASSUME NEW S, 0 \in S, \A n \in Nat : n \in S => n + 1 \in S
  PROVE  Nat \subseteq S
<1> SUFFICES ASSUME Nat \ S # {} PROVE FALSE
  OBVIOUS
<1>1. PICK x \in Nat \ S : \A y \in Nat \ S : x <= y
  BY Least
<1>2. x # 0 /\ x - 1 \in Nat
  BY <1>1
<1>3. x - 1 \in S
  BY <1>1, <1>2
<1>4. (x - 1) + 1 \in S
  BY <1>2, <1>3
<1> QED BY <1>1, <1>4

\* The same up to a bound.
LEMMA BoundedInduction ==
  ASSUME NEW n \in Nat, NEW S, 0 \in S,
         \A k \in 1 .. n : k - 1 \in S => k \in S
  PROVE  \A k \in 0 .. n : k \in S
<1> DEFINE T == {k \in Nat : k <= n => k \in S}
<1>1. 0 \in T
  OBVIOUS
<1>2. ASSUME NEW k \in Nat, k \in T PROVE k + 1 \in T
  <2>1. CASE k + 1 <= n
    <3>1. k + 1 \in 1 .. n /\ (k + 1) - 1 = k /\ k \in S
      BY <1>2, <2>1
    <3> QED BY <3>1
  <2>2. CASE ~(k + 1 <= n)
    BY <2>2
  <2> QED BY <2>1, <2>2
<1>3. Nat \subseteq T
  <2> HIDE DEF T
  <2> QED BY <1>1, <1>2, NatSetInduction
<1> QED BY <1>3

\* The run of a loop of n turns: what holds before its first turn, and after each
\* turn what the turn makes of it.
IsRun(g, n, a, D) == g = [j \in 0 .. n |-> IF j = 0 THEN a ELSE D[j][g[j - 1]]]

\* A loop over a state has a run: a function defined by recursion on the number of
\* turns exists.
LEMMA LoopRuns ==
  ASSUME NEW S, NEW n \in Nat, NEW a \in S, NEW D \in [1 .. n -> [S -> S]]
  PROVE  \E g \in [0 .. n -> S] : IsRun(g, n, a, D)
<1> DEFINE Run(g, k) == /\ g \in [0 .. k -> S] /\ g[0] = a
                        /\ \A j \in 1 .. k : g[j] = D[j][g[j - 1]]
           T == {k \in Nat : \E g \in [0 .. k -> S] : Run(g, k)}
<1>1. 0 \in T
  <2>1. Run([j \in 0 .. 0 |-> a], 0)
    OBVIOUS
  <2> QED BY <2>1
<1>2. ASSUME NEW k \in 1 .. n, k - 1 \in T PROVE k \in T
  <2>1. PICK g \in [0 .. k - 1 -> S] : Run(g, k - 1)
    BY <1>2
  <2> DEFINE h == [j \in 0 .. k |-> IF j = k THEN D[k][g[k - 1]] ELSE g[j]]
  <2>2. D[k][g[k - 1]] \in S
    BY <2>1
  <2>3. h \in [0 .. k -> S] /\ h[0] = a
    BY <2>1, <2>2
  <2>4. ASSUME NEW j \in 1 .. k PROVE h[j] = D[j][h[j - 1]]
    <3>1. CASE j = k
      BY <3>1
    <3>2. CASE j # k
      <4>1. j \in 1 .. k - 1 /\ j - 1 \in 0 .. k /\ j - 1 # k
        BY <3>2
      <4> QED BY <2>1, <4>1
    <3> QED BY <3>1, <3>2
  <2>5. Run(h, k)
    BY <2>3, <2>4
  <2> HIDE DEF h, Run
  <2>6. h \in [0 .. k -> S]
    BY <2>5 DEF Run
  <2> QED BY <2>5, <2>6
<1>3. n \in T
  <2> HIDE DEF T
  <2>1. \A k \in 0 .. n : k \in T
    BY <1>1, <1>2, BoundedInduction
  <2> QED BY <2>1
<1>4. PICK g \in [0 .. n -> S] : Run(g, n)
  BY <1>3
<1>5. \A j \in 0 .. n : g[j] = IF j = 0 THEN a ELSE D[j][g[j - 1]]
  BY <1>4
<1> QED BY <1>5 DEF IsRun

-----------------------------------------------------------------------------
(* The channel.                                                            *)

\* A channel: a character is held beyond the FIFO only while the FIFO is full.
Channel(c) ==
    /\ c \in Channels(Bytes)
    /\ Len(c.fifo) <= Fifo /\ Len(c.shift) <= 1 /\ Len(c.hold) <= 1
    /\ c.shift # <<>> => Len(c.fifo) = Fifo

\* The bytes a channel answers for: thrown away and counted, or waiting.
Answered(c) == c.flushed + c.drops + Len(c.fifo) + Len(c.shift)

\* The same bytes wait in c and in d.
Alike(c, d) == /\ Len(d.fifo) = Len(c.fifo)
               /\ \A i \in 1 .. Len(c.fifo) : d.fifo[i].b = c.fifo[i].b

\* d is c after a step that moved no byte of the receiver.
Still(c, d) == /\ Channel(d) /\ Alike(c, d) /\ d.shift = c.shift
               /\ d.flushed = c.flushed /\ d.drops = c.drops

\* d is c after the byte b has arrived: it is counted and lost, or held, or the last
\* of the FIFO.
Took(c, b, d) ==
    /\ Channel(d) /\ Answered(d) = Answered(c) + 1
    /\ \/ Alike(c, d) /\ d.shift = c.shift
       \/ Alike(c, d) /\ c.shift = <<>> /\ d.shift = <<b>>
       \/ /\ c.shift = <<>> /\ d.shift = <<>> /\ Len(d.fifo) = Len(c.fifo) + 1
          /\ \A i \in 1 .. Len(c.fifo) : d.fifo[i].b = c.fifo[i].b
          /\ d.fifo[Len(c.fifo) + 1].b = b

\* What the FIFO holds.
Cell == [b : Bytes, st : SUBSET FifoErrors]

\* A sequence that is not empty has a first element.
LEMMA First ==
    ASSUME NEW S, NEW s \in Seq(S)
    PROVE  /\ s # <<>> <=> Len(s) > 0
           /\ \A i \in 1 .. Len(s) : s[i] \in S
           /\ Len(s) \in Nat
OBVIOUS

\* The fields of a channel.
LEMMA Fields ==
    ASSUME NEW c, Channel(c)
    PROVE  /\ c \in Channels(Bytes)
           /\ c.fifo \in Seq(Cell) /\ c.shift \in Seq(Bytes) /\ c.hold \in Seq(Bytes)
           /\ Len(c.fifo) \in 0 .. Fifo /\ Len(c.shift) \in 0 .. 1 /\ Len(c.hold) \in 0 .. 1
           /\ c.shift # <<>> <=> Len(c.shift) = 1
           /\ c.fifo # <<>> <=> Len(c.fifo) > 0
           /\ \A i \in 1 .. Len(c.fifo) : c.fifo[i] \in Cell
           /\ c.flushed \in Nat /\ c.drops \in Nat /\ c.rx \in BOOLEAN /\ c.rts \in BOOLEAN
           /\ c.sr \in SUBSET StatusBits /\ c.pending \in SUBSET FifoErrors
<1>1. /\ c \in Channels(Bytes)
      /\ c.fifo \in Seq(Cell) /\ c.shift \in Seq(Bytes) /\ c.hold \in Seq(Bytes)
      /\ c.flushed \in Nat /\ c.drops \in Nat /\ c.rx \in BOOLEAN /\ c.rts \in BOOLEAN
      /\ c.sr \in SUBSET StatusBits /\ c.pending \in SUBSET FifoErrors
  BY DEF Channel, Channels, Cell
<1>2. Len(c.fifo) <= Fifo /\ Len(c.shift) <= 1 /\ Len(c.hold) <= 1 /\ Fifo \in Nat
  BY FifoAssumption DEF Channel
<1>3. /\ c.fifo # <<>> <=> Len(c.fifo) > 0
      /\ \A i \in 1 .. Len(c.fifo) : c.fifo[i] \in Cell
      /\ Len(c.fifo) \in Nat
  BY <1>1, First
<1>4. /\ c.shift # <<>> <=> Len(c.shift) > 0
      /\ Len(c.shift) \in Nat
  BY <1>1, First
<1>5. Len(c.hold) \in Nat
  BY <1>1, First
<1>6. Len(c.fifo) \in 0 .. Fifo /\ Len(c.shift) \in 0 .. 1 /\ Len(c.hold) \in 0 .. 1
  <2>1. \A m, n \in Nat : m <= n => m \in 0 .. n
    OBVIOUS
  <2>2. Len(c.fifo) \in 0 .. Fifo
    BY <1>2, <1>3, <2>1
  <2>3. Len(c.shift) \in 0 .. 1
    BY <1>2, <1>4, <2>1
  <2>4. Len(c.hold) \in 0 .. 1
    BY <1>2, <1>5, <2>1
  <2> QED BY <2>2, <2>3, <2>4
<1>7. c.shift # <<>> <=> Len(c.shift) = 1
  BY <1>4, <1>6
<1> QED BY <1>1, <1>3, <1>6, <1>7

\* Bits put on or off.
LEMMA WithIn ==
    ASSUME NEW T, NEW S \in SUBSET T, NEW bits \in SUBSET T, NEW on
    PROVE  With(S, bits, on) \in SUBSET T
BY DEF With

\* Refreshing the interrupt status.
LEMMA RefreshStill ==
    ASSUME NEW c, Channel(c)
    PROVE  /\ Still(c, RefreshChannelInterrupts(c))
           /\ RefreshChannelInterrupts(c).mr2 = c.mr2
           /\ RefreshChannelInterrupts(c).fifo = c.fifo
<1> DEFINE ready == IF c.mr1.full THEN "ffull" ELSE "rxrdy"
           isr == With(With(c.isr, {"txrdy"}, "txrdy" \in c.sr), {"rxrdy"}, ready \in c.sr)
<1>1. RefreshChannelInterrupts(c) = [c EXCEPT !.isr = isr]
  BY DEF RefreshChannelInterrupts
<1>2. isr \in SUBSET {"txrdy", "rxrdy", "break"}
  BY DEF With, Channel, Channels
<1> HIDE DEF isr
<1> QED BY <1>1, <1>2 DEF Channel, Channels, Still, Alike

\* Showing the errors of the character at the top.
LEMMA ShowStill ==
    ASSUME NEW c, Channel(c)
    PROVE  Still(c, ShowTop(c)) /\ ShowTop(c).mr2 = c.mr2
<1> DEFINE sr == (c.sr \ FifoErrors) \cup (IF c.fifo = <<>> THEN {} ELSE c.fifo[1].st)
<1>1. sr \in SUBSET StatusBits
  <2>1. c.fifo # <<>> => c.fifo[1].st \in SUBSET FifoErrors
    <3>1. c.fifo # <<>> => c.fifo[1] \in Cell
      BY Fields
    <3> QED BY <3>1 DEF Cell
  <2> QED BY <2>1, Fields DEF StatusBits
<1>2. ShowTop(c) = IF c.mr1.block THEN c ELSE [c EXCEPT !.sr = sr]
  BY DEF ShowTop
<1> HIDE DEF sr
<1> QED BY <1>1, <1>2 DEF Channel, Channels, Still, Alike

\* One more byte answered for.
LEMMA OneMoreSum ==
    ASSUME NEW p \in Nat, NEW q \in Nat, NEW r \in Nat, NEW s \in Nat,
           NEW x \in Nat, NEW y \in Nat, NEW z \in Nat, NEW t \in Nat,
           \/ p = x + 1 /\ q = y /\ r = z /\ s = t
           \/ p = x /\ q = y + 1 /\ r = z /\ s = t
           \/ p = x /\ q = y /\ r = z + 1 /\ s = t
           \/ p = x /\ q = y /\ r = z /\ s = t + 1
    PROVE  p + q + r + s = (x + y + z + t) + 1
OBVIOUS

\* One place where a byte may go, one more byte answered for.
LEMMA OneMore ==
    ASSUME NEW c, NEW d, c.flushed \in Nat, c.drops \in Nat, Len(c.fifo) \in Nat, Len(c.shift) \in Nat,
           \/ /\ d.flushed = c.flushed + 1 /\ d.drops = c.drops
              /\ Len(d.fifo) = Len(c.fifo) /\ Len(d.shift) = Len(c.shift)
           \/ /\ d.flushed = c.flushed /\ d.drops = c.drops + 1
              /\ Len(d.fifo) = Len(c.fifo) /\ Len(d.shift) = Len(c.shift)
           \/ /\ d.flushed = c.flushed /\ d.drops = c.drops
              /\ Len(d.fifo) = Len(c.fifo) + 1 /\ Len(d.shift) = Len(c.shift)
           \/ /\ d.flushed = c.flushed /\ d.drops = c.drops
              /\ Len(d.fifo) = Len(c.fifo) /\ Len(d.shift) = Len(c.shift) + 1
    PROVE  Answered(d) = Answered(c) + 1
<1> DEFINE x == c.flushed
           y == c.drops
           z == Len(c.fifo)
           t == Len(c.shift)
           p == d.flushed
           q == d.drops
           r == Len(d.fifo)
           s == Len(d.shift)
<1>1. Answered(c) = x + y + z + t /\ Answered(d) = p + q + r + s
  BY DEF Answered
<1>2. x \in Nat /\ y \in Nat /\ z \in Nat /\ t \in Nat
  OBVIOUS
<1>3. \/ p = x + 1 /\ q = y /\ r = z /\ s = t
      \/ p = x /\ q = y + 1 /\ r = z /\ s = t
      \/ p = x /\ q = y /\ r = z + 1 /\ s = t
      \/ p = x /\ q = y /\ r = z /\ s = t + 1
  OBVIOUS
<1> HIDE DEF x, y, z, t, p, q, r, s
<1>4. p \in Nat /\ q \in Nat /\ r \in Nat /\ s \in Nat
  BY <1>2, <1>3
<1>5. p + q + r + s = (x + y + z + t) + 1
  BY <1>2, <1>3, <1>4, OneMoreSum
<1> QED BY <1>1, <1>5

\* A character that arrives.
LEMMA ReceiveTakes ==
    ASSUME NEW c, Channel(c), NEW b \in Bytes
    PROVE  Took(c, b, Receive(c, b)) /\ Receive(c, b).mr2 = c.mr2
<1>0. c \in Channels(Bytes)
  BY Fields
<1>n. /\ Len(c.fifo) \in Nat /\ Len(c.shift) \in Nat /\ c.flushed \in Nat /\ c.drops \in Nat
      /\ Len(c.fifo) <= Fifo /\ Fifo \in Nat /\ Fifo >= 1 /\ Len(c.hold) <= 1
  BY Fields, FifoAssumption DEF Channel
<1>z. 0 + 1 = 1
  OBVIOUS
<1>1. CASE ~c.rx
  <2>1. Receive(c, b) = [c EXCEPT !.drops = @ + 1]
    BY <1>1 DEF Receive
  <2> DEFINE n == c.drops + 1
             d == [c EXCEPT !.drops = n]
  <2>2. n \in Nat
    BY Fields
  <2>3. Receive(c, b) = d
    BY <2>1
  <2> HIDE DEF n
  <2>4. /\ d \in Channels(Bytes) /\ d.drops = n /\ d.fifo = c.fifo /\ d.shift = c.shift
        /\ d.hold = c.hold /\ d.flushed = c.flushed /\ d.mr2 = c.mr2
    BY <2>2, <1>0 DEF Channels
  <2> HIDE DEF d
  <2>5. Channel(d) /\ Alike(c, d)
    BY <2>4 DEF Channel, Alike
  <2>6. Answered(d) = Answered(c) + 1
    BY <2>4, <1>n, OneMore DEF n
  <2> QED BY <2>3, <2>4, <2>5, <2>6 DEF Took
<1>2. CASE c.rx /\ Len(c.fifo) >= Fifo /\ c.shift # <<>>
  <2> DEFINE n  == c.flushed + 1
             sr == c.sr \cup {"overrun"}
             d  == [c EXCEPT !.sr = sr, !.flushed = n, !.pending = {}]
  <2>1. n \in Nat /\ sr \in SUBSET StatusBits
    BY Fields DEF StatusBits
  <2>2. Receive(c, b) = d
    BY <1>2 DEF Receive
  <2> HIDE DEF n, sr
  <2>3. /\ d \in Channels(Bytes) /\ d.flushed = n /\ d.fifo = c.fifo /\ d.shift = c.shift
        /\ d.hold = c.hold /\ d.drops = c.drops /\ d.mr2 = c.mr2
    BY <2>1, <1>0 DEF Channels
  <2> HIDE DEF d
  <2>4. Channel(d) /\ Alike(c, d)
    BY <2>3 DEF Channel, Alike
  <2>5. Answered(d) = Answered(c) + 1
    BY <2>3, <1>n, OneMore DEF n
  <2> QED BY <2>2, <2>3, <2>4, <2>5 DEF Took
<1>3. CASE c.rx /\ Len(c.fifo) >= Fifo /\ c.shift = <<>>
  <2> DEFINE s == <<b>>
             d == [c EXCEPT !.shift = s, !.pending = {}]
  <2>1. s \in Seq(Bytes) /\ Len(s) = 1
    OBVIOUS
  <2>2. Receive(c, b) = d
    BY <1>3 DEF Receive
  <2> HIDE DEF s
  <2>3. /\ d \in Channels(Bytes) /\ d.flushed = c.flushed /\ d.fifo = c.fifo /\ d.shift = s
        /\ d.hold = c.hold /\ d.drops = c.drops /\ d.mr2 = c.mr2
    BY <2>1, <1>0 DEF Channels
  <2> HIDE DEF d
  <2>4. Channel(d) /\ Alike(c, d)
    <3>1. Len(c.fifo) = Fifo /\ Len(s) <= 1
      BY <1>3, <1>n, <2>1
    <3> QED BY <1>n, <2>3, <3>1 DEF Channel, Alike
  <2>5. Answered(d) = Answered(c) + 1
    <3>1. Len(c.shift) = 0
      BY <1>3
    <3> QED BY <2>1, <2>3, <3>1, <1>n, <1>z, OneMore
  <2> QED BY <1>3, <2>2, <2>3, <2>4, <2>5 DEF Took, s
<1>4. CASE c.rx /\ ~(Len(c.fifo) >= Fifo)
  <2> DEFINE e   == [b |-> b, st |-> {}]
             f   == Append(c.fifo, e)
             sr  == c.sr \cup {"rxrdy"} \cup (IF Len(c.fifo) + 1 >= Fifo THEN {"ffull"} ELSE {})
             rts == c.rts /\ ~(c.mr1.rts /\ Len(c.fifo) + 1 >= Fifo)
             d   == [c EXCEPT !.fifo = f, !.sr = sr, !.rts = rts]
  <2>1. Receive(c, b) = RefreshChannelInterrupts(d)
    BY <1>4 DEF Receive
  <2>2. sr \in SUBSET StatusBits /\ rts \in BOOLEAN /\ e \in Cell
    BY Fields DEF StatusBits, Cell
  <2>3. e.b = b
    OBVIOUS
  <2> HIDE DEF e, sr, rts
  <2>4. /\ f \in Seq(Cell) /\ Len(f) = Len(c.fifo) + 1 /\ f[Len(c.fifo) + 1] = e
        /\ \A i \in 1 .. Len(c.fifo) : f[i] = c.fifo[i]
    <3> DEFINE g == c.fifo
    <3>1. g \in Seq(Cell)
      BY Fields
    <3> HIDE DEF g
    <3>2. /\ Append(g, e) \in Seq(Cell) /\ Len(Append(g, e)) = Len(g) + 1
          /\ Append(g, e)[Len(g) + 1] = e /\ \A i \in 1 .. Len(g) : Append(g, e)[i] = g[i]
      BY <2>2, <3>1
    <3> QED BY <3>2 DEF g
  <2> HIDE DEF f
  <2>5. /\ d \in Channels(Bytes) /\ d.flushed = c.flushed /\ d.fifo = f /\ d.shift = c.shift
        /\ d.hold = c.hold /\ d.drops = c.drops /\ d.mr2 = c.mr2
    BY <2>2, <2>4, <1>0 DEF Channels, Cell
  <2> HIDE DEF d
  <2>6. c.shift = <<>>
    BY <1>4, Fields DEF Channel
  <2>7. Channel(d)
    <3>1. Len(f) <= Fifo /\ Len(c.shift) <= 1
      BY <1>4, <1>n, <2>4, <2>6
    <3> QED BY <1>n, <2>5, <2>6, <3>1 DEF Channel
  <2>8. Answered(d) = Answered(c) + 1
    BY <2>4, <2>5, <1>n, OneMore
  <2> DEFINE x == RefreshChannelInterrupts(d)
  <2>9. Still(d, x) /\ x.mr2 = d.mr2
    BY <2>7, RefreshStill
  <2> HIDE DEF x
  <2>10. Answered(x) = Answered(d) /\ Channel(x)
    BY <2>9 DEF Still, Answered, Alike
  <2>11. /\ x.shift = <<>> /\ Len(x.fifo) = Len(c.fifo) + 1
         /\ \A i \in 1 .. Len(c.fifo) + 1 : x.fifo[i].b = f[i].b
    BY <2>4, <2>5, <2>6, <2>9 DEF Still, Alike
  <2>12. /\ \A i \in 1 .. Len(c.fifo) : x.fifo[i].b = c.fifo[i].b
         /\ x.fifo[Len(c.fifo) + 1].b = b
    BY <2>3, <2>4, <2>11, Fields
  <2>13. Took(c, b, x)
    BY <2>6, <2>8, <2>10, <2>11, <2>12 DEF Took
  <2> QED BY <2>1, <2>5, <2>9, <2>13 DEF x
<1> QED BY <1>1, <1>2, <1>3, <1>4, Fields

\* Steps that move no byte, one after the other.
LEMMA StillStill ==
    ASSUME NEW c, NEW d, NEW e, Channel(c), Still(c, d), Still(d, e)
    PROVE  Still(c, e)
<1>1. \A i \in 1 .. Len(c.fifo) : e.fifo[i].b = c.fifo[i].b
  BY DEF Still, Alike
<1> QED BY <1>1 DEF Still, Alike

\* A step that moves no byte leaves the number answered for.
LEMMA StillAnswered ==
    ASSUME NEW c, NEW d, Still(c, d)
    PROVE  Answered(d) = Answered(c)
BY DEF Still, Alike, Answered

\* A byte that arrives between two of them.
LEMMA TookStill ==
    ASSUME NEW c, NEW c1, NEW b, NEW d, NEW e, Channel(c), Still(c, c1), Took(c1, b, d), Still(d, e)
    PROVE  Took(c, b, e)
<1>1. Answered(c1) = Answered(c) /\ Answered(e) = Answered(d) /\ Channel(e)
  BY StillAnswered DEF Still
<1>2. /\ c1.shift = c.shift /\ e.shift = d.shift /\ Len(c1.fifo) = Len(c.fifo) /\ Len(e.fifo) = Len(d.fifo)
      /\ \A i \in 1 .. Len(c.fifo) : c1.fifo[i].b = c.fifo[i].b
      /\ \A i \in 1 .. Len(d.fifo) : e.fifo[i].b = d.fifo[i].b
  BY DEF Still, Alike
<1>3. Answered(e) = Answered(c) + 1
  BY <1>1 DEF Took
<1>4. CASE Alike(c1, d)
  <2>1. Alike(c, e)
    BY <1>2, <1>4 DEF Alike
  <2>2. \/ d.shift = c1.shift
        \/ c1.shift = <<>> /\ d.shift = <<b>>
    BY DEF Took
  <2> QED BY <1>1, <1>2, <1>3, <2>1, <2>2 DEF Took
<1>5. CASE /\ c1.shift = <<>> /\ d.shift = <<>> /\ Len(d.fifo) = Len(c1.fifo) + 1
           /\ \A i \in 1 .. Len(c1.fifo) : d.fifo[i].b = c1.fifo[i].b
           /\ d.fifo[Len(c1.fifo) + 1].b = b
  <2> DEFINE n == Len(c.fifo)
  <2>1. n \in Nat
    BY Fields
  <2>2. n = Len(c1.fifo) /\ Len(d.fifo) = n + 1
    BY <1>2, <1>5
  <2> HIDE DEF n
  <2>3. \A i \in 1 .. n : i \in 1 .. n + 1
    BY <2>1
  <2>4. n + 1 \in 1 .. n + 1
    BY <2>1
  <2>5. Len(e.fifo) = n + 1 /\ (\A i \in 1 .. n : e.fifo[i].b = c.fifo[i].b) /\ e.fifo[n + 1].b = b
    BY <1>2, <1>5, <2>2, <2>3, <2>4 DEF n
  <2> QED BY <1>1, <1>2, <1>3, <1>5, <2>5 DEF Took, n
<1> QED BY <1>4, <1>5 DEF Took

\* A character put in the holding register.
LEMMA HoldStill ==
    ASSUME NEW c, Channel(c), NEW s \in Seq(Bytes), Len(s) <= 1
    PROVE  Still(c, [c EXCEPT !.hold = s]) /\ [c EXCEPT !.hold = s].mr2 = c.mr2
<1> DEFINE d == [c EXCEPT !.hold = s]
<1>0. c \in Channels(Bytes)
  BY Fields
<1>1. /\ d \in Channels(Bytes) /\ d.flushed = c.flushed /\ d.fifo = c.fifo /\ d.shift = c.shift
      /\ d.hold = s /\ d.drops = c.drops /\ d.mr2 = c.mr2
  BY <1>0 DEF Channels
<1> HIDE DEF d
<1>2. Still(c, d) /\ d.mr2 = c.mr2
  BY <1>1 DEF Channel, Still, Alike
<1> QED BY <1>2 DEF d

\* Status bits and errors found.
LEMMA StatusStill ==
    ASSUME NEW c, Channel(c), NEW sr \in SUBSET StatusBits, NEW p \in SUBSET FifoErrors
    PROVE  /\ Still(c, [c EXCEPT !.sr = sr, !.pending = p])
           /\ [c EXCEPT !.sr = sr, !.pending = p].mr2 = c.mr2
<1> DEFINE d == [c EXCEPT !.sr = sr, !.pending = p]
<1>0. c \in Channels(Bytes)
  BY Fields
<1>1. /\ d \in Channels(Bytes) /\ d.flushed = c.flushed /\ d.fifo = c.fifo /\ d.shift = c.shift
      /\ d.hold = c.hold /\ d.drops = c.drops /\ d.mr2 = c.mr2
  BY <1>0 DEF Channels
<1> HIDE DEF d
<1>2. Still(c, d) /\ d.mr2 = c.mr2
  BY <1>1 DEF Channel, Still, Alike
<1> QED BY <1>2 DEF d

\* The errors stored with the newest character.
LEMMA MarkStill ==
    ASSUME NEW c, Channel(c), NEW e \in SUBSET FifoErrors, Len(c.fifo) # 0
    PROVE  /\ Still(c, [c EXCEPT !.fifo[Len(c.fifo)].st = e])
           /\ [c EXCEPT !.fifo[Len(c.fifo)].st = e].mr2 = c.mr2
<1> DEFINE n == Len(c.fifo)
           x == [c.fifo[n] EXCEPT !.st = e]
           f == [c.fifo EXCEPT ![n] = x]
           d == [c EXCEPT !.fifo = f]
<1>0. c \in Channels(Bytes) /\ c.fifo \in Seq(Cell) /\ n \in Nat /\ n \in 1 .. n
  BY Fields
<1>1. c.fifo[n] \in Cell
  BY <1>0, Fields
<1>2. x \in Cell /\ x.b = c.fifo[n].b
  BY <1>1 DEF Cell
<1>3. [c EXCEPT !.fifo[Len(c.fifo)].st = e] = d
  BY <1>0, <1>1
<1> HIDE DEF x
<1>4. /\ f \in Seq(Cell) /\ Len(f) = n
      /\ \A i \in 1 .. n : f[i] = IF i = n THEN x ELSE c.fifo[i]
  <2> DEFINE g == c.fifo
  <2>1. g \in Seq(Cell) /\ n = Len(g)
    BY <1>0
  <2> HIDE DEF g, n
  <2>2. [g EXCEPT ![n] = x] \in Seq(Cell) /\ Len([g EXCEPT ![n] = x]) = n
        /\ \A i \in 1 .. n : [g EXCEPT ![n] = x][i] = IF i = n THEN x ELSE g[i]
    BY <1>0, <1>2, <2>1
  <2> QED BY <2>2 DEF g
<1> HIDE DEF f
<1>5. /\ d \in Channels(Bytes) /\ d.flushed = c.flushed /\ d.fifo = f /\ d.shift = c.shift
      /\ d.hold = c.hold /\ d.drops = c.drops /\ d.mr2 = c.mr2
  BY <1>0, <1>4 DEF Channels, Cell
<1>6. \A i \in 1 .. n : f[i].b = c.fifo[i].b
  BY <1>2, <1>4
<1> HIDE DEF d
<1>7. Still(c, d) /\ d.mr2 = c.mr2
  BY <1>4, <1>5, <1>6 DEF Channel, Still, Alike, n
<1> QED BY <1>3, <1>7

\* A character off the line, with what the receiver finds wrong with it: in remote
\* loopback it is only sent back.
LEMMA ReceiveAtTakes ==
    ASSUME NEW c, Channel(c), NEW b \in Bytes
    PROVE  /\ c.mr2.mode # "remote" => Took(c, b, ReceiveAt(c, b))
           /\ c.mr2.mode = "remote" => Still(c, ReceiveAt(c, b))
           /\ ReceiveAt(c, b).mr2 = c.mr2
<1> DEFINE hold == IF c.mr2.mode \in {"echo", "remote"} THEN <<b>> ELSE c.hold
           echo == [c EXCEPT !.hold = hold]
           r    == Receive(echo, b)
           bad  == r.rx /\ ~r.rate
           e    == r.pending \cup (IF bad THEN {"framing"} ELSE {})
           sr   == r.sr \cup (IF bad THEN {"framing"} ELSE {})
           n    == Len(r.fifo)
           d1   == [r EXCEPT !.sr = sr, !.pending = {}]
           d2   == [d1 EXCEPT !.fifo[Len(d1.fifo)].st = e]
<1>1. hold \in Seq(Bytes) /\ Len(hold) <= 1
  BY Fields DEF Channel
<1> HIDE DEF hold
<1>2. Still(c, echo) /\ echo.mr2 = c.mr2 /\ Channel(echo)
  BY <1>1, HoldStill DEF Still
<1>3. echo = [c EXCEPT !.hold = IF c.mr2.mode \in {"echo", "remote"} THEN <<b>> ELSE @]
  BY DEF hold
<1>3a. /\ c.mr2.mode = "remote" => ReceiveAt(c, b) = echo
       /\ c.mr2.mode # "remote" /\ n = 0 => ReceiveAt(c, b) = d1
       /\ c.mr2.mode # "remote" /\ n # 0 =>
             ReceiveAt(c, b) = ShowTop([r EXCEPT !.sr = sr, !.fifo[n].st = e, !.pending = {}])
  BY DEF ReceiveAt, hold
<1> HIDE DEF echo
<1>4. Took(echo, b, r) /\ r.mr2 = echo.mr2 /\ Channel(r)
  BY <1>2, ReceiveTakes DEF Took
<1> HIDE DEF r
<1>5. e \in SUBSET FifoErrors /\ sr \in SUBSET StatusBits
  BY <1>4, Fields DEF FifoErrors, StatusBits
<1>6. n # 0 => d2 = [r EXCEPT !.sr = sr, !.fifo[n].st = e, !.pending = {}]
  BY <1>4, Fields DEF Channels
<1> HIDE DEF e, sr, bad, n
<1>7. Still(r, d1) /\ d1.mr2 = r.mr2 /\ d1.fifo = r.fifo /\ Channel(d1)
  <2>1. Still(r, d1) /\ d1.mr2 = r.mr2
    BY <1>4, <1>5, StatusStill
  <2>2. d1.fifo = r.fifo
    BY <1>4, Fields DEF Channels
  <2> QED BY <2>1, <2>2 DEF Still
<1> HIDE DEF d1
<1>8. CASE c.mr2.mode = "remote"
  BY <1>2, <1>3a, <1>8
<1>9. CASE c.mr2.mode # "remote" /\ n = 0
  <2>1. Took(c, b, d1)
    BY <1>2, <1>4, <1>7, TookStill
  <2> QED BY <1>2, <1>3a, <1>4, <1>7, <1>9, <2>1
<1>10. CASE c.mr2.mode # "remote" /\ n # 0
  <2>1. Still(d1, d2) /\ d2.mr2 = d1.mr2
    BY <1>5, <1>7, <1>10, MarkStill DEF n
  <2>2. ReceiveAt(c, b) = ShowTop(d2)
    BY <1>3a, <1>6, <1>10
  <2> HIDE DEF d2
  <2>3. Still(d2, ShowTop(d2)) /\ ShowTop(d2).mr2 = d2.mr2
    BY <2>1, ShowStill DEF Still
  <2>4. Still(r, d2)
    BY <1>4, <1>7, <2>1, StillStill
  <2>5. Still(r, ShowTop(d2))
    BY <1>4, <2>3, <2>4, StillStill
  <2>6. Took(c, b, ShowTop(d2))
    BY <1>2, <1>4, <2>5, TookStill
  <2> QED BY <1>2, <1>4, <1>7, <1>10, <2>1, <2>2, <2>3, <2>6
<1> QED BY <1>8, <1>9, <1>10

\* The same with its parity.
LEMMA FramedTakes ==
    ASSUME NEW c, Channel(c), NEW b \in Bytes
    PROVE  /\ c.mr2.mode # "remote" => Took(c, b, ReceiveFramed(c, b))
           /\ c.mr2.mode = "remote" => Still(c, ReceiveFramed(c, b))
           /\ ReceiveFramed(c, b).mr2 = c.mr2
<1> DEFINE r  == ReceiveAt(c, b)
           sr == r.sr \cup {"parity"}
           p  == r.pending \cup {"parity"}
           d  == [r EXCEPT !.sr = sr, !.pending = p]
<1>1. /\ c.mr2.mode # "remote" => Took(c, b, r)
      /\ c.mr2.mode = "remote" => Still(c, r)
      /\ r.mr2 = c.mr2
  BY ReceiveAtTakes
<1>2. Channel(r)
  BY <1>1 DEF Took, Still
<1>3. ReceiveFramed(c, b) = IF r.rx /\ r.mr1.parity = "other" THEN d ELSE r
  BY DEF ReceiveFramed
<1> HIDE DEF r
<1>4. sr \in SUBSET StatusBits /\ p \in SUBSET FifoErrors
  BY <1>2, Fields DEF StatusBits, FifoErrors
<1> HIDE DEF sr, p
<1>5. Still(r, d) /\ d.mr2 = r.mr2
  BY <1>2, <1>4, StatusStill
<1> HIDE DEF d
<1>6. Still(c, c)
  BY DEF Still, Alike
<1>7. /\ c.mr2.mode # "remote" => Took(c, b, d)
      /\ c.mr2.mode = "remote" => Still(c, d)
  BY <1>1, <1>5, <1>6, TookStill, StillStill
<1> QED BY <1>1, <1>3, <1>5, <1>7

\* The channel has sent.
LEMMA TransmittedStill ==
    ASSUME NEW c, Channel(c)
    PROVE  Still(c, Transmitted(c)) /\ Transmitted(c).mr2 = c.mr2
<1> DEFINE sr  == c.sr \cup {"txrdy", "txemt"}
           rts == c.rts /\ ~c.mr2.rts
           no  == <<>>
           d   == [c EXCEPT !.hold = no, !.sr = sr, !.rts = rts]
<1>0. c \in Channels(Bytes)
  BY Fields
<1>1. sr \in SUBSET StatusBits /\ rts \in BOOLEAN /\ no \in Seq(Bytes) /\ Len(no) = 0
  BY Fields DEF StatusBits
<1>2. Transmitted(c) = RefreshChannelInterrupts(d)
  BY DEF Transmitted
<1> HIDE DEF sr, rts, no
<1>3. /\ d \in Channels(Bytes) /\ d.flushed = c.flushed /\ d.fifo = c.fifo /\ d.shift = c.shift
      /\ d.hold = no /\ d.drops = c.drops /\ d.mr2 = c.mr2
  BY <1>0, <1>1 DEF Channels
<1> HIDE DEF d
<1>4. Still(c, d)
  BY <1>1, <1>3 DEF Channel, Still, Alike
<1>5. Still(d, RefreshChannelInterrupts(d)) /\ RefreshChannelInterrupts(d).mr2 = d.mr2
  BY <1>4, RefreshStill DEF Still
<1> QED BY <1>2, <1>3, <1>4, <1>5, StillStill

\* d is c after its first character was read: the held one has come in.
Read(c, d) ==
    /\ Channel(d) /\ Answered(c) = Answered(d) + 1 /\ d.shift = <<>>
    /\ Len(d.fifo) = Len(c.fifo) - 1 + Len(c.shift)
    /\ \A i \in 1 .. Len(c.fifo) - 1 : d.fifo[i].b = c.fifo[i + 1].b
    /\ Len(c.shift) = 1 => d.fifo[Len(c.fifo)].b = c.shift[1]

\* What follows the first element, with more after it.
LEMMA TailJoined ==
    ASSUME NEW S, NEW s \in Seq(S), s # <<>>, NEW t \in Seq(S)
    PROVE  /\ Tail(s) \o t \in Seq(S) /\ Len(Tail(s) \o t) = Len(s) - 1 + Len(t)
           /\ \A i \in 1 .. Len(s) - 1 : (Tail(s) \o t)[i] = s[i + 1]
           /\ \A i \in 1 .. Len(t) : (Tail(s) \o t)[Len(s) - 1 + i] = t[i]
<1>1. Tail(s) \in Seq(S) /\ Len(Tail(s)) = Len(s) - 1 /\ \A i \in 1 .. Len(s) - 1 : Tail(s)[i] = s[i + 1]
  OBVIOUS
<1> DEFINE u == Tail(s)
<1>2. u \in Seq(S)
  BY <1>1
<1> HIDE DEF u
<1>3. /\ u \o t \in Seq(S) /\ Len(u \o t) = Len(u) + Len(t)
      /\ \A i \in 1 .. Len(u) : (u \o t)[i] = u[i]
      /\ \A i \in 1 .. Len(t) : (u \o t)[Len(u) + i] = t[i]
  BY <1>2
<1> QED BY <1>1, <1>3 DEF u

\* A read takes the head of the FIFO, and the held character comes in behind.
LEMMA ReadMoves ==
    ASSUME NEW c, Channel(c), c.fifo # <<>>
    PROVE  Read(c, ReadBuffer(c)) /\ ReadBuffer(c).mr2 = c.mr2
<1> DEFINE t   == [i \in 1 .. Len(c.shift) |-> [b |-> c.shift[i], st |-> {}]]
           f   == Tail(c.fifo) \o t
           no  == <<>>
           sr  == With(With(c.sr, {"ffull"}, Len(f) >= Fifo), {"rxrdy"}, f # <<>>)
           rts == c.rts \/ (c.mr1.rts /\ Len(f) < Fifo)
           d   == [c EXCEPT !.fifo = f, !.shift = no, !.sr = sr, !.rts = rts]
           n   == Len(c.fifo)
           k   == Len(c.shift)
<1>0. /\ c \in Channels(Bytes) /\ c.fifo \in Seq(Cell) /\ c.shift \in Seq(Bytes)
      /\ n \in 1 .. Fifo /\ k \in 0 .. 1 /\ Fifo \in Nat
      /\ k = 1 => n = Fifo
  BY Fields, FifoAssumption DEF Channel
<1>1. t \in Seq(Cell) /\ Len(t) = k /\ \A i \in 1 .. k : t[i].b = c.shift[i]
  <2>1. \A i \in 1 .. k : c.shift[i] \in Bytes
    BY <1>0, First
  <2> QED BY <1>0, <2>1 DEF Cell
<1>2. ReadBuffer(c) = RefreshChannelInterrupts(ShowTop(d))
  BY DEF ReadBuffer
<1>3. sr \in SUBSET StatusBits /\ rts \in BOOLEAN /\ no \in Seq(Bytes) /\ Len(no) = 0
  BY Fields DEF StatusBits, With
<1> HIDE DEF t
<1>4. /\ f \in Seq(Cell) /\ Len(f) = n - 1 + k
      /\ \A i \in 1 .. n - 1 : f[i] = c.fifo[i + 1]
      /\ k = 1 => f[n].b = c.shift[1]
  <2>1. /\ f \in Seq(Cell) /\ Len(f) = n - 1 + Len(t)
        /\ \A i \in 1 .. n - 1 : f[i] = c.fifo[i + 1]
        /\ \A i \in 1 .. Len(t) : f[n - 1 + i] = t[i]
    <3> DEFINE q == c.fifo
    <3>1. q \in Seq(Cell) /\ q # <<>> /\ t \in Seq(Cell)
      BY <1>0, <1>1
    <3> HIDE DEF q
    <3>2. /\ Tail(q) \o t \in Seq(Cell) /\ Len(Tail(q) \o t) = Len(q) - 1 + Len(t)
          /\ \A i \in 1 .. Len(q) - 1 : (Tail(q) \o t)[i] = q[i + 1]
          /\ \A i \in 1 .. Len(t) : (Tail(q) \o t)[Len(q) - 1 + i] = t[i]
      BY <3>1, TailJoined
    <3> QED BY <3>2 DEF q
  <2> HIDE DEF f, n, k
  <2>2. ASSUME k = 1 PROVE f[n].b = c.shift[1]
    <3>1. k \in Nat /\ n \in Nat /\ 1 \in 1 .. k /\ (n - 1) + 1 = n
      BY <1>0, <2>2
    <3>2. Len(t) = k /\ t[1].b = c.shift[1]
      BY <1>1, <3>1
    <3>3. f[n] = t[1]
      BY <2>1, <3>1, <3>2
    <3> QED BY <3>2, <3>3
  <2> QED BY <1>1, <2>1, <2>2
<1> HIDE DEF f, sr, rts, no
<1>5. /\ d \in Channels(Bytes) /\ d.flushed = c.flushed /\ d.fifo = f /\ d.shift = no
      /\ d.hold = c.hold /\ d.drops = c.drops /\ d.mr2 = c.mr2
  BY <1>0, <1>3, <1>4 DEF Channels, Cell
<1> HIDE DEF d
<1>5a. \A q, r, s \in Nat : q <= s /\ (r = 1 => q = s) /\ q >= 1 /\ r <= 1 => q - 1 + r <= s
  OBVIOUS
<1>6. no = <<>> /\ Len(f) <= Fifo /\ Len(c.hold) <= 1
  <2> HIDE DEF n, k
  <2>1. n \in Nat /\ k \in Nat /\ n >= 1 /\ n <= Fifo /\ k <= 1
    BY <1>0
  <2>2. n - 1 + k <= Fifo
    BY <1>0, <1>5a, <2>1
  <2> QED BY <1>4, <2>2, Fields DEF no, Channel
<1>7. Channel(d)
  BY <1>3, <1>5, <1>6 DEF Channel
<1>8. Answered(c) = Answered(d) + 1
  <2> DEFINE x == c.flushed
             y == c.drops
  <2>1. x \in Nat /\ y \in Nat
    BY Fields
  <2>2. Answered(c) = x + y + n + k /\ Answered(d) = x + y + (n - 1 + k) + 0
    BY <1>3, <1>4, <1>5 DEF Answered
  <2> HIDE DEF x, y, n, k
  <2>3. x + y + n + k = (x + y + (n - 1 + k) + 0) + 1
    BY <1>0, <2>1
  <2> QED BY <2>2, <2>3
<1>9. Still(d, ShowTop(d)) /\ ShowTop(d).mr2 = d.mr2
  BY <1>7, ShowStill
<1> DEFINE g == ShowTop(d)
           e == RefreshChannelInterrupts(g)
<1>10. Channel(g)
  BY <1>9 DEF Still
<1> HIDE DEF g
<1>11. Still(g, e) /\ e.mr2 = g.mr2
  BY <1>10, RefreshStill
<1> HIDE DEF e
<1>12. Still(d, e) /\ e.mr2 = c.mr2
  BY <1>5, <1>7, <1>9, <1>11, StillStill DEF g
<1>13. Answered(c) = Answered(e) + 1
  BY <1>8, <1>12, StillAnswered
<1>14. /\ Channel(e) /\ e.shift = <<>> /\ Len(e.fifo) = n - 1 + k
       /\ \A i \in 1 .. n - 1 + k : e.fifo[i].b = f[i].b
  BY <1>4, <1>5, <1>6, <1>12 DEF Still, Alike
<1>15. /\ \A i \in 1 .. n - 1 : i \in 1 .. n - 1 + k
       /\ k = 1 => n \in 1 .. n - 1 + k
  <2> HIDE DEF n, k
  <2> QED BY <1>0
<1>17. Read(c, e)
  BY <1>4, <1>13, <1>14, <1>15 DEF Read
<1> QED BY <1>2, <1>12, <1>17 DEF e, g

-----------------------------------------------------------------------------
(* The order of the keyboard's bytes in a channel.                         *)

Keyed(b) == b.by = "keyboard"

\* The keyboard's bytes in the channel are numbered upwards, from after l to h.
Ordered(c, l, h) ==
    /\ l \in Nat /\ h \in Nat /\ l <= h
    /\ \A i \in 1 .. Len(c.fifo) : Keyed(c.fifo[i].b) => l < c.fifo[i].b.n /\ c.fifo[i].b.n <= h
    /\ \A i \in 1 .. Len(c.shift) : Keyed(c.shift[i]) => l < c.shift[i].n /\ c.shift[i].n <= h
    /\ \A i, j \in 1 .. Len(c.fifo) : i < j /\ Keyed(c.fifo[i].b) /\ Keyed(c.fifo[j].b)
                                        => c.fifo[i].b.n < c.fifo[j].b.n
    /\ \A i \in 1 .. Len(c.fifo), j \in 1 .. Len(c.shift) :
         Keyed(c.fifo[i].b) /\ Keyed(c.shift[j]) => c.fifo[i].b.n < c.shift[j].n

\* A step that moves no byte keeps the order.
LEMMA OrderedStill ==
    ASSUME NEW c, NEW d, NEW l, NEW h, Ordered(c, l, h), Still(c, d)
    PROVE  Ordered(d, l, h)
BY DEF Ordered, Still, Alike

\* An empty receiver is in order.
LEMMA OrderedEmpty ==
    ASSUME NEW d, NEW l \in Nat, NEW h \in Nat, l <= h, d.fifo = <<>>, d.shift = <<>>
    PROVE  Ordered(d, l, h)
BY DEF Ordered

\* A later number arrives, or a byte that is not the keyboard's.
LEMMA OrderedTook ==
    ASSUME NEW c, NEW d, NEW l, NEW h, NEW b \in Bytes, NEW g \in Nat, Channel(c),
           Ordered(c, l, h), Took(c, b, d), h <= g, Keyed(b) => h < b.n /\ b.n <= g
    PROVE  Ordered(d, l, g)
<1>1. l \in Nat /\ h \in Nat /\ b.n \in Nat /\ Len(c.fifo) \in Nat /\ Channel(d)
  BY Fields DEF Ordered, Bytes, Took
<1>2. /\ \A i \in 1 .. Len(c.fifo) : c.fifo[i].b.n \in Nat
      /\ \A i \in 1 .. Len(c.shift) : c.shift[i].n \in Nat
  <2>1. \A i \in 1 .. Len(c.fifo) : c.fifo[i] \in Cell
    BY Fields
  <2>2. c.shift \in Seq(Bytes)
    BY Fields
  <2>3. \A i \in 1 .. Len(c.shift) : c.shift[i] \in Bytes
    BY <2>2, First
  <2> QED BY <2>1, <2>3 DEF Cell, Bytes
<1>3. Ordered(c, l, g)
  <2>1. /\ \A i \in 1 .. Len(c.fifo) : Keyed(c.fifo[i].b) => c.fifo[i].b.n <= g
        /\ \A i \in 1 .. Len(c.shift) : Keyed(c.shift[i]) => c.shift[i].n <= g
    BY <1>1, <1>2, SMTT(30) DEF Ordered
  <2>2. l <= g
    BY <1>1 DEF Ordered
  <2> QED BY <2>1, <2>2 DEF Ordered
<1>4. CASE Alike(c, d) /\ d.shift = c.shift
  BY <1>3, <1>4 DEF Ordered, Alike
<1>5. CASE Alike(c, d) /\ c.shift = <<>> /\ d.shift = <<b>>
  <2>1. Len(d.shift) = 1 /\ d.shift[1] = b
    BY <1>5
  <2>2. \A i \in 1 .. Len(c.fifo) : d.fifo[i].b = c.fifo[i].b
    BY <1>5 DEF Alike
  <2>3. \A i \in 1 .. Len(c.fifo) : Keyed(c.fifo[i].b) /\ Keyed(b) => c.fifo[i].b.n < b.n
    BY <1>1, <1>2 DEF Ordered
  <2>4. \A i \in 1 .. Len(d.shift) : d.shift[i] = b
    BY <2>1
  <2>5. l < b.n \/ ~Keyed(b)
    BY <1>1 DEF Ordered
  <2>6. Len(d.fifo) = Len(c.fifo)
    BY <1>5 DEF Alike
  <2> QED BY <1>1, <1>3, <2>2, <2>3, <2>4, <2>5, <2>6 DEF Ordered
<1>6. CASE /\ c.shift = <<>> /\ d.shift = <<>> /\ Len(d.fifo) = Len(c.fifo) + 1
           /\ \A i \in 1 .. Len(c.fifo) : d.fifo[i].b = c.fifo[i].b
           /\ d.fifo[Len(c.fifo) + 1].b = b
  <2> DEFINE n == Len(c.fifo)
  <2>1. n \in Nat /\ Len(d.fifo) = n + 1 /\ Len(d.shift) = 0
    BY <1>1, <1>6
  <2>2. /\ \A i \in 1 .. n : d.fifo[i].b = c.fifo[i].b /\ c.fifo[i].b.n \in Nat
        /\ d.fifo[n + 1].b = b
    BY <1>2, <1>6
  <2>3. /\ \A i \in 1 .. n : Keyed(c.fifo[i].b) => l < c.fifo[i].b.n /\ c.fifo[i].b.n <= g
        /\ \A i, j \in 1 .. n : i < j /\ Keyed(c.fifo[i].b) /\ Keyed(c.fifo[j].b)
                                  => c.fifo[i].b.n < c.fifo[j].b.n
        /\ \A i \in 1 .. n : Keyed(c.fifo[i].b) => c.fifo[i].b.n <= h
    BY <1>3 DEF Ordered
  <2>4. l < b.n \/ ~Keyed(b)
    BY <1>1 DEF Ordered
  <2> HIDE DEF n
  <2>5. \A i \in 1 .. n + 1 : i \in 1 .. n \/ i = n + 1
    BY <2>1
  <2>6. ASSUME NEW i \in 1 .. n + 1, Keyed(d.fifo[i].b)
        PROVE  l < d.fifo[i].b.n /\ d.fifo[i].b.n <= g
    BY <1>1, <2>2, <2>3, <2>4, <2>5, <2>6
  <2>7. ASSUME NEW i \in 1 .. n + 1, NEW j \in 1 .. n + 1, i < j, Keyed(d.fifo[i].b), Keyed(d.fifo[j].b)
        PROVE  d.fifo[i].b.n < d.fifo[j].b.n
    <3>1. i \in 1 .. n
      BY <2>1, <2>7
    <3>2. CASE j \in 1 .. n
      BY <2>2, <2>3, <2>7, <3>1, <3>2
    <3>3. CASE j = n + 1
      <4>1. c.fifo[i].b.n <= h /\ h < b.n /\ c.fifo[i].b.n \in Nat
        BY <2>2, <2>3, <2>7, <3>1, <3>3
      <4>2. d.fifo[i].b = c.fifo[i].b /\ d.fifo[j].b = b
        BY <2>2, <3>1, <3>3
      <4> DEFINE x == c.fifo[i].b.n
                 y == b.n
      <4>3. x <= h /\ h < y /\ x \in Nat /\ h \in Nat /\ y \in Nat
        BY <1>1, <4>1
      <4> HIDE DEF x, y
      <4>4. x < y
        BY <4>3
      <4> QED BY <4>2, <4>4 DEF x, y
    <3> QED BY <2>5, <3>2, <3>3
  <2> QED BY <1>1, <1>3, <2>1, <2>6, <2>7 DEF Ordered
<1> QED BY <1>4, <1>5, <1>6 DEF Took

\* The first character read: what is left comes after it.
LEMMA OrderedRead ==
    ASSUME NEW c, NEW d, NEW l, NEW h, NEW g, Channel(c), c.fifo # <<>>, Ordered(c, l, h), Read(c, d),
           Keyed(c.fifo[1].b) => g = c.fifo[1].b.n,
           ~Keyed(c.fifo[1].b) => g = l
    PROVE  Ordered(d, g, h)
<1> DEFINE n == Len(c.fifo)
           k == Len(c.shift)
<1>1. n \in Nat /\ n >= 1 /\ k \in 0 .. 1 /\ l \in Nat /\ h \in Nat /\ l <= h
  BY Fields DEF Ordered
<1>2. /\ \A i \in 1 .. n : c.fifo[i].b.n \in Nat
      /\ \A i \in 1 .. k : c.shift[i].n \in Nat
  <2>1. \A i \in 1 .. n : c.fifo[i] \in Cell
    BY Fields
  <2>2. c.shift \in Seq(Bytes)
    BY Fields
  <2>3. \A i \in 1 .. k : c.shift[i] \in Bytes
    BY <2>2, First
  <2> QED BY <2>1, <2>3 DEF Cell, Bytes
<1>3. /\ \A i \in 1 .. n : Keyed(c.fifo[i].b) => l < c.fifo[i].b.n /\ c.fifo[i].b.n <= h
      /\ \A i \in 1 .. k : Keyed(c.shift[i]) => l < c.shift[i].n /\ c.shift[i].n <= h
      /\ \A i, j \in 1 .. n : i < j /\ Keyed(c.fifo[i].b) /\ Keyed(c.fifo[j].b)
                                => c.fifo[i].b.n < c.fifo[j].b.n
      /\ \A i \in 1 .. n, j \in 1 .. k :
           Keyed(c.fifo[i].b) /\ Keyed(c.shift[j]) => c.fifo[i].b.n < c.shift[j].n
  BY DEF Ordered
<1>4. /\ Len(d.shift) = 0 /\ Len(d.fifo) = n - 1 + k
      /\ \A i \in 1 .. n - 1 : d.fifo[i].b = c.fifo[i + 1].b
      /\ k = 1 => d.fifo[n].b = c.shift[1]
  BY DEF Read
<1> HIDE DEF n, k
<1>5. \A i \in 1 .. n - 1 + k : i \in 1 .. n - 1 \/ (i = n /\ k = 1)
  BY <1>1
<1>6. \A i \in 1 .. n - 1 : i + 1 \in 1 .. n /\ 1 < i + 1
  BY <1>1
<1>7. 1 \in 1 .. n /\ (k = 1 => 1 \in 1 .. k)
  BY <1>1
<1>8. g \in Nat /\ l <= g /\ g <= h
  BY <1>1, <1>2, <1>3, <1>7
<1>9. ASSUME NEW i \in 1 .. n - 1 + k, Keyed(d.fifo[i].b)
      PROVE  g < d.fifo[i].b.n /\ d.fifo[i].b.n <= h
  <2>1. CASE i \in 1 .. n - 1
    <3>1. d.fifo[i].b = c.fifo[i + 1].b /\ i + 1 \in 1 .. n /\ 1 < i + 1
      BY <1>4, <1>6, <2>1
    <3> QED BY <1>3, <1>7, <1>9, <3>1
  <2>2. CASE i = n /\ k = 1
    BY <1>3, <1>4, <1>7, <1>9, <2>2
  <2> QED BY <1>5, <2>1, <2>2
<1>10. ASSUME NEW i \in 1 .. n - 1 + k, NEW j \in 1 .. n - 1 + k, i < j,
              Keyed(d.fifo[i].b), Keyed(d.fifo[j].b)
       PROVE  d.fifo[i].b.n < d.fifo[j].b.n
  <2>1. i \in 1 .. n - 1
    BY <1>1, <1>5, <1>10
  <2>2. d.fifo[i].b = c.fifo[i + 1].b /\ i + 1 \in 1 .. n
    BY <1>4, <1>6, <2>1
  <2>3. CASE j \in 1 .. n - 1
    <3>1. d.fifo[j].b = c.fifo[j + 1].b /\ j + 1 \in 1 .. n /\ i + 1 < j + 1
      BY <1>1, <1>4, <1>6, <1>10, <2>3
    <3> QED BY <1>3, <1>10, <2>2, <3>1
  <2>4. CASE j = n /\ k = 1
    BY <1>3, <1>4, <1>7, <1>10, <2>2, <2>4
  <2> QED BY <1>5, <2>3, <2>4
<1> QED BY <1>1, <1>4, <1>8, <1>9, <1>10 DEF Ordered

-----------------------------------------------------------------------------
(* The keyboard's ring.                                                    *)

Ringed == [b : Bytes, reply : BOOLEAN]

Keyboards ==
    [down : SUBSET Keys, held : Keys \cup {NoKey}, repeat : Int, queue : Seq(Ringed),
     keys : Nat, replies : Nat, tx : Int, loopback : BOOLEAN, keystate : BOOLEAN,
     msg : MessagePrefixes]

ReplyPlaces(q) == {i \in 1 .. Len(q) : q[i].reply}

\* The allowances count what is in the ring, and its next byte is not late.
Ring(k) ==
    /\ k \in Keyboards
    /\ k.replies = Cardinality(ReplyPlaces(k.queue)) /\ k.replies <= ReplyRoom
    /\ k.keys = Len(k.queue) - Cardinality(ReplyPlaces(k.queue)) /\ k.keys <= KeyRoom
    /\ k.queue # <<>> => k.tx <= TxCharacter
    /\ k.held # NoKey => k.held \in k.down

\* The ring's bytes are numbered upwards, from after h to m.
Upward(q, h, m) ==
    /\ h \in Nat /\ m \in Nat /\ h <= m
    /\ \A i \in 1 .. Len(q) : Keyed(q[i].b) /\ h < q[i].b.n /\ q[i].b.n <= m
    /\ \A i, j \in 1 .. Len(q) : i < j => q[i].b.n < q[j].b.n

\* What the keyboard's constants are.
LEMMA Rooms == /\ KeyRoom \in Nat /\ ReplyRoom \in Nat
               /\ TxCharacter \in Nat /\ TxCharacter >= 1
               /\ RepeatDelay \in Nat /\ RepeatPeriod \in Nat
BY KeyboardAssumption

\* The replies in a ring are finitely many, and no more than its bytes.
LEMMA PlacesCount ==
    ASSUME NEW q \in Seq(Ringed)
    PROVE  /\ IsFiniteSet(ReplyPlaces(q)) /\ Cardinality(ReplyPlaces(q)) \in Nat
           /\ Cardinality(ReplyPlaces(q)) <= Len(q)
<1> DEFINE n == Len(q)
<1>1. n \in Nat
  OBVIOUS
<1>2. ReplyPlaces(q) \in SUBSET (1 .. n)
  BY DEF ReplyPlaces
<1> HIDE DEF n
<1>3. IsFiniteSet(1 .. n) /\ Cardinality(1 .. n) = n
  <2>1. Cardinality(1 .. n) = IF 1 > n THEN 0 ELSE n - 1 + 1
    BY <1>1, FS_Interval
  <2> QED BY <1>1, <2>1, FS_Interval
<1>4. IsFiniteSet(ReplyPlaces(q)) /\ Cardinality(ReplyPlaces(q)) <= n
  BY <1>2, <1>3, FS_Subset
<1> QED BY <1>4, FS_CardinalityType DEF n

\* A byte of key data at the end.
LEMMA AppendKey ==
    ASSUME NEW q \in Seq(Ringed), NEW e \in Ringed, e.reply = FALSE
    PROVE  /\ Append(q, e) \in Seq(Ringed) /\ Len(Append(q, e)) = Len(q) + 1
           /\ Append(q, e)[Len(q) + 1] = e /\ \A i \in 1 .. Len(q) : Append(q, e)[i] = q[i]
           /\ ReplyPlaces(Append(q, e)) = ReplyPlaces(q)
<1> DEFINE n == Len(q)
           p == Append(q, e)
<1>1. /\ p \in Seq(Ringed) /\ Len(p) = n + 1 /\ p[n + 1] = e
      /\ \A i \in 1 .. n : p[i] = q[i]
      /\ n \in Nat
  OBVIOUS
<1> HIDE DEF p
<1>2. ReplyPlaces(p) = {i \in 1 .. n + 1 : p[i].reply} /\ ReplyPlaces(q) = {i \in 1 .. n : q[i].reply}
  BY <1>1 DEF ReplyPlaces
<1> HIDE DEF n
<1>3. \A i : i \in 1 .. n + 1 <=> i \in 1 .. n \/ i = n + 1
  BY <1>1
<1>4. ASSUME NEW i PROVE i \in ReplyPlaces(p) <=> i \in ReplyPlaces(q)
  BY <1>1, <1>2, <1>3
<1>5. ReplyPlaces(p) = ReplyPlaces(q)
  BY <1>4
<1> QED BY <1>1, <1>5 DEF n, p

\* The first byte gone.
LEMMA TailPlaces ==
    ASSUME NEW q \in Seq(Ringed), q # <<>>
    PROVE  /\ Tail(q) \in Seq(Ringed) /\ Len(Tail(q)) = Len(q) - 1
           /\ \A i \in 1 .. Len(q) - 1 : Tail(q)[i] = q[i + 1]
           /\ q[1].reply = TRUE => Cardinality(ReplyPlaces(Tail(q))) = Cardinality(ReplyPlaces(q)) - 1
           /\ q[1].reply = FALSE => Cardinality(ReplyPlaces(Tail(q))) = Cardinality(ReplyPlaces(q))
<1> DEFINE n == Len(q)
           p == Tail(q)
           R == ReplyPlaces(q) \ {1}
           f == [i \in ReplyPlaces(p) |-> i + 1]
<1>1. /\ p \in Seq(Ringed) /\ Len(p) = n - 1 /\ n \in Nat /\ n >= 1
      /\ \A i \in 1 .. n - 1 : p[i] = q[i + 1]
  OBVIOUS
<1> HIDE DEF p
<1>2. ReplyPlaces(p) = {i \in 1 .. n - 1 : p[i].reply} /\ ReplyPlaces(q) = {i \in 1 .. n : q[i].reply}
  BY <1>1 DEF ReplyPlaces
<1>f. IsFiniteSet(ReplyPlaces(q)) /\ IsFiniteSet(ReplyPlaces(p))
  BY <1>1, PlacesCount
<1> HIDE DEF n
<1>3. \A i \in ReplyPlaces(p) : i \in Nat /\ i + 1 \in R
  <2> TAKE i \in ReplyPlaces(p)
  <2>1. i \in 1 .. n - 1 /\ p[i].reply
    BY <1>2
  <2>2. i + 1 \in 1 .. n /\ i + 1 # 1 /\ i \in Nat
    BY <1>1, <2>1
  <2> QED BY <1>1, <1>2, <2>1, <2>2
<1>4. \A j \in R : j - 1 \in ReplyPlaces(p) /\ (j - 1) + 1 = j
  <2> TAKE j \in R
  <2>1. j \in 1 .. n /\ j # 1 /\ q[j].reply
    BY <1>2
  <2>2. j - 1 \in 1 .. n - 1 /\ (j - 1) + 1 = j
    BY <1>1, <2>1
  <2> QED BY <1>1, <1>2, <2>1, <2>2
<1>5. ExistsBijection(ReplyPlaces(p), R)
  <2>1. f \in [ReplyPlaces(p) -> R] /\ \A i, j \in ReplyPlaces(p) : f[i] = f[j] => i = j
    BY <1>3
  <2>2. \A j \in R : \E i \in ReplyPlaces(p) : f[i] = j
    BY <1>4
  <2> HIDE DEF f, R
  <2> QED BY <2>1, <2>2 DEF ExistsBijection, Bijection, Injection, Surjection, IsInjective
<1>6. IsFiniteSet(R) /\ Cardinality(R) = Cardinality(ReplyPlaces(p))
  BY <1>5, <1>f, FS_Bijection
<1>7. /\ 1 \in ReplyPlaces(q) => Cardinality(R) = Cardinality(ReplyPlaces(q)) - 1
      /\ 1 \notin ReplyPlaces(q) => Cardinality(R) = Cardinality(ReplyPlaces(q))
  <2> DEFINE P == ReplyPlaces(q)
  <2> HIDE DEF P
  <2>1. Cardinality(P \ {1}) = IF 1 \in P THEN Cardinality(P) - 1 ELSE Cardinality(P)
    BY <1>f, FS_RemoveElement DEF P
  <2> QED BY <2>1 DEF P
<1>8. 1 \in ReplyPlaces(q) <=> q[1].reply
  <2>1. 1 \in 1 .. n
    BY <1>1
  <2> QED BY <1>2, <2>1
<1> HIDE DEF R
<1> QED BY <1>1, <1>6, <1>7, <1>8 DEF p, n

\* Replies at the end.
LEMMA JoinPlaces ==
    ASSUME NEW q \in Seq(Ringed), NEW t \in Seq(Ringed), \A i \in 1 .. Len(t) : t[i].reply = TRUE
    PROVE  /\ q \o t \in Seq(Ringed) /\ Len(q \o t) = Len(q) + Len(t)
           /\ \A i \in 1 .. Len(q) : (q \o t)[i] = q[i]
           /\ \A i \in 1 .. Len(t) : (q \o t)[Len(q) + i] = t[i]
           /\ Cardinality(ReplyPlaces(q \o t)) = Cardinality(ReplyPlaces(q)) + Len(t)
<1> DEFINE n == Len(q)
           k == Len(t)
           p == q \o t
           A == ReplyPlaces(q)
           B == n + 1 .. n + k
<1>1. /\ p \in Seq(Ringed) /\ Len(p) = n + k /\ n \in Nat /\ k \in Nat
      /\ \A i \in 1 .. n : p[i] = q[i]
      /\ \A i \in 1 .. k : p[n + i] = t[i]
  OBVIOUS
<1> HIDE DEF p
<1>2. /\ ReplyPlaces(p) = {i \in 1 .. n + k : p[i].reply} /\ A = {i \in 1 .. n : q[i].reply}
      /\ \A i \in 1 .. k : t[i].reply = TRUE
  BY <1>1 DEF ReplyPlaces
<1>3. IsFiniteSet(A) /\ Cardinality(A) \in Nat
  BY PlacesCount
<1> HIDE DEF n, k, A
<1>4. IsFiniteSet(B) /\ Cardinality(B) = k
  <2>1. Cardinality(B) = IF n + 1 > n + k THEN 0 ELSE (n + k) - (n + 1) + 1
    BY <1>1, FS_Interval
  <2>2. n + 1 \in Int /\ n + k \in Int
    BY <1>1
  <2> QED BY <1>1, <2>1, <2>2, FS_Interval
<1>5. A \cap B = {}
  BY <1>1, <1>2
<1>6. ReplyPlaces(p) = A \cup B
  <2>1. ASSUME NEW i \in A PROVE i \in ReplyPlaces(p)
    BY <1>1, <1>2
  <2>2. ASSUME NEW i \in B PROVE i \in ReplyPlaces(p)
    <3>1. i \in 1 .. n + k /\ i - n \in 1 .. k /\ n + (i - n) = i
      BY <1>1
    <3>2. p[i] = t[i - n]
      BY <1>1, <3>1
    <3>3. p[i].reply = TRUE
      BY <1>2, <3>1, <3>2
    <3> QED BY <1>2, <3>1, <3>3
  <2>3. ASSUME NEW i \in ReplyPlaces(p) PROVE i \in A \cup B
    <3>1. i \in 1 .. n + k /\ p[i].reply
      BY <1>2
    <3>2. i \in 1 .. n \/ i \in B
      BY <1>1, <3>1
    <3> QED BY <1>1, <1>2, <3>1, <3>2
  <2> QED BY <2>1, <2>2, <2>3
<1> HIDE DEF B
<1>7. Cardinality(A \cup B) = Cardinality(A) + Cardinality(B) - Cardinality(A \cap B)
  BY <1>3, <1>4, FS_Union
<1>8. Cardinality(A \cup B) = Cardinality(A) + k
  <2>1. Cardinality(A \cap B) = 0
    BY <1>5, FS_EmptySet
  <2> QED BY <1>1, <1>3, <1>4, <1>7, <2>1
<1> QED BY <1>1, <1>6, <1>8 DEF p, n, k, A

\* A change that leaves the ring alone.
LEMMA RingKept ==
    ASSUME NEW k, NEW j \in Keyboards, Ring(k), j.queue = k.queue, j.keys = k.keys, j.replies = k.replies,
           j.queue # <<>> => j.tx <= k.tx, j.held # NoKey => j.held \in j.down
    PROVE  Ring(j)
<1>1. k.tx \in Int /\ j.tx \in Int /\ TxCharacter \in Nat
  BY Rooms DEF Ring, Keyboards
<1> QED BY <1>1 DEF Ring

\* What a keyboard's ring is made of.
LEMMA RingFields ==
    ASSUME NEW k, Ring(k)
    PROVE  /\ k \in Keyboards /\ k.queue \in Seq(Ringed) /\ Len(k.queue) \in Nat
           /\ k.queue # <<>> <=> Len(k.queue) > 0
           /\ \A i \in 1 .. Len(k.queue) : k.queue[i] \in Ringed /\ k.queue[i].b \in Bytes
           /\ k.keys \in Nat /\ k.replies \in Nat /\ k.tx \in Int /\ k.repeat \in Int
           /\ k.held \in Keys \cup {NoKey} /\ k.down \in SUBSET Keys
<1>1. /\ k \in Keyboards /\ k.queue \in Seq(Ringed)
      /\ k.keys \in Nat /\ k.replies \in Nat /\ k.tx \in Int /\ k.repeat \in Int
      /\ k.held \in Keys \cup {NoKey} /\ k.down \in SUBSET Keys
  BY DEF Ring, Keyboards
<1>2. /\ k.queue # <<>> <=> Len(k.queue) > 0
      /\ \A i \in 1 .. Len(k.queue) : k.queue[i] \in Ringed
      /\ Len(k.queue) \in Nat
  BY <1>1, First
<1> QED BY <1>1, <1>2 DEF Ringed

\* A later number at the end of a ring.
LEMMA UpwardAppend ==
    ASSUME NEW q \in Seq(Ringed), NEW p, NEW h, NEW m, NEW n \in Nat, Upward(q, h, m), Len(p) = Len(q) + n,
           \A i \in 1 .. Len(q) : p[i] = q[i],
           \A i \in 1 .. n : Keyed(p[Len(q) + i].b) /\ p[Len(q) + i].b.n = m + i
    PROVE  Upward(p, h, m + n)
<1> DEFINE z == Len(q)
<1>1. z \in Nat /\ h \in Nat /\ m \in Nat /\ h <= m
  BY DEF Upward
<1>2. \A i \in 1 .. z : q[i].b.n \in Nat
  <2>1. \A i \in 1 .. z : q[i] \in Ringed
    BY First
  <2> QED BY <2>1 DEF Ringed, Bytes
<1>3. /\ \A i \in 1 .. z : Keyed(q[i].b) /\ h < q[i].b.n /\ q[i].b.n <= m
      /\ \A i, j \in 1 .. z : i < j => q[i].b.n < q[j].b.n
  BY DEF Upward
<1> HIDE DEF z
<1>4. ASSUME NEW i \in 1 .. z + n
      PROVE  \/ i \in 1 .. z
             \/ i - z \in 1 .. n /\ z + (i - z) = i
  BY <1>1
<1>5. ASSUME NEW i \in 1 .. z + n
      PROVE  /\ i \in 1 .. z => p[i].b = q[i].b
             /\ i \notin 1 .. z => Keyed(p[i].b) /\ p[i].b.n = m + (i - z) /\ i - z \in 1 .. n
  <2>1. i \in 1 .. z => p[i] = q[i]
    BY DEF z
  <2>2. \A j \in 1 .. n : Keyed(p[z + j].b) /\ p[z + j].b.n = m + j
    BY DEF z
  <2> QED BY <1>4, <2>1, <2>2
<1>6. ASSUME NEW i \in 1 .. z + n PROVE Keyed(p[i].b) /\ h < p[i].b.n /\ p[i].b.n <= m + n
  <2>1. CASE i \in 1 .. z
    <3>1. p[i].b = q[i].b
      BY <1>5, <2>1
    <3> QED BY <1>1, <1>2, <1>3, <2>1, <3>1
  <2>2. CASE i \notin 1 .. z
    <3>1. Keyed(p[i].b) /\ p[i].b.n = m + (i - z) /\ i - z \in 1 .. n
      BY <1>5, <2>2
    <3> DEFINE x == i - z
    <3>2. p[i].b.n = m + x /\ x \in 1 .. n
      BY <3>1
    <3> HIDE DEF x
    <3> QED BY <1>1, <3>1, <3>2
  <2> QED BY <2>1, <2>2
<1>7. ASSUME NEW i \in 1 .. z + n, NEW j \in 1 .. z + n, i < j PROVE p[i].b.n < p[j].b.n
  <2>1. CASE i \in 1 .. z /\ j \in 1 .. z
    <3>1. p[i].b = q[i].b /\ p[j].b = q[j].b
      BY <1>5, <2>1
    <3> QED BY <1>3, <1>7, <2>1, <3>1
  <2>2. CASE i \in 1 .. z /\ j \notin 1 .. z
    <3>1. p[i].b = q[i].b /\ p[j].b.n = m + (j - z) /\ j - z \in 1 .. n
      BY <1>5, <2>2
    <3> DEFINE x == j - z
    <3>2. p[j].b.n = m + x /\ x \in 1 .. n
      BY <3>1
    <3> HIDE DEF x
    <3> QED BY <1>1, <1>2, <1>3, <2>2, <3>1, <3>2
  <2>3. CASE i \notin 1 .. z
    <3>1. j \notin 1 .. z
      BY <1>1, <1>7, <2>3
    <3>2. p[i].b.n = m + (i - z) /\ p[j].b.n = m + (j - z)
      BY <1>5, <2>3, <3>1
    <3>3. i \in Int /\ j \in Int
      OBVIOUS
    <3> QED BY <1>1, <1>7, <3>2, <3>3
  <2> QED BY <2>1, <2>2, <2>3
<1>8. m + n \in Nat /\ h <= m + n
  BY <1>1
<1> QED BY <1>1, <1>6, <1>7, <1>8 DEF Upward, z

\* The next byte is not due yet.
Prompt(k) == k.queue # <<>> => k.tx >= 1

\* What a keyboard is after a change that leaves its keys alone.
SameKeys(k, j) == j.down = k.down /\ j.held = k.held

\* A byte of key data taken: the ring after it.
LEMMA Buffers ==
    ASSUME NEW k, Ring(k), ~BufferFull(k), NEW h, NEW m, Upward(k.queue, h, m),
           NEW b \in Bytes, Keyed(b), b.n = m + 1
    PROVE  /\ Ring(Buffer(k, b)) /\ Upward(Buffer(k, b).queue, h, m + 1)
           /\ Len(Buffer(k, b).queue) = Len(k.queue) + 1
           /\ Buffer(k, b).keys = k.keys + 1
           /\ Prompt(k) => Prompt(Buffer(k, b))
<1> DEFINE e  == [b |-> b, reply |-> FALSE]
           q  == k.queue
           p  == Append(q, e)
           n  == k.keys + 1
           tx == Start(k)
           j  == [k EXCEPT !.queue = p, !.keys = n, !.tx = tx]
<1>1. Buffer(k, b) = j
  BY DEF Buffer
<1>2. /\ k \in Keyboards /\ q \in Seq(Ringed) /\ n \in Nat /\ n <= KeyRoom /\ tx \in Int /\ tx <= TxCharacter
      /\ Len(q) \in Nat
  <2>1. k.keys \in Nat /\ k.tx \in Int /\ k.keys < KeyRoom
    BY RingFields, Rooms DEF BufferFull
  <2>2. k.queue # <<>> => k.tx <= TxCharacter
    BY DEF Ring
  <2> QED BY <2>1, <2>2, RingFields, Rooms DEF Start
<1>3. e \in Ringed /\ e.reply = FALSE /\ e.b = b
  BY DEF Ringed
<1>2a. Prompt(k) => tx >= 1
  BY Rooms DEF Start, Prompt
<1> HIDE DEF e, q, n, tx
<1>4. /\ p \in Seq(Ringed) /\ Len(p) = Len(q) + 1 /\ p[Len(q) + 1] = e
      /\ \A i \in 1 .. Len(q) : p[i] = q[i]
      /\ ReplyPlaces(p) = ReplyPlaces(q)
  BY <1>2, <1>3, AppendKey
<1> HIDE DEF p
<1>5. /\ j \in Keyboards /\ j.queue = p /\ j.keys = n /\ j.tx = tx /\ j.replies = k.replies
      /\ j.down = k.down /\ j.held = k.held
  BY <1>2, <1>4 DEF Keyboards
<1> HIDE DEF j
<1>6. Ring(j)
  <2> DEFINE r == Cardinality(ReplyPlaces(q))
             z == Len(q)
  <2>1. k.keys = z - r /\ r \in Nat /\ z \in Nat
    BY <1>2, PlacesCount DEF Ring, q
  <2>2. n = Len(p) - Cardinality(ReplyPlaces(p))
    <3>1. Len(p) = z + 1 /\ Cardinality(ReplyPlaces(p)) = r /\ n = (z - r) + 1
      BY <1>4, <2>1 DEF n
    <3> HIDE DEF r, z
    <3> QED BY <2>1, <3>1
  <2>3. k.replies = Cardinality(ReplyPlaces(p)) /\ k.replies <= ReplyRoom
    BY <1>4 DEF Ring, q
  <2> QED BY <1>2, <1>5, <2>2, <2>3 DEF Ring
<1>7. Upward(p, h, m + 1)
  <2> DEFINE one == 1
  <2>1. /\ one \in Nat /\ Len(p) = Len(q) + one
        /\ \A i \in 1 .. one : Keyed(p[Len(q) + i].b) /\ p[Len(q) + i].b.n = m + i
    BY <1>3, <1>4
  <2>2. Upward(q, h, m)
    BY DEF q
  <2> HIDE DEF one
  <2>3. Upward(p, h, m + one)
    BY <1>2, <1>4, <2>1, <2>2, UpwardAppend
  <2> QED BY <2>3 DEF one
<1> QED BY <1>1, <1>2a, <1>4, <1>5, <1>6, <1>7 DEF Prompt, q, n

\* The keyboard j is k with y more bytes in its ring.
Longer(k, h, m, j, y) ==
    /\ y \in Nat /\ Ring(j) /\ Upward(j.queue, h, m + y)
    /\ Len(j.queue) = Len(k.queue) + y

\* A reply taken, as much of it as there is room for: the ring after it.
LEMMA Replied ==
    ASSUME NEW k, Ring(k), NEW h, NEW m, Upward(k.queue, h, m), NEW bs \in Seq(Bytes),
           \A i \in 1 .. Len(bs) : Keyed(bs[i]) /\ bs[i].n = m + i
    PROVE  \E n : Longer(k, h, m, QueueReply(k, bs), n)
<1> DEFINE room == ReplyRoom - k.replies
           n    == IF Len(bs) < room THEN Len(bs) ELSE room
           t    == [i \in 1 .. n |-> [b |-> bs[i], reply |-> TRUE]]
           q    == k.queue
           p    == q \o t
           r    == k.replies + n
           tx   == IF n > 0 THEN Start(k) ELSE k.tx
           j    == [k EXCEPT !.queue = p, !.replies = r, !.tx = tx]
<1>1. QueueReply(k, bs) = j
  BY DEF QueueReply
<1>0. Len(bs) \in Nat /\ \A i \in 1 .. Len(bs) : bs[i] \in Bytes
  BY First
<1>2. /\ k \in Keyboards /\ q \in Seq(Ringed) /\ n \in Nat /\ r \in Nat /\ r <= ReplyRoom
      /\ Len(q) \in Nat /\ tx \in Int /\ n <= Len(bs)
  <2>1. k.replies \in Nat /\ k.tx \in Int /\ k.replies <= ReplyRoom
    BY RingFields DEF Ring
  <2> DEFINE len == Len(bs)
  <2>2. len \in Nat
    BY <1>0
  <2> HIDE DEF len
  <2>3. n = IF len < room THEN len ELSE room
    BY DEF len
  <2> HIDE DEF n
  <2>4. n \in Nat /\ n <= len /\ k.replies + n \in Nat /\ k.replies + n <= ReplyRoom
    BY <2>1, <2>2, <2>3, Rooms
  <2> QED BY <2>1, <2>4, RingFields, Rooms DEF Start, len
<1> HIDE DEF n
<1>n. \A i \in 1 .. n : i \in 1 .. Len(bs)
  BY <1>0, <1>2
<1>3. /\ t \in Seq(Ringed) /\ Len(t) = n
      /\ \A i \in 1 .. Len(t) : t[i].reply = TRUE
      /\ \A i \in 1 .. n : t[i].b = bs[i]
  <2>1. \A i \in 1 .. n : [b |-> bs[i], reply |-> TRUE] \in Ringed
    BY <1>0, <1>n DEF Ringed
  <2>2. t \in Seq(Ringed) /\ Len(t) = n
    BY <1>2, <2>1
  <2> QED BY <2>2
<1>3a. n = 0 => t = <<>>
  BY <1>3
<1> HIDE DEF t, q
<1>4. /\ p \in Seq(Ringed) /\ Len(p) = Len(q) + n
      /\ \A i \in 1 .. Len(q) : p[i] = q[i]
      /\ \A i \in 1 .. n : p[Len(q) + i] = t[i]
      /\ Cardinality(ReplyPlaces(p)) = Cardinality(ReplyPlaces(q)) + n
  BY <1>2, <1>3, JoinPlaces
<1>5. p # <<>> => tx <= TxCharacter
  <2>1. CASE n > 0
    <3>1. k.queue # <<>> => k.tx <= TxCharacter
      BY DEF Ring
    <3> QED BY <2>1, <3>1, Rooms DEF Start
  <2>2. CASE ~(n > 0)
    <3>1. n = 0 /\ tx = k.tx
      BY <1>2, <2>2
    <3>2. Len(p) = Len(q)
      BY <1>2, <1>4, <3>1
    <3>3. p # <<>> <=> q # <<>>
      BY <1>2, <1>4, <3>2, First
    <3> QED BY <3>1, <3>3 DEF Ring, q
  <2> QED BY <2>1, <2>2
<1> HIDE DEF p, r, tx
<1>6. /\ j \in Keyboards /\ j.queue = p /\ j.keys = k.keys /\ j.tx = tx /\ j.replies = r
      /\ j.down = k.down /\ j.held = k.held
  BY <1>2, <1>4 DEF Keyboards
<1> HIDE DEF j
<1>7. Ring(j)
  <2> DEFINE c == Cardinality(ReplyPlaces(q))
             z == Len(q)
  <2>1. /\ k.keys = z - c /\ c \in Nat /\ z \in Nat /\ k.replies = c /\ k.keys <= KeyRoom
        /\ k.held # NoKey => k.held \in k.down
    BY <1>2, PlacesCount DEF Ring, q
  <2>2. k.keys = Len(p) - Cardinality(ReplyPlaces(p)) /\ r = Cardinality(ReplyPlaces(p))
    <3>1. Len(p) = z + n /\ Cardinality(ReplyPlaces(p)) = c + n /\ r = c + n
      BY <1>4, <2>1 DEF r
    <3> HIDE DEF c, z
    <3> QED BY <1>2, <2>1, <3>1
  <2> QED BY <1>2, <1>5, <1>6, <2>1, <2>2 DEF Ring
<1>8. Upward(p, h, m + n)
  <2>1. \A i \in 1 .. n : Keyed(p[Len(q) + i].b) /\ p[Len(q) + i].b.n = m + i
    BY <1>n, <1>3, <1>4
  <2>2. Upward(q, h, m)
    BY DEF q
  <2> QED BY <1>2, <1>4, <2>1, <2>2, UpwardAppend
<1>9. Longer(k, h, m, j, n)
  BY <1>2, <1>4, <1>6, <1>7, <1>8 DEF Longer, q
<1> QED BY <1>1, <1>9

\* The byte at the head gone: the ring after it, and where its numbers begin now.
LEMMA SentLeaves ==
    ASSUME NEW k, Ring(k), k.queue # <<>>, k.tx <= 0, NEW h, NEW m, Upward(k.queue, h, m)
    PROVE  /\ Ring(Sent(k)) /\ Upward(Sent(k).queue, Head(k.queue).b.n, m)
           /\ Len(Sent(k).queue) = Len(k.queue) - 1
           /\ Sent(k).tx = k.tx + TxCharacter
           /\ Head(k.queue).b \in Bytes /\ Keyed(Head(k.queue).b)
           /\ h < Head(k.queue).b.n
           /\ SameKeys(k, Sent(k))
<1> DEFINE q    == k.queue
           e    == Head(q)
           p    == Tail(q)
           tx   == k.tx + TxCharacter
           keys == IF e.reply THEN k.keys ELSE k.keys - 1
           rep  == IF e.reply THEN k.replies - 1 ELSE k.replies
           j    == [k EXCEPT !.queue = p, !.tx = tx, !.keys = keys, !.replies = rep]
<1>1. Sent(k) = j
  BY DEF Sent
<1>2. /\ k \in Keyboards /\ q \in Seq(Ringed) /\ q # <<>> /\ Len(q) \in Nat /\ Len(q) > 0
      /\ k.tx \in Int /\ TxCharacter \in Nat
      /\ e = q[1] /\ e \in Ringed /\ e.b \in Bytes /\ e.b.n \in Nat
  <2>1. q \in Seq(Ringed) /\ q # <<>> /\ Len(q) \in Nat /\ Len(q) > 0
    BY RingFields
  <2>2. e = q[1] /\ 1 \in 1 .. Len(q)
    BY <2>1
  <2>3. q[1] \in Ringed
    BY <2>1, <2>2, First
  <2> QED BY <2>1, <2>2, <2>3, RingFields, Rooms DEF Ringed, Bytes
<1>3. tx \in Int /\ tx <= TxCharacter
  BY <1>2
<1>4. /\ p \in Seq(Ringed) /\ Len(p) = Len(q) - 1
      /\ \A i \in 1 .. Len(q) - 1 : p[i] = q[i + 1]
      /\ e.reply = TRUE => Cardinality(ReplyPlaces(p)) = Cardinality(ReplyPlaces(q)) - 1
      /\ e.reply = FALSE => Cardinality(ReplyPlaces(p)) = Cardinality(ReplyPlaces(q))
  <2> HIDE DEF q, e
  <2> QED BY <1>2, TailPlaces
<1>5. IsFiniteSet(ReplyPlaces(p)) /\ Cardinality(ReplyPlaces(p)) \in Nat /\ Cardinality(ReplyPlaces(p)) <= Len(p)
  <2> HIDE DEF p
  <2> QED BY <1>4, PlacesCount
<1> HIDE DEF p, e
<1>6. /\ keys = Len(p) - Cardinality(ReplyPlaces(p)) /\ keys \in Nat /\ keys <= KeyRoom
      /\ rep = Cardinality(ReplyPlaces(p)) /\ rep \in Nat /\ rep <= ReplyRoom
  <2> DEFINE c == Cardinality(ReplyPlaces(q))
             d == Cardinality(ReplyPlaces(p))
             z == Len(q)
             y == Len(p)
  <2>1. /\ k.keys = z - c /\ c \in Nat /\ z \in Nat /\ k.replies = c /\ k.keys <= KeyRoom /\ c <= ReplyRoom
        /\ KeyRoom \in Nat /\ ReplyRoom \in Nat
    <3>1. c \in Nat
      <4> HIDE DEF q
      <4> QED BY <1>2, PlacesCount
    <3>2. k.keys = z - c /\ k.replies = c /\ k.keys <= KeyRoom /\ c <= ReplyRoom
      BY DEF Ring
    <3> QED BY <1>2, <3>1, <3>2, Rooms
  <2>2. /\ d \in Nat /\ d <= y /\ y = z - 1
        /\ e.reply = TRUE => d = c - 1
        /\ e.reply = FALSE => d = c
    BY <1>4, <1>5
  <2>3. e.reply \in BOOLEAN
    BY <1>2 DEF Ringed
  <2>4. /\ e.reply = TRUE => keys = k.keys /\ rep = k.replies - 1
        /\ e.reply = FALSE => keys = k.keys - 1 /\ rep = k.replies
    OBVIOUS
  <2> HIDE DEF c, d, z, y, keys, rep
  <2>5. /\ keys = y - d /\ keys \in Nat /\ keys <= KeyRoom
        /\ rep = d /\ rep \in Nat /\ rep <= ReplyRoom
    <3>1. CASE e.reply = TRUE
      BY <2>1, <2>2, <2>4, <3>1
    <3>2. CASE e.reply = FALSE
      BY <2>1, <2>2, <2>4, <3>2
    <3> QED BY <2>3, <3>1, <3>2
  <2> QED BY <2>5 DEF d, y
<1> HIDE DEF keys, rep, tx
<1>7. /\ j \in Keyboards /\ j.queue = p /\ j.keys = keys /\ j.tx = tx /\ j.replies = rep
      /\ j.down = k.down /\ j.held = k.held
  BY <1>2, <1>3, <1>4, <1>6 DEF Keyboards
<1> HIDE DEF j
<1>8. Ring(j)
  <2>1. k.held # NoKey => k.held \in k.down
    BY DEF Ring
  <2> QED BY <1>3, <1>6, <1>7, <2>1 DEF Ring
<1>9. /\ Keyed(e.b) /\ h < e.b.n /\ e.b.n <= m /\ m \in Nat
      /\ Upward(p, e.b.n, m)
  <2> DEFINE z == Len(q)
  <2>1. /\ \A i \in 1 .. z : Keyed(q[i].b) /\ h < q[i].b.n /\ q[i].b.n <= m
        /\ \A i, j0 \in 1 .. z : i < j0 => q[i].b.n < q[j0].b.n
        /\ m \in Nat
    BY DEF Upward
  <2>2. z \in Nat /\ z > 0 /\ Len(p) = z - 1 /\ \A i \in 1 .. z - 1 : p[i] = q[i + 1]
    BY <1>2, <1>4
  <2> HIDE DEF z, q
  <2>3. 1 \in 1 .. z /\ \A i \in 1 .. z - 1 : i + 1 \in 1 .. z /\ 1 < i + 1
    BY <2>2
  <2>4. Keyed(e.b) /\ h < e.b.n /\ e.b.n <= m
    BY <1>2, <2>1, <2>3
  <2>5. \A i \in 1 .. z - 1 : Keyed(p[i].b) /\ e.b.n < p[i].b.n /\ p[i].b.n <= m
    BY <1>2, <2>1, <2>2, <2>3
  <2>6. ASSUME NEW i \in 1 .. z - 1, NEW i1 \in 1 .. z - 1, i < i1 PROVE p[i].b.n < p[i1].b.n
    <3>1. i + 1 < i1 + 1
      BY <2>2, <2>6
    <3> QED BY <2>1, <2>2, <2>3, <3>1
  <2> QED BY <1>2, <2>1, <2>2, <2>4, <2>5, <2>6 DEF Upward
<1> QED BY <1>1, <1>2, <1>4, <1>7, <1>8, <1>9 DEF SameKeys, e, tx

\* A command changes the message, the loopback and the mode, and nothing of the ring.
Commanded(k, j) ==
    /\ j \in Keyboards /\ j.queue = k.queue /\ j.keys = k.keys /\ j.replies = k.replies
    /\ j.tx = k.tx /\ SameKeys(k, j)

\* What a command sets of the keyboard's state leaves its ring and keys alone.
LEMMA Modes3 ==
    ASSUME NEW k \in Keyboards, NEW ms \in MessagePrefixes, NEW lb \in BOOLEAN, NEW ks \in BOOLEAN
    PROVE  Commanded(k, [k EXCEPT !.msg = ms, !.loopback = lb, !.keystate = ks])
BY DEF Commanded, Keyboards, SameKeys

\* A byte the keyboard receives leaves its ring and keys alone, whatever it answers.
LEMMA Receives ==
    ASSUME NEW k \in Keyboards, NEW v \in Values
    PROVE  Commanded(k, KbdReceive(k, v).kbd) /\ KbdReceive(k, v).reply \in Seq(Values)
<1> DEFINE new(ms, lb, ks) == [k EXCEPT !.msg = ms, !.loopback = lb, !.keystate = ks]
           ok(r) == Commanded(k, r.kbd) /\ r.reply \in Seq(Values)
           lb0 == k.loopback
           ks0 == k.keystate
           ms0 == k.msg
           e0  == ""
           eF  == "FF"
           e11 == "FF11"
           e12 == "FF12"
           no  == FALSE
           w   == <<v>>
           x   == <<"00", "FF", "00">>
           y   == w \o [i \in 1 .. Identification |-> "id"] \o AnnounceMode(k)
           yes == TRUE
<1>1. /\ lb0 \in BOOLEAN /\ ks0 \in BOOLEAN /\ ms0 \in MessagePrefixes
      /\ no \in BOOLEAN /\ yes \in BOOLEAN
  BY DEF Keyboards
<1>2. \A ms \in MessagePrefixes, lb \in BOOLEAN, ks \in BOOLEAN : Commanded(k, new(ms, lb, ks))
  BY Modes3
<1>3. /\ k = new(ms0, lb0, ks0)
      /\ [k EXCEPT !.msg = "FF", !.loopback = TRUE] = new(eF, yes, ks0)
      /\ [k EXCEPT !.keystate = FALSE, !.loopback = FALSE] = new(ms0, no, no)
      /\ [[k EXCEPT !.msg = ""] EXCEPT !.keystate = TRUE] = new(e0, lb0, yes)
      /\ [[k EXCEPT !.msg = ""] EXCEPT !.loopback = FALSE] = new(e0, no, ks0)
      /\ \A ms : [k EXCEPT !.msg = ms] = new(ms, lb0, ks0)
  BY DEF Keyboards
<1>4. \A j : AnnounceMode(j) \in Seq(Values)
  BY DEF AnnounceMode, Values
<1>5. w \in Seq(Values) /\ <<>> \in Seq(Values) /\ x \in Seq(Values)
  BY DEF Values
<1>6. y \in Seq(Values)
  <2> DEFINE s == [i \in 1 .. Identification |-> "id"]
             a == AnnounceMode(k)
  <2>1. s \in Seq(Values)
    BY KeyboardAssumption DEF Values
  <2>2. a \in Seq(Values) /\ w \in Seq(Values)
    BY <1>4, <1>5
  <2> HIDE DEF s, a, w
  <2>3. w \o s \in Seq(Values)
    BY <2>1, <2>2
  <2>4. w \o s \o a \in Seq(Values)
    BY <2>2, <2>3
  <2> QED BY <2>4 DEF w, s, a
<1>m. /\ e0 \in MessagePrefixes /\ eF \in MessagePrefixes /\ e11 \in MessagePrefixes
      /\ e12 \in MessagePrefixes
  BY DEF MessagePrefixes
<1>7. CASE v = "FF"
  <2>1. KbdReceive(k, v) = [kbd |-> new(eF, yes, ks0), reply |-> w]
    BY <1>3, <1>7 DEF KbdReceive
  <2> HIDE DEF new, w, x, y, e0, eF, e11, e12, yes, no, ks0, lb0, ms0
  <2> QED BY <1>1, <1>2, <1>5, <1>m, <2>1
<1>8. CASE v = "00" /\ k.loopback
  <2>1. KbdReceive(k, v) = [kbd |-> new(ms0, no, no), reply |-> AnnounceMode(new(ms0, no, no))]
    BY <1>3, <1>8 DEF KbdReceive
  <2> HIDE DEF new, w, x, y, e0, eF, e11, e12, yes, no, ks0, lb0, ms0
  <2> QED BY <1>1, <1>2, <1>4, <2>1
<1>9. CASE v = "00" /\ ~k.loopback
  <2>1. KbdReceive(k, v) = [kbd |-> new(ms0, lb0, ks0), reply |-> <<>>]
    BY <1>3, <1>9 DEF KbdReceive
  <2> HIDE DEF new, w, x, y, e0, eF, e11, e12, yes, no, ks0, lb0, ms0
  <2> QED BY <1>1, <1>2, <1>5, <2>1
<1>10. CASE k.msg = "FF" /\ v = "01"
  <2>1. KbdReceive(k, v) = [kbd |-> new(e0, lb0, yes), reply |-> w]
    BY <1>3, <1>10 DEF KbdReceive
  <2> HIDE DEF new, w, x, y, e0, eF, e11, e12, yes, no, ks0, lb0, ms0
  <2> QED BY <1>1, <1>2, <1>5, <1>m, <2>1
<1>11. CASE k.msg = "FF" /\ v = "11"
  <2>1. KbdReceive(k, v) = [kbd |-> new(e11, lb0, ks0), reply |-> w]
    BY <1>3, <1>11 DEF KbdReceive
  <2> HIDE DEF new, w, x, y, e0, eF, e11, e12, yes, no, ks0, lb0, ms0
  <2> QED BY <1>1, <1>2, <1>5, <1>m, <2>1
<1>12. CASE k.msg = "FF" /\ v = "12"
  <2>1. KbdReceive(k, v) = [kbd |-> new(e12, lb0, ks0), reply |-> w]
    BY <1>3, <1>12 DEF KbdReceive
  <2> HIDE DEF new, w, x, y, e0, eF, e11, e12, yes, no, ks0, lb0, ms0
  <2> QED BY <1>1, <1>2, <1>5, <1>m, <2>1
<1>13. CASE k.msg = "FF11" /\ v = "16"
  <2>1. KbdReceive(k, v) = [kbd |-> new(e0, no, ks0), reply |-> x]
    BY <1>3, <1>13 DEF KbdReceive
  <2> HIDE DEF new, w, x, y, e0, eF, e11, e12, yes, no, ks0, lb0, ms0
  <2> QED BY <1>1, <1>2, <1>5, <1>m, <2>1
<1>14. CASE k.msg = "FF11" /\ v = "17"
  <2>1. KbdReceive(k, v) = [kbd |-> new(e0, lb0, ks0), reply |-> <<>>]
    BY <1>3, <1>14 DEF KbdReceive
  <2> HIDE DEF new, w, x, y, e0, eF, e11, e12, yes, no, ks0, lb0, ms0
  <2> QED BY <1>1, <1>2, <1>5, <1>m, <2>1
<1>15. CASE k.msg = "FF12" /\ v = "21"
  <2>1. KbdReceive(k, v) = [kbd |-> new(e0, no, ks0), reply |-> y]
    BY <1>3, <1>15 DEF KbdReceive
  <2> HIDE DEF new, w, x, y, e0, eF, e11, e12, yes, no, ks0, lb0, ms0
  <2> QED BY <1>1, <1>2, <1>6, <1>m, <2>1
<1>16. CASE k.msg = "FF21" /\ v \in {"81", "82"}
  <2>1. KbdReceive(k, v) = [kbd |-> new(e0, lb0, ks0), reply |-> w]
    BY <1>3, <1>16 DEF KbdReceive
  <2> HIDE DEF new, w, x, y, e0, eF, e11, e12, yes, no, ks0, lb0, ms0
  <2> QED BY <1>1, <1>2, <1>5, <1>m, <2>1
<1>17. CASE /\ v # "FF" /\ v # "00"
            /\ ~(k.msg = "FF" /\ v \in {"01", "11", "12"})
            /\ ~(k.msg = "FF11" /\ v \in {"16", "17"})
            /\ ~(k.msg = "FF12" /\ v = "21") /\ ~(k.msg = "FF21" /\ v \in {"81", "82"})
  <2> DEFINE ms == IF k.msg = "FF" /\ v = "21" THEN "FF21" ELSE ""
             rp == IF k.loopback THEN <<v>> ELSE <<>>
  <2>0. v # "FF" /\ ~(v = "00" /\ k.loopback) /\ ~(v = "00" /\ ~k.loopback)
        /\ ~(k.msg = "FF" /\ v = "01") /\ ~(k.msg = "FF" /\ v = "11") /\ ~(k.msg = "FF" /\ v = "12")
        /\ ~(k.msg = "FF11" /\ v = "16") /\ ~(k.msg = "FF11" /\ v = "17")
        /\ ~(k.msg = "FF12" /\ v = "21") /\ ~(k.msg = "FF21" /\ v \in {"81", "82"})
    BY <1>17
  <2>1. KbdReceive(k, v) = [kbd |-> [k EXCEPT !.msg = ms], reply |-> rp]
    BY <2>0 DEF KbdReceive
  <2>2. ms \in MessagePrefixes /\ rp \in Seq(Values)
    BY <1>5 DEF MessagePrefixes
  <2>3. [k EXCEPT !.msg = ms] = new(ms, lb0, ks0)
    BY <1>3
  <2> HIDE DEF new, w, x, y, e0, eF, e11, e12, yes, no, ks0, lb0, ms0, ms, rp
  <2> QED BY <1>1, <1>2, <2>1, <2>2, <2>3
<1> QED BY <1>7, <1>8, <1>9, <1>10, <1>11, <1>12, <1>13, <1>14, <1>15, <1>16, <1>17

\* A command leaves the ring as it is.
LEMMA CommandedRing ==
    ASSUME NEW k, NEW j, Ring(k), Commanded(k, j)
    PROVE  Ring(j)
<1>1. j.queue # <<>> => j.tx <= k.tx
  BY RingFields DEF Commanded
<1>2. j.held # NoKey => j.held \in j.down
  BY DEF Ring, Commanded, SameKeys
<1> QED BY <1>1, <1>2, RingKept DEF Commanded

\* A key pressed, a key released, the clock moved and a repeat taken.
LEMMA PressRing ==
    ASSUME NEW k, Ring(k), NEW key \in Keys
    PROVE  /\ Ring(Press(k, key)) /\ Press(k, key).queue = k.queue /\ Press(k, key).keys = k.keys
           /\ Press(k, key).tx = k.tx /\ Release(k, key).tx = k.tx
           /\ Ring(Release(k, key)) /\ Release(k, key).queue = k.queue /\ Release(k, key).keys = k.keys
<1>0. k \in Keyboards /\ k.tx \in Int /\ (k.held # NoKey => k.held \in k.down) /\ RepeatDelay \in Int
      /\ key # NoKey
  BY RingFields, Rooms, KeyboardAssumption DEF Ring
<1> DEFINE d1 == k.down \cup {key}
           j1 == [k EXCEPT !.down = d1, !.held = key, !.repeat = RepeatDelay]
           d2 == k.down \ {key}
           h2 == IF k.held = key THEN NoKey ELSE k.held
           j2 == [k EXCEPT !.down = d2, !.held = h2]
<1>1. Press(k, key) = j1 /\ Release(k, key) = j2
  BY DEF Press, Release
<1>2. /\ d1 \in SUBSET Keys /\ d2 \in SUBSET Keys /\ h2 \in Keys \cup {NoKey}
      /\ key \in d1 /\ (h2 # NoKey => h2 \in d2)
  BY <1>0, RingFields
<1> HIDE DEF d1, d2, h2
<1>3. /\ j1 \in Keyboards /\ j1.queue = k.queue /\ j1.keys = k.keys /\ j1.replies = k.replies
      /\ j1.tx = k.tx /\ j1.held = key /\ j1.down = d1
  BY <1>0, <1>2 DEF Keyboards
<1>4. /\ j2 \in Keyboards /\ j2.queue = k.queue /\ j2.keys = k.keys /\ j2.replies = k.replies
      /\ j2.tx = k.tx /\ j2.held = h2 /\ j2.down = d2
  BY <1>0, <1>2 DEF Keyboards
<1> HIDE DEF j1, j2
<1>5. Ring(j1)
  BY <1>0, <1>2, <1>3, RingKept
<1>6. Ring(j2)
  BY <1>0, <1>2, <1>4, RingKept
<1> QED BY <1>1, <1>3, <1>4, <1>5, <1>6

\* Time passes, a held key comes due again: the ring is what it was.
LEMMA PassedRing ==
    ASSUME NEW k, Ring(k), NEW dt \in Nat
    PROVE  /\ Ring(Passed(k, dt)) /\ Passed(k, dt).queue = k.queue /\ Passed(k, dt).keys = k.keys
           /\ Ring(Repeated(k)) /\ Repeated(k).queue = k.queue /\ Repeated(k).keys = k.keys
<1>0. k \in Keyboards /\ k.tx \in Int /\ k.repeat \in Int /\ (k.held # NoKey => k.held \in k.down)
      /\ RepeatPeriod \in Nat
  BY RingFields, Rooms DEF Ring
<1> DEFINE tx == k.tx - dt
           r1 == k.repeat - dt
           r2 == k.repeat + RepeatPeriod
           j1 == [k EXCEPT !.tx = tx, !.repeat = r1]
           j2 == [k EXCEPT !.repeat = r2]
<1>1. Passed(k, dt) = j1 /\ Repeated(k) = j2
  BY DEF Passed, Repeated
<1>2. tx \in Int /\ r1 \in Int /\ r2 \in Int /\ tx <= k.tx
  BY <1>0
<1> HIDE DEF tx, r1, r2
<1>3. /\ j1 \in Keyboards /\ j1.queue = k.queue /\ j1.keys = k.keys /\ j1.replies = k.replies
      /\ j1.tx = tx /\ j1.held = k.held /\ j1.down = k.down
  BY <1>0, <1>2 DEF Keyboards
<1>4. /\ j2 \in Keyboards /\ j2.queue = k.queue /\ j2.keys = k.keys /\ j2.replies = k.replies
      /\ j2.tx = k.tx /\ j2.held = k.held /\ j2.down = k.down
  BY <1>0, <1>2 DEF Keyboards
<1> HIDE DEF j1, j2
<1>5. Ring(j1)
  BY <1>0, <1>2, <1>3, RingKept
<1>6. Ring(j2)
  BY <1>0, <1>4, RingKept
<1> QED BY <1>1, <1>3, <1>4, <1>5, <1>6

-----------------------------------------------------------------------------
(* Bytes that come due, one after the other.                               *)

\* The whole character times in a delay.
LEMMA Quotient ==
    ASSUME NEW a \in Nat, NEW b \in Nat, b >= 1
    PROVE  /\ a \div b \in Nat
           /\ (a \div b) * b <= a /\ a < ((a \div b) + 1) * b
OBVIOUS

\* No more characters take no more time.
LEMMA Fewer ==
    ASSUME NEW i \in Nat, NEW q \in Nat, NEW b \in Nat, i <= q
    PROVE  i * b <= q * b /\ i * b \in Nat /\ q * b \in Nat
<1>1. q - i \in Nat /\ (q - i) * b \in Nat
  OBVIOUS
<1>2. q * b = i * b + (q - i) * b
  OBVIOUS
<1>3. i * b \in Nat /\ q * b \in Nat
  OBVIOUS
<1> QED BY <1>1, <1>2, <1>3

\* One more character, one more character time.
LEMMA NextProduct ==
    ASSUME NEW i \in Int, NEW b \in Int
    PROVE  (i + 1) * b = i * b + b /\ i * b \in Int
OBVIOUS

\* How many bytes come due, and when the next one does.
LEMMA DueTimes ==
    ASSUME NEW k, Ring(k)
    PROVE  /\ DueCount(k) \in Nat /\ DueCount(k) <= Len(k.queue)
           /\ \A i \in 1 .. DueCount(k) : k.tx + (i - 1) * TxCharacter <= 0
           /\ \/ DueCount(k) = Len(k.queue)
              \/ k.tx + DueCount(k) * TxCharacter \in 1 .. TxCharacter
<1> DEFINE T == TxCharacter
           z == Len(k.queue)
           t == k.tx
           a == -t
           q == a \div T
<1>1. T \in Nat /\ T >= 1 /\ z \in Nat /\ t \in Int /\ (k.queue # <<>> <=> z > 0)
  BY RingFields, Rooms
<1>2. CASE ~Due(k)
  <2>1. DueCount(k) = 0
    BY <1>2 DEF DueCount
  <2>2. z > 0 => t \in 1 .. T
    <3>1. z > 0 => ~(t <= 0) /\ t <= T
      BY <1>1, <1>2 DEF Due, Ring
    <3> HIDE DEF z, t, T
    <3> QED BY <1>1, <3>1
  <2>3. t + 0 * T = t
    <3> HIDE DEF z, t, T
    <3> QED BY <1>1
  <2>4. z = 0 \/ z > 0
    <3> HIDE DEF z
    <3> QED BY <1>1
  <2> HIDE DEF z, t, T
  <2>5. /\ 0 <= z
        /\ z = 0 \/ t + 0 * T \in 1 .. T
    BY <1>1, <2>2, <2>3, <2>4
  <2> QED BY <2>1, <2>5 DEF z, t, T
<1>3. CASE Due(k)
  <2>1. t <= 0 /\ z > 0 /\ DueCount(k) = IF q + 1 < z THEN q + 1 ELSE z
    BY <1>1, <1>3 DEF Due, DueCount
  <2> DEFINE n == DueCount(k)
  <2> HIDE DEF n, z, t, T
  <2>2. n = IF q + 1 < z THEN q + 1 ELSE z
    BY <2>1 DEF n, z, t, T
  <2>3. a \in Nat
    BY <1>1, <2>1
  <2> HIDE DEF a
  <2>4. q \in Nat /\ q * T <= a /\ a < (q + 1) * T
    BY <1>1, <2>3, Quotient
  <2> HIDE DEF q
  <2>5. n \in Nat /\ n <= z /\ n <= q + 1
    BY <1>1, <2>2, <2>4
  <2>6. ASSUME NEW i \in 1 .. n PROVE t + (i - 1) * T <= 0
    <3> DEFINE j == i - 1
    <3>1. j \in Nat /\ j <= q
      BY <2>4, <2>5
    <3> HIDE DEF j
    <3>2. j * T <= q * T /\ j * T \in Nat /\ q * T \in Nat
      BY <1>1, <2>4, <3>1, Fewer
    <3> DEFINE x == j * T
               y == q * T
    <3>3. x <= y /\ x \in Nat /\ y \in Nat /\ y <= a /\ a = -t
      BY <2>4, <3>2 DEF a
    <3> HIDE DEF x, y
    <3>4. t + x <= 0
      BY <1>1, <3>3
    <3> QED BY <3>4 DEF x, j
  <2>7. n = z \/ t + n * T \in 1 .. T
    <3>1. CASE q + 1 < z
      <4>1. n = q + 1
        BY <2>2, <3>1
      <4> DEFINE y == q * T
      <4>2. (q + 1) * T = y + T /\ y \in Int
        BY <1>1, <2>4, NextProduct
      <4>3. y <= a /\ a < (q + 1) * T /\ a = -t
        BY <2>4 DEF a
      <4> HIDE DEF y
      <4>4. t + (y + T) \in 1 .. T
        BY <1>1, <4>2, <4>3
      <4> QED BY <4>1, <4>2, <4>4
    <3>2. CASE ~(q + 1 < z)
      BY <2>2, <3>2
    <3> QED BY <3>1, <3>2
  <2> QED BY <2>5, <2>6, <2>7 DEF n, z, t, T
<1> QED BY <1>2, <1>3

\* The keyboard's bytes are in order along the whole way.
InLine(c, k, l, m) == \E h \in Nat : Ordered(c, l, h) /\ Upward(k.queue, h, m)

\* The keyboard k and the channel c after i bytes have gone from the one to the other.
Gone(k, c, l, m, i, s) ==
    /\ Ring(s.kbd) /\ Channel(s.ch) /\ s.ch.mr2 = c.mr2
    /\ Len(s.kbd.queue) = Len(k.queue) - i /\ s.kbd.tx = k.tx + i * TxCharacter
    /\ InLine(s.ch, s.kbd, l, m)
    /\ c.mr2.mode # "remote" => Answered(s.ch) = Answered(c) + i
    /\ c.mr2.mode = "remote" => Answered(s.ch) = Answered(c)

\* One more byte goes.
Going(s) == [kbd |-> Sent(s.kbd), ch |-> ReceiveFramed(s.ch, Head(s.kbd.queue).b)]

\* A receiver in order up to h is in order up to any later number.
LEMMA OrderedLater ==
    ASSUME NEW c, NEW l, NEW h, NEW g \in Nat, Channel(c), Ordered(c, l, h), h <= g
    PROVE  Ordered(c, l, g)
<1>1. l \in Nat /\ h \in Nat /\ l <= h
  BY DEF Ordered
<1>2. /\ \A i \in 1 .. Len(c.fifo) : c.fifo[i].b.n \in Nat
      /\ \A i \in 1 .. Len(c.shift) : c.shift[i].n \in Nat
  <2>1. \A i \in 1 .. Len(c.fifo) : c.fifo[i] \in Cell
    BY Fields
  <2>2. c.shift \in Seq(Bytes)
    BY Fields
  <2>3. \A i \in 1 .. Len(c.shift) : c.shift[i] \in Bytes
    BY <2>2, First
  <2> QED BY <2>1, <2>3 DEF Cell, Bytes
<1>3. /\ \A i \in 1 .. Len(c.fifo) : Keyed(c.fifo[i].b) => c.fifo[i].b.n <= g
      /\ \A i \in 1 .. Len(c.shift) : Keyed(c.shift[i]) => c.shift[i].n <= g
  BY <1>1, <1>2 DEF Ordered
<1>4. l <= g
  BY <1>1
<1> QED BY <1>3, <1>4 DEF Ordered

\* The bytes answered for are a number.
LEMMA AnsweredNat ==
    ASSUME NEW c, Channel(c)
    PROVE  Answered(c) \in Nat
<1> DEFINE w == c.flushed
           x == c.drops
           y == Len(c.fifo)
           z == Len(c.shift)
<1>1. w \in Nat /\ x \in Nat /\ y \in Nat /\ z \in Nat
  BY Fields
<1>2. Answered(c) = w + x + y + z
  BY DEF Answered
<1> HIDE DEF w, x, y, z
<1> QED BY <1>1, <1>2

\* One more byte of those due goes from the ring to the channel.
LEMMA GoneStep ==
    ASSUME NEW k, NEW c, NEW l, NEW m, NEW s, Ring(k), Channel(c),
           NEW i \in 1 .. DueCount(k), Gone(k, c, l, m, i - 1, s)
    PROVE  Gone(k, c, l, m, i, Going(s))
<1> DEFINE q == s.kbd
           b == Head(q.queue).b
           d == ReceiveFramed(s.ch, b)
           T == TxCharacter
           j == i - 1
           z == Len(k.queue)
<1>1. Going(s) = [kbd |-> Sent(q), ch |-> d]
  BY DEF Going
<1>2. DueCount(k) \in Nat /\ DueCount(k) <= z /\ k.tx + j * T <= 0 /\ z \in Nat /\ k.tx \in Int /\ T \in Nat
  BY DueTimes, RingFields, Rooms
<1>3. /\ Ring(q) /\ Channel(s.ch) /\ s.ch.mr2 = c.mr2
      /\ Len(q.queue) = z - j /\ q.tx = k.tx + j * T
      /\ InLine(s.ch, q, l, m)
      /\ c.mr2.mode # "remote" => Answered(s.ch) = Answered(c) + j
      /\ c.mr2.mode = "remote" => Answered(s.ch) = Answered(c)
  BY DEF Gone
<1> HIDE DEF q
<1>4. q.queue # <<>> /\ q.tx <= 0
  <2>1. Len(q.queue) > 0
    <3> HIDE DEF z
    <3> QED BY <1>2, <1>3
  <2> QED BY <1>2, <1>3, <2>1, RingFields
<1>5. PICK h \in Nat : Ordered(s.ch, l, h) /\ Upward(q.queue, h, m)
  BY <1>3 DEF InLine
<1>6. /\ Ring(Sent(q)) /\ Upward(Sent(q).queue, b.n, m)
      /\ Len(Sent(q).queue) = Len(q.queue) - 1
      /\ Sent(q).tx = q.tx + T
      /\ b \in Bytes /\ Keyed(b) /\ h < b.n
  BY <1>3, <1>4, <1>5, SentLeaves
<1>7. b.n \in Nat
  BY <1>6 DEF Upward
<1> HIDE DEF b
<1>8. /\ c.mr2.mode # "remote" => Took(s.ch, b, d)
      /\ c.mr2.mode = "remote" => Still(s.ch, d)
      /\ d.mr2 = c.mr2
  BY <1>3, <1>6, FramedTakes
<1> HIDE DEF d
<1>9. Channel(d) /\ Ordered(d, l, b.n)
  <2>1. CASE c.mr2.mode # "remote"
    <3>1. h <= b.n /\ b.n <= b.n
      BY <1>6, <1>7
    <3> QED BY <1>3, <1>5, <1>6, <1>7, <1>8, <2>1, <3>1, OrderedTook DEF Took
  <2>2. CASE c.mr2.mode = "remote"
    <3>1. Ordered(d, l, h) /\ Channel(d)
      BY <1>5, <1>8, <2>2, OrderedStill DEF Still
    <3>2. h <= b.n
      BY <1>6, <1>7
    <3> QED BY <1>7, <3>1, <3>2, OrderedLater
  <2> QED BY <2>1, <2>2
<1>10. InLine(d, Sent(q), l, m)
  BY <1>6, <1>7, <1>9 DEF InLine
<1>11. /\ c.mr2.mode # "remote" => Answered(d) = Answered(c) + i
       /\ c.mr2.mode = "remote" => Answered(d) = Answered(c)
  <2> DEFINE A == Answered(c)
  <2>1. A \in Nat
    BY AnsweredNat
  <2>2. c.mr2.mode # "remote" => Answered(d) = (A + j) + 1
    BY <1>3, <1>8 DEF Took
  <2>3. c.mr2.mode = "remote" => Answered(d) = A
    BY <1>3, <1>8, StillAnswered
  <2> HIDE DEF A
  <2>4. (A + j) + 1 = A + i
    BY <2>1
  <2> QED BY <2>2, <2>3, <2>4 DEF A
<1>12. Len(Sent(q).queue) = z - i
  <2> HIDE DEF z
  <2> QED BY <1>2, <1>3, <1>6
<1>13. Sent(q).tx = k.tx + i * T
  <2> DEFINE x == j * T
             t == k.tx
  <2>1. (j + 1) * T = x + T /\ x \in Int /\ j + 1 = i
    BY <1>2, NextProduct
  <2>2. Sent(q).tx = (t + x) + T /\ t \in Int
    BY <1>2, <1>3, <1>6
  <2> HIDE DEF x, t, j
  <2>3. (t + x) + T = t + (x + T)
    BY <1>2, <2>1, <2>2
  <2> QED BY <2>1, <2>2, <2>3 DEF t
<1> QED BY <1>1, <1>6, <1>8, <1>9, <1>10, <1>11, <1>12, <1>13 DEF Gone

\* The run of drain_keyboard's loop.
DrainRun(g, k, c) ==
    g = [i \in 0 .. DueCount(k) |-> IF i = 0 THEN [kbd |-> k, ch |-> c] ELSE Going(g[i - 1])]

\* What drain_keyboard makes of the two, as the last value of its loop.
LEMMA DrainedIs ==
    ASSUME NEW k, NEW c, \E g : DrainRun(g, k, c)
    PROVE  \E g : DrainRun(g, k, c) /\ Drained(k, c) = g[DueCount(k)]
<1> DEFINE f == CHOOSE g : DrainRun(g, k, c)
<1>1. DrainRun(f, k, c)
  OBVIOUS
<1>2. Drained(k, c) = f[DueCount(k)]
  BY DEF Drained, DrainRun, Going
<1> HIDE DEF f
<1> QED BY <1>1, <1>2

\* Before the loop nothing has gone.
LEMMA GoneStart ==
    ASSUME NEW k, NEW c, NEW l, NEW m, Ring(k), Channel(c), InLine(c, k, l, m)
    PROVE  Gone(k, c, l, m, 0, [kbd |-> k, ch |-> c])
<1> DEFINE s == [kbd |-> k, ch |-> c]
           z == Len(k.queue)
           t == k.tx
           A == Answered(c)
<1>1. s.kbd = k /\ s.ch = c
  OBVIOUS
<1>2. z \in Nat /\ t \in Int /\ A \in Nat /\ TxCharacter \in Nat
  BY RingFields, AnsweredNat, Rooms
<1> HIDE DEF s, z, t, A
<1>3. z = z - 0 /\ t = t + 0 * TxCharacter /\ A = A + 0
  BY <1>2
<1>4. Gone(k, c, l, m, 0, s)
  BY <1>1, <1>3 DEF Gone, z, t, A
<1> QED BY <1>4 DEF s

\* drain_keyboard sends what has come due, and the byte after it is not late.
LEMMA Drains ==
    ASSUME NEW k, NEW c, NEW l, NEW m, Ring(k), Channel(c), InLine(c, k, l, m)
    PROVE  Gone(k, c, l, m, DueCount(k), Drained(k, c))
<1> DEFINE n == DueCount(k)
           a == [kbd |-> k, ch |-> c]
           S == [kbd : Keyboards, ch : Channels(Bytes)]
           D == [j \in 1 .. n |-> [s \in S |-> IF Gone(k, c, l, m, j - 1, s) THEN Going(s) ELSE s]]
<1>1. n \in Nat
  BY DueTimes
<1>2. a \in S /\ Gone(k, c, l, m, 0, a)
  BY GoneStart, RingFields, Fields
<1>3. ASSUME NEW j \in 1 .. n, NEW s, Gone(k, c, l, m, j - 1, s)
      PROVE  Gone(k, c, l, m, j, Going(s)) /\ Going(s) \in S
  <2>1. Gone(k, c, l, m, j, Going(s))
    BY <1>3, GoneStep
  <2>2. Going(s).kbd \in Keyboards /\ Going(s).ch \in Channels(Bytes)
    BY <2>1 DEF Gone, Ring, Channel
  <2> QED BY <2>1, <2>2 DEF Going
<1> HIDE DEF a
<1>4. D \in [1 .. n -> [S -> S]]
  BY <1>3
<1>5. \E g \in [0 .. n -> S] : IsRun(g, n, a, D)
  <2> HIDE DEF D, S, n
  <2> QED BY <1>1, <1>2, <1>4, LoopRuns
<1>6. PICK g \in [0 .. n -> S] : IsRun(g, n, a, D)
  BY <1>5
<1> HIDE DEF n
<1>7. \A i \in 0 .. n : Gone(k, c, l, m, i, g[i])
  <2> DEFINE U == {i \in 0 .. n : Gone(k, c, l, m, i, g[i])}
  <2>1. 0 \in U
    <3>1. g[0] = a /\ 0 \in 0 .. n
      BY <1>1, <1>6 DEF IsRun
    <3> QED BY <1>2, <3>1
  <2>2. ASSUME NEW j \in 1 .. n, j - 1 \in U PROVE j \in U
    <3>1. j \in 0 .. n /\ j # 0 /\ j - 1 \in 0 .. n
      BY <1>1
    <3>2. g[j] = D[j][g[j - 1]]
      <4> HIDE DEF D
      <4> QED BY <1>6, <3>1 DEF IsRun
    <3>3. g[j - 1] \in S /\ Gone(k, c, l, m, j - 1, g[j - 1])
      BY <1>6, <2>2, <3>1
    <3>4. g[j] = Going(g[j - 1])
      BY <3>2, <3>3
    <3> QED BY <1>3, <3>1, <3>3, <3>4
  <2> HIDE DEF U
  <2>3. \A j \in 0 .. n : j \in U
    BY <1>1, <2>1, <2>2, BoundedInduction
  <2> QED BY <2>3 DEF U
<1>8. DrainRun(g, k, c)
  <2>1. ASSUME NEW j \in 0 .. n PROVE g[j] = IF j = 0 THEN a ELSE Going(g[j - 1])
    <3>1. CASE j = 0
      BY <1>6, <3>1 DEF IsRun
    <3>2. CASE j # 0
      <4>1. j \in 1 .. n /\ j - 1 \in 0 .. n
        BY <1>1, <3>2
      <4>2. g[j] = D[j][g[j - 1]]
        <5> HIDE DEF D
        <5> QED BY <1>6, <3>2 DEF IsRun
      <4>3. g[j - 1] \in S /\ Gone(k, c, l, m, j - 1, g[j - 1])
        BY <1>6, <1>7, <4>1
      <4>4. g[j] = Going(g[j - 1])
        BY <4>1, <4>2, <4>3
      <4> QED BY <3>2, <4>4
    <3> QED BY <3>1, <3>2
  <2>2. g = [j \in 0 .. n |-> g[j]]
    BY <1>6
  <2>3. g = [j \in 0 .. n |-> IF j = 0 THEN a ELSE Going(g[j - 1])]
    BY <2>1, <2>2
  <2> QED BY <2>3 DEF DrainRun, n, a
<1>9. PICK f : DrainRun(f, k, c) /\ Drained(k, c) = f[DueCount(k)]
  BY <1>8, DrainedIs
<1>10. \A i \in 0 .. n : Gone(k, c, l, m, i, f[i])
  <2> DEFINE U == {i \in 0 .. n : Gone(k, c, l, m, i, f[i])}
  <2>0. f = [i \in 0 .. n |-> IF i = 0 THEN a ELSE Going(f[i - 1])]
    BY <1>9 DEF DrainRun, n, a
  <2>1. 0 \in U
    <3>1. f[0] = a /\ 0 \in 0 .. n
      BY <1>1, <2>0
    <3> QED BY <1>2, <3>1
  <2>2. ASSUME NEW j \in 1 .. n, j - 1 \in U PROVE j \in U
    <3>1. j \in 0 .. n /\ j # 0
      BY <1>1
    <3>2. f[j] = Going(f[j - 1])
      BY <2>0, <3>1
    <3>3. Gone(k, c, l, m, j - 1, f[j - 1])
      BY <2>2
    <3> QED BY <1>3, <3>1, <3>2, <3>3
  <2> HIDE DEF U
  <2>3. \A j \in 0 .. n : j \in U
    BY <1>1, <2>1, <2>2, BoundedInduction
  <2> QED BY <2>3 DEF U
<1>11. n \in 0 .. n
  BY <1>1
<1> QED BY <1>9, <1>10, <1>11 DEF n

\* The channel and the keyboard after drain_keyboard.
DrainedWell(k, c, l, m, s, n) ==
    /\ n \in Nat
    /\ Ring(s.kbd) /\ Channel(s.ch) /\ s.ch.mr2 = c.mr2
    /\ Len(s.kbd.queue) = Len(k.queue) - n
    /\ s.kbd.queue # <<>> => s.kbd.tx \in 1 .. TxCharacter
    /\ InLine(s.ch, s.kbd, l, m)
    /\ c.mr2.mode # "remote" => Answered(s.ch) = Answered(c) + n
    /\ c.mr2.mode = "remote" => Answered(s.ch) = Answered(c)

\* drain_keyboard delivers some n of the ring's bytes, in order, none of them lost unseen.
LEMMA DrainsWell ==
    ASSUME NEW k, NEW c, NEW l, NEW m, Ring(k), Channel(c), InLine(c, k, l, m)
    PROVE  \E n \in Nat : DrainedWell(k, c, l, m, Drained(k, c), n)
<1> DEFINE s == Drained(k, c)
           n == DueCount(k)
<1>1. Gone(k, c, l, m, n, s)
  BY Drains
<1> HIDE DEF s
<1>2. /\ n \in Nat /\ n <= Len(k.queue)
      /\ n = Len(k.queue) \/ k.tx + n * TxCharacter \in 1 .. TxCharacter
  BY DueTimes
<1> HIDE DEF n
<1>3. s.kbd.queue # <<>> => s.kbd.tx \in 1 .. TxCharacter
  <2>1. CASE n = Len(k.queue)
    <3> DEFINE z == Len(k.queue)
    <3>1. Len(s.kbd.queue) = z - n /\ z \in Nat
      BY <1>1, RingFields DEF Gone
    <3> HIDE DEF z
    <3>2. Len(s.kbd.queue) = 0
      BY <2>1, <3>1 DEF z
    <3>3. ~(Len(s.kbd.queue) > 0)
      BY <3>2
    <3>4. Ring(s.kbd)
      BY <1>1 DEF Gone
    <3> QED BY <3>3, <3>4, RingFields
  <2>2. CASE k.tx + n * TxCharacter \in 1 .. TxCharacter
    BY <1>1, <2>2 DEF Gone
  <2> QED BY <1>2, <2>1, <2>2
<1>4. DrainedWell(k, c, l, m, s, n)
  BY <1>1, <1>2, <1>3 DEF Gone, DrainedWell
<1> QED BY <1>2, <1>4 DEF s

-----------------------------------------------------------------------------
(* Key data buffered, one byte after the other.                            *)

\* The keyboard k after i bytes of key data.
Stored(k, h, m, i, s) ==
    /\ Ring(s) /\ Upward(s.queue, h, m + i)
    /\ Len(s.queue) = Len(k.queue) + i /\ s.keys = k.keys + i
    /\ Prompt(k) => Prompt(s)

Key(i) == Byte("key", made + i, "keyboard")

StoredRun(g, k, n) == g = [i \in 0 .. n |-> IF i = 0 THEN k ELSE Buffer(g[i - 1], Key(i))]

\* What a burst of key data makes of the keyboard, as the last value of its loop.
LEMMA BufferedIs ==
    ASSUME NEW k, NEW n, \E g : StoredRun(g, k, n)
    PROVE  \E g : StoredRun(g, k, n) /\ Buffered(k, n) = g[n]
<1> DEFINE f == CHOOSE g : StoredRun(g, k, n)
<1>1. StoredRun(f, k, n)
  OBVIOUS
<1>2. Buffered(k, n) = f[n]
  BY DEF Buffered, StoredRun, Key
<1> HIDE DEF f
<1> QED BY <1>1, <1>2

\* One more byte of the burst is taken.
LEMMA StoredStep ==
    ASSUME NEW k, Ring(k), NEW h, made \in Nat, NEW n \in Nat, k.keys + n <= KeyRoom,
           NEW i \in 1 .. n, NEW s, Stored(k, h, made, i - 1, s)
    PROVE  Stored(k, h, made, i, Buffer(s, Key(i)))
<1> DEFINE b == Key(i)
           j == i - 1
<1>1. /\ b \in Bytes /\ Keyed(b) /\ b.n = (made + j) + 1
      /\ j \in Nat /\ made + j \in Nat /\ (made + j) + 1 = made + i
  BY DEF Key, Byte, Bytes, Values, Keyed
<1>2. k.keys \in Nat /\ Len(k.queue) \in Nat /\ KeyRoom \in Nat
  BY RingFields, Rooms
<1>3. ~BufferFull(s)
  <2>1. s.keys = k.keys + j
    BY DEF Stored
  <2> QED BY <1>2, <2>1 DEF BufferFull
<1>4. Ring(s) /\ Upward(s.queue, h, made + j)
  BY DEF Stored
<1> HIDE DEF b
<1>5. /\ Ring(Buffer(s, b)) /\ Upward(Buffer(s, b).queue, h, (made + j) + 1)
      /\ Len(Buffer(s, b).queue) = Len(s.queue) + 1
      /\ Buffer(s, b).keys = s.keys + 1
      /\ Prompt(s) => Prompt(Buffer(s, b))
  BY <1>1, <1>3, <1>4, Buffers
<1>6. Len(s.queue) = Len(k.queue) + j /\ s.keys = k.keys + j
  BY DEF Stored
<1>7. /\ Len(Buffer(s, b).queue) = Len(k.queue) + i
      /\ Buffer(s, b).keys = k.keys + i
  <2> DEFINE y == k.keys
             z == Len(k.queue)
  <2>1. y \in Nat /\ z \in Nat /\ Len(Buffer(s, b).queue) = (z + j) + 1 /\ Buffer(s, b).keys = (y + j) + 1
    BY <1>2, <1>5, <1>6
  <2> HIDE DEF y, z
  <2>2. (z + j) + 1 = z + i /\ (y + j) + 1 = y + i
    BY <2>1
  <2> QED BY <2>1, <2>2 DEF y, z
<1> QED BY <1>1, <1>5, <1>7 DEF Stored, b

\* A burst for which there is room is taken whole.
LEMMA Stores ==
    ASSUME NEW k, Ring(k), NEW h, made \in Nat, Upward(k.queue, h, made), NEW n \in Nat, k.keys + n <= KeyRoom
    PROVE  Stored(k, h, made, n, Buffered(k, n))
<1> DEFINE S == Keyboards
           D == [j \in 1 .. n |-> [s \in S |-> IF Stored(k, h, made, j - 1, s) THEN Buffer(s, Key(j)) ELSE s]]
<1>2. k \in S /\ Stored(k, h, made, 0, k)
  <2> DEFINE y == k.keys
             z == Len(k.queue)
  <2>1. y \in Nat /\ z \in Nat /\ k \in S
    BY RingFields
  <2> HIDE DEF y, z
  <2>2. y = y + 0 /\ z = z + 0 /\ made = made + 0
    BY <2>1
  <2> QED BY <2>1, <2>2 DEF Stored, y, z
<1>3. ASSUME NEW j \in 1 .. n, NEW s, Stored(k, h, made, j - 1, s)
      PROVE  Stored(k, h, made, j, Buffer(s, Key(j))) /\ Buffer(s, Key(j)) \in S
  <2>1. Stored(k, h, made, j, Buffer(s, Key(j)))
    BY <1>3, StoredStep
  <2> QED BY <2>1 DEF Stored, Ring
<1>4. D \in [1 .. n -> [S -> S]]
  BY <1>3
<1>5. \E g \in [0 .. n -> S] : IsRun(g, n, k, D)
  <2> HIDE DEF D, S
  <2> QED BY <1>2, <1>4, LoopRuns
<1>6. PICK g \in [0 .. n -> S] : IsRun(g, n, k, D)
  BY <1>5
<1>7. \A i \in 0 .. n : Stored(k, h, made, i, g[i])
  <2> DEFINE U == {i \in 0 .. n : Stored(k, h, made, i, g[i])}
  <2>1. 0 \in U
    <3>1. g[0] = k /\ 0 \in 0 .. n
      BY <1>6 DEF IsRun
    <3> QED BY <1>2, <3>1
  <2>2. ASSUME NEW j \in 1 .. n, j - 1 \in U PROVE j \in U
    <3>1. j \in 0 .. n /\ j # 0 /\ j - 1 \in 0 .. n
      OBVIOUS
    <3>2. g[j] = D[j][g[j - 1]]
      <4> HIDE DEF D
      <4> QED BY <1>6, <3>1 DEF IsRun
    <3>3. g[j - 1] \in S /\ Stored(k, h, made, j - 1, g[j - 1])
      BY <1>6, <2>2, <3>1
    <3>4. g[j] = Buffer(g[j - 1], Key(j))
      BY <3>2, <3>3
    <3> QED BY <1>3, <3>1, <3>3, <3>4
  <2> HIDE DEF U
  <2>3. \A j \in 0 .. n : j \in U
    BY <2>1, <2>2, BoundedInduction
  <2> QED BY <2>3 DEF U
<1>8. StoredRun(g, k, n)
  <2>1. ASSUME NEW j \in 0 .. n PROVE g[j] = IF j = 0 THEN k ELSE Buffer(g[j - 1], Key(j))
    <3>1. CASE j = 0
      BY <1>6, <3>1 DEF IsRun
    <3>2. CASE j # 0
      <4>1. j \in 1 .. n /\ j - 1 \in 0 .. n
        BY <3>2
      <4>2. g[j] = D[j][g[j - 1]]
        <5> HIDE DEF D
        <5> QED BY <1>6, <3>2 DEF IsRun
      <4>3. g[j - 1] \in S /\ Stored(k, h, made, j - 1, g[j - 1])
        BY <1>6, <1>7, <4>1
      <4>4. g[j] = Buffer(g[j - 1], Key(j))
        BY <4>1, <4>2, <4>3
      <4> QED BY <3>2, <4>4
    <3> QED BY <3>1, <3>2
  <2>2. g = [j \in 0 .. n |-> g[j]]
    BY <1>6
  <2> HIDE DEF S, D
  <2>3. g = [j \in 0 .. n |-> IF j = 0 THEN k ELSE Buffer(g[j - 1], Key(j))]
    BY <2>1, <2>2
  <2> QED BY <2>3 DEF StoredRun
<1>9. PICK f : StoredRun(f, k, n) /\ Buffered(k, n) = f[n]
  BY <1>8, BufferedIs
<1>10. \A i \in 0 .. n : Stored(k, h, made, i, f[i])
  <2> DEFINE U == {i \in 0 .. n : Stored(k, h, made, i, f[i])}
  <2>0. f = [i \in 0 .. n |-> IF i = 0 THEN k ELSE Buffer(f[i - 1], Key(i))]
    BY <1>9 DEF StoredRun
  <2>1. 0 \in U
    <3>1. f[0] = k /\ 0 \in 0 .. n
      BY <2>0
    <3> QED BY <1>2, <3>1
  <2>2. ASSUME NEW j \in 1 .. n, j - 1 \in U PROVE j \in U
    <3>1. j \in 0 .. n /\ j # 0
      OBVIOUS
    <3>2. f[j] = Buffer(f[j - 1], Key(j))
      BY <2>0, <3>1
    <3>3. Stored(k, h, made, j - 1, f[j - 1])
      BY <2>2
    <3> QED BY <1>3, <3>1, <3>2, <3>3
  <2> HIDE DEF U
  <2>3. \A j \in 0 .. n : j \in U
    BY <2>1, <2>2, BoundedInduction
  <2> QED BY <2>3 DEF U
<1>11. n \in 0 .. n
  OBVIOUS
<1> QED BY <1>9, <1>10, <1>11

-----------------------------------------------------------------------------
(* The processor's writes to the channel.                                  *)

\* The receiver moves nothing, or what waited in it is thrown away and counted.
Cleared(c, d) ==
    /\ Channel(d) /\ Answered(d) = Answered(c)
    /\ Still(c, d) \/ (d.fifo = <<>> /\ d.shift = <<>>)

\* Nothing moved is one way of having nothing unseen.
LEMMA StillCleared ==
    ASSUME NEW c, NEW d, Still(c, d)
    PROVE  Cleared(c, d)
<1>1. Answered(d) = Answered(c)
  BY StillAnswered
<1> QED BY <1>1 DEF Cleared, Still

\* A receiver cleared, or not, and then left alone.
LEMMA ClearedStill ==
    ASSUME NEW c, NEW d, NEW e, Channel(c), Cleared(c, d), Still(d, e)
    PROVE  Cleared(c, e)
<1>1. Answered(e) = Answered(d) /\ Channel(e) /\ e.shift = d.shift /\ Len(e.fifo) = Len(d.fifo)
  BY StillAnswered DEF Still, Alike
<1>2. Answered(e) = Answered(c)
  BY <1>1 DEF Cleared
<1>3. CASE Still(c, d)
  BY <1>1, <1>2, <1>3, StillStill DEF Cleared
<1>4. CASE d.fifo = <<>> /\ d.shift = <<>>
  <2>1. e.fifo = <<>> /\ e.shift = <<>>
    <3>1. Len(d.fifo) = 0
      BY <1>4
    <3>2. ~(Len(e.fifo) > 0)
      BY <1>1, <3>1
    <3> QED BY <1>1, <1>4, <3>2, Fields
  <2> QED BY <1>1, <1>2, <2>1 DEF Cleared
<1> QED BY <1>3, <1>4 DEF Cleared

\* Clearing the receiver keeps the order.
LEMMA ClearedOrdered ==
    ASSUME NEW c, NEW d, NEW l, NEW h, Ordered(c, l, h), Cleared(c, d)
    PROVE  Ordered(d, l, h)
<1>1. l \in Nat /\ h \in Nat /\ l <= h
  BY DEF Ordered
<1> QED BY <1>1, OrderedStill, OrderedEmpty DEF Cleared

\* Fields of the channel that hold no byte of the receiver.
Aside(c, d) ==
    /\ d \in Channels(Bytes) /\ d.flushed = c.flushed /\ d.drops = c.drops
    /\ d.fifo = c.fifo /\ d.shift = c.shift /\ Len(d.hold) <= 1

\* A change of other fields moves no byte.
LEMMA AsideStill ==
    ASSUME NEW c, NEW d, Channel(c), Aside(c, d)
    PROVE  Still(c, d)
BY DEF Aside, Channel, Still, Alike

\* Programming the modes moves no byte.
LEMMA ModeStill ==
    ASSUME NEW c, Channel(c), NEW one \in Mr1, NEW two \in Mr2
    PROVE  Still(c, WriteMode(c, one, two))
<1>0. c \in Channels(Bytes) /\ Len(c.hold) <= 1
  BY Fields DEF Channel
<1>1. Aside(c, [c EXCEPT !.mr2 = two])
  BY <1>0 DEF Channels, Aside
<1>2. Aside(c, [c EXCEPT !.mr1 = one, !.second = TRUE])
  BY <1>0 DEF Channels, Aside
<1> QED BY <1>1, <1>2, AsideStill DEF WriteMode

\* A new clock select moves no byte.
LEMMA RateStill ==
    ASSUME NEW c, Channel(c), NEW matches \in BOOLEAN
    PROVE  Still(c, [c EXCEPT !.rate = matches])
<1>0. c \in Channels(Bytes) /\ Len(c.hold) <= 1
  BY Fields DEF Channel
<1>1. Aside(c, [c EXCEPT !.rate = matches])
  BY <1>0 DEF Channels, Aside
<1> QED BY <1>1, AsideStill

\* A break seen by the receiver in local loopback.
LEMMA BreakStill ==
    ASSUME NEW c, Channel(c), NEW starting \in BOOLEAN
    PROVE  Still(c, LoopBreak(c, starting))
<1>0. c \in Channels(Bytes) /\ Len(c.hold) <= 1
  BY Fields DEF Channel
<1> DEFINE sr  == With(c.sr, {"break"}, starting)
           isr == c.isr \cup {"break"}
           d   == [c EXCEPT !.sr = sr, !.isr = isr]
<1>1. sr \in SUBSET StatusBits /\ isr \in SUBSET {"txrdy", "rxrdy", "break"}
  BY <1>0 DEF With, Channels, StatusBits, FifoErrors
<1>2. LoopBreak(c, starting) = IF c.mr2.mode # "local" \/ ~c.rx THEN c ELSE d
  BY DEF LoopBreak
<1> HIDE DEF sr, isr
<1>3. Aside(c, d)
  BY <1>0, <1>1 DEF Channels, Aside
<1>4. Aside(c, c)
  BY <1>0 DEF Aside
<1> QED BY <1>2, <1>3, <1>4, AsideStill

\* The reset receiver command counts all that it throws away.
LEMMA ResetClears ==
    ASSUME NEW c, Channel(c)
    PROVE  Cleared(c, ResetReceiver(c))
<1> DEFINE n  == c.flushed + Len(c.fifo) + Len(c.shift)
           no == <<>>
           nx == <<>>
           sr == c.sr \ {"rxrdy", "ffull"}
           d  == [c EXCEPT !.flushed = n, !.fifo = no, !.shift = nx, !.rx = FALSE, !.sr = sr]
<1>0. c \in Channels(Bytes) /\ Len(c.hold) <= 1
  BY Fields DEF Channel
<1>1. /\ n \in Nat /\ no \in Seq(Cell) /\ nx \in Seq(Bytes) /\ no = <<>> /\ nx = <<>> /\ sr \in SUBSET StatusBits
      /\ Len(no) = 0 /\ Len(nx) = 0
  BY Fields
<1>2. ResetReceiver(c) = d
  BY DEF ResetReceiver
<1> HIDE DEF n, no, nx, sr
<1>3. /\ d \in Channels(Bytes) /\ d.flushed = n /\ d.fifo = no /\ d.shift = nx
      /\ d.hold = c.hold /\ d.drops = c.drops
  BY <1>0, <1>1 DEF Channels, Cell
<1> HIDE DEF d
<1>4. Channel(d)
  BY <1>0, <1>1, <1>3, FifoAssumption DEF Channel
<1>5. Answered(d) = Answered(c)
  <2> DEFINE w == c.flushed
             x == c.drops
             y == Len(c.fifo)
             z == Len(c.shift)
  <2>1. w \in Nat /\ x \in Nat /\ y \in Nat /\ z \in Nat
    BY Fields
  <2>2. Answered(c) = w + x + y + z /\ Answered(d) = (w + y + z) + x + 0 + 0
    BY <1>1, <1>3 DEF Answered, n
  <2> HIDE DEF w, x, y, z
  <2> QED BY <2>1, <2>2
<1> QED BY <1>1, <1>2, <1>3, <1>4, <1>5 DEF Cleared

\* A miscellaneous command.
LEMMA MiscClears ==
    ASSUME NEW c, Channel(c), NEW command \in MiscCommands
    PROVE  Cleared(c, Misc(c, command))
<1>0. c \in Channels(Bytes) /\ Len(c.hold) <= 1
  BY Fields DEF Channel
<1>1. CASE command = "none"
  <2>1. Misc(c, command) = c
    BY <1>1 DEF Misc
  <2>2. Aside(c, c)
    BY <1>0 DEF Aside
  <2> QED BY <2>1, <2>2, AsideStill, StillCleared
<1>2. CASE command = "reset pointer"
  <2> DEFINE d == [c EXCEPT !.second = FALSE]
  <2>1. Misc(c, command) = d
    BY <1>2 DEF Misc
  <2>2. Aside(c, d)
    BY <1>0 DEF Channels, Aside
  <2> QED BY <2>1, <2>2, AsideStill, StillCleared
<1>3. CASE command = "reset receiver"
  BY <1>3, ResetClears DEF Misc
<1>4. CASE command = "reset transmitter"
  <2> DEFINE no == <<>>
             sr == c.sr \ {"txrdy", "txemt"}
             d  == [c EXCEPT !.tx = FALSE, !.hold = no, !.sr = sr]
  <2>1. Misc(c, command) = d
    BY <1>4 DEF Misc
  <2>2. no \in Seq(Bytes) /\ Len(no) = 0 /\ sr \in SUBSET StatusBits
    BY Fields
  <2> HIDE DEF no, sr
  <2>2a. /\ d \in Channels(Bytes) /\ d.flushed = c.flushed /\ d.fifo = c.fifo /\ d.shift = c.shift
         /\ d.hold = no /\ d.drops = c.drops
    BY <1>0, <2>2 DEF Channels
  <2>3. Aside(c, d)
    <3> HIDE DEF d
    <3> QED BY <2>2, <2>2a DEF Aside
  <2> QED BY <2>1, <2>3, AsideStill, StillCleared
<1>5. CASE command = "reset error"
  <2> DEFINE sr == c.sr \ (FifoErrors \cup {"overrun"})
             d  == [c EXCEPT !.sr = sr]
  <2>1. Misc(c, command) = d
    BY <1>5 DEF Misc
  <2>2. sr \in SUBSET StatusBits
    BY Fields
  <2> HIDE DEF sr
  <2>3. Aside(c, d)
    BY <1>0, <2>2 DEF Channels, Aside
  <2> QED BY <2>1, <2>3, AsideStill, StillCleared
<1>6. CASE command = "reset break"
  <2> DEFINE isr == c.isr \ {"break"}
             d   == [c EXCEPT !.isr = isr]
  <2>1. Misc(c, command) = d
    BY <1>6 DEF Misc
  <2>2. isr \in SUBSET {"txrdy", "rxrdy", "break"}
    BY <1>0 DEF Channels
  <2> HIDE DEF isr
  <2>3. Aside(c, d)
    BY <1>0, <2>2 DEF Channels, Aside
  <2> QED BY <2>1, <2>3, AsideStill, StillCleared
<1>7. CASE command = "start break"
  <2> DEFINE d   == [c EXCEPT !.brk = TRUE]
             yes == TRUE
  <2>1. Misc(c, command) = IF c.tx THEN LoopBreak(d, yes) ELSE c
    BY <1>7 DEF Misc
  <2>2. Aside(c, d) /\ Aside(c, c)
    BY <1>0 DEF Channels, Aside
  <2>3. yes \in BOOLEAN
    OBVIOUS
  <2> HIDE DEF d, yes
  <2>4. Still(c, d) /\ Still(c, c) /\ Channel(d)
    BY <2>2, AsideStill DEF Still
  <2>5. Still(d, LoopBreak(d, yes))
    BY <2>3, <2>4, BreakStill
  <2> QED BY <2>1, <2>4, <2>5, StillStill, StillCleared
<1>8. CASE command = "stop break"
  <2> DEFINE no == FALSE
             r  == IF c.brk THEN LoopBreak(c, no) ELSE c
             d  == [r EXCEPT !.brk = FALSE]
  <2>1. Misc(c, command) = d
    BY <1>8 DEF Misc
  <2>2. no \in BOOLEAN /\ Aside(c, c)
    BY <1>0 DEF Aside
  <2> HIDE DEF no
  <2>3. Still(c, r)
    BY <2>2, AsideStill, BreakStill
  <2> HIDE DEF r
  <2>4. Channel(r) /\ r \in Channels(Bytes) /\ Len(r.hold) <= 1
    BY <2>3 DEF Still, Channel
  <2>5. Aside(r, d)
    BY <2>4 DEF Channels, Aside
  <2>6. Still(r, d)
    BY <2>4, <2>5, AsideStill
  <2> QED BY <2>1, <2>3, <2>6, StillStill, StillCleared
<1> QED BY <1>1, <1>2, <1>3, <1>4, <1>5, <1>6, <1>7, <1>8 DEF MiscCommands

\* A write to the command register.
LEMMA CommandClears ==
    ASSUME NEW c, Channel(c), NEW command \in MiscCommands, NEW enables
    PROVE  Cleared(c, WriteCommand(c, command, enables))
<1> DEFINE m  == Misc(c, command)
           rx == ("enable rx" \in enables \/ m.rx) /\ "disable rx" \notin enables
           tx == ("enable tx" \in enables \/ m.tx) /\ "disable tx" \notin enables
           s1 == m.sr \cup (IF "enable tx" \in enables THEN {"txrdy"} ELSE {})
           r  == [m EXCEPT !.rx = rx, !.tx = tx, !.sr = s1]
           s2 == r.sr \ {"txrdy", "txemt"}
           q  == IF "disable tx" \in enables THEN [r EXCEPT !.sr = s2] ELSE r
<1>1. WriteCommand(c, command, enables) = RefreshChannelInterrupts(q)
  BY DEF WriteCommand
<1>2. Cleared(c, m)
  BY MiscClears
<1> HIDE DEF m
<1>3. Channel(m) /\ m \in Channels(Bytes) /\ Len(m.hold) <= 1
  BY <1>2 DEF Cleared, Channel
<1>4. rx \in BOOLEAN /\ tx \in BOOLEAN /\ s1 \in SUBSET StatusBits
  BY <1>3, Fields DEF StatusBits
<1> HIDE DEF rx, tx, s1
<1>5. Aside(m, r)
  BY <1>3, <1>4 DEF Channels, Aside
<1>6. Still(m, r) /\ Channel(r) /\ r \in Channels(Bytes) /\ Len(r.hold) <= 1
  BY <1>3, <1>5, AsideStill DEF Still, Channel
<1> HIDE DEF r
<1>7. s2 \in SUBSET StatusBits
  BY <1>6, Fields
<1> HIDE DEF s2
<1>8. Aside(r, [r EXCEPT !.sr = s2]) /\ Aside(r, r)
  BY <1>6, <1>7 DEF Channels, Aside
<1>9. Still(r, q) /\ Channel(q)
  BY <1>6, <1>8, AsideStill DEF Still
<1> HIDE DEF q
<1>10. Still(q, RefreshChannelInterrupts(q))
  BY <1>9, RefreshStill
<1>11. Still(m, RefreshChannelInterrupts(q))
  BY <1>3, <1>6, <1>9, <1>10, StillStill
<1> QED BY <1>1, <1>2, <1>11, ClearedStill

\* A write of the transmit buffer: a byte to the far end, or in local loopback to the
\* channel's own receiver.
LEMMA WriteTakes ==
    ASSUME NEW c, Channel(c), NEW b \in Bytes
    PROVE  /\ c.tx /\ c.mr2.mode = "local" => Took(c, b, WriteBuffer(c, b))
           /\ ~(c.tx /\ c.mr2.mode = "local") => Still(c, WriteBuffer(c, b))
<1>0. c \in Channels(Bytes) /\ Len(c.hold) <= 1
  BY Fields DEF Channel
<1>1. CASE c.tx /\ c.mr2.mode = "local"
  BY <1>1, ReceiveTakes DEF WriteBuffer
<1>2. CASE ~c.tx
  <2>1. WriteBuffer(c, b) = c
    BY <1>2 DEF WriteBuffer
  <2>2. Aside(c, c)
    BY <1>0 DEF Aside
  <2> QED BY <1>2, <2>1, <2>2, AsideStill
<1>3. CASE c.tx /\ c.mr2.mode # "local"
  <2> DEFINE s  == <<b>>
             sr == c.sr \ {"txrdy", "txemt"}
             d  == [c EXCEPT !.hold = s, !.sr = sr]
  <2>1. WriteBuffer(c, b) = RefreshChannelInterrupts(d)
    BY <1>3 DEF WriteBuffer
  <2>2. s \in Seq(Bytes) /\ Len(s) <= 1 /\ sr \in SUBSET StatusBits
    BY Fields
  <2> HIDE DEF s, sr
  <2>3. /\ d \in Channels(Bytes) /\ d.flushed = c.flushed /\ d.fifo = c.fifo /\ d.shift = c.shift
        /\ d.hold = s /\ d.drops = c.drops
    BY <1>0, <2>2 DEF Channels
  <2> HIDE DEF d
  <2>4. Still(c, d) /\ Channel(d)
    BY <2>2, <2>3, AsideStill DEF Aside, Still
  <2>5. Still(d, RefreshChannelInterrupts(d))
    BY <2>4, RefreshStill
  <2> QED BY <1>3, <2>1, <2>4, <2>5, StillStill
<1> QED BY <1>1, <1>2, <1>3

\* The channel that the processor has programmed is empty.
LEMMA Starting ==
    ASSUME NEW one \in Mr1, NEW two \in Mr2, NEW matches \in BOOLEAN
    PROVE  LET c == Programmed(one, two, matches)
           IN  Channel(c) /\ Answered(c) = 0 /\ c.fifo = <<>> /\ c.shift = <<>>
<1> DEFINE r == ResetChannel
           w == WriteMode(r, one, two)
           x == WriteMode(w, one, two)
           y == [x EXCEPT !.rate = matches]
           cmd == "none"
           en == {"enable rx", "enable tx"}
           z == WriteCommand(y, cmd, en)
<1>1. Programmed(one, two, matches) = z
  BY DEF Programmed
<1>2. /\ r \in Channels(Bytes) /\ r.fifo = <<>> /\ r.shift = <<>> /\ r.hold = <<>>
      /\ r.flushed = 0 /\ r.drops = 0
  <2>1. /\ [full |-> FALSE, block |-> FALSE, rts |-> FALSE, parity |-> "same"] \in Mr1
        /\ [mode |-> "normal", cts |-> FALSE, rts |-> FALSE] \in Mr2
    BY DEF Mr1, Mr2, Modes
  <2> QED BY <2>1 DEF ResetChannel, Channels
<1>3. cmd \in MiscCommands
  BY DEF MiscCommands
<1> HIDE DEF r, cmd, en
<1>4. Channel(r) /\ Answered(r) = 0
  <2>1. Len(r.fifo) = 0 /\ Len(r.shift) = 0 /\ Len(r.hold) = 0
    BY <1>2
  <2>2. Fifo \in Nat /\ Fifo >= 1
    BY FifoAssumption
  <2> QED BY <1>2, <2>1, <2>2 DEF Channel, Answered
<1>5. Still(r, w) /\ Channel(w)
  BY <1>4, ModeStill DEF Still
<1> HIDE DEF w
<1>6. Still(w, x) /\ Channel(x)
  BY <1>5, ModeStill DEF Still
<1> HIDE DEF x
<1>7. Still(x, y) /\ Channel(y)
  BY <1>6, RateStill DEF Still
<1> HIDE DEF y
<1>8. Still(r, y)
  BY <1>4, <1>5, <1>6, <1>7, StillStill
<1>9. Cleared(y, z)
  BY <1>3, <1>7, CommandClears
<1> HIDE DEF z
<1>10. Len(y.fifo) = 0 /\ Len(y.shift) = 0 /\ Answered(y) = 0
  <2>1. Len(y.fifo) = Len(r.fifo) /\ y.shift = r.shift
    BY <1>8 DEF Still, Alike
  <2> QED BY <1>2, <1>4, <1>8, <2>1, StillAnswered
<1>11. Channel(z) /\ Answered(z) = 0
  BY <1>9, <1>10 DEF Cleared
<1>12. z.fifo = <<>> /\ z.shift = <<>>
  <2>1. CASE Still(y, z)
    <3>1. Len(z.fifo) = 0 /\ Len(z.shift) = 0
      BY <1>10, <2>1 DEF Still, Alike
    <3>2. ~(Len(z.fifo) > 0) /\ Len(z.shift) # 1
      BY <3>1
    <3> QED BY <1>11, <3>2, Fields
  <2> QED BY <1>9, <2>1 DEF Cleared
<1> QED BY <1>1, <1>11, <1>12

-----------------------------------------------------------------------------
(* The inductive invariant.                                                *)

\* The channel and the keyboard are in order, and the next byte is due within one
\* character time.
Lines(c, k, l, m) ==
    /\ Channel(c) /\ Ring(k) /\ Prompt(k)
    /\ InLine(c, k, l, m)

\* The bytes made by the keyboard or in loopback are accounted for, in the order they
\* were made, and a character is awaited only when one was sent.
Sound(c, k, m, g, r, l, t) ==
    /\ Lines(c, k, l, m)
    /\ m \in Nat /\ g \in Nat /\ r \in Nat
    /\ m = g + r + Answered(c) + Len(k.queue)
    /\ t \in Typing /\ (t.pending = TRUE => t.sent > 0)

IInv == Sound(ch, kbd, made, got, mirrored, last, typed)

\* A ring numbered up to m is numbered up to any later number.
LEMMA UpwardLater ==
    ASSUME NEW k, Ring(k), NEW h, NEW m, Upward(k.queue, h, m), NEW n \in Nat
    PROVE  Upward(k.queue, h, m + n)
<1>1. h \in Nat /\ m \in Nat /\ h <= m /\ m + n \in Nat /\ h <= m + n
  BY DEF Upward
<1>2. \A i \in 1 .. Len(k.queue) : k.queue[i].b.n \in Nat
  BY RingFields DEF Bytes
<1>3. \A i \in 1 .. Len(k.queue) : k.queue[i].b.n <= m + n
  BY <1>1, <1>2 DEF Upward
<1> QED BY <1>1, <1>3 DEF Upward

\* The first states.
LEMMA InitSound == Init => IInv
<1> SUFFICES ASSUME Init PROVE IInv
  OBVIOUS
<1>1. PICK one \in Mr1, two \in Mr2, matches \in BOOLEAN : ch = Programmed(one, two, matches)
  BY StartsAssumption DEF Init
<1>2. Channel(ch) /\ Answered(ch) = 0 /\ ch.fifo = <<>> /\ ch.shift = <<>>
  BY <1>1, Starting
<1>3. kbd = KbdReset
  BY DEF Init
<1>4. /\ kbd \in Keyboards /\ kbd.queue = <<>> /\ kbd.keys = 0 /\ kbd.replies = 0 /\ kbd.held = NoKey
  <2> DEFINE no == <<>>
             ms == ""
             dn == {}
  <2>1. no \in Seq(Ringed) /\ ms \in MessagePrefixes /\ dn \in SUBSET Keys
    BY DEF MessagePrefixes
  <2>2. kbd = [down |-> dn, held |-> NoKey, repeat |-> 0, queue |-> no, keys |-> 0,
               replies |-> 0, tx |-> 0, loopback |-> TRUE, keystate |-> FALSE, msg |-> ms]
    BY <1>3 DEF KbdReset
  <2>3. no = <<>>
    OBVIOUS
  <2> HIDE DEF no, ms, dn
  <2>4. kbd \in Keyboards
    BY <2>1, <2>2 DEF Keyboards
  <2> QED BY <2>2, <2>3, <2>4
<1>5. Len(kbd.queue) = 0
  BY <1>4
<1>6. Ring(kbd)
  <2>1. ReplyPlaces(kbd.queue) = {}
    BY <1>5 DEF ReplyPlaces
  <2>2. Cardinality(ReplyPlaces(kbd.queue)) = 0
    BY <2>1, FS_EmptySet
  <2>3. 0 <= KeyRoom /\ 0 <= ReplyRoom
    BY Rooms
  <2> QED BY <1>4, <1>5, <2>2, <2>3 DEF Ring
<1>7. made = 0 /\ got = 0 /\ mirrored = 0 /\ last = 0
  BY DEF Init
<1>8. InLine(ch, kbd, last, made)
  <2>1. Ordered(ch, last, 0)
    <3> DEFINE z == 0
    <3>1. z \in Nat /\ z <= z /\ last = z
      BY <1>7
    <3> HIDE DEF z
    <3>2. Ordered(ch, z, z)
      BY <1>2, <3>1, OrderedEmpty
    <3> QED BY <3>1, <3>2 DEF z
  <2>2. Upward(kbd.queue, 0, made)
    BY <1>5, <1>7 DEF Upward
  <2> QED BY <2>1, <2>2 DEF InLine
<1>9. typed \in Typing /\ (typed.pending = TRUE => typed.sent > 0)
  <2>1. 0 \in 0 .. Len(Script)
    BY SerialAssumption
  <2>2. typed = [sent |-> 0, wait |-> 0, pending |-> FALSE, read |-> FALSE, flushed |-> FALSE]
    BY DEF Init
  <2> QED BY <2>1, <2>2 DEF Typing
<1>10. made = got + mirrored + Answered(ch) + Len(kbd.queue)
  BY <1>2, <1>5, <1>7
<1>11. Lines(ch, kbd, last, made)
  BY <1>2, <1>4, <1>6, <1>8 DEF Lines, Prompt
<1> QED BY <1>7, <1>9, <1>10, <1>11 DEF IInv, Sound

\* A delivery: key data, all of it.
LEMMA Delivers ==
    ASSUME IInv, NEW k, NEW n \in Nat, Ring(k), k.queue = kbd.queue, k.keys = kbd.keys, k.tx = kbd.tx,
           Deliver(k, n), UNCHANGED <<ch, got, mirrored, last>>,
           typed' \in Typing, typed'.pending = TRUE => typed'.sent > 0
    PROVE  IInv'
<1>1. /\ Lines(ch, kbd, last, made) /\ made \in Nat /\ got \in Nat /\ mirrored \in Nat
      /\ made = got + mirrored + Answered(ch) + Len(kbd.queue)
  BY DEF IInv, Sound
<1>2. PICK h \in Nat : Ordered(ch, last, h) /\ Upward(kbd.queue, h, made)
  BY <1>1 DEF Lines, InLine
<1>3. k.keys + n <= KeyRoom
  BY RingFields, Rooms DEF Deliver, KeyboardRoom
<1>4. kbd' = Buffered(k, n) /\ made' = made + n
  BY DEF Deliver
<1> DEFINE j == Buffered(k, n)
<1>5. Stored(k, h, made, n, j)
  BY <1>1, <1>2, <1>3, Stores
<1> HIDE DEF j
<1>6. Ring(j) /\ Upward(j.queue, h, made + n) /\ Len(j.queue) = Len(kbd.queue) + n /\ Prompt(j)
  BY <1>1, <1>5 DEF Stored, Lines, Prompt
<1>7. Lines(ch, j, last, made + n)
  BY <1>1, <1>2, <1>6 DEF Lines, InLine
<1>8. made + n = got + mirrored + Answered(ch) + Len(j.queue)
  <2> DEFINE a == Answered(ch)
             z == Len(kbd.queue)
  <2>1. a \in Nat /\ z \in Nat
    BY <1>1, AnsweredNat, RingFields DEF Lines
  <2>2. made = got + mirrored + a + z /\ Len(j.queue) = z + n
    BY <1>1, <1>6
  <2> HIDE DEF a, z
  <2>3. made + n = got + mirrored + a + (z + n)
    BY <1>1, <2>1, <2>2
  <2> QED BY <2>2, <2>3 DEF a
<1>9. Sound(ch, j, made + n, got, mirrored, last, typed')
  BY <1>1, <1>7, <1>8 DEF Sound
<1> QED BY <1>4, <1>9 DEF IInv, j

\* The typed script's state, by the invariant.
LEMMA TypedSame ==
    ASSUME IInv
    PROVE  typed \in Typing /\ (typed.pending = TRUE => typed.sent > 0)
BY DEF IInv, Sound

\* A key pressed or released, where there is room for its byte.
LEMMA PressKeeps ==
    ASSUME IInv, NEW key \in Keys, KeyPress(key) \/ KeyRelease(key)
    PROVE  IInv'
<1>1. Ring(kbd)
  BY DEF IInv, Sound, Lines
<1>2. 1 \in Nat /\ typed' = typed /\ UNCHANGED <<ch, got, mirrored, last>>
  BY DEF KeyPress, KeyRelease
<1>3. typed' \in Typing /\ (typed'.pending = TRUE => typed'.sent > 0)
  BY <1>2, TypedSame
<1>4. CASE KeyPress(key)
  <2>1. Deliver(Press(kbd, key), 1)
    BY <1>4 DEF KeyPress
  <2> QED BY <1>1, <1>2, <1>3, <2>1, PressRing, Delivers
<1>5. CASE KeyRelease(key)
  <2>1. Deliver(Release(kbd, key), 1)
    BY <1>5 DEF KeyRelease
  <2> QED BY <1>1, <1>2, <1>3, <2>1, PressRing, Delivers
<1> QED BY <1>4, <1>5

\* The mouse moves.
LEMMA MouseKeeps ==
    ASSUME IInv, NEW absolute \in BOOLEAN, MouseMove(absolute)
    PROVE  IInv'
<1>1. Ring(kbd)
  BY DEF IInv, Sound, Lines
<1>2. typed' = typed /\ UNCHANGED <<ch, got, mirrored, last>>
  BY DEF MouseMove
<1>3. typed' \in Typing /\ (typed'.pending = TRUE => typed'.sent > 0)
  BY <1>2, TypedSame
<1> DEFINE n == MousePacket(kbd, absolute)
<1>4. n \in Nat
  BY DEF MousePacket
<1>5. Deliver(kbd, n)
  BY DEF MouseMove
<1> HIDE DEF n
<1> QED BY <1>1, <1>2, <1>3, <1>4, <1>5, Delivers

\* The room for a character.
LEMMA ScriptRoom ==
    ASSUME NEW i \in 1 .. Len(Script)
    PROVE  Script[i] \in Nat
<1>1. Script[i] \in {1, 2}
  BY SerialAssumption
<1> QED BY <1>1

\* The script after its look at the last character: one is sent again only if one was sent.
LEMMA LookedTyped ==
    ASSUME IInv, typed.sent < Len(Script)
    PROVE  /\ Looked \in Typing /\ (Looked.pending = TRUE => Looked.sent > 0)
           /\ Looked.sent + 1 \in 1 .. Len(Script)
<1> DEFINE n == Len(Script)
           t == typed
           x == t.sent
           y == x - 1
<1>1. t \in Typing /\ (t.pending = TRUE => x > 0) /\ x < n
  BY TypedSame
<1>2. x \in 0 .. n /\ n \in Nat /\ t.pending \in BOOLEAN /\ t.read \in BOOLEAN /\ t.flushed \in BOOLEAN
      /\ t.wait \in Int
  BY <1>1, SerialAssumption DEF Typing
<1>3. CASE t.pending /\ t.read
  <2>1. Looked = [t EXCEPT !.pending = FALSE, !.read = FALSE, !.flushed = FALSE]
    BY <1>3 DEF Looked
  <2>2. Looked \in Typing /\ Looked.pending = FALSE /\ Looked.sent = x
    BY <1>1, <2>1 DEF Typing
  <2> HIDE DEF n, x
  <2>3. x + 1 \in 1 .. n
    BY <1>1, <1>2
  <2> QED BY <2>2, <2>3 DEF n, x
<1>4. CASE t.pending /\ ~t.read /\ t.flushed
  <2>1. Looked = [t EXCEPT !.pending = FALSE, !.flushed = FALSE, !.sent = y]
    BY <1>4 DEF Looked
  <2>2. y \in 0 .. n
    <3> HIDE DEF n, x
    <3> QED BY <1>1, <1>2, <1>4
  <2> HIDE DEF y
  <2>3. Looked \in Typing /\ Looked.pending = FALSE /\ Looked.sent = y
    BY <1>1, <2>1, <2>2 DEF Typing
  <2>4. y + 1 \in 1 .. n
    <3> HIDE DEF n, x
    <3> QED BY <1>1, <1>2, <1>4 DEF y
  <2> QED BY <2>3, <2>4 DEF n
<1>5. CASE ~(t.pending /\ t.read) /\ ~(t.pending /\ ~t.read /\ t.flushed)
  <2>1. Looked = t
    BY <1>5 DEF Looked
  <2> HIDE DEF n, x
  <2>3. x + 1 \in 1 .. n
    BY <1>1, <1>2
  <2> QED BY <1>1, <2>1, <2>3 DEF n, x
<1> QED BY <1>3, <1>4, <1>5

\* A character of the script is sent, skipped, or sent again.
LEMMA TypingKeeps ==
    ASSUME IInv, TypedDeliver
    PROVE  IInv'
<1>1. typed.sent < Len(Script) /\ UNCHANGED <<ch, got, mirrored, last>>
  BY DEF TypedDeliver
<1>2. /\ Looked \in Typing /\ (Looked.pending = TRUE => Looked.sent > 0)
      /\ Looked.sent + 1 \in 1 .. Len(Script)
  BY <1>1, LookedTyped
<1> DEFINE x == Looked.sent + 1
<1>3. Len(Script) \in Nat
  BY SerialAssumption
<1>4. x \in 0 .. Len(Script) /\ x > 0
  <2> DEFINE n == Len(Script)
  <2> HIDE DEF n, x
  <2> QED BY <1>2, <1>3 DEF n, x
<1>5. CASE typed' = Looked /\ UNCHANGED <<kbd, made>>
  <2>1. Sound(ch, kbd, made, got, mirrored, last, typed')
    BY <1>2, <1>5 DEF IInv, Sound
  <2> QED BY <1>1, <1>5, <2>1 DEF IInv
<1>6. CASE /\ Deliver(kbd, Script[x])
           /\ typed' = [sent |-> x, wait |-> TxCharacter, pending |-> TRUE, read |-> FALSE, flushed |-> FALSE]
  <2> HIDE DEF x
  <2>1. typed' \in Typing /\ typed'.sent > 0
    BY <1>4, <1>6, Rooms DEF Typing
  <2>2. Script[x] \in Nat /\ Ring(kbd)
    BY <1>2, ScriptRoom DEF IInv, Sound, Lines, x
  <2> QED BY <1>1, <1>6, <2>1, <2>2, Delivers
<1>7. CASE /\ typed' = [Looked EXCEPT !.sent = @ + 1]
           /\ UNCHANGED <<kbd, made>>
  <2>0. typed' = [Looked EXCEPT !.sent = x]
    BY <1>7
  <2> HIDE DEF x
  <2>1. typed' \in Typing /\ typed'.sent > 0
    BY <1>2, <1>4, <2>0 DEF Typing
  <2>2. Sound(ch, kbd, made, got, mirrored, last, typed')
    BY <2>1 DEF IInv, Sound
  <2> QED BY <1>1, <1>7, <2>2 DEF IInv
<1> QED BY <1>5, <1>6, <1>7 DEF TypedDeliver

\* What a step makes of the frontend's record of a byte thrown away.
LEMMA FlushTyped ==
    ASSUME IInv, NEW f \in BOOLEAN, typed' = [typed EXCEPT !.flushed = f]
    PROVE  typed' \in Typing /\ (typed'.pending = TRUE => typed'.sent > 0)
<1>1. typed \in Typing /\ (typed.pending = TRUE => typed.sent > 0)
  BY TypedSame
<1>2. typed' \in Typing /\ typed'.pending = typed.pending /\ typed'.sent = typed.sent
  BY <1>1 DEF Typing
<1> QED BY <1>1, <1>2

\* A read of the receive buffer.
LEMMA ReadKeeps ==
    ASSUME IInv, ReadRb
    PROVE  IInv'
<1>1. /\ Lines(ch, kbd, last, made) /\ made \in Nat /\ got \in Nat /\ mirrored \in Nat
      /\ made = got + mirrored + Answered(ch) + Len(kbd.queue)
  BY DEF IInv, Sound
<1>2. /\ UNCHANGED <<kbd, made, mirrored>> /\ ch' = ReadBuffer(ch)
      /\ typed' = [typed EXCEPT !.read = @ \/ typed.pending]
  BY DEF ReadRb
<1>3. typed' \in Typing /\ (typed'.pending = TRUE => typed'.sent > 0)
  <2>1. typed \in Typing /\ (typed.pending = TRUE => typed.sent > 0)
    BY TypedSame
  <2>2. typed' \in Typing /\ typed'.pending = typed.pending /\ typed'.sent = typed.sent
    BY <1>2, <2>1 DEF Typing
  <2> QED BY <2>1, <2>2
<1>4. PICK h \in Nat : Ordered(ch, last, h) /\ Upward(kbd.queue, h, made)
  BY <1>1 DEF Lines, InLine
<1>5. CASE ch.fifo = <<>>
  <2>1. ch' = ch /\ UNCHANGED <<got, last>>
    BY <1>2, <1>5 DEF ReadRb, ReadBuffer
  <2>2. Sound(ch, kbd, made, got, mirrored, last, typed')
    BY <1>1, <1>3 DEF Sound
  <2> QED BY <1>2, <2>1, <2>2 DEF IInv
<1>6. CASE ch.fifo # <<>>
  <2> DEFINE d == ReadBuffer(ch)
             g == IF ch.fifo[1].b.by = "keyboard" THEN ch.fifo[1].b.n ELSE last
  <2>1. got' = got + 1 /\ last' = g
    BY <1>6 DEF ReadRb
  <2>2. Channel(ch)
    BY <1>1 DEF Lines
  <2>3. Read(ch, d)
    BY <1>6, <2>2, ReadMoves
  <2>4. /\ Keyed(ch.fifo[1].b) => g = ch.fifo[1].b.n
        /\ ~Keyed(ch.fifo[1].b) => g = last
    BY DEF Keyed
  <2> HIDE DEF d, g
  <2>5. Ordered(d, g, h)
    BY <1>4, <1>6, <2>2, <2>3, <2>4, OrderedRead
  <2>6. Lines(d, kbd, g, made)
    BY <1>1, <1>4, <2>3, <2>5 DEF Lines, InLine, Read
  <2>7. made = (got + 1) + mirrored + Answered(d) + Len(kbd.queue)
    <3> DEFINE a == Answered(d)
               z == Len(kbd.queue)
    <3>1. a \in Nat /\ z \in Nat
      BY <1>1, <2>3, AnsweredNat, RingFields DEF Lines, Read
    <3>2. made = got + mirrored + (a + 1) + z
      BY <1>1, <2>3 DEF Read
    <3> HIDE DEF a, z
    <3>3. made = (got + 1) + mirrored + a + z
      BY <1>1, <3>1, <3>2
    <3> QED BY <3>3 DEF a, z
  <2>8. Sound(d, kbd, made, got + 1, mirrored, g, typed')
    BY <1>1, <1>3, <2>6, <2>7 DEF Sound
  <2> QED BY <1>2, <2>1, <2>8 DEF IInv, d
<1> QED BY <1>5, <1>6

\* A step that moves no byte of the receiver, or throws it away and counts it.
LEMMA ClearedKeeps ==
    ASSUME IInv, Cleared(ch, ch'), UNCHANGED <<kbd, made, got, mirrored, last>>,
           typed' \in Typing, typed'.pending = TRUE => typed'.sent > 0
    PROVE  IInv'
<1>1. /\ Lines(ch, kbd, last, made) /\ made \in Nat /\ got \in Nat /\ mirrored \in Nat
      /\ made = got + mirrored + Answered(ch) + Len(kbd.queue)
  BY DEF IInv, Sound
<1>2. PICK h \in Nat : Ordered(ch, last, h) /\ Upward(kbd.queue, h, made)
  BY <1>1 DEF Lines, InLine
<1> DEFINE d == ch'
<1>3. Cleared(ch, d)
  OBVIOUS
<1> HIDE DEF d
<1>4. Ordered(d, last, h)
  BY <1>2, <1>3, ClearedOrdered
<1>5. Lines(d, kbd, last, made)
  BY <1>1, <1>2, <1>3, <1>4 DEF Lines, InLine, Cleared
<1>6. Sound(d, kbd, made, got, mirrored, last, typed')
  BY <1>1, <1>3, <1>5 DEF Sound, Cleared
<1> QED BY <1>6 DEF IInv, d

\* The processor programs the channel.
LEMMA ControlKeeps ==
    ASSUME IInv,
           \/ \E command \in Miscs, enables \in Enables : WriteCr(command, enables)
           \/ \E one \in Mr1s, two \in Mr2s : WriteMr(one, two)
           \/ \E matches \in BOOLEAN : WriteCsr(matches)
    PROVE  IInv'
<1>1. Channel(ch)
  BY DEF IInv, Sound, Lines
<1>2. typed \in Typing /\ (typed.pending = TRUE => typed.sent > 0)
  BY TypedSame
<1>3. ASSUME NEW command \in Miscs, NEW enables \in Enables, WriteCr(command, enables)
      PROVE  IInv'
  <2>1. command \in MiscCommands
    BY SerialAssumption
  <2>2. Cleared(ch, ch')
    BY <1>1, <1>3, <2>1, CommandClears DEF WriteCr
  <2> DEFINE f == typed.flushed \/ (typed.pending /\ ch'.flushed # ch.flushed)
  <2>3. typed' = [typed EXCEPT !.flushed = f] /\ UNCHANGED <<kbd, made, got, mirrored, last>>
    BY <1>3 DEF WriteCr
  <2>4. f \in BOOLEAN
    OBVIOUS
  <2> HIDE DEF f
  <2>5. typed' \in Typing /\ (typed'.pending = TRUE => typed'.sent > 0)
    BY <2>3, <2>4, FlushTyped
  <2> QED BY <2>2, <2>3, <2>5, ClearedKeeps
<1>4. ASSUME NEW one \in Mr1s, NEW two \in Mr2s, WriteMr(one, two)
      PROVE  IInv'
  <2>1. one \in Mr1 /\ two \in Mr2
    BY SerialAssumption
  <2>2. Cleared(ch, ch')
    BY <1>1, <1>4, <2>1, ModeStill, StillCleared DEF WriteMr
  <2>3. typed' = typed /\ UNCHANGED <<kbd, made, got, mirrored, last>>
    BY <1>4 DEF WriteMr
  <2> QED BY <1>2, <2>2, <2>3, ClearedKeeps
<1>5. ASSUME NEW matches \in BOOLEAN, WriteCsr(matches)
      PROVE  IInv'
  <2>2. Cleared(ch, ch')
    BY <1>1, <1>5, RateStill, StillCleared DEF WriteCsr
  <2>3. typed' = typed /\ UNCHANGED <<kbd, made, got, mirrored, last>>
    BY <1>5 DEF WriteCsr
  <2> QED BY <1>2, <2>2, <2>3, ClearedKeeps
<1> QED BY <1>3, <1>4, <1>5

\* A write of the transmit buffer: in local loopback a byte is made.
LEMMA WriteKeeps ==
    ASSUME IInv, NEW v \in Commands, WriteTb(v)
    PROVE  IInv'
<1>1. /\ Lines(ch, kbd, last, made) /\ made \in Nat /\ got \in Nat /\ mirrored \in Nat
      /\ made = got + mirrored + Answered(ch) + Len(kbd.queue)
  BY DEF IInv, Sound
<1>2. PICK h \in Nat : Ordered(ch, last, h) /\ Upward(kbd.queue, h, made)
  BY <1>1 DEF Lines, InLine
<1> DEFINE loop == ch.tx /\ ch.mr2.mode = "local"
           b    == IF loop THEN Byte(v, made + 1, "loopback") ELSE Byte(v, 0, "processor")
           f    == typed.flushed \/ (typed.pending /\ ch'.flushed # ch.flushed)
           d    == WriteBuffer(ch, b)
<1>3. /\ ch' = d /\ UNCHANGED <<kbd, got, mirrored, last>>
      /\ loop => made' = made + 1
      /\ ~loop => made' = made
      /\ typed' = [typed EXCEPT !.flushed = f]
  BY DEF WriteTb
<1>4. f \in BOOLEAN
  OBVIOUS
<1> HIDE DEF f
<1>5. typed' \in Typing /\ (typed'.pending = TRUE => typed'.sent > 0)
  BY <1>3, <1>4, FlushTyped
<1>6. b \in Bytes /\ ~Keyed(b)
  BY <1>1, StartsAssumption DEF Byte, Bytes, Keyed
<1> HIDE DEF b
<1>7. Channel(ch)
  BY <1>1 DEF Lines
<1>8. /\ loop => Took(ch, b, d)
      /\ ~loop => Still(ch, d)
  BY <1>6, <1>7, WriteTakes
<1> HIDE DEF d
<1>9. CASE loop
  <2>1. Took(ch, b, d)
    BY <1>8, <1>9
  <2>2. Ordered(d, last, h)
    <3>1. h <= h
      OBVIOUS
    <3> QED BY <1>2, <1>6, <1>7, <2>1, <3>1, OrderedTook
  <2>3. Upward(kbd.queue, h, made + 1)
    <3> DEFINE one == 1
    <3>1. one \in Nat /\ Ring(kbd)
      BY <1>1 DEF Lines
    <3> HIDE DEF one
    <3>2. Upward(kbd.queue, h, made + one)
      BY <1>2, <3>1, UpwardLater
    <3> QED BY <3>2 DEF one
  <2>4. Lines(d, kbd, last, made + 1)
    BY <1>1, <2>1, <2>2, <2>3 DEF Lines, InLine, Took
  <2>5. made + 1 = got + mirrored + Answered(d) + Len(kbd.queue)
    <3> DEFINE a == Answered(ch)
               z == Len(kbd.queue)
    <3>1. a \in Nat /\ z \in Nat
      BY <1>1, AnsweredNat, RingFields DEF Lines
    <3>2. made = got + mirrored + a + z /\ Answered(d) = a + 1
      BY <1>1, <2>1 DEF Took
    <3> HIDE DEF a, z
    <3>3. made + 1 = got + mirrored + (a + 1) + z
      BY <1>1, <3>1, <3>2
    <3> QED BY <3>2, <3>3 DEF z
  <2>6. Sound(d, kbd, made + 1, got, mirrored, last, typed')
    BY <1>1, <1>5, <2>4, <2>5 DEF Sound
  <2> QED BY <1>3, <1>9, <2>6 DEF IInv
<1>10. CASE ~loop
  <2>1. Cleared(ch, d)
    BY <1>8, <1>10, StillCleared
  <2> QED BY <1>3, <1>5, <1>10, <2>1, ClearedKeeps
<1> QED BY <1>9, <1>10

-----------------------------------------------------------------------------
(* A step of the board.                                                    *)

\* The held key's repeat: one more byte of key data, or none when there is no room.
LEMMA RepeatMoves ==
    ASSUME NEW k, Ring(k), made \in Nat, NEW h, Upward(k.queue, h, made), NEW j,
           j = IF Repeats(k) THEN Buffer(Repeated(k), Key(1)) ELSE k
    PROVE  \E x : Longer(k, h, made, j, x)
<1> DEFINE b == Key(1)
           r == Repeated(k)
           z == Len(k.queue)
<1>1. b \in Bytes /\ Keyed(b) /\ b.n = made + 1
  BY DEF Key, Byte, Bytes, Values, Keyed
<1>2. Ring(r) /\ r.queue = k.queue
  <2> DEFINE o == 0
  <2>1. o \in Nat
    OBVIOUS
  <2> HIDE DEF o
  <2> QED BY <2>1, PassedRing
<1>3. z \in Nat /\ z + 0 = z /\ made + 0 = made
  <2>1. z \in Nat
    BY RingFields
  <2> HIDE DEF z
  <2> QED BY <2>1
<1>4. j = IF Repeats(k) THEN Buffer(r, b) ELSE k
  OBVIOUS
<1> HIDE DEF b, r, z
<1>5. CASE ~Repeats(k)
  <2>1. Longer(k, h, made, j, 0)
    BY <1>3, <1>4, <1>5 DEF z, Longer
  <2> QED BY <2>1
<1>6. CASE Repeats(k) /\ BufferFull(r)
  <2>1. j = r
    BY <1>4, <1>6 DEF Buffer
  <2>2. Longer(k, h, made, j, 0)
    BY <1>2, <1>3, <2>1 DEF z, Longer
  <2> QED BY <2>2
<1>7. CASE Repeats(k) /\ ~BufferFull(r)
  <2>1. j = Buffer(r, b)
    BY <1>4, <1>7
  <2>2. Upward(r.queue, h, made)
    BY <1>2
  <2>3. /\ Ring(j) /\ Upward(j.queue, h, made + 1)
        /\ Len(j.queue) = Len(r.queue) + 1
    BY <1>1, <1>2, <1>7, <2>1, <2>2, Buffers
  <2>4. Longer(k, h, made, j, 1)
    BY <1>2, <2>3 DEF Longer
  <2> QED BY <2>4
<1> QED BY <1>5, <1>6, <1>7

\* The bytes of a reply.
LEMMA NumberedBytes ==
    ASSUME NEW vs \in Seq(Values), NEW n \in Nat
    PROVE  /\ Numbered(vs, n) \in Seq(Bytes)
           /\ \A i \in 1 .. Len(Numbered(vs, n)) : Keyed(Numbered(vs, n)[i]) /\ Numbered(vs, n)[i].n = n + i
<1> DEFINE z == Len(vs)
           s == [i \in 1 .. z |-> Byte(vs[i], n + i, "keyboard")]
<1>1. z \in Nat /\ \A i \in 1 .. z : vs[i] \in Values
  BY First
<1>2. Numbered(vs, n) = s
  BY DEF Numbered
<1> HIDE DEF z
<1>3. \A i \in 1 .. z : /\ Byte(vs[i], n + i, "keyboard") \in Bytes
                        /\ Keyed(Byte(vs[i], n + i, "keyboard"))
                        /\ Byte(vs[i], n + i, "keyboard").n = n + i
  BY <1>1 DEF Byte, Bytes, Keyed
<1>4. s \in Seq(Bytes) /\ Len(s) = z
  BY <1>1, <1>3
<1>5. \A i \in 1 .. z : Keyed(s[i]) /\ s[i].n = n + i
  BY <1>3
<1> HIDE DEF s
<1> QED BY <1>2, <1>4, <1>5

\* The keyboard k and the channel c once the channel has sent, or has not.
Answering(k, c, sends, r, d) ==
    /\ sends = TRUE => c.hold # <<>> /\ r = KbdReceive(k, c.hold[1].v) /\ d = Transmitted(c)
    /\ sends = FALSE => r = [kbd |-> k, reply |-> <<>>] /\ d = c

\* They are in order, with y more bytes in the keyboard's ring.
AnsweredWell(k, c, l, m, j, d, y) ==
    /\ y \in Nat /\ Ring(j) /\ Channel(d) /\ d.mr2 = c.mr2 /\ InLine(d, j, l, m + y)
    /\ Len(j.queue) = Len(k.queue) + y /\ Answered(d) = Answered(c)

\* The byte the channel sends, and the keyboard's answer to it.
LEMMA AnswerMoves ==
    ASSUME NEW k, NEW c, NEW l, NEW m \in Nat, Ring(k), Channel(c), InLine(c, k, l, m), NEW sends \in BOOLEAN,
           NEW r, NEW j, NEW d, Answering(k, c, sends, r, d),
           j = QueueReply(r.kbd, Numbered(r.reply, m))
    PROVE  \E y : AnsweredWell(k, c, l, m, j, d, y)
<1>1. Still(c, d) /\ d.mr2 = c.mr2
  <2>1. CASE sends = TRUE
    BY <2>1, TransmittedStill DEF Answering
  <2>2. CASE sends = FALSE
    <3>1. Aside(c, c)
      BY DEF Aside, Channel
    <3> QED BY <2>2, <3>1, AsideStill DEF Answering
  <2> QED BY <2>1, <2>2
<1>2. Ring(r.kbd) /\ r.kbd.queue = k.queue /\ r.reply \in Seq(Values)
  <2>1. CASE sends = TRUE
    <3> DEFINE v == c.hold[1].v
    <3>1. v \in Values
      <4>1. c.hold \in Seq(Bytes) /\ c.hold # <<>>
        BY <2>1, Fields DEF Answering
      <4>2. c.hold[1] \in Bytes
        <5> DEFINE g == c.hold
        <5>1. g \in Seq(Bytes) /\ g # <<>>
          BY <4>1
        <5> HIDE DEF g
        <5>2. 1 \in 1 .. Len(g)
          BY <5>1, First
        <5>3. g[1] \in Bytes
          BY <5>1, <5>2, First
        <5> QED BY <5>3 DEF g
      <4> QED BY <4>2 DEF Bytes
    <3>2. r = KbdReceive(k, v)
      BY <2>1 DEF Answering
    <3> HIDE DEF v
    <3>3. Commanded(k, r.kbd) /\ r.reply \in Seq(Values)
      BY <3>1, <3>2, Receives, RingFields
    <3> QED BY <3>3, CommandedRing DEF Commanded
  <2>2. CASE sends = FALSE
    <3> DEFINE no == <<>>
    <3>1. no \in Seq(Values)
      OBVIOUS
    <3>2. r = [kbd |-> k, reply |-> no]
      BY <2>2 DEF Answering
    <3> HIDE DEF no
    <3> QED BY <3>1, <3>2
  <2> QED BY <2>1, <2>2
<1>3. PICK h \in Nat : Ordered(c, l, h) /\ Upward(k.queue, h, m)
  BY DEF InLine
<1> DEFINE bs == Numbered(r.reply, m)
           q  == r.kbd
<1>4. bs \in Seq(Bytes) /\ \A i \in 1 .. Len(bs) : Keyed(bs[i]) /\ bs[i].n = m + i
  BY <1>2, NumberedBytes
<1>5. Ring(q) /\ Upward(q.queue, h, m) /\ j = QueueReply(q, bs) /\ q.queue = k.queue
  BY <1>2, <1>3
<1> HIDE DEF bs, q
<1>6. PICK y : Longer(q, h, m, j, y)
  BY <1>4, <1>5, Replied
<1>7. Ordered(d, l, h) /\ Channel(d) /\ Answered(d) = Answered(c)
  BY <1>1, <1>3, OrderedStill, StillAnswered DEF Still
<1>8. InLine(d, j, l, m + y)
  BY <1>6, <1>7 DEF InLine, Longer
<1>9. AnsweredWell(k, c, l, m, j, d, y)
  BY <1>1, <1>5, <1>6, <1>7, <1>8 DEF AnsweredWell, Longer
<1> QED BY <1>9

\* The pieces of a step of the board: what each part of it makes of the last.
Pieces(dt, sends, k1, k2, d, r, c3, k3, e, k, m, q) ==
    /\ k1 = Passed(kbd, dt)
    /\ k2 = IF Repeats(k1) THEN Buffer(Repeated(k1), Key(1)) ELSE k1
    /\ d = Drained(k2, ch)
    /\ Answering(d.kbd, d.ch, sends, r, c3)
    /\ k3 = QueueReply(r.kbd, Numbered(r.reply, made + Len(k2.queue) - Len(k1.queue)))
    /\ e = Drained(k3, c3)
    /\ k = [e.kbd EXCEPT !.tx = IF e.kbd.queue = <<>> THEN 0 ELSE @,
                         !.repeat = IF e.kbd.held = NoKey THEN 0 ELSE @]
    /\ m = made + (Len(k2.queue) - Len(k1.queue)) + (Len(k3.queue) - Len(d.kbd.queue))
    /\ ch.mr2.mode # "remote" => q = mirrored
    /\ ch.mr2.mode = "remote" => q = mirrored + (m - made + Len(kbd.queue) - Len(e.kbd.queue))

\* The state after a step of the board.
LEMMA AdvanceAfter ==
    ASSUME IInv, NEW dt \in Nat, NEW sends \in BOOLEAN, NEW k1, NEW k2, NEW d, NEW r, NEW c3, NEW k3,
           NEW e, NEW k, NEW m, NEW q, Pieces(dt, sends, k1, k2, d, r, c3, k3, e, k, m, q),
           NEW t \in Typing, t.pending = TRUE => t.sent > 0
    PROVE  Sound(e.ch, k, m, got, q, last, t)
<1>1. /\ Lines(ch, kbd, last, made) /\ made \in Nat /\ got \in Nat /\ mirrored \in Nat
      /\ made = got + mirrored + Answered(ch) + Len(kbd.queue)
  BY DEF IInv, Sound
<1>2. PICK h \in Nat : Ordered(ch, last, h) /\ Upward(kbd.queue, h, made)
  BY <1>1 DEF Lines, InLine
<1>3. Ring(k1) /\ k1.queue = kbd.queue /\ Channel(ch) /\ Ring(kbd)
  BY <1>1, PassedRing DEF Lines, Pieces
<1>4a. PICK x : Longer(k1, h, made, k2, x)
  <2>1. Upward(k1.queue, h, made)
    BY <1>2, <1>3
  <2>2. k2 = IF Repeats(k1) THEN Buffer(Repeated(k1), Key(1)) ELSE k1
    BY DEF Pieces
  <2> QED BY <1>1, <1>3, <2>1, <2>2, RepeatMoves
<1>4. x \in Nat /\ Ring(k2) /\ Upward(k2.queue, h, made + x) /\ Len(k2.queue) = Len(k1.queue) + x
  BY <1>4a DEF Longer
<1>5. InLine(ch, k2, last, made + x)
  BY <1>2, <1>4 DEF InLine
<1>6. PICK n1 : DrainedWell(k2, ch, last, made + x, d, n1)
  <2>1. d = Drained(k2, ch)
    BY DEF Pieces
  <2> QED BY <1>3, <1>4, <1>5, <2>1, DrainsWell
<1>7. /\ n1 \in Nat /\ Ring(d.kbd) /\ Channel(d.ch) /\ d.ch.mr2 = ch.mr2
      /\ Len(d.kbd.queue) = Len(k2.queue) - n1
      /\ InLine(d.ch, d.kbd, last, made + x)
      /\ ch.mr2.mode # "remote" => Answered(d.ch) = Answered(ch) + n1
      /\ ch.mr2.mode = "remote" => Answered(d.ch) = Answered(ch)
  BY <1>6 DEF DrainedWell
<1>8. made + x \in Nat /\ made + Len(k2.queue) - Len(k1.queue) = made + x
  <2> DEFINE z == Len(k1.queue)
  <2>1. z \in Nat /\ Len(k2.queue) = z + x
    BY <1>3, <1>4, RingFields
  <2> HIDE DEF z
  <2>2. made + (z + x) - z = made + x
    BY <1>1, <1>4, <2>1
  <2> QED BY <1>1, <1>4, <2>1, <2>2 DEF z
<1>9a. PICK y : AnsweredWell(d.kbd, d.ch, last, made + x, k3, c3, y)
  <2> DEFINE dk == d.kbd
             dc == d.ch
             n  == made + x
  <2>1. k3 = QueueReply(r.kbd, Numbered(r.reply, n)) /\ Answering(dk, dc, sends, r, c3)
    BY <1>8 DEF Pieces
  <2>2. n \in Nat /\ Ring(dk) /\ Channel(dc) /\ InLine(dc, dk, last, n)
    BY <1>7, <1>8
  <2> HIDE DEF dk, dc, n
  <2>3. \E y : AnsweredWell(dk, dc, last, n, k3, c3, y)
    BY <2>1, <2>2, AnswerMoves
  <2> QED BY <2>3 DEF dk, dc, n
<1>9. /\ y \in Nat /\ Ring(k3) /\ Channel(c3) /\ c3.mr2 = d.ch.mr2 /\ InLine(c3, k3, last, (made + x) + y)
      /\ Len(k3.queue) = Len(d.kbd.queue) + y /\ Answered(c3) = Answered(d.ch)
  BY <1>9a DEF AnsweredWell
<1>10. PICK n2 : DrainedWell(k3, c3, last, (made + x) + y, e, n2)
  <2>1. e = Drained(k3, c3)
    BY DEF Pieces
  <2> QED BY <1>9, <2>1, DrainsWell
<1>11. /\ n2 \in Nat /\ Ring(e.kbd) /\ Channel(e.ch)
       /\ Len(e.kbd.queue) = Len(k3.queue) - n2
       /\ e.kbd.queue # <<>> => e.kbd.tx \in 1 .. TxCharacter
       /\ InLine(e.ch, e.kbd, last, (made + x) + y)
       /\ c3.mr2.mode # "remote" => Answered(e.ch) = Answered(c3) + n2
       /\ c3.mr2.mode = "remote" => Answered(e.ch) = Answered(c3)
  BY <1>10 DEF DrainedWell
<1>12. Ring(k) /\ Prompt(k) /\ k.queue = e.kbd.queue
  <2> DEFINE j  == e.kbd
             tx == IF j.queue = <<>> THEN 0 ELSE j.tx
             rp == IF j.held = NoKey THEN 0 ELSE j.repeat
  <2>1. k = [j EXCEPT !.tx = tx, !.repeat = rp]
    BY DEF Pieces
  <2>2. /\ Ring(j) /\ j \in Keyboards /\ j.tx \in Int /\ j.repeat \in Int
        /\ j.queue # <<>> => j.tx >= 1
        /\ j.held # NoKey => j.held \in j.down
    <3>1. j.queue # <<>> => j.tx >= 1
      BY <1>11, Rooms
    <3> QED BY <1>11, <3>1, RingFields DEF Ring
  <2> HIDE DEF j
  <2>3. /\ tx \in Int /\ rp \in Int
        /\ j.queue # <<>> => tx <= j.tx /\ tx >= 1
    BY <2>2
  <2> HIDE DEF tx, rp
  <2>4. /\ k \in Keyboards /\ k.queue = j.queue /\ k.keys = j.keys /\ k.replies = j.replies
        /\ k.tx = tx /\ k.held = j.held /\ k.down = j.down
    BY <2>1, <2>2, <2>3 DEF Keyboards
  <2>5. Ring(k)
    <3>1. (k.queue # <<>> => k.tx <= j.tx) /\ (k.held # NoKey => k.held \in k.down)
      BY <2>2, <2>3, <2>4
    <3> QED BY <2>2, <2>4, <3>1, RingKept
  <2> QED BY <2>3, <2>4, <2>5 DEF Prompt, j
<1> DEFINE a  == Answered(ch)
           z  == Len(kbd.queue)
           z2 == Len(k2.queue)
           z3 == Len(d.kbd.queue)
           z4 == Len(k3.queue)
           z5 == Len(e.kbd.queue)
<1>13. a \in Nat /\ z \in Nat
  BY <1>3, AnsweredNat, RingFields
<1>14. /\ made = got + mirrored + a + z /\ z2 = z + x /\ z3 = z2 - n1 /\ z4 = z3 + y /\ z5 = z4 - n2
  BY <1>1, <1>3, <1>4, <1>7, <1>9, <1>11
<1>15. /\ m = made + (z2 - z) + (z4 - z3)
       /\ ch.mr2.mode # "remote" => q = mirrored
       /\ ch.mr2.mode = "remote" => q = mirrored + (m - made + z - z5)
  BY <1>3 DEF Pieces
<1>16. /\ ch.mr2.mode # "remote" => Answered(e.ch) = a + n1 + n2
       /\ ch.mr2.mode = "remote" => Answered(e.ch) = a
  BY <1>7, <1>9, <1>11
<1>17. Len(k.queue) = z5
  BY <1>12
<1> HIDE DEF a, z, z2, z3, z4, z5
<1>n. /\ made \in Nat /\ got \in Nat /\ mirrored \in Nat /\ a \in Nat /\ z \in Nat
      /\ x \in Nat /\ y \in Nat /\ n1 \in Nat /\ n2 \in Nat
  BY <1>1, <1>4, <1>7, <1>9, <1>11, <1>13
<1>i. z2 \in Int /\ z3 \in Int /\ z4 \in Int /\ z5 \in Int
  BY <1>n, <1>14
<1>18. z2 - z = x /\ z4 - z3 = y /\ z5 = z + x - n1 + y - n2
  BY <1>n, <1>i, <1>14
<1>19. m = made + x + y /\ m \in Nat
  BY <1>n, <1>15, <1>18
<1>20. q \in Nat /\ m = got + q + Answered(e.ch) + Len(k.queue)
  <2>1. CASE ch.mr2.mode # "remote"
    <3>1. q = mirrored /\ Answered(e.ch) = a + n1 + n2
      BY <1>15, <1>16, <2>1
    <3>2. m = got + mirrored + (a + n1 + n2) + z5
      BY <1>n, <1>i, <1>14, <1>18, <1>19
    <3> QED BY <1>n, <1>17, <3>1, <3>2
  <2>2. CASE ch.mr2.mode = "remote"
    <3>1. q = mirrored + (m - made + z - z5) /\ Answered(e.ch) = a
      BY <1>15, <1>16, <2>2
    <3>2. q = mirrored + n1 + n2
      BY <1>n, <1>i, <1>18, <1>19, <3>1
    <3>3. m = got + (mirrored + n1 + n2) + a + z5
      BY <1>n, <1>i, <1>14, <1>18, <1>19
    <3>4. mirrored + n1 + n2 \in Nat
      BY <1>n
    <3> QED BY <1>17, <3>1, <3>2, <3>3, <3>4
  <2> QED BY <2>1, <2>2
<1>21. Lines(e.ch, k, last, m)
  <2>1. InLine(e.ch, k, last, m)
    BY <1>11, <1>12, <1>19 DEF InLine
  <2> QED BY <1>11, <1>12, <2>1 DEF Lines
<1> QED BY <1>1, <1>19, <1>20, <1>21 DEF Sound

\* What a step of the board leaves, from the values it went through.
Leaves(dt, k1, k2, d, k3, e) ==
    /\ ch' = e.ch
    /\ kbd' = [e.kbd EXCEPT !.tx = IF e.kbd.queue = <<>> THEN 0 ELSE @,
                            !.repeat = IF e.kbd.held = NoKey THEN 0 ELSE @]
    /\ made' = made + (Len(k2.queue) - Len(k1.queue)) + (Len(k3.queue) - Len(d.kbd.queue))
    /\ made' <= MaxBytes
    /\ mirrored' = mirrored + IF ch.mr2.mode # "remote" THEN 0
                              ELSE made' - made + Len(kbd.queue) - Len(e.kbd.queue)
    /\ typed' = [typed EXCEPT !.wait = IF @ > dt THEN @ - dt ELSE 0,
                              !.flushed = @ \/ (typed.pending /\ ch'.flushed # ch.flushed)]
    /\ UNCHANGED <<got, last, control>>

\* A step of the board keeps the invariant.
LEMMA AdvanceKeeps ==
    ASSUME IInv, NEW dt \in 1 .. MaxStep, NEW cts \in BOOLEAN, Advance(dt, cts)
    PROVE  IInv'
<1>0. dt \in Nat
  BY SerialAssumption, Rooms
<1> DEFINE second(k1) == IF Repeats(k1) THEN Buffer(Repeated(k1), Byte("key", made + 1, "keyboard"))
                         ELSE k1
           answer(d) == IF Transmits(d.ch, cts) THEN KbdReceive(d.kbd, d.ch.hold[1].v)
                        ELSE [kbd |-> d.kbd, reply |-> <<>>]
           third(k1, k2, r) == QueueReply(r.kbd, Numbered(r.reply, made + Len(k2.queue) - Len(k1.queue)))
           sent(d) == IF Transmits(d.ch, cts) THEN Transmitted(d.ch) ELSE d.ch
<1>k. \E k1 \in {Passed(kbd, dt)} : \E k2 \in {second(k1)} : \E d \in {Drained(k2, ch)} :
      \E r \in {answer(d)} : \E k3 \in {third(k1, k2, r)} : \E e \in {Drained(k3, sent(d))} :
          Leaves(dt, k1, k2, d, k3, e)
  BY DEF Advance, Leaves
<1>1. PICK k1, k2, d, r, k3, e :
      /\ k1 = Passed(kbd, dt) /\ k2 = second(k1) /\ d = Drained(k2, ch)
      /\ r = answer(d) /\ k3 = third(k1, k2, r) /\ e = Drained(k3, sent(d))
      /\ Leaves(dt, k1, k2, d, k3, e)
  <2> HIDE DEF second, answer, third, sent
  <2> QED BY <1>k
<1>u. got' = got /\ last' = last
  BY <1>1 DEF Leaves
<1> DEFINE c3 == IF Transmits(d.ch, cts) THEN Transmitted(d.ch) ELSE d.ch
           f  == typed.flushed \/ (typed.pending /\ ch'.flushed # ch.flushed)
           w  == IF typed.wait > dt THEN typed.wait - dt ELSE 0
           s  == Transmits(d.ch, cts) = TRUE
<1>t. typed' = [typed EXCEPT !.wait = w, !.flushed = f]
  BY <1>1 DEF Leaves
<1>2. k2 = IF Repeats(k1) THEN Buffer(Repeated(k1), Key(1)) ELSE k1
  BY <1>1 DEF Key
<1>3. s \in BOOLEAN /\ Answering(d.kbd, d.ch, s, r, c3)
  <2>1. CASE Transmits(d.ch, cts)
    <3>1. s = TRUE /\ d.ch.hold # <<>> /\ r = KbdReceive(d.kbd, d.ch.hold[1].v) /\ c3 = Transmitted(d.ch)
      BY <1>1, <2>1 DEF Transmits
    <3> HIDE DEF s, c3
    <3> QED BY <3>1 DEF Answering
  <2>2. CASE ~Transmits(d.ch, cts)
    <3>1. s = FALSE /\ r = [kbd |-> d.kbd, reply |-> <<>>] /\ c3 = d.ch
      BY <1>1, <2>2
    <3> HIDE DEF s, c3
    <3> QED BY <3>1 DEF Answering
  <2> QED BY <2>1, <2>2
<1>4. mirrored \in Nat
  BY DEF IInv, Sound
<1>5. typed' \in Typing /\ (typed'.pending = TRUE => typed'.sent > 0)
  <2>1. typed \in Typing /\ (typed.pending = TRUE => typed.sent > 0)
    BY TypedSame
  <2>2. w \in Int /\ f \in BOOLEAN
    BY <1>0, <2>1 DEF Typing
  <2> HIDE DEF w, f
  <2>3. typed' \in Typing /\ typed'.pending = typed.pending /\ typed'.sent = typed.sent
    BY <1>t, <2>1, <2>2 DEF Typing
  <2> QED BY <2>1, <2>3
<1> HIDE DEF s, w, f
<1>6. e = Drained(k3, c3) /\ k1 = Passed(kbd, dt)
  BY <1>1
<1> HIDE DEF c3
<1> DEFINE no == ch.mr2.mode # "remote"
           q  == made' - made + Len(kbd.queue) - Len(e.kbd.queue)
<1>v. mirrored' = mirrored + IF no THEN 0 ELSE q
  BY <1>1 DEF Leaves
<1>7. (no => mirrored' = mirrored) /\ (~no => mirrored' = mirrored + q)
  <2> HIDE DEF no, q
  <2>1. no => mirrored' = mirrored + 0
    BY <1>v
  <2>2. ~no => mirrored' = mirrored + q
    BY <1>v
  <2> QED BY <1>4, <2>1, <2>2
<1>8. Pieces(dt, s, k1, k2, d, r, c3, k3, e, kbd', made', mirrored')
  BY <1>1, <1>2, <1>3, <1>6, <1>7 DEF Pieces, Leaves
<1>9. Sound(e.ch, kbd', made', got, mirrored', last, typed')
  <2> DEFINE k0 == kbd'
             m0 == made'
             q0 == mirrored'
             t0 == typed'
  <2>1. /\ Pieces(dt, s, k1, k2, d, r, c3, k3, e, k0, m0, q0)
        /\ t0 \in Typing /\ (t0.pending = TRUE => t0.sent > 0)
    BY <1>5, <1>8
  <2> HIDE DEF k0, m0, q0, t0
  <2>2. Sound(e.ch, k0, m0, got, q0, last, t0)
    BY <1>0, <1>3, <2>1, AdvanceAfter
  <2> QED BY <2>2 DEF k0, m0, q0, t0
<1> QED BY <1>1, <1>u, <1>9 DEF IInv, Leaves

-----------------------------------------------------------------------------
(* Every step.                                                             *)

\* Nothing happens.
LEMMA StutterKeeps ==
    ASSUME IInv, UNCHANGED vars
    PROVE  IInv'
<1>1. /\ ch' = ch /\ kbd' = kbd /\ made' = made /\ got' = got /\ mirrored' = mirrored /\ last' = last
      /\ typed' = typed
  BY DEF vars
<1> QED BY <1>1 DEF IInv

\* Every step keeps the invariant.
LEMMA StepKeeps == IInv /\ [Next]_vars => IInv'
<1> SUFFICES ASSUME IInv, [Next]_vars PROVE IInv'
  OBVIOUS
<1>1. ASSUME NEW key \in Keys, KeyPress(key) \/ KeyRelease(key) PROVE IInv'
  BY <1>1, PressKeeps
<1>2. ASSUME NEW absolute \in BOOLEAN, MouseMove(absolute) PROVE IInv'
  BY <1>2, MouseKeeps
<1>3. CASE TypedDeliver
  BY <1>3, TypingKeeps
<1>4. ASSUME NEW dt \in 1 .. MaxStep, NEW cts \in BOOLEAN, Advance(dt, cts) PROVE IInv'
  BY <1>4, AdvanceKeeps
<1>5. CASE ReadRb
  BY <1>5, ReadKeeps
<1>6. ASSUME NEW v \in Commands, WriteTb(v) PROVE IInv'
  BY <1>6, WriteKeeps
<1>7. CASE \/ \E command \in Miscs, enables \in Enables : WriteCr(command, enables)
           \/ \E one \in Mr1s, two \in Mr2s : WriteMr(one, two)
           \/ \E matches \in BOOLEAN : WriteCsr(matches)
  BY <1>7, ControlKeeps
<1>8. CASE UNCHANGED vars
  BY <1>8, StutterKeeps
<1> QED BY <1>1, <1>2, <1>3, <1>4, <1>5, <1>6, <1>7, <1>8 DEF Next

\* The invariant holds of every state.
LEMMA Invariant == Spec => []IInv
<1>1. Init => IInv
  BY InitSound
<1>2. IInv /\ [Next]_vars => IInv'
  BY StepKeeps
<1> QED BY <1>1, <1>2, PTL DEF Spec

\* No byte is lost unseen.
LEMMA AllSeen == IInv => NothingLostUnseen
<1> SUFFICES ASSUME IInv PROVE NothingLostUnseen
  OBVIOUS
<1>1. /\ Channel(ch) /\ Ring(kbd) /\ made \in Nat /\ got \in Nat /\ mirrored \in Nat
      /\ made = got + mirrored + Answered(ch) + Len(kbd.queue)
  BY DEF IInv, Sound, Lines
<1> DEFINE f == ch.flushed
           n == ch.drops
           a == Len(ch.fifo)
           s == Len(ch.shift)
           z == Len(kbd.queue)
<1>2. f \in Nat /\ n \in Nat /\ a \in Nat /\ s \in Nat /\ z \in Nat
  BY <1>1 DEF Channel, Channels, Ring, Keyboards
<1>3. made = got + mirrored + (f + n + a + s) + z
  BY <1>1 DEF Answered
<1>4. SUFFICES made = got + mirrored + f + n + z + a + s
  BY DEF NothingLostUnseen
<1> HIDE DEF f, n, a, s, z
<1> QED BY <1>1, <1>2, <1>3

\* The elements of a sequence and of two put one after the other.
LEMMA Joined ==
    ASSUME NEW S, NEW p \in Seq(S), NEW q \in Seq(S)
    PROVE  /\ p \o q \in Seq(S) /\ Len(p \o q) = Len(p) + Len(q)
           /\ DOMAIN (p \o q) = 1 .. Len(p) + Len(q)
           /\ \A i \in 1 .. Len(p) + Len(q) :
                /\ i <= Len(p) => (p \o q)[i] = p[i]
                /\ i > Len(p) => (p \o q)[i] = q[i - Len(p)]
OBVIOUS

\* The bytes that wait in the FIFO and in the ring.
LEMMA Waiting ==
    ASSUME NEW E, NEW q \in Seq(E), \A e \in E : e.b \in Bytes
    PROVE  /\ [i \in 1 .. Len(q) |-> q[i].b] \in Seq(Bytes)
           /\ Len([i \in 1 .. Len(q) |-> q[i].b]) = Len(q)
<1> DEFINE z == Len(q)
           s == [i \in 1 .. z |-> q[i].b]
<1>1. z \in Nat /\ \A i \in 1 .. z : q[i].b \in Bytes
  OBVIOUS
<1> HIDE DEF z
<1>2. s \in Seq(Bytes) /\ Len(s) = z
  BY <1>1
<1> QED BY <1>2 DEF z

\* The bytes on the wire: those of the FIFO, the one in the shift register, the ring's.
LEMMA WireIs ==
    ASSUME Channel(ch), Ring(kbd)
    PROVE  /\ DOMAIN Wire = 1 .. Len(ch.fifo) + Len(ch.shift) + Len(kbd.queue)
           /\ \A i \in DOMAIN Wire :
                \/ i \in 1 .. Len(ch.fifo) /\ Wire[i] = ch.fifo[i].b
                \/ /\ i - Len(ch.fifo) \in 1 .. Len(ch.shift)
                   /\ Wire[i] = ch.shift[i - Len(ch.fifo)]
                \/ /\ i - Len(ch.fifo) - Len(ch.shift) \in 1 .. Len(kbd.queue)
                   /\ Wire[i] = kbd.queue[i - Len(ch.fifo) - Len(ch.shift)].b
<1> DEFINE E == [b : Bytes, st : SUBSET FifoErrors]
           f == ch.fifo
           S == ch.shift
           k == kbd.queue
           a == Len(f)
           s == Len(S)
           z == Len(k)
           A == [j \in 1 .. Len(f) |-> f[j].b]
           Z == [j \in 1 .. Len(k) |-> k[j].b]
           AS == A \o S
           W  == AS \o Z
<1>1. f \in Seq(E) /\ S \in Seq(Bytes) /\ k \in Seq(Ringed)
  BY DEF Channel, Channels, Ring, Keyboards
<1>2. (\A e \in E : e.b \in Bytes) /\ (\A e \in Ringed : e.b \in Bytes)
  BY DEF Ringed
<1>3. Wire = W
  BY DEF Wire
<1> HIDE DEF E, f, S, k
<1>4. a \in Nat /\ s \in Nat /\ z \in Nat
  BY <1>1
<1>5. A \in Seq(Bytes) /\ Len(A) = a
  BY <1>1, <1>2, Waiting
<1>6. Z \in Seq(Bytes) /\ Len(Z) = z
  BY <1>1, <1>2, Waiting
<1>7. (\A j \in 1 .. a : A[j] = f[j].b) /\ (\A j \in 1 .. z : Z[j] = k[j].b)
  OBVIOUS
<1> HIDE DEF A, Z
<1>8. /\ AS \in Seq(Bytes) /\ Len(AS) = a + s
      /\ \A j \in 1 .. a + s : (j <= a => AS[j] = A[j]) /\ (j > a => AS[j] = S[j - a])
  <2> HIDE DEF a
  <2>1. /\ AS \in Seq(Bytes) /\ Len(AS) = Len(A) + Len(S)
        /\ \A j \in 1 .. Len(A) + Len(S) :
             (j <= Len(A) => AS[j] = A[j]) /\ (j > Len(A) => AS[j] = S[j - Len(A)])
    BY <1>1, <1>5, Joined, ZenonT(60)
  <2> HIDE DEF AS
  <2> QED BY <1>5, <2>1
<1> HIDE DEF AS
<1>9. /\ DOMAIN W = 1 .. (a + s) + z
      /\ \A j \in 1 .. (a + s) + z :
            (j <= a + s => W[j] = AS[j]) /\ (j > a + s => W[j] = Z[j - (a + s)])
  <2> HIDE DEF z
  <2>1. /\ DOMAIN W = 1 .. Len(AS) + Len(Z)
        /\ \A j \in 1 .. Len(AS) + Len(Z) :
             (j <= Len(AS) => W[j] = AS[j]) /\ (j > Len(AS) => W[j] = Z[j - Len(AS)])
    BY <1>6, <1>8, Joined
  <2> HIDE DEF W, a, s
  <2> QED BY <1>6, <1>8, <2>1
<1> HIDE DEF W, a, s, z
<1>10. ASSUME NEW i \in DOMAIN W
       PROVE  \/ i \in 1 .. a /\ W[i] = f[i].b
              \/ i - a \in 1 .. s /\ W[i] = S[i - a]
              \/ i - a - s \in 1 .. z /\ W[i] = k[i - a - s].b
  <2>0. i \in 1 .. (a + s) + z
    BY <1>9
  <2>1. i \in Nat /\ 1 <= i /\ i <= a + s + z
    BY <1>4, <2>0
  <2>2. CASE i <= a
    <3>1. i \in 1 .. a /\ i \in 1 .. a + s
      BY <1>4, <2>1, <2>2
    <3>2. W[i] = A[i]
      BY <1>4, <1>8, <1>9, <2>0, <2>1, <2>2, <3>1
    <3> QED BY <1>7, <3>1, <3>2
  <2>3. CASE a < i /\ i <= a + s
    <3>1. i - a \in 1 .. s /\ i \in 1 .. a + s
      BY <1>4, <2>1, <2>3
    <3>2. W[i] = S[i - a]
      BY <1>4, <1>8, <1>9, <2>0, <2>1, <2>3, <3>1
    <3> QED BY <3>1, <3>2
  <2>4. CASE a + s < i
    <3> DEFINE p == i - a - s
    <3>1. p \in 1 .. z /\ i - (a + s) = p
      BY <1>4, <2>1, <2>4
    <3>2. W[i] = Z[p]
      BY <1>4, <1>9, <2>0, <2>1, <2>4, <3>1
    <3> HIDE DEF p
    <3>3. W[i] = k[p].b
      BY <1>7, <3>1, <3>2
    <3> QED BY <3>1, <3>3 DEF p
  <2> QED BY <1>4, <2>1, <2>2, <2>3, <2>4
<1> QED BY <1>3, <1>9, <1>10 DEF f, S, k, a, s, z

\* The keyboard's bytes are in order.
LEMMA AllInOrder == IInv => InOrder
<1> SUFFICES ASSUME IInv PROVE InOrder
  OBVIOUS
<1>1. Channel(ch) /\ Ring(kbd) /\ InLine(ch, kbd, last, made)
  BY DEF IInv, Sound, Lines
<1>2. PICK h \in Nat : Ordered(ch, last, h) /\ Upward(kbd.queue, h, made)
  BY <1>1 DEF InLine
<1> DEFINE a == Len(ch.fifo)
           s == Len(ch.shift)
           z == Len(kbd.queue)
<1>3. /\ a \in Nat /\ s \in Nat /\ s <= 1 /\ z \in Nat
      /\ last \in Nat /\ last <= h
  BY <1>1, <1>2 DEF Channel, Channels, Ring, Keyboards, Ordered
<1>4. /\ \A i \in 1 .. a : ch.fifo[i].b.n \in Nat
      /\ \A i \in 1 .. s : ch.shift[i].n \in Nat
      /\ \A i \in 1 .. z : kbd.queue[i].b.n \in Nat
  <2>1. \A i \in 1 .. a : ch.fifo[i].b \in Bytes
    <3> DEFINE E == [b : Bytes, st : SUBSET FifoErrors]
    <3>1. ch.fifo \in Seq(E) /\ \A e \in E : e.b \in Bytes
      BY <1>1 DEF Channel, Channels
    <3> HIDE DEF E
    <3>2. \A i \in 1 .. a : ch.fifo[i] \in E
      BY <3>1
    <3> QED BY <3>1, <3>2
  <2>2. \A i \in 1 .. s : ch.shift[i] \in Bytes
    BY <1>1 DEF Channel, Channels
  <2> QED BY <1>1, <2>1, <2>2, RingFields DEF Bytes
<1>d. /\ DOMAIN Wire = 1 .. a + s + z
      /\ \A i \in DOMAIN Wire :
           \/ i \in 1 .. a /\ Wire[i] = ch.fifo[i].b
           \/ i - a \in 1 .. s /\ Wire[i] = ch.shift[i - a]
           \/ i - a - s \in 1 .. z /\ Wire[i] = kbd.queue[i - a - s].b
  BY <1>1, WireIs
<1> DEFINE f(i) == ch.fifo[i].b
           g(i) == ch.shift[i]
           q(i) == kbd.queue[i].b
<1>f. /\ \A i \in 1 .. a : Keyed(f(i)) => last < f(i).n /\ f(i).n <= h
      /\ \A i \in 1 .. s : Keyed(g(i)) => last < g(i).n /\ g(i).n <= h
      /\ \A i, j \in 1 .. a : i < j /\ Keyed(f(i)) /\ Keyed(f(j)) => f(i).n < f(j).n
      /\ \A i \in 1 .. a, j \in 1 .. s : Keyed(f(i)) /\ Keyed(g(j)) => f(i).n < g(j).n
  BY <1>2 DEF Ordered
<1>q. /\ \A i \in 1 .. z : h < q(i).n
      /\ \A i, j \in 1 .. z : i < j => q(i).n < q(j).n
  BY <1>2 DEF Upward
<1>n. /\ \A i \in 1 .. a : f(i).n \in Nat
      /\ \A i \in 1 .. s : g(i).n \in Nat
      /\ \A i \in 1 .. z : q(i).n \in Nat
  BY <1>4
<1>w. \A i \in DOMAIN Wire :
           \/ i \in 1 .. a /\ Wire[i] = f(i)
           \/ i - a \in 1 .. s /\ Wire[i] = g(i - a)
           \/ i - a - s \in 1 .. z /\ Wire[i] = q(i - a - s)
  BY <1>d
<1>r. DOMAIN Wire = 1 .. a + s + z
  BY <1>d
<1> HIDE DEF a, s, z, f, g, q
<1>5. ASSUME NEW i \in DOMAIN Wire, Wire[i].by = "keyboard"
      PROVE  last < Wire[i].n
  <2>1. CASE i \in 1 .. a /\ Wire[i] = f(i)
    BY <1>f, <1>5, <2>1 DEF Keyed
  <2>2. CASE i - a \in 1 .. s /\ Wire[i] = g(i - a)
    BY <1>f, <1>5, <2>2 DEF Keyed
  <2>3. CASE i - a - s \in 1 .. z /\ Wire[i] = q(i - a - s)
    BY <1>3, <1>n, <1>q, <2>3
  <2> QED BY <1>w, <2>1, <2>2, <2>3
<1>6. ASSUME NEW i \in DOMAIN Wire, Wire[i].by = "keyboard",
             NEW j \in 1 .. i - 1, Wire[j].by = "keyboard"
      PROVE  Wire[j].n < Wire[i].n
  <2>1. i \in Nat /\ j \in Nat /\ j < i /\ j \in DOMAIN Wire
    <3>1. i \in 1 .. a + s + z
      BY <1>r
    <3>2. j \in 1 .. a + s + z
      BY <1>3, <3>1
    <3> QED BY <1>3, <1>r, <3>1, <3>2
  <2>2. CASE i \in 1 .. a /\ Wire[i] = f(i)
    <3>1. j \in 1 .. a /\ Wire[j] = f(j)
      BY <1>3, <1>w, <2>1, <2>2
    <3> QED BY <1>f, <1>6, <2>1, <2>2, <3>1 DEF Keyed
  <2>3. CASE i - a \in 1 .. s /\ Wire[i] = g(i - a)
    <3>1. j \in 1 .. a /\ Wire[j] = f(j)
      <4>1. i = a + 1
        BY <1>3, <2>1, <2>3
      <4> QED BY <1>3, <1>w, <2>1, <4>1
    <3> QED BY <1>f, <1>6, <2>3, <3>1 DEF Keyed
  <2>4. CASE i - a - s \in 1 .. z /\ Wire[i] = q(i - a - s)
    <3> DEFINE e == i - a - s
               d == j - a - s
    <3>1. e \in 1 .. z /\ h < q(e).n /\ q(e).n \in Nat /\ Wire[i] = q(e)
      BY <1>n, <1>q, <2>4
    <3> HIDE DEF e
    <3>2. CASE j \in 1 .. a /\ Wire[j] = f(j)
      <4>1. f(j).n <= h /\ f(j).n \in Nat
        BY <1>f, <1>n, <1>6, <3>2 DEF Keyed
      <4> QED BY <3>1, <3>2, <4>1
    <3>3. CASE j - a \in 1 .. s /\ Wire[j] = g(j - a)
      <4>1. g(j - a).n <= h /\ g(j - a).n \in Nat
        BY <1>f, <1>n, <1>6, <3>3 DEF Keyed
      <4> QED BY <3>1, <3>3, <4>1
    <3>4. CASE j - a - s \in 1 .. z /\ Wire[j] = q(j - a - s)
      <4>1. d \in 1 .. z /\ Wire[j] = q(d) /\ d < e
        BY <1>3, <2>1, <3>4 DEF e
      <4> HIDE DEF d
      <4> QED BY <1>q, <3>1, <4>1
    <3> QED BY <1>w, <2>1, <3>2, <3>3, <3>4
  <2> QED BY <1>w, <2>2, <2>3, <2>4
<1> QED BY <1>5, <1>6 DEF InOrder

\* The keyboard's allowances are what its ring holds.
LEMMA AllowancesRight == IInv => KeyboardSane
<1> SUFFICES ASSUME IInv PROVE KeyboardSane
  OBVIOUS
<1>1. Ring(kbd) /\ Prompt(kbd)
  BY DEF IInv, Sound, Lines
<1>2. Replies = ReplyPlaces(kbd.queue)
  BY <1>1 DEF Replies, ReplyPlaces, Ring, Keyboards
<1>3. kbd.queue # <<>> => kbd.tx \in 1 .. TxCharacter
  BY <1>1, Rooms DEF Ring, Keyboards, Prompt
<1> QED BY <1>1, <1>2, <1>3 DEF KeyboardSane, Ring

\* The values the state ranges over: the FIFO never deeper than the part's, one
\* character in the shift register and one in the transmitter at most.
Typed ==
    /\ ch \in Channels(Bytes)
    /\ Len(ch.fifo) <= Fifo /\ Len(ch.shift) <= 1 /\ Len(ch.hold) <= 1
    /\ ch.shift # <<>> => Len(ch.fifo) = Fifo
    /\ kbd \in Keyboards /\ typed \in Typing
    /\ made \in Nat /\ got \in Nat /\ mirrored \in Nat /\ last \in Nat

-----------------------------------------------------------------------------
(* The theorems.                                                           *)

\* Every state is of its type: a reset, a mode, an overrun or a burst of bytes at one
\* step of the board never puts more in the channel's FIFO (receive) than it holds,
\* and a character waits in the shift register only behind a full FIFO.
THEOREM TypeCorrect == Spec => []Typed
<1>1. IInv => Typed
  BY DEF IInv, Sound, Lines, Channel, Ring, InLine, Ordered, Typed
<1> QED BY <1>1, Invariant, PTL

\* Every byte the keyboard queued or a loopback sent is read, mirrored, waiting, or in
\* a counter the frontend's retry looks at (flush_receiver and the overrun of receive
\* count what they throw away).
THEOREM LossIsCounted == Spec => []NothingLostUnseen
BY Invariant, AllSeen, PTL

\* Keys, the mouse and the replies to commands share one ring and one line, and the
\* processor reads them in the order the keyboard queued them: drain_keyboard, the
\* FIFO and its held character overtake nothing.
THEOREM ReadInOrder == Spec => []InOrder
BY Invariant, AllInOrder, PTL

\* The rooms buffer and the replies count are what the keyboard's ring holds, never
\* more than it has places for, and its next byte is at most a character away.
THEOREM RingRight == Spec => []KeyboardSane
BY Invariant, AllowancesRight, PTL

=============================================================================
