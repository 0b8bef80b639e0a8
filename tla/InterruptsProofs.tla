-------------------------- MODULE InterruptsProofs --------------------------
(***************************************************************************)
(* Proofs about Interrupts.  The invariant has two parts.  IInv says that  *)
(* the two controllers are sound (the cascade's wire is up only while the  *)
(* slave asks), that the promise of the last sample ends before a device   *)
(* moves its line, and that an instruction executes under a promise.       *)
(* Settled says what the promise is worth: while it holds, driving every   *)
(* line again would change nothing.  Nested says that what is in service   *)
(* is what the handlers owe, each before those it interrupted.             *)
(***************************************************************************)
EXTENDS Interrupts, WellFoundedInduction, TLAPS

-----------------------------------------------------------------------------
(* Induction over the naturals, stated with sets, and the runs of a loop.  *)

\* The order of the naturals, as the set of its pairs, is well founded.
LEMMA NatOrder == IsWellFoundedOn({ss \in Nat \X Nat : ss[1] < ss[2]}, Nat)
  BY NatLessThanWellFounded DEF OpToRel

\* A set of naturals that is not empty has a least element.
LEMMA Least ==
  ASSUME NEW T \in SUBSET Nat, T # {}
  PROVE  \E x \in T : \A y \in T : x <= y
<1> DEFINE R == {ss \in Nat \X Nat : ss[1] < ss[2]}
<1>1. IsWellFoundedOn(R, Nat)
  BY NatOrder
<1>2. \E x \in T : \A y \in T : ~ (<<y, x>> \in R)
  <2> HIDE DEF R
  <2> QED BY <1>1, WFMin
<1>3. PICK x \in T : \A y \in T : ~ (<<y, x>> \in R)
  BY <1>2
<1>4. ASSUME NEW y \in T PROVE x <= y
  <2>1. <<y, x>> \in Nat \X Nat /\ ~ (<<y, x>> \in R)
    BY <1>3
  <2>2. ~ (y < x)
    BY <2>1
  <2> QED BY <2>2
<1> QED BY <1>4

\* Of the elements of a set, one has the least measure.
LEMMA LeastMeasure ==
  ASSUME NEW S, S # {}, NEW f \in [S -> Nat]
  PROVE  \E x \in S : \A y \in S : f[x] <= f[y]
<1>1. PICK m \in {f[x] : x \in S} : \A k \in {f[x] : x \in S} : m <= k
  <2> DEFINE T == {f[x] : x \in S}
  <2>1. T \in SUBSET Nat /\ T # {}
    OBVIOUS
  <2> HIDE DEF T
  <2>2. \E x \in T : \A y \in T : x <= y
    BY <2>1, Least
  <2> QED BY <2>2 DEF T
<1> QED BY <1>1

\* Induction: a set that holds zero and with a number its successor holds all.
LEMMA NatSetInduction ==
  ASSUME NEW S, 0 \in S, \A n \in Nat : n \in S => n + 1 \in S
  PROVE  Nat \subseteq S
<1> SUFFICES ASSUME Nat \ S # {} PROVE FALSE
  OBVIOUS
<1>1. PICK x \in Nat \ S : \A y \in Nat \ S : x <= y
  BY Least
<1>2. x # 0 /\ x - 1 \in Nat
  BY <1>1
<1>3. x - 1 \in S
  BY <1>1, <1>2
<1>4. (x - 1) + 1 \in S
  BY <1>2, <1>3
<1> QED BY <1>1, <1>4

\* The same up to a bound.
LEMMA BoundedInduction ==
  ASSUME NEW n \in Nat, NEW S, 0 \in S,
         \A k \in 1 .. n : k - 1 \in S => k \in S
  PROVE  \A k \in 0 .. n : k \in S
<1> DEFINE T == {k \in Nat : k <= n => k \in S}
<1>1. 0 \in T
  OBVIOUS
<1>2. ASSUME NEW k \in Nat, k \in T PROVE k + 1 \in T
  <2>1. CASE k + 1 <= n
    <3>1. k + 1 \in 1 .. n /\ (k + 1) - 1 = k /\ k \in S
      BY <1>2, <2>1
    <3> QED BY <3>1
  <2>2. CASE ~(k + 1 <= n)
    BY <2>2
  <2> QED BY <2>1, <2>2
<1>3. Nat \subseteq T
  <2> HIDE DEF T
  <2> QED BY <1>1, <1>2, NatSetInduction
<1> QED BY <1>3

\* The run of a loop of n turns: what holds before its first turn, and after each
\* turn what the turn makes of it.
IsRun(g, n, a, D) == g = [j \in 0 .. n |-> IF j = 0 THEN a ELSE D[j][g[j - 1]]]

\* A loop over a state has a run: a function defined by recursion on the number of
\* turns exists.
LEMMA LoopRuns ==
  ASSUME NEW S, NEW n \in Nat, NEW a \in S, NEW D \in [1 .. n -> [S -> S]]
  PROVE  \E g \in [0 .. n -> S] : IsRun(g, n, a, D)
<1> DEFINE Run(g, k) == /\ g \in [0 .. k -> S] /\ g[0] = a
                        /\ \A j \in 1 .. k : g[j] = D[j][g[j - 1]]
           T == {k \in Nat : \E g \in [0 .. k -> S] : Run(g, k)}
<1>1. 0 \in T
  <2>1. Run([j \in 0 .. 0 |-> a], 0)
    OBVIOUS
  <2> QED BY <2>1
<1>2. ASSUME NEW k \in 1 .. n, k - 1 \in T PROVE k \in T
  <2>1. PICK g \in [0 .. k - 1 -> S] : Run(g, k - 1)
    BY <1>2
  <2> DEFINE h == [j \in 0 .. k |-> IF j = k THEN D[k][g[k - 1]] ELSE g[j]]
  <2>2. D[k][g[k - 1]] \in S
    BY <2>1
  <2>3. h \in [0 .. k -> S] /\ h[0] = a
    BY <2>1, <2>2
  <2>4. ASSUME NEW j \in 1 .. k PROVE h[j] = D[j][h[j - 1]]
    <3>1. CASE j = k
      BY <3>1
    <3>2. CASE j # k
      <4>1. j \in 1 .. k - 1 /\ j - 1 \in 0 .. k /\ j - 1 # k
        BY <3>2
      <4> QED BY <2>1, <4>1
    <3> QED BY <3>1, <3>2
  <2>5. Run(h, k)
    BY <2>3, <2>4
  <2> HIDE DEF h, Run
  <2>6. h \in [0 .. k -> S]
    BY <2>5 DEF Run
  <2> QED BY <2>5, <2>6
<1>3. n \in T
  <2> HIDE DEF T
  <2>1. \A k \in 0 .. n : k \in T
    BY <1>1, <1>2, BoundedInduction
  <2> QED BY <2>1
<1>4. PICK g \in [0 .. n -> S] : Run(g, n)
  BY <1>3
<1>5. \A j \in 0 .. n : g[j] = IF j = 0 THEN a ELSE D[j][g[j - 1]]
  BY <1>4
<1> QED BY <1>5 DEF IsRun

-----------------------------------------------------------------------------
(* One controller                                                          *)

USE LevelsAssumption DEF Level

\* The remainder of a number below twice its divisor.
LEMMA Remainder ==
  \A n \in Nat \ {0} : \A k \in 0 .. 2 * n - 1 :
     (k < n => k % n = k) /\ (~(k < n) => k % n = k - n)
OBVIOUS

\* Priorities: each level has a rank of its own, which is the level itself as
\* long as the top has not been rotated.
LEMMA RankType ==
  ASSUME NEW p \in Pics, NEW l \in Level
  PROVE  /\ Rank(p, l) = IF l < p.top THEN l + Levels - p.top ELSE l - p.top
         /\ Rank(p, l) \in Nat
<1>1. p.top \in Level
  BY DEF Pics
<1> DEFINE k == l + Levels - p.top
<1>2. k \in 0 .. 2 * Levels - 1
  BY <1>1
<1>3. Levels \in Nat \ {0}
  OBVIOUS
<1>4. /\ k < Levels => k % Levels = k
      /\ ~(k < Levels) => k % Levels = k - Levels
  <2> HIDE DEF k
  <2> QED BY <1>2, <1>3, Remainder
<1>5. Rank(p, l) = k % Levels
  BY DEF Rank
<1>6. \A t \in Level : /\ l + Levels - t < Levels <=> l < t
                       /\ l + Levels - t - Levels = l - t
                       /\ l < t => l + Levels - t \in Nat
                       /\ ~(l < t) => l - t \in Nat
  OBVIOUS
<1>7. CASE l < p.top
  BY <1>1, <1>4, <1>5, <1>6, <1>7
<1>8. CASE ~(l < p.top)
  <2>1. Rank(p, l) = k - Levels
    BY <1>1, <1>4, <1>5, <1>6, <1>8
  <2> QED BY <1>1, <1>6, <1>8, <2>1
<1> QED BY <1>7, <1>8

\* Two levels of one controller never share a rank: resolve never ties.
LEMMA RankInjective ==
  ASSUME NEW p \in Pics, NEW l \in Level, NEW k \in Level, Rank(p, l) = Rank(p, k)
  PROVE  l = k
<1>1. p.top \in Level
  BY DEF Pics
<1> QED BY <1>1, RankType

\* The first of a set of levels is in it and before the others.
LEMMA FirstIs ==
  ASSUME NEW p \in Pics, NEW S \in SUBSET Level, S # {}
  PROVE  /\ First(p, S) \in S
         /\ \A k \in S : Rank(p, First(p, S)) <= Rank(p, k)
<1> DEFINE f == [l \in S |-> Rank(p, l)]
<1>1. f \in [S -> Nat]
  BY RankType
<1>2. \E x \in S : \A y \in S : f[x] <= f[y]
  <2> HIDE DEF f
  <2> QED BY <1>1, LeastMeasure
<1>3. \E x \in S : \A y \in S : Rank(p, x) <= Rank(p, y)
  BY <1>2
<1> QED BY <1>3 DEF First

\* Resolving is finding a request that comes before everything in service.
Before(p, l) == \A b \in Blocking(p) : Rank(p, l) < Rank(p, b)

\* ap_i8259_interrupt_pending: an interrupt is pending when some request comes
\* before everything in service.
LEMMA PendingIs ==
  ASSUME NEW p \in Pics, ~p.sfnm
  PROVE  Pending(p) <=> \E l \in Requests(p) : Before(p, l)
<1> DEFINE S == Requests(p) \cup Blocking(p)
           f == First(p, S)
<1>1. S \in SUBSET Level /\ Requests(p) \subseteq S /\ Blocking(p) \subseteq S
  BY DEF Pics, Requests, Blocking
<1>2. S # {} => f \in S /\ \A k \in S : Rank(p, f) <= Rank(p, k)
  <2> HIDE DEF S
  <2> QED BY <1>1, FirstIs
<1>3. Pending(p) <=> Requests(p) # {} /\ f \in Requests(p) /\ f \notin Blocking(p)
  BY DEF Pending
<1> HIDE DEF S, f
<1>4. ASSUME Pending(p) PROVE \E l \in Requests(p) : Before(p, l)
  <2>1. f \in Requests(p) /\ f \notin Blocking(p) /\ f \in S
    BY <1>1, <1>3, <1>4
  <2>2. ASSUME NEW b \in Blocking(p) PROVE Rank(p, f) < Rank(p, b)
    <3>1. f \in Level /\ b \in Level /\ b \in S /\ f # b
      BY <1>1, <2>1, <2>2
    <3>2. Rank(p, f) <= Rank(p, b)
      BY <1>2, <3>1
    <3>3. Rank(p, f) # Rank(p, b)
      BY <3>1, RankInjective
    <3>4. Rank(p, f) \in Nat /\ Rank(p, b) \in Nat
      BY <3>1, RankType
    <3> QED BY <3>2, <3>3, <3>4
  <2> QED BY <2>1, <2>2 DEF Before
<1>5. ASSUME NEW l \in Requests(p), Before(p, l) PROVE Pending(p)
  <2>1. f \in S /\ Rank(p, f) <= Rank(p, l) /\ f \in Level /\ l \in Level
    BY <1>1, <1>2
  <2>2. Rank(p, f) \in Nat /\ Rank(p, l) \in Nat
    BY <2>1, RankType
  <2>3. f \notin Blocking(p)
    BY <1>5, <2>1, <2>2 DEF Before
  <2>4. f \in Requests(p)
    BY <2>1, <2>3 DEF S
  <2> QED BY <1>3, <2>3, <2>4
<1> QED BY <1>4, <1>5

\* resolve: what it finds is a request, before everything in service and not
\* after any other request.
LEMMA ResolveIs ==
  ASSUME NEW p \in Pics, ~p.sfnm, Pending(p)
  PROVE  /\ Resolve(p) \in Requests(p) /\ Resolve(p) \in Level
         /\ Before(p, Resolve(p))
         /\ \A k \in Requests(p) : Rank(p, Resolve(p)) <= Rank(p, k)
<1> DEFINE S == Requests(p) \cup Blocking(p)
           f == First(p, S)
<1>1. S \in SUBSET Level /\ Requests(p) \subseteq S /\ Blocking(p) \subseteq S
  BY DEF Pics, Requests, Blocking
<1>2. Requests(p) # {} /\ f \in Requests(p) /\ f \notin Blocking(p)
  BY DEF Pending
<1>3. Resolve(p) = f
  BY DEF Resolve
<1> HIDE DEF f
<1>4. \A k \in S : Rank(p, f) <= Rank(p, k)
  <2>1. S # {}
    BY <1>2
  <2> HIDE DEF S
  <2> QED BY <1>1, <2>1, FirstIs DEF f, S
<1>5. ASSUME NEW b \in Blocking(p) PROVE Rank(p, f) < Rank(p, b)
  <2>1. f \in Level /\ b \in Level /\ f # b /\ b \in S
    BY <1>1, <1>2, <1>5
  <2>2. Rank(p, f) <= Rank(p, b)
    BY <1>4, <2>1
  <2>3. Rank(p, f) # Rank(p, b)
    BY <2>1, RankInjective
  <2>4. Rank(p, f) \in Nat /\ Rank(p, b) \in Nat
    BY <2>1, RankType
  <2> QED BY <2>2, <2>3, <2>4
<1> QED BY <1>1, <1>2, <1>3, <1>4, <1>5 DEF Before

\* Without an unmasked request nothing is pending.
LEMMA NoRequestsNotPending ==
  ASSUME NEW p, Requests(p) = {} PROVE ~Pending(p)
BY DEF Pending

\* One more request never withdraws the interrupt.
LEMMA PendingGrows ==
  ASSUME NEW p \in Pics, NEW q \in Pics, ~p.sfnm, ~q.sfnm,
         q.isr = p.isr, q.imr = p.imr, q.top = p.top, q.smm = p.smm,
         p.irr \subseteq q.irr, Pending(p)
  PROVE  Pending(q)
<1>1. PICK l \in Requests(p) : Before(p, l)
  BY PendingIs
<1>2. l \in Requests(q)
  BY <1>1 DEF Requests
<1>3. Blocking(q) = Blocking(p)
  BY DEF Blocking
<1>4. Before(q, l)
  BY <1>1, <1>3 DEF Before, Rank
<1> QED BY <1>2, <1>4, PendingIs

\* Once what it resolved is in service nothing is pending, provided that in
\* level mode every wire that is up is latched already.
LEMMA ServeQuiets ==
  ASSUME NEW p \in Pics, ~p.sfnm, Pending(p), p.ltim => p.pins \subseteq p.irr
  PROVE  ~Pending(Serve(p, Resolve(p)))
<1> DEFINE f == Resolve(p)
           q == Serve(p, f)
<1>1. /\ f \in Requests(p) /\ f \in Level
      /\ \A k \in Requests(p) : Rank(p, f) <= Rank(p, k)
  BY ResolveIs
<1> HIDE DEF f
<1>2. /\ q.isr = p.isr \cup {f} /\ q.imr = p.imr /\ q.top = p.top /\ q.smm = p.smm
      /\ q.sfnm = p.sfnm
      /\ q.irr = (p.irr \ {f}) \cup (IF p.ltim THEN p.pins ELSE {})
  BY DEF Serve, Pics
<1>3. q \in Pics
  BY <1>1 DEF Serve, Pics
<1> HIDE DEF q
<1>4. Requests(q) \subseteq Requests(p)
  BY <1>1, <1>2 DEF Requests
<1>5. f \in Blocking(q)
  BY <1>1, <1>2 DEF Requests, Blocking
<1>6. ASSUME NEW l \in Requests(q), Before(q, l) PROVE FALSE
  <2>1. l \in Level /\ Rank(p, f) <= Rank(p, l)
    BY <1>1, <1>4 DEF Requests, Pics
  <2>2. Rank(q, l) < Rank(q, f)
    BY <1>5, <1>6 DEF Before
  <2>3. Rank(q, l) = Rank(p, l) /\ Rank(q, f) = Rank(p, f)
    BY <1>2 DEF Rank
  <2>4. Rank(p, l) \in Nat /\ Rank(p, f) \in Nat
    BY <1>1, <2>1, RankType
  <2> QED BY <2>1, <2>2, <2>3, <2>4
<1>7. ~Pending(q)
  BY <1>2, <1>3, <1>6, PendingIs
<1> QED BY <1>7 DEF q, f

-----------------------------------------------------------------------------
(* The two controllers                                                     *)

Board == [Chips -> Pics]

\* What is always true of a controller: software asked for neither automatic
\* EOI nor special full nesting, and no request outlives its wire.
Plain8259(p) == ~p.aeoi /\ ~p.sfnm /\ p.irr \subseteq p.pins

\* The cascade's wire is up only while the slave asks.
CascadeTrue(b) == Cascade \in b["master"].pins => Pending(b["slave"])

\* In level mode the slave's wires are all latched.
Relatched(b) == b["slave"].ltim => b["slave"].pins \subseteq b["slave"].irr

Latched(b) == Cascade \in b["master"].pins => Cascade \in b["master"].irr

\* Only the devices' wires ever rise on the slave.
Wired(b) == \A l \in b["slave"].pins : \E d \in Devices : Irq[d] = Levels + l

Sound(b) == /\ b \in Board
            /\ \A c \in Chips : Plain8259(b[c])
            /\ CascadeTrue(b)
            /\ Wired(b)

\* A wire driven and the controller in step with it.
Follows(b, irq, asserted) ==
    LET p == IF irq < Levels THEN b["master"] ELSE b["slave"]
        l == IF irq < Levels THEN irq ELSE irq - Levels
    IN  /\ l \in p.pins <=> asserted
        /\ asserted /\ p.ltim => l \in p.irr

\* What a wire leaves alone in a controller.
SameSettings(p, q) ==
    /\ q.isr = p.isr /\ q.imr = p.imr /\ q.top = p.top /\ q.ltim = p.ltim
    /\ q.smm = p.smm /\ q.aeoi = p.aeoi /\ q.sfnm = p.sfnm

\* What driving a wire of p makes of it: the pin and the request move as
\* ap_i8259_set_request says, nothing else does.
IsDriven(p, l, a, q) ==
    /\ q \in Pics /\ SameSettings(p, q)
    /\ a => q.pins = p.pins \cup {l}
    /\ ~a => q.pins = p.pins \ {l} /\ q.irr = p.irr \ {l}
    /\ a /\ (p.ltim \/ l \notin p.pins) => q.irr = p.irr \cup {l}
    /\ a /\ ~(p.ltim \/ l \notin p.pins) => q.irr = p.irr

\* ap_i8259_set_request does what IsDriven says.
LEMMA SetRequestIs ==
  ASSUME NEW p \in Pics, NEW l \in Level, NEW a \in BOOLEAN
  PROVE  IsDriven(p, l, a, SetRequest(p, l, a))
<1> DEFINE q == SetRequest(p, l, a)
<1>1. /\ q.pins = IF a THEN p.pins \cup {l} ELSE p.pins \ {l}
      /\ q.irr = IF ~a THEN p.irr \ {l}
                 ELSE IF p.ltim \/ l \notin p.pins THEN p.irr \cup {l} ELSE p.irr
      /\ SameSettings(p, q)
  BY DEF SetRequest, Pics, SameSettings
<1>2. q \in Pics
  BY DEF SetRequest, Pics
<1> HIDE DEF q
<1>3. IsDriven(p, l, a, q)
  BY <1>1, <1>2 DEF IsDriven
<1> QED BY <1>3 DEF q

\* ap_i8259_set_request latches no request without its wire and programs nothing.
LEMMA SetRequestPlain ==
  ASSUME NEW p \in Pics, NEW l \in Level, NEW a \in BOOLEAN, Plain8259(p)
  PROVE  Plain8259(SetRequest(p, l, a))
<1> DEFINE q == SetRequest(p, l, a)
<1>1. IsDriven(p, l, a, q)
  BY SetRequestIs
<1> HIDE DEF q
<1>2. Plain8259(q)
  BY <1>1 DEF IsDriven, Plain8259, SameSettings
<1> QED BY <1>2 DEF q

\* update_cascade makes the cascade's wire the slave's output, and latches it
\* when it rises.
LEMMA UpdateCascadeIs ==
  ASSUME NEW b \in Board, \A c \in Chips : Plain8259(b[c]), Wired(b)
  PROVE  /\ Sound(UpdateCascade(b))
         /\ UpdateCascade(b)["slave"] = b["slave"]
         /\ SameSettings(b["master"], UpdateCascade(b)["master"])
         /\ Latched(b) => Latched(UpdateCascade(b))
         /\ Cascade \in UpdateCascade(b)["master"].pins <=> Pending(b["slave"])
         /\ \A l \in Level \ {Cascade} :
               /\ l \in UpdateCascade(b)["master"].pins <=> l \in b["master"].pins
               /\ l \in UpdateCascade(b)["master"].irr <=> l \in b["master"].irr
<1> DEFINE a == Pending(b["slave"])
           m == b["master"]
           q == SetRequest(m, Cascade, a)
           u == UpdateCascade(b)
<1>1. m \in Pics /\ Cascade \in Level /\ a \in BOOLEAN /\ Plain8259(m)
  BY BoardAssumption DEF Board, Chips, Pending
<1>2. u = [b EXCEPT !["master"] = q]
  BY DEF UpdateCascade
<1> HIDE DEF m, a
<1>3. IsDriven(m, Cascade, a, q)
  BY <1>1, SetRequestIs
<1>4. Plain8259(q)
  BY <1>1, SetRequestPlain
<1> HIDE DEF q, u
<1>5. u["master"] = q /\ u["slave"] = b["slave"] /\ u \in Board
  BY <1>2, <1>3 DEF Board, Chips, IsDriven
<1>6. Cascade \in q.pins <=> a
  BY <1>3 DEF IsDriven
<1>7. Sound(u)
  BY <1>4, <1>5, <1>6 DEF Sound, CascadeTrue, Wired, Chips, a
<1>8. \A l \in Level \ {Cascade} : /\ l \in q.pins <=> l \in m.pins
                                   /\ l \in q.irr <=> l \in m.irr
  BY <1>3 DEF IsDriven
<1>9. Latched(b) => Latched(u)
  BY <1>3, <1>5 DEF Latched, IsDriven, m
<1> QED BY <1>3, <1>5, <1>6, <1>7, <1>8, <1>9 DEF IsDriven, u, m, a

SameChips(b, q) == \A c \in Chips : SameSettings(b[c], q[c])

\* A line an interrupt controller has on this board, on which controller and at
\* which of its levels.
Lines == (0 .. 2 * Levels - 1) \ {Cascade}

\* ap_intr_set_request on the master.
LEMMA MasterLine ==
  ASSUME NEW b \in Board, Sound(b), NEW irq \in Lines, irq < Levels, NEW a \in BOOLEAN
  PROVE  LET q == IntrSetRequest(b, irq, a)
         IN  /\ Sound(q) /\ SameChips(b, q)
             /\ Latched(b) => Latched(q)
             /\ Follows(q, irq, a)
             /\ \A i \in Lines \ {irq}, x \in BOOLEAN : Follows(b, i, x) => Follows(q, i, x)
             /\ Follows(b, irq, a) => q = b
<1> DEFINE m == b["master"]
           n == SetRequest(m, irq, a)
           q == IntrSetRequest(b, irq, a)
<1>1. m \in Pics /\ irq \in Level /\ irq # Cascade /\ Cascade \in Level /\ Plain8259(m)
  BY BoardAssumption DEF Board, Chips, Lines, Sound
<1>2. q = [b EXCEPT !["master"] = n]
  BY DEF IntrSetRequest
<1> HIDE DEF m
<1>3. IsDriven(m, irq, a, n) /\ Plain8259(n)
  BY <1>1, SetRequestIs, SetRequestPlain
<1> HIDE DEF n, q
<1>4. q["master"] = n /\ q["slave"] = b["slave"] /\ q \in Board
  BY <1>2, <1>3 DEF Board, Chips, IsDriven
<1>5. /\ Cascade \in n.pins <=> Cascade \in m.pins
      /\ Cascade \in n.irr <=> Cascade \in m.irr
  BY <1>1, <1>3 DEF IsDriven
<1>6. Sound(q)
  BY <1>3, <1>4, <1>5 DEF Sound, CascadeTrue, Wired, Chips, m
<1>7. SameChips(b, q)
  BY <1>3, <1>4 DEF SameChips, Chips, IsDriven, SameSettings, m
<1>8. Latched(b) => Latched(q)
  BY <1>4, <1>5 DEF Latched, m
<1>9. Follows(q, irq, a)
  <2>1. /\ irq \in n.pins <=> a
        /\ a /\ n.ltim => irq \in n.irr
    BY <1>3 DEF IsDriven, SameSettings
  <2> QED BY <1>4, <2>1, irq < Levels DEF Follows
<1>10. ASSUME NEW i \in Lines \ {irq}, NEW x \in BOOLEAN, Follows(b, i, x)
       PROVE  Follows(q, i, x)
  <2>1. CASE i < Levels
    <3>1. /\ i \in n.pins <=> i \in m.pins
          /\ i \in n.irr <=> i \in m.irr
          /\ n.ltim = m.ltim
      BY <1>3 DEF IsDriven, SameSettings
    <3> QED BY <1>4, <1>10, <2>1, <3>1 DEF Follows, m
  <2>2. CASE ~(i < Levels)
    BY <1>4, <1>10, <2>2 DEF Follows
  <2> QED BY <2>1, <2>2
<1>11. ASSUME Follows(b, irq, a) PROVE q = b
  <2>1. /\ irq \in m.pins <=> a
        /\ a /\ m.ltim => irq \in m.irr
    BY <1>11 DEF Follows, m
  <2>2. n.pins = m.pins
    BY <1>3, <2>1 DEF IsDriven
  <2>3. n.irr = m.irr
    BY <1>1, <1>3, <2>1 DEF IsDriven, Plain8259
  <2>4. n = [m EXCEPT !.pins = n.pins, !.irr = n.irr]
    BY <1>1 DEF n, SetRequest, Pics
  <2>5. [m EXCEPT !.pins = m.pins, !.irr = m.irr] = m
    BY <1>1 DEF Pics
  <2>6. n = m
    BY <2>2, <2>3, <2>4, <2>5
  <2> QED BY <1>2, <2>6 DEF Board, m
<1> QED BY <1>6, <1>7, <1>8, <1>9, <1>10, <1>11 DEF q

\* ap_intr_set_request on the slave: the cascade follows if the wire moved, and
\* need not if it did not.
LEMMA SlaveLine ==
  ASSUME NEW b \in Board, Sound(b), NEW irq \in Lines, ~(irq < Levels),
         \E d \in Devices : Irq[d] = irq, NEW a \in BOOLEAN
  PROVE  LET q == IntrSetRequest(b, irq, a)
         IN  /\ Sound(q) /\ SameChips(b, q)
             /\ Latched(b) => Latched(q)
             /\ Follows(q, irq, a)
             /\ \A i \in Lines \ {irq}, x \in BOOLEAN : Follows(b, i, x) => Follows(q, i, x)
             /\ Follows(b, irq, a) => q = b
<1> DEFINE l == irq - Levels
           s == b["slave"]
           n == SetRequest(s, l, a)
           e == [b EXCEPT !["slave"] = n]
           u == UpdateCascade(e)
           q == IntrSetRequest(b, irq, a)
<1>1. s \in Pics /\ l \in Level /\ irq = Levels + l /\ Cascade \in Level /\ Plain8259(s)
  BY BoardAssumption DEF Board, Chips, Lines, Sound
<1>2. q = IF Moved(s, l, a) THEN u ELSE e
  BY DEF IntrSetRequest
<1> HIDE DEF s, l
<1>3. IsDriven(s, l, a, n) /\ Plain8259(n)
  BY <1>1, SetRequestIs, SetRequestPlain
<1> HIDE DEF n, q
<1>4. e["slave"] = n /\ e["master"] = b["master"] /\ e \in Board
  BY <1>3 DEF Board, Chips, IsDriven, s
<1> HIDE DEF e, u
<1>5. \A c \in Chips : Plain8259(e[c])
  BY <1>3, <1>4 DEF Sound, Chips
<1>6. Wired(e)
  <2>1. \A k \in n.pins : k \in s.pins \/ k = l
    BY <1>3 DEF IsDriven
  <2> QED BY <1>1, <1>4, <2>1 DEF Wired, Sound, s
<1>7. SameChips(b, e)
  BY <1>3, <1>4 DEF SameChips, Chips, IsDriven, SameSettings, s
<1>8. Latched(b) => Latched(e)
  BY <1>4 DEF Latched
<1>9. Follows(e, irq, a)
  <2>1. /\ l \in n.pins <=> a
        /\ a /\ n.ltim => l \in n.irr
    BY <1>3 DEF IsDriven, SameSettings
  <2> QED BY <1>4, <2>1, ~(irq < Levels) DEF Follows, l
<1>10. ASSUME NEW i \in Lines \ {irq}, NEW x \in BOOLEAN, Follows(b, i, x)
       PROVE  Follows(e, i, x)
  <2>1. CASE ~(i < Levels)
    <3> DEFINE k == i - Levels
    <3>1. k # l
      BY <1>1, <2>1 DEF Lines, l
    <3>2. /\ k \in n.pins <=> k \in s.pins
          /\ k \in n.irr <=> k \in s.irr
          /\ n.ltim = s.ltim
      <4> HIDE DEF k
      <4> QED BY <1>3, <3>1 DEF IsDriven, SameSettings
    <3> QED BY <1>4, <1>10, <2>1, <3>2 DEF Follows, s
  <2>2. CASE i < Levels
    BY <1>4, <1>10, <2>2 DEF Follows
  <2> QED BY <2>1, <2>2
<1>11. /\ Sound(u) /\ u["slave"] = n /\ SameSettings(b["master"], u["master"])
       /\ Latched(e) => Latched(u)
       /\ \A k \in Level \ {Cascade} :
             /\ k \in u["master"].pins <=> k \in b["master"].pins
             /\ k \in u["master"].irr <=> k \in b["master"].irr
  BY <1>4, <1>5, <1>6, UpdateCascadeIs DEF u
<1>12. CASE Moved(s, l, a)
  <2>1. q = u
    BY <1>2, <1>12
  <2>2. SameChips(b, u)
    BY <1>7, <1>4, <1>11 DEF SameChips, Chips
  <2>3. ASSUME NEW i \in Lines, NEW x \in BOOLEAN, Follows(e, i, x)
        PROVE  Follows(u, i, x)
    <3>1. CASE i < Levels
      <4>1. i \in Level \ {Cascade} /\ u["master"].ltim = e["master"].ltim
        BY <1>4, <1>11, <3>1 DEF Lines, SameSettings
      <4> QED BY <1>4, <1>11, <2>3, <3>1, <4>1 DEF Follows
    <3>2. CASE ~(i < Levels)
      BY <1>4, <1>11, <2>3, <3>2 DEF Follows
    <3> QED BY <3>1, <3>2
  <2>4. ~Follows(b, irq, a)
    BY <1>12, ~(irq < Levels) DEF Moved, Follows, l, s
  <2> QED BY <1>8, <1>9, <1>10, <1>11, <2>1, <2>2, <2>3, <2>4 DEF q
<1>13. CASE ~Moved(s, l, a)
  <2>1. q = e
    BY <1>2, <1>13
  <2>2. l \in s.pins <=> a
    BY <1>13 DEF Moved
  <2>3. n.pins = s.pins
    BY <1>3, <2>2 DEF IsDriven
  <2>4. s.irr \subseteq n.irr
    BY <1>1, <1>3, <2>2 DEF IsDriven, Plain8259
  <2>5. CascadeTrue(e)
    <3>1. Pending(s) => Pending(n)
      BY <1>1, <1>3, <2>4, PendingGrows DEF IsDriven, Plain8259, SameSettings
    <3> QED BY <1>4, <3>1 DEF CascadeTrue, Sound, s
  <2>6. Sound(e)
    BY <1>4, <1>5, <1>6, <2>5 DEF Sound
  <2>7. ASSUME Follows(b, irq, a) PROVE e = b
    <3>1. a /\ s.ltim => l \in s.irr
      BY <2>7, ~(irq < Levels) DEF Follows, s, l
    <3>2. n.irr = s.irr
      BY <1>1, <1>3, <2>2, <3>1 DEF IsDriven, Plain8259
    <3>3. n = [s EXCEPT !.pins = n.pins, !.irr = n.irr]
      BY <1>1 DEF n, SetRequest, Pics
    <3>4. [s EXCEPT !.pins = s.pins, !.irr = s.irr] = s
      BY <1>1 DEF Pics
    <3>5. n = s
      BY <2>3, <3>2, <3>3, <3>4
    <3> QED BY <3>5 DEF Board, e, s
  <2> QED BY <1>7, <1>8, <1>9, <1>10, <2>1, <2>6, <2>7 DEF q
<1> QED BY <1>12, <1>13

\* Either way a line driven is followed, and driving it again does nothing.
LEMMA IntrSetRequestIs ==
  ASSUME NEW b \in Board, Sound(b), NEW d \in Devices, NEW a \in BOOLEAN
  PROVE  LET q == IntrSetRequest(b, Irq[d], a)
         IN  /\ Sound(q) /\ SameChips(b, q)
             /\ Latched(b) => Latched(q)
             /\ Follows(q, Irq[d], a)
             /\ \A i \in Lines \ {Irq[d]}, x \in BOOLEAN : Follows(b, i, x) => Follows(q, i, x)
             /\ Follows(b, Irq[d], a) => q = b
<1>1. Irq[d] \in Lines
  BY BoardAssumption DEF Lines
<1>2. CASE Irq[d] < Levels
  BY <1>1, <1>2, MasterLine
<1>3. CASE ~(Irq[d] < Levels)
  BY <1>1, <1>3, SlaveLine
<1> QED BY <1>2, <1>3

-----------------------------------------------------------------------------
(* The loop over the lines                                                 *)

\* The controllers after the first j turns of ap_board_sample_interrupts.
Turn(b, j, ln) ==
    /\ b \in Board /\ Sound(b) /\ SameChips(pic, b)
    /\ Latched(pic) => Latched(b)
    /\ \A i \in 1 .. j : Follows(b, Irq[Order[i]], ln[Order[i]])
    /\ (\A d \in Devices : Follows(pic, Irq[d], ln[d])) => b = pic

Drive(b, j, ln) == IntrSetRequest(b, Irq[Order[j]], ln[Order[j]])

\* The visits of ap_board_sample_interrupts are to devices, and to all of them.
LEMMA OrderIs ==
  /\ Len(Order) \in Nat /\ DOMAIN Order = 1 .. Len(Order)
  /\ \A j \in 1 .. Len(Order) : Order[j] \in Devices /\ Irq[Order[j]] \in Lines
  /\ \A d \in Devices : \E j \in 1 .. Len(Order) : Order[j] = d
<1>1. Len(Order) \in Nat /\ DOMAIN Order = 1 .. Len(Order)
  BY BoardAssumption
<1> QED BY <1>1, BoardAssumption DEF Devices, Lines

\* One more turn of ap_board_sample_interrupts: the line driven is followed, the
\* lines driven before still are.
LEMMA TurnKeeps ==
  ASSUME NEW ln \in [Devices -> BOOLEAN], NEW j \in 1 .. Len(Order), NEW b, Turn(b, j - 1, ln)
  PROVE  Turn(Drive(b, j, ln), j, ln)
<1> DEFINE d == Order[j]
           q == Drive(b, j, ln)
<1>1. d \in Devices /\ Irq[d] \in Lines /\ ln[d] \in BOOLEAN
  BY OrderIs
<1>2. b \in Board /\ Sound(b)
  BY DEF Turn
<1> HIDE DEF d
<1>3. /\ Sound(q) /\ SameChips(b, q)
      /\ Latched(b) => Latched(q)
      /\ Follows(q, Irq[d], ln[d])
      /\ \A i \in Lines \ {Irq[d]}, x \in BOOLEAN : Follows(b, i, x) => Follows(q, i, x)
      /\ Follows(b, Irq[d], ln[d]) => q = b
  BY <1>1, <1>2, IntrSetRequestIs DEF Drive, d
<1> HIDE DEF q
<1>4. q \in Board /\ SameChips(pic, q) /\ (Latched(pic) => Latched(q))
  BY <1>3 DEF Sound, Turn, SameChips, SameSettings
<1>5. ASSUME NEW i \in 1 .. j PROVE Follows(q, Irq[Order[i]], ln[Order[i]])
  <2>1. Order[i] \in Devices /\ Irq[Order[i]] \in Lines /\ ln[Order[i]] \in BOOLEAN
    <3>1. i \in 1 .. Len(Order)
      BY OrderIs
    <3> QED BY <3>1, OrderIs
  <2>2. CASE Order[i] = d
    BY <1>3, <2>2
  <2>3. CASE Order[i] # d
    <3>1. Irq[Order[i]] # Irq[d]
      BY <1>1, <2>1, <2>3, BoardAssumption
    <3>2. i \in 1 .. j - 1
      BY <2>3, OrderIs DEF d
    <3>3. Follows(b, Irq[Order[i]], ln[Order[i]])
      BY <3>2 DEF Turn
    <3> QED BY <1>3, <2>1, <3>1, <3>3
  <2> QED BY <2>2, <2>3
<1>6. ASSUME \A k \in Devices : Follows(pic, Irq[k], ln[k]) PROVE q = pic
  <2>1. b = pic
    BY <1>6 DEF Turn
  <2> QED BY <1>1, <1>3, <1>6, <2>1
<1>7. Turn(q, j, ln)
  BY <1>3, <1>4, <1>5, <1>6 DEF Turn
<1> QED BY <1>7 DEF q

\* The loop of ap_board_sample_interrupts, after any number of its turns.
LEMMA DrivenIs ==
  ASSUME pic \in Board, Sound(pic), NEW ln \in [Devices -> BOOLEAN],
         NEW k \in 0 .. Len(Order)
  PROVE  Turn(Driven(ln)[k], k, ln)
<1> DEFINE S == {b \in Board : Sound(b)}
           D == [j \in 1 .. k |-> [b \in S |-> Drive(b, j, ln)]]
           Step(r) == [j \in 0 .. k |-> IF j = 0 THEN pic
                                         ELSE IntrSetRequest(r[j - 1], Irq[Order[j]],
                                                             ln[Order[j]])]
           r == CHOOSE f : f = Step(f)
<1>1. k \in Nat /\ \A j \in 1 .. k : j \in 1 .. Len(Order)
  BY OrderIs
<1>2. D \in [1 .. k -> [S -> S]]
  <2>1. ASSUME NEW j \in 1 .. k, NEW b \in S PROVE Drive(b, j, ln) \in S
    <3>1. Order[j] \in Devices /\ ln[Order[j]] \in BOOLEAN
      BY <1>1, OrderIs
    <3>2. Sound(Drive(b, j, ln))
      BY <3>1, IntrSetRequestIs DEF Drive
    <3> QED BY <3>2 DEF Sound
  <2> HIDE DEF S
  <2> QED BY <2>1
<1>3. \E g \in [0 .. k -> S] : IsRun(g, k, pic, D)
  <2>1. pic \in S
    OBVIOUS
  <2> HIDE DEF S, D
  <2> QED BY <1>1, <1>2, <2>1, LoopRuns
<1>4. \E g : g = Step(g)
  <2>1. PICK g \in [0 .. k -> S] : IsRun(g, k, pic, D)
    BY <1>3
  <2>2. ASSUME NEW j \in 1 .. k
        PROVE  D[j][g[j - 1]] = IntrSetRequest(g[j - 1], Irq[Order[j]], ln[Order[j]])
    <3> HIDE DEF S
    <3>1. g[j - 1] \in S
      BY <1>1, <2>1, <2>2
    <3> QED BY <3>1 DEF Drive
  <2> HIDE DEF D
  <2>3. \A j \in 0 .. k : j # 0 => j \in 1 .. k
    BY <1>1
  <2>4. g = Step(g)
    BY <2>1, <2>2, <2>3 DEF IsRun
  <2> QED BY <2>4
<1>5. r = Step(r)
  BY <1>4
<1>6. r[0] = pic /\ \A j \in 1 .. k : r[j] = Drive(r[j - 1], j, ln)
  <2> HIDE DEF r
  <2> QED BY <1>1, <1>5 DEF Drive
<1>7. Driven(ln)[k] = r[k]
  BY <1>1 DEF Driven
<1> HIDE DEF r
<1>8. \A j \in 0 .. k : j \in {i \in 0 .. k : Turn(r[i], i, ln)}
  <2> DEFINE T == {i \in 0 .. k : Turn(r[i], i, ln)}
  <2>1. 0 \in T
    BY <1>1, <1>6 DEF Turn, SameChips, SameSettings
  <2>2. ASSUME NEW j \in 1 .. k, j - 1 \in T PROVE j \in T
    <3>1. Turn(r[j - 1], j - 1, ln)
      BY <2>2
    <3>2. Turn(Drive(r[j - 1], j, ln), j, ln)
      BY <1>1, <3>1, TurnKeeps
    <3> QED BY <1>6, <3>2
  <2> HIDE DEF T
  <2>3. \A j \in 0 .. k : j \in T
    BY <1>1, <2>1, <2>2, BoundedInduction
  <2> QED BY <2>3 DEF T
<1> QED BY <1>1, <1>7, <1>8

-----------------------------------------------------------------------------
(* The invariant                                                           *)

TypeOK ==
    /\ pic \in Board
    /\ line \in [Devices -> BOOLEAN]
    /\ due \in [Devices -> 1 .. Never]
    /\ valid \in 0 .. Never
    /\ at \in Phases
    /\ level \in BOOLEAN /\ masked \in BOOLEAN /\ bit \in BOOLEAN
    /\ frames \in Seq(Frames)
    /\ plain \in BOOLEAN /\ spent \in BOOLEAN
    /\ commands \in Nat

\* The promise of the last sample ends before any device that was asked moves
\* its line.
PromiseHolds ==
    /\ \A d \in Devices \ Timed : due[d] = Never
    /\ valid # 0 => \A d \in Devices : valid <= due[d]

\* While the promise stands the slave's wires are latched; an instruction
\* executes under it, with the level the controllers give.
Ready ==
    /\ valid # 0 => Relatched(pic)
    /\ at = "step" => valid # 0 /\ level = Pending(pic["master"])

IInv ==
    /\ TypeOK /\ Sound(pic) /\ PromiseHolds /\ Ready
    /\ ~spent => Latched(pic)

\* While the promise stands either every line it is about is where the last sample
\* left it and followed, or RESET has masked the master.
Settled ==
    valid # 0 => \/ pic["master"].imr = Level
                 \/ \A d \in Devices : Follows(pic, Irq[d], Promised[d])

\* The lines a promise is about are each up or down.
LEMMA PromisedIs ==
  ASSUME line \in [Devices -> BOOLEAN]
  PROVE  Promised \in [Devices -> BOOLEAN]
<1>1. ASSUME NEW d \in Devices
      PROVE  (IF d \in Unasked THEN Wire(Irq[d]) ELSE line[d]) \in BOOLEAN
  <2>1. CASE d \in Unasked
    <3>1. CASE Irq[d] < Levels
      BY <2>1, <3>1 DEF Wire
    <3>2. CASE ~(Irq[d] < Levels)
      BY <2>1, <3>2 DEF Wire
    <3> QED BY <3>1, <3>2
  <2>2. CASE d \notin Unasked
    BY <2>2
  <2> QED BY <2>1, <2>2
<1> QED BY <1>1 DEF Promised

\* A wire that is followed is as it was driven.
LEMMA FollowedWire ==
  ASSUME NEW b, NEW irq, NEW x \in BOOLEAN, Follows(b, irq, x)
  PROVE  (IF irq < Levels THEN irq \in b["master"].pins
          ELSE irq - Levels \in b["slave"].pins) = x
  BY DEF Follows

\* The lines a promise is about stay where they are as long as those of the devices
\* that answer do, and the controllers follow them.
LEMMA PromisedStay ==
  ASSUME NEW x \in [Devices -> BOOLEAN], \A d \in Devices : Follows(pic', Irq[d], x[d]),
         \A d \in Devices \ Unasked : line'[d] = x[d]
  PROVE  \A d \in Devices : Follows(pic', Irq[d], Promised'[d])
<1> SUFFICES ASSUME NEW d \in Devices PROVE Promised'[d] = x[d]
  OBVIOUS
<1>1. Wire(Irq[d])' = x[d]
  BY FollowedWire DEF Wire
<1> QED BY <1>1 DEF Promised

\* The handlers that owe a controller an end of interrupt.
Owing(f, c) == {k \in DOMAIN f : c \in f[k].owes}

Leveled(f) == \A c \in Chips : \A k \in Owing(f, c) : f[k].level[c] \in Level

\* What is in service on a controller is what the handlers that owe it an end
\* were acknowledged with, each before those it interrupted.
Nest(f, c, inService) ==
    /\ inService = {f[k].level[c] : k \in Owing(f, c)}
    /\ \A j, k \in Owing(f, c) : j < k => f[k].level[c] < f[j].level[c]

Nested ==
    /\ Leveled(frames)
    /\ plain => \A c \in Chips : /\ pic[c].top = 0 /\ ~pic[c].smm
                                 /\ Nest(frames, c, pic[c].isr)

-----------------------------------------------------------------------------
(* Register accesses                                                       *)

\* A register access leaves the wires, and a controller software may program.
Accessed(p, q) == q \in Pics /\ Plain8259(q) /\ q.pins = p.pins

\* ap_intr_read and ap_intr_write: the access leaves the pair of controllers sound,
\* the slave's through update_cascade.
LEMMA AccessKeeps ==
  ASSUME NEW b \in Board, Sound(b), NEW chip \in Chips, NEW q, Accessed(b[chip], q)
  PROVE  LET w == WithChip(b, chip, q)
         IN  /\ Sound(w)
             /\ SameSettings(q, w[chip])
             /\ \A c \in Chips \ {chip} : SameSettings(b[c], w[c])
             /\ chip = "slave" => w["slave"] = q /\ (Latched(b) => Latched(w))
             /\ chip = "master" => w["master"] = q /\ w["slave"] = b["slave"]
<1> DEFINE e == [b EXCEPT ![chip] = q]
           w == WithChip(b, chip, q)
<1>1. /\ e \in Board /\ e[chip] = q /\ \A c \in Chips \ {chip} : e[c] = b[c]
  BY DEF Board, Accessed
<1>2. w = IF chip = "slave" THEN UpdateCascade(e) ELSE e
  BY DEF WithChip
<1> HIDE DEF e, w
<1>3. \A c \in Chips : Plain8259(e[c])
  BY <1>1 DEF Sound, Accessed
<1>4. e["slave"].pins = b["slave"].pins
  BY <1>1 DEF Accessed, Chips
<1>5. Wired(e)
  BY <1>4 DEF Wired, Sound
<1>6. CASE chip = "slave"
  <2>1. w = UpdateCascade(e)
    BY <1>2, <1>6
  <2>2. /\ Sound(UpdateCascade(e))
        /\ UpdateCascade(e)["slave"] = e["slave"]
        /\ SameSettings(e["master"], UpdateCascade(e)["master"])
        /\ Latched(e) => Latched(UpdateCascade(e))
    BY <1>1, <1>3, <1>5, UpdateCascadeIs
  <2>3. e["slave"] = q /\ e["master"] = b["master"]
    BY <1>1, <1>6 DEF Chips
  <2>4. Latched(b) => Latched(e)
    BY <2>3 DEF Latched
  <2>5. SameSettings(q, q)
    BY DEF SameSettings
  <2>6. \A c \in Chips \ {chip} : c = "master"
    BY <1>6 DEF Chips
  <2> QED BY <1>6, <2>1, <2>2, <2>3, <2>4, <2>5, <2>6 DEF w
<1>7. CASE chip = "master"
  <2>1. w = e
    BY <1>2, <1>7
  <2>2. e["master"] = q /\ e["slave"] = b["slave"]
    BY <1>1, <1>7 DEF Chips
  <2>3. CascadeTrue(e)
    BY <1>7, <2>2 DEF CascadeTrue, Sound, Accessed
  <2>4. Sound(e)
    BY <1>1, <1>3, <1>5, <2>3 DEF Sound
  <2>5. SameSettings(q, q) /\ \A c \in Chips \ {chip} : SameSettings(b[c], e[c])
    BY <1>1 DEF SameSettings
  <2> QED BY <1>7, <2>1, <2>2, <2>4, <2>5 DEF w
<1> QED BY <1>6, <1>7 DEF Chips

\* begin_initialization leaves the wires.
LEMMA Icw1Accessed ==
  ASSUME NEW p \in Pics, Plain8259(p), NEW ltim \in BOOLEAN
  PROVE  Accessed(p, Icw1(p, ltim, FALSE, TRUE))
<1> DEFINE q == Icw1(p, ltim, FALSE, TRUE)
           a == p.aeoi /\ TRUE
           f == p.sfnm /\ TRUE
<1>1. a \in BOOLEAN /\ f \in BOOLEAN /\ ~a /\ ~f
  BY DEF Plain8259
<1>2. q = [p EXCEPT !.ltim = ltim, !.sngl = FALSE, !.ic4 = TRUE, !.irr = {}, !.imr = {},
                    !.isr = {}, !.top = 0, !.smm = FALSE, !.arot = FALSE, !.poll = FALSE,
                    !.aeoi = a, !.sfnm = f, !.init = "icw2"]
  BY DEF Icw1
<1> HIDE DEF q, a, f
<1>3. q \in Pics
  <2>1. q = [irr |-> {}, isr |-> {}, imr |-> {}, pins |-> p.pins, top |-> 0,
             ltim |-> ltim, sngl |-> FALSE, ic4 |-> TRUE, aeoi |-> a, sfnm |-> f,
             arot |-> FALSE, smm |-> FALSE, poll |-> FALSE, init |-> "icw2"]
    BY <1>2 DEF Pics
  <2>2. 0 \in Level /\ {} \in SUBSET Level /\ p.pins \in SUBSET Level
    BY DEF Pics
  <2> QED BY <1>1, <2>1, <2>2 DEF Pics
<1>4. q.aeoi = a /\ q.sfnm = f /\ q.irr = {} /\ q.pins = p.pins
  BY <1>2 DEF Pics
<1>5. Accessed(p, q)
  BY <1>1, <1>3, <1>4 DEF Accessed, Plain8259
<1> QED BY <1>5 DEF q

\* A write to the odd address changes the mask or the initialization, and neither
\* requests, service nor priorities.
LEMMA WriteOddAccessed ==
  ASSUME NEW p \in Pics, Plain8259(p), NEW mask \in SUBSET Level
  PROVE  /\ Accessed(p, WriteOdd(p, mask, FALSE, FALSE))
         /\ WriteOdd(p, mask, FALSE, FALSE).irr = p.irr
         /\ WriteOdd(p, mask, FALSE, FALSE).isr = p.isr
         /\ WriteOdd(p, mask, FALSE, FALSE).top = p.top
         /\ WriteOdd(p, mask, FALSE, FALSE).smm = p.smm
<1>1. p.init \in {"icw2", "icw3", "icw4", "ready"}
  BY DEF Pics
<1>2. CASE p.init = "icw2"
  BY <1>2 DEF Accessed, WriteOdd, Pics, Plain8259
<1>3. CASE p.init = "icw3"
  BY <1>3 DEF Accessed, WriteOdd, Pics, Plain8259
<1>4. CASE p.init = "icw4"
  BY <1>4 DEF Accessed, WriteOdd, Pics, Plain8259
<1>5. CASE p.init = "ready"
  BY <1>5 DEF Accessed, WriteOdd, Pics, Plain8259
<1> QED BY <1>1, <1>2, <1>3, <1>4, <1>5

\* An end of interrupt, rotating or not, leaves wires and requests.
LEMMA EndServiceAccessed ==
  ASSUME NEW p \in Pics, Plain8259(p), NEW l, l \in Level \/ l = NoLevel, NEW rotate \in BOOLEAN
  PROVE  /\ Accessed(p, EndService(p, l, rotate))
         /\ EndService(p, l, rotate).irr = p.irr
<1>1. CASE l = NoLevel
  BY <1>1 DEF EndService, Accessed
<1>2. CASE l # NoLevel
  <2>1. l \in Level /\ (l + 1) % Levels \in Level
    <3>1. \A n \in Nat \ {0} : \A k \in Nat : k % n \in 0 .. n - 1
      OBVIOUS
    <3>2. Levels \in Nat \ {0} /\ l + 1 \in Nat /\ l \in Level
      BY <1>2
    <3>3. (l + 1) % Levels \in 0 .. Levels - 1
      BY <3>1, <3>2, Zenon
    <3> QED BY <3>2, <3>3
  <2> QED BY <1>2, <2>1 DEF EndService, Accessed, Pics, Plain8259
<1> QED BY <1>1, <1>2

\* highest_in_service answers a level or none.
LEMMA HighestType ==
  ASSUME NEW p \in Pics
  PROVE  HighestInService(p) \in Level \/ HighestInService(p) = NoLevel
<1>1. Blocking(p) \in SUBSET Level
  BY DEF Blocking, Pics
<1>2. CASE Blocking(p) = {}
  BY <1>2 DEF HighestInService
<1>3. CASE Blocking(p) # {}
  BY <1>1, <1>3, FirstIs DEF HighestInService
<1> QED BY <1>2, <1>3

\* resolve answers a level, or none if nothing is pending.
LEMMA ResolveType ==
  ASSUME NEW p \in Pics, ~p.sfnm
  PROVE  Resolve(p) \in Level \cup {NoLevel} /\ (Resolve(p) = NoLevel <=> ~Pending(p))
<1>1. CASE Pending(p)
  <2>1. Resolve(p) \in Level
    BY <1>1, ResolveIs
  <2> QED BY <1>1, <2>1 DEF NoLevel
<1>2. CASE ~Pending(p)
  BY <1>2 DEF Resolve
<1> QED BY <1>1, <1>2

\* What going into service does to a controller.
LEMMA ServeIs ==
  ASSUME NEW p \in Pics, Plain8259(p), NEW l \in Level
  PROVE  LET q == Serve(p, l)
         IN  /\ Accessed(p, q)
             /\ q.isr = p.isr \cup {l}
             /\ q.imr = p.imr /\ q.top = p.top /\ q.ltim = p.ltim /\ q.smm = p.smm
             /\ p.irr \ {l} \subseteq q.irr
             /\ p.ltim => p.pins \subseteq q.irr
<1> DEFINE q == Serve(p, l)
<1>1. /\ q \in Pics /\ q.pins = p.pins /\ q.aeoi = p.aeoi /\ q.sfnm = p.sfnm
      /\ q.isr = p.isr \cup {l}
      /\ q.imr = p.imr /\ q.top = p.top /\ q.ltim = p.ltim /\ q.smm = p.smm
      /\ q.irr = (p.irr \ {l}) \cup (IF p.ltim THEN p.pins ELSE {})
  BY DEF Serve, Pics
<1> HIDE DEF q
<1>2. p.irr \ {l} \subseteq q.irr /\ (p.ltim => p.pins \subseteq q.irr) /\ q.irr \subseteq q.pins
  BY <1>1 DEF Plain8259
<1> QED BY <1>1, <1>2 DEF Accessed, Plain8259, q

\* Without automatic EOI an acknowledge puts the resolved level in service, if
\* there is one, and does nothing else.
LEMMA AcknowledgeIs ==
  ASSUME NEW p \in Pics, Plain8259(p)
  PROVE  Acknowledge(p) = IF Pending(p) THEN Serve(p, Resolve(p)) ELSE p
<1>1. CASE Pending(p)
  <2> DEFINE q == Serve(p, Resolve(p))
  <2>1. ~q.aeoi
    <3>1. Resolve(p) \in Level
      BY <1>1, ResolveIs DEF Plain8259
    <3>2. Accessed(p, q)
      BY <3>1, ServeIs
    <3> QED BY <3>2 DEF Accessed, Plain8259
  <2> HIDE DEF q
  <2>2. Acknowledge(p) = IF q.aeoi THEN EndService(q, HighestInService(q), q.arot) ELSE q
    BY <1>1 DEF Acknowledge, q
  <2>3. Acknowledge(p) = q
    BY <2>1, <2>2
  <2> QED BY <1>1, <2>3 DEF q
<1>2. CASE ~Pending(p)
  BY <1>2 DEF Acknowledge, Plain8259
<1> QED BY <1>1, <1>2

-----------------------------------------------------------------------------
(* The handlers                                                            *)

\* A function on 1 .. n is a sequence of that length.
LEMMA SeqOf ==
  ASSUME NEW S, NEW n \in Nat, NEW f \in [1 .. n -> S]
  PROVE  f \in Seq(S) /\ Len(f) = n
OBVIOUS

\* Handlers that owe less are handlers still.
LEMMA FramesForgive ==
  ASSUME NEW f \in Seq(Frames), NEW G \in SUBSET Chips
  PROVE  /\ [k \in DOMAIN f |-> [f[k] EXCEPT !.owes = @ \ G]] \in Seq(Frames)
         /\ [k \in DOMAIN f |-> [f[k] EXCEPT !.owes = {}]] \in Seq(Frames)
<1>1. Len(f) \in Nat /\ DOMAIN f = 1 .. Len(f) /\ \A k \in 1 .. Len(f) : f[k] \in Frames
  OBVIOUS
<1>2. \A k \in 1 .. Len(f) : /\ [f[k] EXCEPT !.owes = @ \ G] \in Frames
                            /\ [f[k] EXCEPT !.owes = {}] \in Frames
  BY <1>1 DEF Frames
<1> DEFINE g == [k \in 1 .. Len(f) |-> [f[k] EXCEPT !.owes = @ \ G]]
           h == [k \in 1 .. Len(f) |-> [f[k] EXCEPT !.owes = {}]]
<1>3. g \in [1 .. Len(f) -> Frames] /\ h \in [1 .. Len(f) -> Frames]
  BY <1>2
<1>4. g \in Seq(Frames) /\ h \in Seq(Frames)
  <2> HIDE DEF g, h
  <2> QED BY <1>1, <1>3, SeqOf
<1> QED BY <1>1, <1>4

-----------------------------------------------------------------------------
(* One lemma per action                                                    *)

\* Any access to a controller's registers keeps the invariant, and as it ends the
\* promise the lines are settled, provided that it loses no cascade unnoticed.
LEMMA TouchKeeps ==
  ASSUME IInv, NEW chip \in Chips, NEW q, Accessed(pic[chip], q), TouchChip(chip, q),
         frames' \in Seq(Frames), plain' \in BOOLEAN, spent' \in BOOLEAN, commands' \in Nat,
         ~spent' /\ Cascade \in pic'["master"].pins =>
            ~spent /\ (chip = "master" /\ Cascade \in pic["master"].irr => Cascade \in q.irr)
  PROVE  IInv' /\ Settled'
<1>1. pic \in Board /\ Sound(pic)
  BY DEF IInv, Sound
<1>2. pic' = WithChip(pic, chip, q) /\ valid' = 0 /\ at' = "advance"
  BY DEF TouchChip, Executes, Discard
<1>3. /\ Sound(pic')
      /\ chip = "slave" => (Latched(pic) => Latched(pic'))
      /\ chip = "master" => pic'["master"] = q
  BY <1>1, <1>2, AccessKeeps
<1>4. UNCHANGED <<line, due, level, masked, bit>>
  BY DEF TouchChip
<1>5. TypeOK'
  BY <1>2, <1>3, <1>4, BoardAssumption DEF TypeOK, IInv, Sound, Phases, Never
<1>6. PromiseHolds' /\ Ready' /\ Settled'
  BY <1>2, <1>4 DEF PromiseHolds, Ready, Settled, IInv
<1>7. ASSUME ~spent' PROVE Latched(pic')
  <2> SUFFICES ASSUME Cascade \in pic'["master"].pins PROVE Cascade \in pic'["master"].irr
    BY DEF Latched
  <2>1. Latched(pic)
    BY <1>7 DEF IInv
  <2>2. CASE chip = "slave"
    BY <1>3, <2>1, <2>2 DEF Latched
  <2>3. CASE chip = "master"
    <3>1. Cascade \in pic["master"].pins
      BY <1>3, <2>3 DEF Accessed
    <3> QED BY <1>3, <1>7, <2>1, <2>3, <3>1 DEF Latched
  <2> QED BY <2>2, <2>3 DEF Chips
<1> QED BY <1>3, <1>5, <1>6, <1>7 DEF IInv

\* ICW1 flushes the requests, and spent records it if the cascade's was one.
LEMMA WriteIcw1Keeps ==
  ASSUME IInv, NEW chip \in Chips, NEW ltim \in Triggers, WriteIcw1(chip, ltim)
  PROVE  IInv' /\ Settled'
<1> DEFINE q == Icw1(pic[chip], ltim, FALSE, TRUE)
<1>1. pic[chip] \in Pics /\ Plain8259(pic[chip]) /\ ltim \in BOOLEAN
  BY BoardAssumption DEF IInv, TypeOK, Board, Sound
<1>2. Accessed(pic[chip], q)
  BY <1>1, Icw1Accessed
<1> HIDE DEF q
<1>3. TouchChip(chip, q)
  BY DEF WriteIcw1, q
<1>4. frames' \in Seq(Frames)
  <2>1. frames' = [k \in DOMAIN frames |-> [frames[k] EXCEPT !.owes = @ \ {chip}]]
    BY DEF WriteIcw1
  <2>2. frames \in Seq(Frames) /\ {chip} \in SUBSET Chips
    BY DEF IInv, TypeOK
  <2> QED BY <2>1, <2>2, FramesForgive
<1>5. plain' \in BOOLEAN /\ commands' \in Nat
  BY DEF WriteIcw1, IInv, TypeOK
<1>6. spent' = (StillSpent(pic') \/ (chip = "master" /\ Cascade \in pic'[chip].pins))
  BY DEF WriteIcw1
<1>7. spent' \in BOOLEAN
  BY <1>6
<1>8. ~spent' /\ Cascade \in pic'["master"].pins => ~spent /\ chip # "master"
  BY <1>6 DEF StillSpent
<1> QED BY <1>2, <1>3, <1>4, <1>5, <1>7, <1>8, TouchKeeps

\* ICW2 to ICW4 and the mask keep the invariant.
LEMMA WriteOddKeeps ==
  ASSUME IInv, NEW chip \in Chips, NEW mask \in Masks, WriteOddAddress(chip, mask)
  PROVE  IInv' /\ Settled'
<1> DEFINE q == WriteOdd(pic[chip], mask, FALSE, FALSE)
<1>1. pic[chip] \in Pics /\ Plain8259(pic[chip]) /\ mask \in SUBSET Level
  BY BoardAssumption DEF IInv, TypeOK, Board, Sound
<1>2. Accessed(pic[chip], q) /\ q.irr = pic[chip].irr
  BY <1>1, WriteOddAccessed
<1> HIDE DEF q
<1>3. TouchChip(chip, q)
  BY DEF WriteOddAddress, q
<1>4. frames' \in Seq(Frames) /\ plain' \in BOOLEAN /\ commands' \in Nat
  <2>1. frames' = frames /\ plain' = plain /\ commands' = commands
    BY DEF WriteOddAddress
  <2> QED BY <2>1 DEF IInv, TypeOK
<1>5. spent' = StillSpent(pic')
  BY DEF WriteOddAddress
<1>6. spent' \in BOOLEAN
  BY <1>5 DEF StillSpent, IInv, TypeOK
<1>7. ~spent' /\ Cascade \in pic'["master"].pins => ~spent
  BY <1>5 DEF StillSpent
<1> QED BY <1>2, <1>3, <1>4, <1>6, <1>7, TouchKeeps

\* A processor with handlers has an innermost one.
LEMMA InnermostIs ==
  ASSUME frames \in Seq(Frames), frames # <<>>
  PROVE  /\ Len(frames) \in Nat \ {0} /\ Len(frames) \in DOMAIN frames
         /\ Innermost \in Frames
BY DEF Innermost

\* An end of interrupt keeps the invariant.
LEMMA WriteEoiKeeps ==
  ASSUME IInv, NEW chip \in Chips, NEW specific \in BOOLEAN, NEW rotate \in BOOLEAN,
         WriteEoi(chip, specific, rotate)
  PROVE  IInv' /\ Settled'
<1> DEFINE l == IF specific THEN Innermost.level[chip] ELSE HighestInService(pic[chip])
           q == EndService(pic[chip], l, rotate)
<1>1. pic[chip] \in Pics /\ Plain8259(pic[chip])
  BY DEF IInv, TypeOK, Board, Sound
<1>2. frames \in Seq(Frames) /\ frames # <<>>
  BY DEF IInv, TypeOK, WriteEoi
<1>3. l \in Level \/ l = NoLevel
  <2>1. Innermost.level[chip] \in Level \cup {NoLevel}
    BY <1>2, InnermostIs DEF Frames
  <2> QED BY <1>1, <2>1, HighestType
<1> HIDE DEF l
<1>4. Accessed(pic[chip], q) /\ q.irr = pic[chip].irr
  BY <1>1, <1>3, EndServiceAccessed
<1>5. q = Eoi(pic[chip], specific, Innermost.level[chip], rotate)
  BY DEF Eoi, l
<1> HIDE DEF q
<1>6. TouchChip(chip, q)
  BY <1>5 DEF WriteEoi
<1>7. frames' \in Seq(Frames)
  <2> DEFINE e == [Innermost EXCEPT !.owes = @ \ {chip}]
  <2>1. e \in Frames
    BY <1>2, InnermostIs DEF Frames
  <2>2. frames' = [frames EXCEPT ![Len(frames)] = e]
    BY <1>2, InnermostIs DEF WriteEoi, Innermost
  <2> HIDE DEF e
  <2> QED BY <1>2, <2>1, <2>2, InnermostIs
<1>8. plain' \in BOOLEAN /\ commands' \in Nat
  BY DEF WriteEoi, IInv, TypeOK
<1>9. spent' = StillSpent(pic')
  BY DEF WriteEoi
<1>10. spent' \in BOOLEAN
  BY <1>9 DEF StillSpent, IInv, TypeOK
<1>11. ~spent' /\ Cascade \in pic'["master"].pins => ~spent
  BY <1>9 DEF StillSpent
<1> QED BY <1>4, <1>6, <1>7, <1>8, <1>10, <1>11, TouchKeeps

\* A command that changes priorities or the special mask keeps the invariant.
LEMMA WriteModeKeeps ==
  ASSUME IInv, NEW chip \in Chips, NEW q, Accessed(pic[chip], q), q.irr = pic[chip].irr,
         WriteMode(chip, q)
  PROVE  IInv' /\ Settled'
<1>1. TouchChip(chip, q) /\ spent' = StillSpent(pic')
  BY DEF WriteMode
<1>2. frames' \in Seq(Frames) /\ plain' \in BOOLEAN /\ commands' \in Nat
  <2>1. frames' = frames /\ plain' = FALSE /\ commands' = commands + 1
    BY DEF WriteMode
  <2>2. frames \in Seq(Frames) /\ commands \in Nat
    BY DEF IInv, TypeOK
  <2>3. plain' \in BOOLEAN
    BY <2>1
  <2>4. frames' \in Seq(Frames) /\ commands' \in Nat
    BY <2>1, <2>2
  <2> QED BY <2>3, <2>4
<1>3. spent' \in BOOLEAN
  BY <1>1 DEF StillSpent, IInv, TypeOK
<1>4. ~spent' /\ Cascade \in pic'["master"].pins => ~spent
  BY <1>1 DEF StillSpent
<1> QED BY <1>1, <1>2, <1>3, <1>4, TouchKeeps

\* Set priority, the special mask and the poll command leave wires and requests.
LEMMA ModesAccessed ==
  ASSUME NEW p \in Pics, Plain8259(p), NEW on \in BOOLEAN
  PROVE  /\ Accessed(p, SetPriority(p, 0)) /\ SetPriority(p, 0).irr = p.irr
         /\ Accessed(p, SpecialMask(p, on)) /\ SpecialMask(p, on).irr = p.irr
         /\ Accessed(p, PollCommand(p)) /\ PollCommand(p).irr = p.irr
         /\ PollCommand(p).isr = p.isr /\ PollCommand(p).top = p.top
         /\ PollCommand(p).smm = p.smm
<1>1. (0 + 1) % Levels \in Level
  <2>1. 1 < Levels /\ 1 \in 0 .. 2 * Levels - 1 /\ Levels \in Nat \ {0}
    OBVIOUS
  <2>2. 1 % Levels = 1
    BY <2>1, Remainder
  <2> QED BY <2>1, <2>2
<1>2. Accessed(p, SetPriority(p, 0)) /\ SetPriority(p, 0).irr = p.irr
  BY <1>1 DEF SetPriority, Accessed, Pics, Plain8259
<1>3. Accessed(p, SpecialMask(p, on)) /\ SpecialMask(p, on).irr = p.irr
  BY DEF SpecialMask, Accessed, Pics, Plain8259
<1>4. /\ Accessed(p, PollCommand(p)) /\ PollCommand(p).irr = p.irr
      /\ PollCommand(p).isr = p.isr /\ PollCommand(p).top = p.top
      /\ PollCommand(p).smm = p.smm
  BY DEF PollCommand, Accessed, Pics, Plain8259
<1> QED BY <1>2, <1>3, <1>4

\* The poll command keeps the invariant.
LEMMA WritePollKeeps ==
  ASSUME IInv, NEW chip \in Chips, WritePoll(chip)
  PROVE  IInv' /\ Settled'
<1>1. pic[chip] \in Pics /\ Plain8259(pic[chip])
  BY DEF IInv, TypeOK, Board, Sound
<1>2. Accessed(pic[chip], PollCommand(pic[chip])) /\ PollCommand(pic[chip]).irr = pic[chip].irr
  BY <1>1, ModesAccessed
<1>3. TouchChip(chip, PollCommand(pic[chip])) /\ spent' = StillSpent(pic')
  BY DEF WritePoll
<1>4. frames' \in Seq(Frames) /\ plain' \in BOOLEAN /\ commands' \in Nat
  <2>1. frames' = frames /\ plain' = plain /\ commands' = commands + 1
    BY DEF WritePoll
  <2>2. frames \in Seq(Frames) /\ plain \in BOOLEAN /\ commands \in Nat
    BY DEF IInv, TypeOK
  <2> QED BY <2>1, <2>2
<1>5. spent' \in BOOLEAN
  BY <1>3 DEF StillSpent, IInv, TypeOK
<1>6. ~spent' /\ Cascade \in pic'["master"].pins => ~spent
  BY <1>3 DEF StillSpent
<1> QED BY <1>2, <1>3, <1>4, <1>5, <1>6, TouchKeeps

\* A read after a poll command serves what is resolved and leaves the rest.
LEMMA PollReadIs ==
  ASSUME NEW p \in Pics, Plain8259(p)
  PROVE  /\ Accessed(p, PollRead(p))
         /\ PollRead(p).top = p.top /\ PollRead(p).smm = p.smm
         /\ Resolve(p) = NoLevel => PollRead(p).irr = p.irr /\ PollRead(p).isr = p.isr
         /\ Resolve(p) # NoLevel =>
               /\ Resolve(p) \in Level
               /\ p.irr \ {Resolve(p)} \subseteq PollRead(p).irr
               /\ PollRead(p).isr = p.isr \cup {Resolve(p)}
<1> DEFINE q == [p EXCEPT !.poll = FALSE]
           r == Resolve(p)
<1>1. /\ q \in Pics /\ q.irr = p.irr /\ q.isr = p.isr /\ q.imr = p.imr /\ q.top = p.top
      /\ q.smm = p.smm /\ q.sfnm = p.sfnm /\ q.aeoi = p.aeoi /\ q.pins = p.pins
      /\ q.ltim = p.ltim
  BY DEF Pics
<1>2. PollRead(p) = IF Pending(q) THEN Serve(q, Resolve(q)) ELSE q
  BY DEF PollRead
<1> HIDE DEF q
<1>3. Requests(q) = Requests(p) /\ Blocking(q) = Blocking(p)
  BY <1>1 DEF Requests, Blocking
<1>4. \A S : First(q, S) = First(p, S)
  BY <1>1 DEF First, Rank
<1>5. (Pending(q) <=> Pending(p)) /\ Resolve(q) = r
  BY <1>1, <1>3, <1>4 DEF Pending, Resolve
<1>6. r \in Level \cup {NoLevel} /\ (r = NoLevel <=> ~Pending(p))
  BY ResolveType DEF Plain8259
<1>7. Plain8259(q)
  BY <1>1 DEF Plain8259
<1> HIDE DEF r
<1>8. CASE Pending(p)
  <2>1. r \in Level /\ r # NoLevel /\ PollRead(p) = Serve(q, r)
    BY <1>2, <1>5, <1>6, <1>8
  <2>2. /\ Accessed(q, Serve(q, r))
        /\ Serve(q, r).isr = q.isr \cup {r}
        /\ Serve(q, r).top = q.top /\ Serve(q, r).smm = q.smm
        /\ q.irr \ {r} \subseteq Serve(q, r).irr
    BY <1>1, <1>7, <2>1, ServeIs
  <2> QED BY <1>1, <2>1, <2>2 DEF Accessed, r
<1>9. CASE ~Pending(p)
  <2>1. r = NoLevel /\ PollRead(p) = q
    BY <1>2, <1>5, <1>6, <1>9
  <2> QED BY <1>1, <1>7, <2>1 DEF Accessed, r
<1> QED BY <1>8, <1>9

\* A read that serves a level by the poll keeps the invariant, and spent records it
\* if the cascade's request was taken.
LEMMA ReadPollKeeps ==
  ASSUME IInv, NEW chip \in Chips, ReadPoll(chip)
  PROVE  IInv' /\ Settled'
<1> DEFINE p == pic[chip]
           q == PollRead(p)
           l == Resolve(p)
           f == [level |-> [c \in Chips |-> IF c = chip THEN l ELSE NoLevel], owes |-> {chip}]
<1>1. p \in Pics /\ Plain8259(p)
  BY DEF IInv, TypeOK, Board, Sound
<1>2. /\ Accessed(p, q)
      /\ l = NoLevel => q.irr = p.irr
      /\ l # NoLevel => l \in Level /\ p.irr \ {l} \subseteq q.irr
  BY <1>1, PollReadIs
<1>3. TouchChip(chip, q)
  BY DEF ReadPoll
<1>4. frames' = IF l = NoLevel THEN frames ELSE Append(frames, f)
  BY DEF ReadPoll
<1>5. spent' = (StillSpent(pic') \/ (chip = "master" /\ l = Cascade))
  BY DEF ReadPoll
<1>6. plain' \in BOOLEAN /\ commands' \in Nat
  BY DEF ReadPoll, IInv, TypeOK
<1>7. frames' \in Seq(Frames)
  <2>1. l # NoLevel => f \in Frames
    BY <1>2 DEF Frames
  <2>2. frames \in Seq(Frames)
    BY DEF IInv, TypeOK
  <2> HIDE DEF f, l
  <2> QED BY <1>4, <2>1, <2>2
<1> HIDE DEF f, l, q
<1>8. spent' \in BOOLEAN
  BY <1>5 DEF StillSpent, IInv, TypeOK
<1>9. ~spent' /\ Cascade \in pic'["master"].pins =>
         ~spent /\ (chip = "master" /\ Cascade \in pic["master"].irr => Cascade \in q.irr)
  BY <1>2, <1>5 DEF StillSpent
<1> QED BY <1>2, <1>3, <1>6, <1>7, <1>8, <1>9, TouchKeeps

\* The processor's own steps leave the controllers and the lines alone.
LEMMA QuietKeeps ==
  ASSUME IInv, UNCHANGED <<pic, line, due, valid, spent>>,
         at' \in Phases, at' = "step" => valid # 0 /\ level' = Pending(pic["master"]),
         level' \in BOOLEAN, masked' \in BOOLEAN, bit' \in BOOLEAN, plain' \in BOOLEAN,
         frames' \in Seq(Frames), commands' \in Nat
  PROVE  IInv' /\ (Settled => Settled')
<1>1. TypeOK'
  BY DEF TypeOK, IInv
<1>2. Sound(pic') /\ PromiseHolds' /\ (Settled => Settled')
  BY DEF IInv, PromiseHolds, Settled, Promised, Wire
<1>3. Ready'
  BY DEF IInv, Ready
<1>4. ~spent' => Latched(pic')
  BY DEF IInv
<1> QED BY <1>1, <1>2, <1>3, <1>4 DEF IInv

\* A skipped sample gives the processor the level of the controllers.
LEMMA SkipSampleKeeps ==
  ASSUME IInv, SkipSample
  PROVE  IInv' /\ (Settled => Settled')
<1>1. /\ UNCHANGED <<pic, line, due, valid, spent>> /\ UNCHANGED <<masked, bit, frames, plain, commands>>
      /\ at' = "step" /\ valid # 0
      /\ level' = Pending(pic["master"])
  BY DEF SkipSample
<1>2. Pending(pic["master"]) \in BOOLEAN
  BY DEF Pending
<1>3. /\ masked' \in BOOLEAN /\ bit' \in BOOLEAN /\ plain' \in BOOLEAN
      /\ frames' \in Seq(Frames) /\ commands' \in Nat
  BY <1>1 DEF IInv, TypeOK
<1>4. at' \in Phases /\ level' \in BOOLEAN
  BY <1>1, <1>2 DEF Phases
<1> QED BY <1>1, <1>3, <1>4, QuietKeeps

\* An instruction that touches no device keeps the invariant.
LEMMA ComputeKeeps ==
  ASSUME IInv, NEW m \in BOOLEAN, Compute(m)
  PROVE  IInv' /\ (Settled => Settled')
<1>1. /\ UNCHANGED <<pic, line, due, valid, spent>> /\ UNCHANGED <<level, bit, frames, plain, commands>>
      /\ at' = "advance" /\ masked' = m
  BY DEF Compute, Executes
<1>2. /\ level' \in BOOLEAN /\ bit' \in BOOLEAN /\ plain' \in BOOLEAN
      /\ frames' \in Seq(Frames) /\ commands' \in Nat
  BY <1>1 DEF IInv, TypeOK
<1>3. at' \in Phases /\ at' # "step"
  BY <1>1 DEF Phases
<1> QED BY <1>1, <1>2, <1>3, QuietKeeps

\* RTE keeps the invariant.
LEMMA ReturnKeeps ==
  ASSUME IInv, ReturnFromException
  PROVE  IInv' /\ (Settled => Settled')
<1>1. /\ UNCHANGED <<pic, line, due, valid, spent>> /\ UNCHANGED <<level, bit, plain, commands>>
      /\ at' = "advance" /\ masked' = FALSE
      /\ frames' = SubSeq(frames, 1, Len(frames) - 1)
      /\ frames # <<>>
  BY DEF ReturnFromException, Executes
<1>2. /\ level' \in BOOLEAN /\ bit' \in BOOLEAN /\ plain' \in BOOLEAN
      /\ commands' \in Nat
  BY <1>1 DEF IInv, TypeOK
<1>3. at' \in Phases /\ at' # "step" /\ masked' \in BOOLEAN
  BY <1>1 DEF Phases
<1>4. frames' \in Seq(Frames)
  <2>1. frames \in Seq(Frames)
    BY DEF IInv, TypeOK
  <2> QED BY <1>1, <2>1
<1> QED BY <1>1, <1>2, <1>3, <1>4, QuietKeeps

\* An access to a device ends the promise, so that its line may move.
LEMMA TouchDeviceKeeps ==
  ASSUME IInv, NEW d \in Devices, TouchDevice(d)
  PROVE  IInv' /\ Settled'
<1>1. /\ UNCHANGED <<pic, spent>> /\ UNCHANGED <<level, masked, bit, frames, plain, commands>>
      /\ at' = "advance" /\ valid' = 0
  BY DEF TouchDevice, Executes, Discard
<1>2. line' \in [Devices -> BOOLEAN]
  BY DEF TouchDevice, IInv, TypeOK
<1>3. PICK t \in IF d \in Timed THEN {MaxDelay, Never} ELSE {Never} :
             due' = [due EXCEPT ![d] = t]
  BY DEF TouchDevice
<1>4. t \in 1 .. Never /\ (d \notin Timed => t = Never)
  BY <1>3, BoardAssumption DEF Never
<1>5. due' \in [Devices -> 1 .. Never]
  BY <1>3, <1>4 DEF IInv, TypeOK
<1>6. TypeOK'
  BY <1>1, <1>2, <1>5, BoardAssumption, SMTT(30) DEF TypeOK, IInv, Phases, Never
<1>7. PromiseHolds'
  BY <1>1, <1>3, <1>4 DEF PromiseHolds, IInv, TypeOK
<1>8. Ready' /\ Settled'
  BY <1>1 DEF Ready, Settled
<1>9. Sound(pic') /\ (~spent' => Latched(pic'))
  BY <1>1 DEF IInv
<1> QED BY <1>6, <1>7, <1>8, <1>9 DEF IInv

\* ap_board_reset_devices: the promise stands though the controllers were emptied,
\* and the lines are settled because the master is masked.
LEMMA ResetKeeps ==
  ASSUME IInv, ResetDevices
  PROVE  IInv' /\ Settled'
<1> DEFINE b == [c \in Chips |-> PicInit]
<1>1. b["master"] = PicInit /\ b["slave"] = PicInit
  BY DEF Chips
<1>2. /\ PicInit.pins = {} /\ PicInit.irr = {} /\ PicInit.imr = Level
      /\ ~PicInit.aeoi /\ ~PicInit.sfnm /\ ~PicInit.ltim
  BY DEF PicInit
<1>3. PicInit \in Pics
  <2>1. 0 \in Level
    OBVIOUS
  <2> QED BY <2>1 DEF PicInit, Pics
<1>4. b \in Board /\ (\A c \in Chips : Plain8259(b[c])) /\ Wired(b)
  <2>1. \A c \in Chips : b[c] = PicInit
    OBVIOUS
  <2> QED BY <1>1, <1>2, <1>3, <2>1 DEF Board, Plain8259, Wired
<1>5. pic' = UpdateCascade(b)
  BY DEF ResetDevices
<1> HIDE DEF b
<1>6. /\ Sound(pic') /\ pic'["slave"] = PicInit /\ SameSettings(PicInit, pic'["master"])
      /\ Cascade \in pic'["master"].pins <=> Pending(PicInit)
  BY <1>1, <1>4, <1>5, UpdateCascadeIs
<1>7. ~Pending(PicInit)
  <2>1. Requests(PicInit) = {}
    BY <1>2 DEF Requests
  <2> QED BY <2>1, NoRequestsNotPending
<1>8. /\ UNCHANGED <<line, due, valid>> /\ UNCHANGED <<level, masked, bit, plain>>
      /\ at' = "advance" /\ spent' = FALSE /\ commands' = commands + 1
      /\ frames' = [k \in DOMAIN frames |-> [frames[k] EXCEPT !.owes = {}]]
  BY DEF ResetDevices, Executes
<1>9. frames' \in Seq(Frames)
  <2>1. frames \in Seq(Frames) /\ {} \in SUBSET Chips
    BY DEF IInv, TypeOK
  <2> QED BY <1>8, <2>1, FramesForgive
<1>10. TypeOK'
  <2>1. pic' \in Board
    BY <1>6 DEF Sound
  <2>2. spent' \in BOOLEAN /\ at' \in Phases
    BY <1>8 DEF Phases
  <2> QED BY <1>8, <1>9, <2>1, <2>2 DEF TypeOK, IInv
<1>11. PromiseHolds'
  BY <1>8 DEF PromiseHolds, IInv
<1>12. Ready'
  BY <1>2, <1>6, <1>8 DEF Ready, Relatched
<1>13. Settled'
  BY <1>2, <1>6 DEF Settled, SameSettings
<1>14. Latched(pic')
  BY <1>6, <1>7 DEF Latched
<1> QED BY <1>6, <1>10, <1>11, <1>12, <1>13, <1>14 DEF IInv

\* The least of the devices' next changes bounds each of them.
LEMMA NextChangeIs ==
  ASSUME NEW t \in [Devices -> 1 .. Never]
  PROVE  NextChange(t) \in 1 .. Never /\ \A d \in Timed : NextChange(t) <= t[d]
<1>1. Never \in Nat \ {0} /\ Timed \subseteq Devices
  BY BoardAssumption DEF Never
<1>2. CASE Timed = {}
  BY <1>1, <1>2 DEF NextChange
<1>3. CASE Timed # {}
  <2> DEFINE V == {t[d] : d \in Timed}
  <2>1. V \in SUBSET Nat /\ V # {} /\ V \subseteq 1 .. Never
    BY <1>1, <1>3
  <2>2. \E v \in V : \A w \in V : v <= w
    <3> HIDE DEF V
    <3> QED BY <2>1, Least
  <2>3. \E v \in V : \A d \in Timed : v <= t[d]
    BY <2>2
  <2>4. NextChange(t) = CHOOSE v \in V : \A d \in Timed : v <= t[d]
    BY <1>3 DEF NextChange
  <2>5. NextChange(t) \in V /\ \A d \in Timed : NextChange(t) <= t[d]
    BY <2>3, <2>4
  <2> QED BY <2>1, <2>5
<1> QED BY <1>2, <1>3

\* When every line is followed, a slave in level mode has latched all its wires.
LEMMA FollowedRelatched ==
  ASSUME NEW b \in Board, Sound(b), \A d \in Devices : Follows(b, Irq[d], line[d])
  PROVE  Relatched(b)
<1> SUFFICES ASSUME b["slave"].ltim, NEW l \in b["slave"].pins PROVE l \in b["slave"].irr
  BY DEF Relatched
<1>1. PICK d \in Devices : Irq[d] = Levels + l
  BY DEF Sound, Wired
<1>2. l \in Nat /\ ~(Levels + l < Levels) /\ (Levels + l) - Levels = l
  BY DEF Board, Chips, Pics
<1> QED BY <1>1, <1>2 DEF Follows

\* ap_board_sample_interrupts: every line is followed, and the promise ends before
\* any device that was asked moves its line.
LEMMA SampleKeeps ==
  ASSUME IInv, Sample
  PROVE  IInv' /\ Settled'
<1> DEFINE n == Len(Order)
           b == Driven(line)[n]
<1>1. /\ UNCHANGED <<line, due>> /\ UNCHANGED <<masked, frames, plain, commands>>
      /\ pic' = b /\ valid' = NextChange(due) /\ at' = "step"
      /\ level' = Pending(pic'["master"])
      /\ bit' = Pending(Driven(line)[BitAfter]["master"])
      /\ spent' = StillSpent(pic')
  BY DEF Sample
<1>2. Turn(b, n, line)
  <2>1. n \in 0 .. Len(Order)
    BY OrderIs
  <2> QED BY <2>1, DrivenIs DEF IInv, TypeOK
<1> HIDE DEF b
<1>3. b \in Board /\ Sound(b)
  BY <1>2 DEF Turn
<1>4. \A d \in Devices : Follows(b, Irq[d], line[d])
  BY <1>2, OrderIs DEF Turn
<1>5. NextChange(due) \in 1 .. Never /\ \A d \in Timed : NextChange(due) <= due[d]
  BY NextChangeIs DEF IInv, TypeOK
<1>6. TypeOK'
  <2>1. level' \in BOOLEAN /\ bit' \in BOOLEAN
    BY <1>1 DEF Pending
  <2>2. spent' \in BOOLEAN
    BY <1>1 DEF StillSpent, IInv, TypeOK
  <2>3. at' \in Phases
    BY <1>1 DEF Phases
  <2>4. valid' \in 0 .. Never'
    BY <1>1, <1>5 DEF Never
  <2> QED BY <1>1, <1>3, <2>1, <2>2, <2>3, <2>4 DEF TypeOK, IInv
<1>7. PromiseHolds'
  <2>1. \A d \in Devices : valid' <= due[d]
    BY <1>1, <1>5 DEF IInv, PromiseHolds
  <2> QED BY <1>1, <2>1 DEF PromiseHolds, IInv
<1>8. Ready'
  <2>1. Relatched(b) /\ valid' # 0
    BY <1>1, <1>3, <1>4, <1>5, FollowedRelatched
  <2> QED BY <1>1, <2>1 DEF Ready
<1>9. Settled'
  <2>1. line \in [Devices -> BOOLEAN] /\ line' = line
    BY <1>1 DEF IInv, TypeOK
  <2>2. \A d \in Devices : Follows(pic', Irq[d], Promised'[d])
    BY <1>1, <1>4, <2>1, PromisedStay
  <2> QED BY <2>2 DEF Settled
<1>10. ~spent' => Latched(pic')
  <2> SUFFICES ASSUME ~spent', Cascade \in pic'["master"].pins PROVE Latched(pic')
    BY DEF Latched
  <2>1. ~spent
    BY <1>1 DEF StillSpent
  <2> QED BY <1>1, <1>2, <2>1 DEF Turn, IInv
<1> QED BY <1>1, <1>3, <1>6, <1>7, <1>8, <1>9, <1>10 DEF IInv

\* ap_board_advance: what moves a line by itself has been waited for.
LEMMA AdvanceKeeps ==
  ASSUME IInv, Advance
  PROVE  IInv' /\ (Settled => Settled')
<1>1. /\ UNCHANGED pic /\ UNCHANGED <<level, masked, bit, frames, plain, spent, commands>>
      /\ at = "advance" /\ at' = "boundary"
      /\ due' = [d \in Devices |-> IF due[d] = Never \/ due[d] = 1 THEN Never ELSE due[d] - 1]
  BY DEF Advance
<1>2. PICK dma \in BOOLEAN, l \in [Devices -> BOOLEAN] :
         /\ \A d \in Devices : line[d] # l[d] => dma \/ due[d] = 1 \/ d \in Unasked
         /\ line' = l
         /\ valid' = IF dma THEN Discard(valid)
                     ELSE IF valid \in {0, Never} THEN valid ELSE valid - 1
  BY DEF Advance
<1>3. Never \in Nat \ {0, 1}
  BY BoardAssumption DEF Never
<1>4. valid \in 0 .. Never /\ due \in [Devices -> 1 .. Never]
  BY DEF IInv, TypeOK
<1>5. due' \in [Devices -> 1 .. Never]
  <2>1. \A n \in 1 .. Never : (IF n = Never \/ n = 1 THEN Never ELSE n - 1) \in 1 .. Never
    BY <1>3
  <2> QED BY <1>1, <1>4, <2>1
<1>6. /\ dma => valid' = 0
      /\ ~dma /\ valid \in {0, Never} => valid' = valid
      /\ ~dma /\ valid \notin {0, Never} => valid' = valid - 1
  BY <1>2 DEF Discard
<1>7. valid' \in 0 .. Never /\ (valid' # 0 => valid # 0 /\ ~dma)
  BY <1>3, <1>4, <1>6
<1>8. TypeOK'
  <2>1. at' \in Phases
    BY <1>1 DEF Phases
  <2>2. line' \in [Devices -> BOOLEAN]
    BY <1>2
  <2>3. due' \in [Devices -> 1 .. Never'] /\ valid' \in 0 .. Never'
    BY <1>5, <1>7 DEF Never
  <2> QED BY <1>1, <2>1, <2>2, <2>3 DEF TypeOK, IInv
<1>9. PromiseHolds'
  <2>1. ASSUME NEW d \in Devices \ Timed PROVE due'[d] = Never
    BY <1>1, <2>1 DEF IInv, PromiseHolds
  <2>2. ASSUME valid' # 0, NEW d \in Devices PROVE valid' <= due'[d]
    <3>1. valid <= due[d] /\ due[d] \in 1 .. Never /\ valid # 0
      BY <1>4, <1>7, <2>2 DEF IInv, PromiseHolds
    <3>2. valid' = IF valid = Never THEN Never ELSE valid - 1
      BY <1>6, <1>7, <2>2, <3>1
    <3>3. due'[d] = IF due[d] = Never \/ due[d] = 1 THEN Never ELSE due[d] - 1
      BY <1>1
    <3>4. valid' \in 0 .. Never
      BY <1>7
    <3> QED BY <1>3, <1>4, <2>2, <3>1, <3>2, <3>3, <3>4
  <2>3. \A d \in Devices \ Timed : due'[d] = Never'
    BY <2>1 DEF Never
  <2> QED BY <2>2, <2>3 DEF PromiseHolds
<1>10. Ready'
  BY <1>1, <1>7 DEF Ready, IInv
<1>11. Sound(pic') /\ (~spent' => Latched(pic'))
  BY <1>1 DEF IInv
<1>12. ASSUME Settled PROVE Settled'
  <2> SUFFICES ASSUME valid' # 0
               PROVE  \/ pic["master"].imr = Level
                      \/ \A d \in Devices : Follows(pic', Irq[d], Promised'[d])
    BY <1>1 DEF Settled
  <2>1. valid # 0 /\ ~dma
    BY <1>7
  <2>2. \A d \in Devices : due[d] # 1
    <3> SUFFICES ASSUME NEW d \in Devices, due[d] = 1 PROVE FALSE
      OBVIOUS
    <3>1. valid <= 1
      BY <2>1 DEF IInv, PromiseHolds
    <3> QED BY <1>3, <1>4, <1>6, <2>1, <3>1
  <2>3. \A d \in Devices \ Unasked : line'[d] = Promised[d]
    BY <1>2, <2>1, <2>2 DEF Promised
  <2>4. Promised \in [Devices -> BOOLEAN]
    BY PromisedIs DEF IInv, TypeOK
  <2>5. CASE pic["master"].imr = Level
    BY <1>1, <2>5
  <2>6. CASE \A d \in Devices : Follows(pic, Irq[d], Promised[d])
    <3>1. \A d \in Devices : Follows(pic', Irq[d], Promised[d])
      BY <1>1, <2>6
    <3> QED BY <2>3, <2>4, <3>1, PromisedStay
  <2> QED BY <1>12, <2>1, <2>5, <2>6 DEF Settled
<1> QED BY <1>8, <1>9, <1>10, <1>11, <1>12 DEF IInv

\* What the handler finds in service are levels, and it owes each of them an end.
LEMMA FrameOfType ==
  ASSUME NEW b \in Board, Sound(b)
  PROVE  /\ FrameOf(b) \in Frames
         /\ FrameOf(b).level["master"] = Resolve(b["master"])
         /\ FrameOf(b).level["slave"] =
               IF Resolve(b["master"]) = Cascade THEN Resolve(b["slave"]) ELSE NoLevel
         /\ \A c \in Chips : c \in FrameOf(b).owes <=> FrameOf(b).level[c] # NoLevel
<1> DEFINE lm == Resolve(b["master"])
           ls == IF lm = Cascade THEN Resolve(b["slave"]) ELSE NoLevel
           lv == [c \in Chips |-> IF c = "master" THEN lm ELSE ls]
<1>1. FrameOf(b) = [level |-> lv, owes |-> {c \in Chips : lv[c] # NoLevel /\ ~b[c].aeoi}]
  BY DEF FrameOf
<1>2. \A c \in Chips : ~b[c].aeoi
  BY DEF Sound, Plain8259
<1>3. lm \in Level \cup {NoLevel} /\ Resolve(b["slave"]) \in Level \cup {NoLevel}
  BY ResolveType DEF Board, Sound, Plain8259, Chips
<1>4. lv \in [Chips -> Level \cup {NoLevel}] /\ lv["master"] = lm /\ lv["slave"] = ls
  BY <1>3 DEF Chips
<1> HIDE DEF lv
<1>5. FrameOf(b) \in Frames
  BY <1>1, <1>4 DEF Frames
<1>6. \A c \in Chips : c \in FrameOf(b).owes <=> FrameOf(b).level[c] # NoLevel
  BY <1>1, <1>2
<1> QED BY <1>1, <1>4, <1>5, <1>6

\* The acknowledge a board that is ready runs: the cascade drops if it was what
\* the master acknowledged.
LEMMA IntrAcknowledgeIs ==
  ASSUME NEW b \in Board, Sound(b), Relatched(b), Pending(b["master"])
  PROVE  LET q == IntrAcknowledge(b)
             lm == Resolve(b["master"])
         IN  /\ Sound(q) /\ Relatched(q)
             /\ Latched(b) => Latched(q)
             /\ \A i \in Lines, x \in BOOLEAN : Follows(b, i, x) => Follows(q, i, x)
             /\ \A c \in Chips : q[c].top = b[c].top /\ q[c].smm = b[c].smm
             /\ q["master"].isr = b["master"].isr \cup {lm}
             /\ q["slave"].isr = IF lm = Cascade /\ Pending(b["slave"])
                                 THEN b["slave"].isr \cup {Resolve(b["slave"])}
                                 ELSE b["slave"].isr
<1> DEFINE m == b["master"]
           s == b["slave"]
           lm == Resolve(m)
           n == Serve(m, lm)
           first == [b EXCEPT !["master"] = n]
           q == IntrAcknowledge(b)
<1>1. m \in Pics /\ s \in Pics /\ Plain8259(m) /\ Plain8259(s)
  BY DEF Board, Sound, Chips
<1>2. Acknowledge(m) = n /\ lm \in Level /\ AcknowledgedLevel(m) = lm
  BY <1>1, AcknowledgeIs, ResolveIs DEF AcknowledgedLevel, Plain8259
<1>3. /\ Accessed(m, n)
      /\ n.isr = m.isr \cup {lm}
      /\ n.imr = m.imr /\ n.top = m.top /\ n.ltim = m.ltim /\ n.smm = m.smm
      /\ m.irr \ {lm} \subseteq n.irr
      /\ m.ltim => m.pins \subseteq n.irr
  BY <1>1, <1>2, ServeIs
<1>4. q = IF lm # Cascade THEN first
          ELSE UpdateCascade([first EXCEPT !["slave"] = Acknowledge(@)])
  BY <1>2 DEF IntrAcknowledge
<1> HIDE DEF m, s, lm, n
<1>5. first \in Board /\ first["master"] = n /\ first["slave"] = s
  BY <1>3 DEF Board, Chips, Accessed, s
<1> HIDE DEF first, q
<1>6. CASE lm # Cascade
  <2>1. q = first
    BY <1>4, <1>6
  <2>2. n.pins = m.pins
    BY <1>3 DEF Accessed
  <2>3. Sound(q)
    <3>1. CascadeTrue(q)
      BY <1>5, <2>1, <2>2 DEF CascadeTrue, Sound, m, s
    <3>2. \A c \in Chips : Plain8259(q[c])
      BY <1>1, <1>3, <1>5, <2>1 DEF Chips, Accessed
    <3>3. Wired(q)
      BY <1>5, <2>1 DEF Wired, Sound, s
    <3> QED BY <1>5, <2>1, <3>1, <3>2, <3>3 DEF Sound
  <2>4. Relatched(q)
    BY <1>5, <2>1 DEF Relatched, s
  <2>5. Latched(b) => Latched(q)
    BY <1>3, <1>5, <1>6, <2>1, <2>2 DEF Latched, m
  <2>6. ASSUME NEW i \in Lines, NEW x \in BOOLEAN, Follows(b, i, x) PROVE Follows(q, i, x)
    <3>1. CASE i < Levels
      <4>1. /\ i \in m.pins <=> x
            /\ x /\ m.ltim => i \in m.irr
        BY <2>6, <3>1 DEF Follows, m
      <4>2. /\ i \in n.pins <=> x
            /\ x /\ n.ltim => i \in n.irr
        BY <1>3, <2>2, <4>1
      <4> QED BY <1>5, <2>1, <3>1, <4>2 DEF Follows
    <3>2. CASE ~(i < Levels)
      BY <1>5, <2>1, <2>6, <3>2 DEF Follows, s
    <3> QED BY <3>1, <3>2
  <2>7. /\ \A c \in Chips : q[c].top = b[c].top /\ q[c].smm = b[c].smm
        /\ q["master"].isr = m.isr \cup {lm} /\ q["slave"].isr = s.isr
    BY <1>3, <1>5, <2>1 DEF Chips, m, s
  <2> QED BY <1>6, <2>3, <2>4, <2>5, <2>6, <2>7 DEF q, lm, m, s
<1>7. CASE lm = Cascade
  <2> DEFINE t == Acknowledge(s)
             e == [first EXCEPT !["slave"] = t]
  <2>1. q = UpdateCascade(e)
    BY <1>4, <1>5, <1>7
  <2>2. t = IF Pending(s) THEN Serve(s, Resolve(s)) ELSE s
    BY <1>1, AcknowledgeIs
  <2>3. /\ Accessed(s, t) /\ t.top = s.top /\ t.smm = s.smm /\ t.ltim = s.ltim
        /\ s.ltim /\ s.pins \subseteq s.irr => t.pins \subseteq t.irr
        /\ t.isr = IF Pending(s) THEN s.isr \cup {Resolve(s)} ELSE s.isr
    <3>1. CASE Pending(s)
      <4>1. Resolve(s) \in Level
        BY <1>1, <3>1, ResolveIs DEF Plain8259
      <4>2. t = Serve(s, Resolve(s))
        BY <2>2, <3>1
      <4> HIDE DEF t
      <4>3. /\ Accessed(s, t) /\ t.isr = s.isr \cup {Resolve(s)}
            /\ t.top = s.top /\ t.ltim = s.ltim /\ t.smm = s.smm
            /\ s.ltim => s.pins \subseteq t.irr
        BY <1>1, <4>1, <4>2, ServeIs
      <4> QED BY <3>1, <4>3 DEF Accessed
    <3>2. CASE ~Pending(s)
      BY <1>1, <2>2, <3>2 DEF Accessed
    <3> QED BY <3>1, <3>2
  <2>4. ~Pending(t)
    <3>1. CASE Pending(s)
      BY <1>1, <2>2, <3>1, ServeQuiets DEF Relatched, Plain8259, s
    <3>2. CASE ~Pending(s)
      BY <2>2, <3>2
    <3> QED BY <3>1, <3>2
  <2> HIDE DEF t
  <2>5. e \in Board /\ e["master"] = n /\ e["slave"] = t
    BY <1>5, <2>3 DEF Board, Chips, Accessed
  <2> HIDE DEF e
  <2>6. \A c \in Chips : Plain8259(e[c])
    BY <1>3, <2>3, <2>5 DEF Chips, Accessed
  <2>7. Wired(e)
    BY <2>3, <2>5 DEF Wired, Sound, Accessed, s
  <2>8. /\ Sound(q) /\ q["slave"] = t /\ SameSettings(n, q["master"])
        /\ Cascade \notin q["master"].pins
        /\ \A l \in Level \ {Cascade} :
              /\ l \in q["master"].pins <=> l \in n.pins
              /\ l \in q["master"].irr <=> l \in n.irr
    BY <2>1, <2>4, <2>5, <2>6, <2>7, UpdateCascadeIs
  <2>9. Relatched(q) /\ Latched(q)
    BY <2>3, <2>8 DEF Relatched, Latched, s
  <2>10. ASSUME NEW i \in Lines, NEW x \in BOOLEAN, Follows(b, i, x) PROVE Follows(q, i, x)
    <3>1. CASE i < Levels
      <4>1. /\ i \in m.pins <=> x
            /\ x /\ m.ltim => i \in m.irr
        BY <2>10, <3>1 DEF Follows, m
      <4>2. i \in Level \ {Cascade} /\ n.pins = m.pins /\ i # lm
        BY <1>3, <1>7, <3>1 DEF Lines, Accessed
      <4>3. /\ i \in q["master"].pins <=> i \in n.pins
            /\ i \in q["master"].irr <=> i \in n.irr
            /\ q["master"].ltim = n.ltim
        <5>1. q["master"].ltim = n.ltim
          BY <2>8 DEF SameSettings
        <5>2. i \in Level \ {Cascade}
          BY <4>2
        <5> QED BY <2>8, <5>1, <5>2
      <4>4. x /\ n.ltim => i \in n.irr
        BY <1>3, <4>1, <4>2
      <4>5. /\ i \in q["master"].pins <=> x
            /\ x /\ q["master"].ltim => i \in q["master"].irr
        BY <4>1, <4>2, <4>3, <4>4
      <4> QED BY <3>1, <4>5 DEF Follows
    <3>2. CASE ~(i < Levels)
      <4> DEFINE k == i - Levels
      <4>1. /\ k \in s.pins <=> x
            /\ x /\ s.ltim => k \in s.irr
        BY <2>10, <3>2 DEF Follows, s
      <4>2. /\ k \in t.pins <=> x
            /\ x /\ t.ltim => k \in t.irr
        <5> HIDE DEF k
        <5>1. s.ltim => s.pins \subseteq s.irr
          BY DEF Relatched, s
        <5> QED BY <2>3, <4>1, <5>1 DEF Accessed
      <4> QED BY <2>8, <3>2, <4>2 DEF Follows
    <3> QED BY <3>1, <3>2
  <2>11. /\ \A c \in Chips : q[c].top = b[c].top /\ q[c].smm = b[c].smm
         /\ q["master"].isr = m.isr \cup {lm} /\ q["slave"].isr = t.isr
    BY <1>3, <2>3, <2>8 DEF Chips, SameSettings, m, s
  <2>12. t.isr = IF lm = Cascade /\ Pending(s) THEN s.isr \cup {Resolve(s)} ELSE s.isr
    BY <1>7, <2>3
  <2> QED BY <2>8, <2>9, <2>10, <2>11, <2>12 DEF q, lm, m, s
<1> QED BY <1>6, <1>7

\* Taking an interrupt moves no line out of step: what was settled stays settled.
LEMMA TakeInterruptKeeps ==
  ASSUME IInv, TakeInterrupt
  PROVE  IInv' /\ (Settled => Settled')
<1>1. /\ UNCHANGED <<line, due, valid>> /\ UNCHANGED <<level, bit, plain, commands>>
      /\ pic' = IntrAcknowledge(pic) /\ frames' = Append(frames, FrameOf(pic))
      /\ masked' = TRUE /\ spent' = StillSpent(pic') /\ at = "step" /\ at' = "advance"
      /\ level
  BY DEF TakeInterrupt
<1>2. /\ pic \in Board /\ Sound(pic) /\ Relatched(pic) /\ Pending(pic["master"])
      /\ valid # 0
  BY <1>1 DEF IInv, Sound, Ready
<1>3. /\ Sound(pic') /\ Relatched(pic')
      /\ Latched(pic) => Latched(pic')
      /\ \A i \in Lines, x \in BOOLEAN : Follows(pic, i, x) => Follows(pic', i, x)
  BY <1>1, <1>2, IntrAcknowledgeIs
<1>4. TypeOK'
  <2>1. frames' \in Seq(Frames)
    <3>1. FrameOf(pic) \in Frames
      BY <1>2, FrameOfType
    <3> QED BY <1>1, <3>1 DEF IInv, TypeOK
  <2>2. at' \in Phases /\ masked' \in BOOLEAN
    BY <1>1 DEF Phases
  <2>3. spent' \in BOOLEAN
    BY <1>1 DEF StillSpent, IInv, TypeOK
  <2> QED BY <1>1, <1>3, <2>1, <2>2, <2>3 DEF TypeOK, IInv, Sound
<1>5. PromiseHolds'
  BY <1>1 DEF PromiseHolds, IInv
<1>6. Ready'
  BY <1>1, <1>3 DEF Ready
<1>7. ~spent' => Latched(pic')
  <2> SUFFICES ASSUME ~spent', Cascade \in pic'["master"].pins PROVE Latched(pic')
    BY DEF Latched
  <2>1. ~spent
    BY <1>1 DEF StillSpent
  <2> QED BY <1>3, <2>1 DEF IInv
<1>8. ASSUME Settled PROVE Settled'
  <2>1. pic["master"].imr # Level
    <3>1. Requests(pic["master"]) # {}
      BY <1>2, NoRequestsNotPending
    <3> QED BY <1>2, <3>1 DEF Requests, Board, Pics, Chips
  <2>2. \A d \in Devices : Follows(pic, Irq[d], Promised[d])
    BY <1>2, <1>8, <2>1 DEF Settled
  <2>3. Promised \in [Devices -> BOOLEAN]
    BY PromisedIs DEF IInv, TypeOK
  <2>4. \A d \in Devices : Irq[d] \in Lines
    BY BoardAssumption DEF Lines
  <2>5. \A d \in Devices : Follows(pic', Irq[d], Promised[d])
    BY <1>3, <2>2, <2>3, <2>4
  <2>6. \A d \in Devices \ Unasked : line'[d] = Promised[d]
    BY <1>1 DEF Promised
  <2>7. \A d \in Devices : Follows(pic', Irq[d], Promised'[d])
    BY <2>3, <2>5, <2>6, PromisedStay
  <2> QED BY <2>7 DEF Settled
<1> QED BY <1>3, <1>4, <1>5, <1>6, <1>7, <1>8 DEF IInv

-----------------------------------------------------------------------------
(* The nesting of handlers                                                 *)

\* An interrupt taken puts its handler inside the others.
LEMMA NestPush ==
  ASSUME NEW f \in Seq(Frames), NEW c \in Chips, NEW S, Nest(f, c, S),
         NEW x \in Frames, c \in x.owes, \A b \in S : x.level[c] < b
  PROVE  Nest(Append(f, x), c, S \cup {x.level[c]})
<1> DEFINE n == Len(f)
           g == Append(f, x)
<1>1. /\ n \in Nat /\ DOMAIN f = 1 .. n /\ DOMAIN g = 1 .. n + 1
      /\ g[n + 1] = x /\ \A k \in 1 .. n : g[k] = f[k]
  OBVIOUS
<1> HIDE DEF g, n
<1>2. /\ Owing(g, c) = Owing(f, c) \cup {n + 1}
      /\ Owing(f, c) \subseteq 1 .. n
  BY <1>1 DEF Owing
<1>3. S \cup {x.level[c]} = {g[k].level[c] : k \in Owing(g, c)}
  <2>1. \A k \in Owing(f, c) : g[k].level[c] = f[k].level[c]
    BY <1>1, <1>2
  <2>2. S = {f[k].level[c] : k \in Owing(f, c)}
    BY DEF Nest
  <2> QED BY <1>1, <1>2, <2>1, <2>2
<1>4. ASSUME NEW j \in Owing(g, c), NEW k \in Owing(g, c), j < k
      PROVE  g[k].level[c] < g[j].level[c]
  <2>1. j \in Owing(f, c) /\ g[j] = f[j]
    BY <1>1, <1>2, <1>4
  <2>2. CASE k = n + 1
    <3>1. f[j].level[c] \in S
      BY <2>1 DEF Nest
    <3> QED BY <1>1, <2>1, <2>2, <3>1
  <2>3. CASE k # n + 1
    <3>1. k \in Owing(f, c) /\ g[k] = f[k]
      BY <1>1, <1>2, <2>3
    <3> QED BY <1>4, <2>1, <3>1 DEF Nest
  <2> QED BY <2>2, <2>3
<1>5. Nest(g, c, S \cup {x.level[c]})
  BY <1>3, <1>4 DEF Nest
<1> QED BY <1>5 DEF g

\* Handlers that owe a controller the same are nested alike.
LEMMA NestAlike ==
  ASSUME NEW f, NEW g, NEW c, NEW S, Nest(f, c, S), Owing(g, c) = Owing(f, c),
         \A k \in Owing(f, c) : g[k].level[c] = f[k].level[c]
  PROVE  Nest(g, c, S)
<1>1. {g[k].level[c] : k \in Owing(g, c)} = {f[k].level[c] : k \in Owing(f, c)}
  OBVIOUS
<1> QED BY <1>1 DEF Nest

\* The innermost handler's level is in service, and first.
LEMMA InnermostFirst ==
  ASSUME NEW f \in Seq(Frames), f # <<>>, NEW c \in Chips, NEW S, Nest(f, c, S),
         Leveled(f), c \in f[Len(f)].owes
  PROVE  /\ f[Len(f)].level[c] \in S
         /\ \A b \in S : f[Len(f)].level[c] <= b
<1> DEFINE n == Len(f)
<1>1. n \in Owing(f, c) /\ DOMAIN f = 1 .. n /\ n \in Nat
  BY DEF Owing
<1> HIDE DEF n
<1>2. f[n].level[c] \in S
  BY <1>1 DEF Nest
<1>3. ASSUME NEW b \in S PROVE f[n].level[c] <= b
  <2>1. PICK j \in Owing(f, c) : b = f[j].level[c]
    BY DEF Nest
  <2>2. f[j].level[c] \in Level /\ f[n].level[c] \in Level
    BY <1>1 DEF Leveled
  <2>3. j = n \/ j < n
    BY <1>1 DEF Owing
  <2>4. j < n => f[n].level[c] < f[j].level[c]
    BY <1>1 DEF Nest
  <2> QED BY <2>1, <2>2, <2>3, <2>4
<1> QED BY <1>2, <1>3 DEF n

\* An end of interrupt takes the innermost handler's level out of service.
LEMMA NestPop ==
  ASSUME NEW f \in Seq(Frames), f # <<>>, NEW c \in Chips, NEW S, Nest(f, c, S),
         Leveled(f), c \in f[Len(f)].owes
  PROVE  Nest([f EXCEPT ![Len(f)].owes = @ \ {c}], c, S \ {f[Len(f)].level[c]})
<1> DEFINE n == Len(f)
           g == [f EXCEPT ![n].owes = @ \ {c}]
           l == f[n].level[c]
<1>1. n \in Nat \ {0} /\ DOMAIN f = 1 .. n /\ n \in Owing(f, c) /\ f[n] \in Frames
  BY DEF Owing
<1> HIDE DEF n
<1>2. /\ DOMAIN g = DOMAIN f /\ \A k \in 1 .. n : g[k].level = f[k].level
      /\ c \notin g[n].owes /\ \A k \in (1 .. n) \ {n} : g[k] = f[k]
  BY <1>1 DEF Frames
<1> HIDE DEF g
<1>3. Owing(g, c) = Owing(f, c) \ {n} /\ Owing(f, c) \subseteq 1 .. n
  BY <1>1, <1>2 DEF Owing
<1>4. \A k \in Owing(g, c) : k \in Owing(f, c) /\ g[k].level[c] = f[k].level[c] /\ k < n
  BY <1>1, <1>2, <1>3
<1>5. \A k \in Owing(g, c) : f[k].level[c] # l
  <2> SUFFICES ASSUME NEW k \in Owing(g, c) PROVE f[k].level[c] # l
    OBVIOUS
  <2>1. l < f[k].level[c] /\ l \in Level /\ f[k].level[c] \in Level
    BY <1>1, <1>4 DEF Nest, Leveled
  <2> HIDE DEF l
  <2> QED BY <2>1
<1>6. S \ {l} = {g[k].level[c] : k \in Owing(g, c)}
  <2>1. S = {f[k].level[c] : k \in Owing(f, c)}
    BY DEF Nest
  <2> QED BY <1>3, <1>4, <1>5, <2>1
<1>7. \A j, k \in Owing(g, c) : j < k => g[k].level[c] < g[j].level[c]
  BY <1>4 DEF Nest
<1>8. Nest(g, c, S \ {l})
  BY <1>6, <1>7 DEF Nest
<1> QED BY <1>8 DEF g, l, n

\* While priorities have not been rotated a level is its own rank.
LEMMA PlainRank ==
  ASSUME NEW p \in Pics, p.top = 0, NEW l \in Level
  PROVE  Rank(p, l) = l
<1>1. ~(l < 0) /\ l - 0 = l
  OBVIOUS
<1> QED BY <1>1, RankType

\* A non-specific end of interrupt finds the level of the handler that sends it.
LEMMA EoiFinds ==
  ASSUME IInv, Nested, plain, frames # <<>>, NEW c \in Chips, c \in Innermost.owes
  PROVE  HighestInService(pic[c]) = Innermost.level[c]
<1> DEFINE p == pic[c]
           l == Innermost.level[c]
<1>1. frames \in Seq(Frames) /\ Leveled(frames) /\ p \in Pics
  BY DEF IInv, TypeOK, Board, Nested
<1>2. p.top = 0 /\ ~p.smm /\ Nest(frames, c, p.isr)
  BY DEF Nested
<1>3. l \in p.isr /\ \A b \in p.isr : l <= b
  BY <1>1, <1>2, InnermostFirst DEF Innermost
<1>4. Blocking(p) = p.isr /\ p.isr \in SUBSET Level
  BY <1>1, <1>2 DEF Blocking, Pics
<1> HIDE DEF l, p
<1> DEFINE h == First(p, p.isr)
<1>5. h \in p.isr /\ \A k \in p.isr : Rank(p, h) <= Rank(p, k)
  BY <1>1, <1>3, <1>4, FirstIs
<1>6. HighestInService(p) = h
  BY <1>3, <1>4 DEF HighestInService
<1> HIDE DEF h
<1>7. h \in Level /\ l \in Level /\ Rank(p, h) = h /\ Rank(p, l) = l
  BY <1>1, <1>2, <1>3, <1>4, <1>5, PlainRank
<1>8. h <= l /\ l <= h
  BY <1>3, <1>5, <1>7
<1>9. h = l
  BY <1>7, <1>8
<1> QED BY <1>6, <1>9 DEF l, p

\* What is resolved comes before everything in service.
LEMMA ResolvedFirst ==
  ASSUME NEW p \in Pics, Plain8259(p), p.top = 0, ~p.smm, Resolve(p) # NoLevel
  PROVE  Resolve(p) \in Level /\ \A b \in p.isr : Resolve(p) < b
<1>1. Pending(p) /\ ~p.sfnm
  BY ResolveType DEF Plain8259
<1>2. Resolve(p) \in Level /\ Before(p, Resolve(p))
  BY <1>1, ResolveIs
<1>3. Blocking(p) = p.isr /\ p.isr \in SUBSET Level
  BY DEF Blocking, Pics
<1>4. ASSUME NEW b \in p.isr PROVE Resolve(p) < b
  <2>1. Rank(p, Resolve(p)) < Rank(p, b)
    BY <1>2, <1>3 DEF Before
  <2>2. Rank(p, Resolve(p)) = Resolve(p) /\ Rank(p, b) = b
    BY <1>2, <1>3, PlainRank
  <2> QED BY <2>1, <2>2
<1> QED BY <1>2, <1>4

\* A step that leaves handlers and what is in service alone.
LEMMA SameNests ==
  ASSUME Nested, frames' = frames, plain' => plain,
         plain' => \A c \in Chips : /\ pic'[c].top = pic[c].top /\ pic'[c].smm = pic[c].smm
                                   /\ pic'[c].isr = pic[c].isr
  PROVE  Nested'
BY DEF Nested, Leveled, Nest, Owing

\* What an access to a controller's registers does to both.
LEMMA TouchSettings ==
  ASSUME IInv, NEW chip \in Chips, NEW q, Accessed(pic[chip], q), TouchChip(chip, q)
  PROVE  /\ SameSettings(q, pic'[chip])
         /\ \A c \in Chips \ {chip} : SameSettings(pic[c], pic'[c])
<1>1. pic \in Board /\ Sound(pic)
  BY DEF IInv, TypeOK
<1>2. pic' = WithChip(pic, chip, q)
  BY DEF TouchChip
<1> QED BY <1>1, <1>2, AccessKeeps

\* A sample moves wires and requests, not service.
LEMMA SampleNests ==
  ASSUME IInv, Nested, Sample
  PROVE  Nested'
<1>1. pic' = Driven(line)[Len(Order)] /\ frames' = frames /\ plain' = plain
  BY DEF Sample
<1>2. Turn(Driven(line)[Len(Order)], Len(Order), line)
  <2>1. Len(Order) \in 0 .. Len(Order)
    BY OrderIs
  <2> QED BY <2>1, DrivenIs DEF IInv, TypeOK
<1>3. SameChips(pic, pic')
  BY <1>1, <1>2 DEF Turn
<1>4. \A c \in Chips : /\ pic'[c].top = pic[c].top /\ pic'[c].smm = pic[c].smm
                      /\ pic'[c].isr = pic[c].isr
  BY <1>3 DEF SameChips, SameSettings
<1> QED BY <1>1, <1>4, SameNests

\* ICW1 ends every service on its controller and every debt to it.
LEMMA WriteIcw1Nests ==
  ASSUME IInv, Nested, NEW chip \in Chips, NEW ltim \in Triggers, WriteIcw1(chip, ltim)
  PROVE  Nested'
<1> DEFINE q == Icw1(pic[chip], ltim, FALSE, TRUE)
           g == [k \in DOMAIN frames |-> [frames[k] EXCEPT !.owes = @ \ {chip}]]
<1>1. pic[chip] \in Pics /\ Plain8259(pic[chip]) /\ ltim \in BOOLEAN
  BY BoardAssumption DEF IInv, TypeOK, Board, Sound
<1>2. Accessed(pic[chip], q)
  BY <1>1, Icw1Accessed
<1>3. q.isr = {} /\ q.top = 0 /\ q.smm = FALSE
  BY <1>1 DEF Icw1, Pics
<1>4. TouchChip(chip, q) /\ frames' = g /\ plain' = plain
  BY DEF WriteIcw1
<1> HIDE DEF q
<1>5. /\ SameSettings(q, pic'[chip])
      /\ \A c \in Chips \ {chip} : SameSettings(pic[c], pic'[c])
  BY <1>2, <1>4, TouchSettings
<1>6. /\ DOMAIN g = DOMAIN frames
      /\ \A k \in DOMAIN frames : /\ g[k].level = frames[k].level
                                  /\ g[k].owes = frames[k].owes \ {chip}
  <2>1. \A k \in DOMAIN frames : frames[k] \in Frames
    BY DEF IInv, TypeOK
  <2> QED BY <2>1 DEF Frames
<1> HIDE DEF g
<1>7. Owing(g, chip) = {} /\ \A c \in Chips \ {chip} : Owing(g, c) = Owing(frames, c)
  BY <1>6 DEF Owing
<1>8. Leveled(g)
  BY <1>6, <1>7 DEF Leveled, Nested, Owing
<1>9. ASSUME plain, NEW c \in Chips
      PROVE  pic'[c].top = 0 /\ ~pic'[c].smm /\ Nest(g, c, pic'[c].isr)
  <2>1. CASE c = chip
    BY <1>3, <1>5, <1>7, <2>1 DEF SameSettings, Nest
  <2>2. CASE c # chip
    <3>1. /\ pic[c].top = 0 /\ ~pic[c].smm /\ Nest(frames, c, pic[c].isr)
      BY <1>9 DEF Nested
    <3>2. SameSettings(pic[c], pic'[c])
      BY <1>5, <2>2
    <3>3. Nest(g, c, pic[c].isr)
      <4>1. \A k \in Owing(frames, c) : g[k].level[c] = frames[k].level[c]
        BY <1>6 DEF Owing
      <4> QED BY <1>7, <2>2, <3>1, <4>1, NestAlike
    <3> QED BY <3>1, <3>2, <3>3 DEF SameSettings
  <2> QED BY <2>1, <2>2
<1> QED BY <1>4, <1>8, <1>9 DEF Nested

\* ICW2 to ICW4 and the mask change no service.
LEMMA WriteOddNests ==
  ASSUME IInv, Nested, NEW chip \in Chips, NEW mask \in Masks, WriteOddAddress(chip, mask)
  PROVE  Nested'
<1> DEFINE q == WriteOdd(pic[chip], mask, FALSE, FALSE)
<1>1. pic[chip] \in Pics /\ Plain8259(pic[chip]) /\ mask \in SUBSET Level
  BY BoardAssumption DEF IInv, TypeOK, Board, Sound
<1>2. /\ Accessed(pic[chip], q)
      /\ q.isr = pic[chip].isr /\ q.top = pic[chip].top /\ q.smm = pic[chip].smm
  BY <1>1, WriteOddAccessed
<1>3. TouchChip(chip, q) /\ frames' = frames /\ plain' = plain
  BY DEF WriteOddAddress
<1> HIDE DEF q
<1>4. \A c \in Chips : /\ pic'[c].top = pic[c].top /\ pic'[c].smm = pic[c].smm
                      /\ pic'[c].isr = pic[c].isr
  BY <1>2, <1>3, TouchSettings DEF SameSettings
<1> QED BY <1>3, <1>4, SameNests

\* The poll command changes no service.
LEMMA WritePollNests ==
  ASSUME IInv, Nested, NEW chip \in Chips, WritePoll(chip)
  PROVE  Nested'
<1> DEFINE q == PollCommand(pic[chip])
<1>1. pic[chip] \in Pics /\ Plain8259(pic[chip])
  BY DEF IInv, TypeOK, Board, Sound
<1>2. /\ Accessed(pic[chip], q)
      /\ q.isr = pic[chip].isr /\ q.top = pic[chip].top /\ q.smm = pic[chip].smm
  BY <1>1, ModesAccessed
<1>3. TouchChip(chip, q) /\ frames' = frames /\ plain' = plain
  BY DEF WritePoll
<1> HIDE DEF q
<1>4. \A c \in Chips : /\ pic'[c].top = pic[c].top /\ pic'[c].smm = pic[c].smm
                      /\ pic'[c].isr = pic[c].isr
  BY <1>2, <1>3, TouchSettings DEF SameSettings
<1> QED BY <1>3, <1>4, SameNests

\* The end of interrupt a handler sends, specific or not, ends its own level.
LEMMA WriteEoiNests ==
  ASSUME IInv, Nested, NEW chip \in Chips, NEW specific \in BOOLEAN, NEW rotate \in BOOLEAN,
         WriteEoi(chip, specific, rotate)
  PROVE  Nested'
<1> DEFINE p == pic[chip]
           n == Len(frames)
           l == Innermost.level[chip]
           q == Eoi(p, specific, l, rotate)
           g == [frames EXCEPT ![n].owes = @ \ {chip}]
<1>1. /\ frames \in Seq(Frames) /\ frames # <<>> /\ chip \in Innermost.owes
      /\ TouchChip(chip, q) /\ frames' = g /\ plain' = (plain /\ ~rotate)
  BY DEF WriteEoi, IInv, TypeOK
<1>2. /\ n \in DOMAIN frames /\ frames[n] \in Frames
  BY <1>1
<1>3. /\ DOMAIN g = DOMAIN frames
      /\ \A k \in DOMAIN frames : /\ g[k].level = frames[k].level
                                  /\ g[k].owes \subseteq frames[k].owes
                                  /\ frames[k].owes \subseteq g[k].owes \cup {chip}
  <2>1. \A k \in DOMAIN frames \ {n} : g[k] = frames[k]
    OBVIOUS
  <2>2. g[n].level = frames[n].level /\ g[n].owes = frames[n].owes \ {chip}
    BY <1>2 DEF Frames
  <2> HIDE DEF g
  <2>3. \A k \in DOMAIN frames : k = n \/ k \in DOMAIN frames \ {n}
    OBVIOUS
  <2>4. DOMAIN g = DOMAIN frames
    BY DEF g
  <2> HIDE DEF n
  <2> QED BY <2>1, <2>2, <2>3, <2>4
<1>4. Leveled(g)
  <2> HIDE DEF g
  <2> QED BY <1>3 DEF Leveled, Nested, Owing
<1>5. ASSUME plain, ~rotate, NEW c \in Chips
      PROVE  pic'[c].top = 0 /\ ~pic'[c].smm /\ Nest(g, c, pic'[c].isr)
  <2>1. p \in Pics /\ Plain8259(p)
    BY DEF IInv, TypeOK, Board, Sound
  <2>2. /\ \A d \in Chips : pic[d].top = 0 /\ ~pic[d].smm /\ Nest(frames, d, pic[d].isr)
        /\ Leveled(frames)
    BY <1>5 DEF Nested
  <2>3. l \in Level
    BY <1>1, <1>2, <2>2 DEF Leveled, Owing, Innermost
  <2>4. HighestInService(p) = l
    BY <1>1, <1>5, EoiFinds
  <2>5. q = EndService(p, l, FALSE)
    BY <1>5, <2>4 DEF Eoi
  <2>6. Accessed(p, EndService(p, l, FALSE))
    BY <2>1, <2>3, EndServiceAccessed
  <2>7. q.isr = p.isr \ {l} /\ q.top = p.top /\ q.smm = p.smm
    <3>1. l # NoLevel
      BY <2>3 DEF NoLevel
    <3> HIDE DEF l
    <3> QED BY <2>1, <2>5, <3>1 DEF EndService, Pics
  <2> HIDE DEF q
  <2>8. /\ SameSettings(q, pic'[chip])
        /\ \A d \in Chips \ {chip} : SameSettings(pic[d], pic'[d])
    BY <1>1, <2>5, <2>6, TouchSettings
  <2>9. CASE c = chip
    <3>1. Nest(g, chip, p.isr \ {l})
      BY <1>1, <2>2, NestPop DEF Innermost
    <3> QED BY <2>2, <2>7, <2>8, <2>9, <3>1 DEF SameSettings
  <2>10. CASE c # chip
    <3>1. Owing(g, c) = Owing(frames, c)
      <4> HIDE DEF g
      <4> QED BY <1>3, <2>10 DEF Owing
    <3>2. Nest(g, c, pic[c].isr)
      <4> HIDE DEF g
      <4>1. \A k \in Owing(frames, c) : g[k].level[c] = frames[k].level[c]
        BY <1>3 DEF Owing
      <4> QED BY <2>2, <3>1, <4>1, NestAlike
    <3>3. SameSettings(pic[c], pic'[c])
      BY <2>8, <2>10
    <3> QED BY <2>2, <3>2, <3>3 DEF SameSettings
  <2> QED BY <2>9, <2>10
<1> QED BY <1>1, <1>4, <1>5 DEF Nested

\* Handlers that do not owe a controller an end are not seen by it.
LEMMA NestIdle ==
  ASSUME NEW f \in Seq(Frames), NEW c \in Chips, NEW S, Nest(f, c, S),
         NEW x \in Frames, c \notin x.owes
  PROVE  Nest(Append(f, x), c, S)
<1> DEFINE n == Len(f)
           g == Append(f, x)
<1>1. /\ n \in Nat /\ DOMAIN f = 1 .. n /\ DOMAIN g = 1 .. n + 1
      /\ g[n + 1] = x /\ \A k \in 1 .. n : g[k] = f[k]
  OBVIOUS
<1> HIDE DEF g, n
<1>2. Owing(g, c) = Owing(f, c) /\ \A k \in Owing(f, c) : g[k].level[c] = f[k].level[c]
  BY <1>1 DEF Owing
<1>3. Nest(g, c, S)
  BY <1>2, NestAlike
<1> QED BY <1>3 DEF g

\* A handler whose levels are levels may join.
LEMMA LeveledPush ==
  ASSUME NEW f \in Seq(Frames), Leveled(f), NEW x \in Frames,
         \A c \in x.owes : x.level[c] \in Level
  PROVE  Leveled(Append(f, x))
<1> DEFINE n == Len(f)
           g == Append(f, x)
<1>1. /\ n \in Nat /\ DOMAIN f = 1 .. n /\ DOMAIN g = 1 .. n + 1
      /\ g[n + 1] = x /\ \A k \in 1 .. n : g[k] = f[k]
  OBVIOUS
<1> HIDE DEF g, n
<1>2. Leveled(g)
  <2> SUFFICES ASSUME NEW c \in Chips, NEW k \in Owing(g, c) PROVE g[k].level[c] \in Level
    BY DEF Leveled
  <2>1. CASE k = n + 1
    BY <1>1, <2>1 DEF Owing
  <2>2. CASE k # n + 1
    <3>1. k \in Owing(f, c) /\ g[k] = f[k]
      BY <1>1, <2>2 DEF Owing
    <3> QED BY <3>1 DEF Leveled
  <2> QED BY <2>1, <2>2
<1> QED BY <1>2 DEF g

\* A level served by a poll is nested inside what was in service.
LEMMA ReadPollNests ==
  ASSUME IInv, Nested, NEW chip \in Chips, ReadPoll(chip)
  PROVE  Nested'
<1> DEFINE p == pic[chip]
           q == PollRead(p)
           l == Resolve(p)
           x == [level |-> [c \in Chips |-> IF c = chip THEN l ELSE NoLevel], owes |-> {chip}]
<1>1. p \in Pics /\ Plain8259(p) /\ frames \in Seq(Frames) /\ Leveled(frames)
  BY DEF IInv, TypeOK, Board, Sound, Nested
<1>2. /\ Accessed(p, q) /\ q.top = p.top /\ q.smm = p.smm
      /\ l = NoLevel => q.isr = p.isr
      /\ l # NoLevel => l \in Level /\ q.isr = p.isr \cup {l}
  BY <1>1, PollReadIs
<1>3. /\ TouchChip(chip, q) /\ plain' = plain
      /\ frames' = IF l = NoLevel THEN frames ELSE Append(frames, x)
  BY DEF ReadPoll
<1> HIDE DEF q
<1>4. /\ SameSettings(q, pic'[chip])
      /\ \A c \in Chips \ {chip} : SameSettings(pic[c], pic'[c])
  BY <1>2, <1>3, TouchSettings
<1>5. CASE l = NoLevel
  <2>1. \A c \in Chips : /\ pic'[c].top = pic[c].top /\ pic'[c].smm = pic[c].smm
                        /\ pic'[c].isr = pic[c].isr
    BY <1>2, <1>4, <1>5 DEF SameSettings
  <2> QED BY <1>3, <1>5, <2>1, SameNests
<1>6. CASE l # NoLevel
  <2>1. l \in Level
    BY <1>2, <1>6
  <2>2. l = Resolve(p)
    OBVIOUS
  <2> HIDE DEF l
  <2>3. x \in Frames /\ x.owes = {chip} /\ x.level[chip] = l
    BY <2>1 DEF Frames
  <2> HIDE DEF x
  <2>4. Leveled(Append(frames, x))
    BY <1>1, <2>1, <2>3, LeveledPush
  <2>5. ASSUME plain, NEW c \in Chips
        PROVE  pic'[c].top = 0 /\ ~pic'[c].smm /\ Nest(Append(frames, x), c, pic'[c].isr)
    <3>1. pic[c].top = 0 /\ ~pic[c].smm /\ Nest(frames, c, pic[c].isr)
      BY <2>5 DEF Nested
    <3>2. CASE c = chip
      <4>1. \A b \in p.isr : l < b
        BY <1>1, <1>6, <2>2, <3>1, <3>2, ResolvedFirst
      <4>2. Nest(Append(frames, x), chip, p.isr \cup {l})
        BY <1>1, <2>3, <3>1, <3>2, <4>1, NestPush
      <4> QED BY <1>2, <1>4, <1>6, <3>1, <3>2, <4>2 DEF SameSettings
    <3>3. CASE c # chip
      <4>1. Nest(Append(frames, x), c, pic[c].isr)
        BY <1>1, <2>3, <3>1, <3>3, NestIdle
      <4>2. SameSettings(pic[c], pic'[c])
        BY <1>4, <3>3
      <4> QED BY <3>1, <4>1, <4>2 DEF SameSettings
    <3> QED BY <3>2, <3>3
  <2> QED BY <1>3, <1>6, <2>4, <2>5 DEF Nested
<1> QED BY <1>5, <1>6

\* An interrupt taken is nested inside what was in service, on the slave too if the
\* master forwarded it.
LEMMA TakeInterruptNests ==
  ASSUME IInv, Nested, TakeInterrupt
  PROVE  Nested'
<1> DEFINE x == FrameOf(pic)
           m == pic["master"]
           s == pic["slave"]
<1>1. /\ pic' = IntrAcknowledge(pic) /\ frames' = Append(frames, x) /\ plain' = plain
      /\ at = "step" /\ level
  BY DEF TakeInterrupt
<1>2. /\ pic \in Board /\ Sound(pic) /\ Relatched(pic) /\ Pending(m)
      /\ frames \in Seq(Frames) /\ Leveled(frames)
      /\ \A c \in Chips : pic[c] \in Pics /\ Plain8259(pic[c])
  BY <1>1 DEF IInv, TypeOK, Board, Sound, Ready, Nested
<1>3. /\ x \in Frames
      /\ x.level["master"] = Resolve(m)
      /\ x.level["slave"] = IF Resolve(m) = Cascade THEN Resolve(s) ELSE NoLevel
      /\ \A c \in Chips : c \in x.owes <=> x.level[c] # NoLevel
  BY <1>2, FrameOfType
<1>4. /\ \A c \in Chips : pic'[c].top = pic[c].top /\ pic'[c].smm = pic[c].smm
      /\ pic'["master"].isr = m.isr \cup {Resolve(m)}
      /\ pic'["slave"].isr = IF Resolve(m) = Cascade /\ Pending(s)
                             THEN s.isr \cup {Resolve(s)} ELSE s.isr
  BY <1>1, <1>2, IntrAcknowledgeIs
<1>5. /\ Resolve(m) # NoLevel /\ (Resolve(s) = NoLevel <=> ~Pending(s))
  BY <1>2, ResolveType DEF Chips, Plain8259
<1> HIDE DEF x
<1>6. \A c \in Chips :
         /\ c \in x.owes => x.level[c] = Resolve(pic[c]) /\ Resolve(pic[c]) # NoLevel
         /\ c \in x.owes => pic'[c].isr = pic[c].isr \cup {x.level[c]}
         /\ c \notin x.owes => pic'[c].isr = pic[c].isr
  BY <1>3, <1>4, <1>5 DEF Chips
<1>7. Leveled(Append(frames, x))
  <2>1. \A c \in x.owes : x.level[c] \in Level
    <3>1. \A c \in x.owes : c \in Chips /\ x.level[c] # NoLevel
      BY <1>3 DEF Frames
    <3> QED BY <1>3, <3>1 DEF Frames
  <2> QED BY <1>2, <1>3, <2>1, LeveledPush
<1>8. ASSUME plain, NEW c \in Chips
      PROVE  pic'[c].top = 0 /\ ~pic'[c].smm /\ Nest(Append(frames, x), c, pic'[c].isr)
  <2>1. pic[c].top = 0 /\ ~pic[c].smm /\ Nest(frames, c, pic[c].isr)
    BY <1>8 DEF Nested
  <2>2. CASE c \in x.owes
    <3>1. \A b \in pic[c].isr : x.level[c] < b
      BY <1>2, <1>6, <2>1, <2>2, ResolvedFirst
    <3>2. Nest(Append(frames, x), c, pic[c].isr \cup {x.level[c]})
      BY <1>2, <1>3, <2>1, <2>2, <3>1, NestPush
    <3> QED BY <1>4, <1>6, <2>1, <2>2, <3>2
  <2>3. CASE c \notin x.owes
    <3>1. Nest(Append(frames, x), c, pic[c].isr)
      BY <1>2, <1>3, <2>1, <2>3, NestIdle
    <3> QED BY <1>4, <1>6, <2>1, <2>3, <3>1
  <2> QED BY <2>2, <2>3
<1> QED BY <1>1, <1>7, <1>8 DEF Nested

\* RTE: only a handler that owes nothing returns.
LEMMA ReturnNests ==
  ASSUME IInv, Nested, ReturnFromException
  PROVE  Nested'
<1> DEFINE n == Len(frames)
           g == SubSeq(frames, 1, n - 1)
<1>1. /\ frames \in Seq(Frames) /\ frames # <<>> /\ Innermost.owes = {}
      /\ frames' = g /\ pic' = pic /\ plain' = plain
  BY DEF ReturnFromException, IInv, TypeOK
<1>2. /\ DOMAIN frames = 1 .. n /\ n \in Nat \ {0}
      /\ DOMAIN g = 1 .. n - 1 /\ \A k \in 1 .. n - 1 : g[k] = frames[k]
  BY <1>1
<1>3. frames[n].owes = {}
  BY <1>1 DEF Innermost
<1> HIDE DEF g, n
<1>4. \A c : Owing(g, c) = Owing(frames, c)
  BY <1>2, <1>3 DEF Owing
<1>5. \A c : \A k \in Owing(frames, c) : g[k].level[c] = frames[k].level[c]
  BY <1>2, <1>3 DEF Owing
<1>6. Leveled(g)
  BY <1>4, <1>5 DEF Leveled, Nested
<1>7. ASSUME plain, NEW c \in Chips
      PROVE  pic[c].top = 0 /\ ~pic[c].smm /\ Nest(g, c, pic[c].isr)
  <2>1. pic[c].top = 0 /\ ~pic[c].smm /\ Nest(frames, c, pic[c].isr)
    BY <1>7 DEF Nested
  <2> QED BY <1>4, <1>5, <2>1, NestAlike
<1> QED BY <1>1, <1>6, <1>7 DEF Nested

\* The power-on state of both controllers: nothing is in service or owed.
LEMMA ResetNests ==
  ASSUME IInv, ResetDevices
  PROVE  Nested'
<1> DEFINE b == [c \in Chips |-> PicInit]
           g == [k \in DOMAIN frames |-> [frames[k] EXCEPT !.owes = {}]]
<1>1. b["master"] = PicInit /\ b["slave"] = PicInit
  BY DEF Chips
<1>2. frames' = g /\ pic' = [b EXCEPT !["master"] = SetRequest(@, Cascade, Pending(b["slave"]))]
  BY DEF ResetDevices, UpdateCascade
<1>3. pic'["master"] = SetRequest(PicInit, Cascade, Pending(PicInit)) /\ pic'["slave"] = PicInit
  BY <1>1, <1>2 DEF Chips
<1>4. \A c \in Chips : pic'[c].isr = {} /\ pic'[c].top = 0 /\ ~pic'[c].smm
  <2>1. PicInit.isr = {} /\ PicInit.top = 0 /\ ~PicInit.smm
    BY DEF PicInit
  <2>2. /\ pic'["master"].isr = PicInit.isr /\ pic'["master"].top = PicInit.top
        /\ pic'["master"].smm = PicInit.smm
    BY <1>3 DEF SetRequest, PicInit
  <2> QED BY <1>3, <2>1, <2>2 DEF Chips
<1>5. \A c : Owing(g, c) = {}
  <2>1. \A k \in DOMAIN frames : frames[k] \in Frames
    BY DEF IInv, TypeOK
  <2>2. DOMAIN g = DOMAIN frames /\ \A k \in DOMAIN frames : g[k].owes = {}
    BY <2>1 DEF Frames
  <2> HIDE DEF g
  <2> QED BY <2>2 DEF Owing
<1> HIDE DEF g
<1> QED BY <1>2, <1>4, <1>5 DEF Nested, Leveled, Nest

-----------------------------------------------------------------------------
(* The theorems                                                            *)

\* Powered on, both controllers are masked and no promise has been made.
LEMMA InitIs ==
  ASSUME Init
  PROVE  IInv /\ Settled /\ Nested
<1>1. PicInit \in Pics
  <2>1. 0 \in Level
    OBVIOUS
  <2> QED BY <2>1 DEF PicInit, Pics
<1>2. /\ PicInit.pins = {} /\ PicInit.irr = {} /\ PicInit.isr = {} /\ PicInit.top = 0
      /\ ~PicInit.aeoi /\ ~PicInit.sfnm /\ ~PicInit.smm
  BY DEF PicInit
<1>3. /\ pic["master"] = PicInit /\ pic["slave"] = PicInit
      /\ pic \in Board /\ \A c \in Chips : pic[c] = PicInit
  BY <1>1 DEF Init, Chips, Board
<1>4. Never \in Nat \ {0}
  BY BoardAssumption DEF Never
<1>5. /\ line \in [Devices -> BOOLEAN] /\ due \in [Devices -> 1 .. Never]
      /\ \A d \in Devices : due[d] = Never
  BY <1>4 DEF Init
<1>6. valid = 0 /\ at = "boundary" /\ frames = <<>> /\ ~spent
  BY DEF Init
<1>7. TypeOK
  <2>1. level \in BOOLEAN /\ masked \in BOOLEAN /\ bit \in BOOLEAN
        /\ plain \in BOOLEAN /\ spent \in BOOLEAN
    BY DEF Init
  <2>2. valid \in 0 .. Never /\ frames \in Seq(Frames) /\ commands \in Nat
    BY <1>4, <1>6 DEF Init
  <2> QED BY <1>3, <1>5, <1>6, <2>1, <2>2 DEF TypeOK, Phases
<1>8. Sound(pic)
  BY <1>2, <1>3 DEF Sound, Plain8259, CascadeTrue, Wired
<1>9. PromiseHolds /\ Ready /\ Settled
  BY <1>5, <1>6 DEF PromiseHolds, Ready, Settled
<1>10. Latched(pic)
  BY <1>2, <1>3 DEF Latched
<1>11. Nested
  <2>1. \A c : Owing(frames, c) = {}
    BY <1>6 DEF Owing
  <2> QED BY <1>2, <1>3, <2>1 DEF Nested, Leveled, Nest
<1> QED BY <1>7, <1>8, <1>9, <1>10, <1>11 DEF IInv

\* Every step keeps the invariant, and what was settled settled.
LEMMA NextKeeps ==
  ASSUME IInv, [Next]_vars
  PROVE  IInv' /\ (Settled => Settled')
<1>1. CASE Sample
  BY <1>1, SampleKeeps
<1>2. CASE SkipSample
  BY <1>2, SkipSampleKeeps
<1>3. CASE TakeInterrupt
  BY <1>3, TakeInterruptKeeps
<1>4. CASE Software
  <2>1. ASSUME NEW m \in BOOLEAN, Compute(m) PROVE IInv' /\ (Settled => Settled')
    BY <2>1, ComputeKeeps
  <2>2. ASSUME NEW d \in Devices, TouchDevice(d) PROVE IInv' /\ Settled'
    BY <2>2, TouchDeviceKeeps
  <2>3. ASSUME NEW chip \in Chips, NEW ltim \in Triggers, WriteIcw1(chip, ltim)
        PROVE  IInv' /\ Settled'
    BY <2>3, WriteIcw1Keeps
  <2>4. ASSUME NEW chip \in Chips, NEW mask \in Masks, WriteOddAddress(chip, mask)
        PROVE  IInv' /\ Settled'
    BY <2>4, WriteOddKeeps
  <2>5. ASSUME NEW chip \in Chips, NEW specific \in BOOLEAN, NEW rotate \in BOOLEAN,
               WriteEoi(chip, specific, rotate)
        PROVE  IInv' /\ Settled'
    BY <2>5, WriteEoiKeeps
  <2>6. \A chip \in Chips : pic[chip] \in Pics /\ Plain8259(pic[chip])
    BY DEF IInv, TypeOK, Board, Sound
  <2>7. ASSUME NEW chip \in Chips, WriteMode(chip, SetPriority(pic[chip], 0))
        PROVE  IInv' /\ Settled'
    BY <2>6, <2>7, ModesAccessed, WriteModeKeeps
  <2>8. ASSUME NEW chip \in Chips, NEW on \in BOOLEAN,
               WriteMode(chip, SpecialMask(pic[chip], on))
        PROVE  IInv' /\ Settled'
    BY <2>6, <2>8, ModesAccessed, WriteModeKeeps
  <2>9. ASSUME NEW chip \in Chips, WritePoll(chip) PROVE IInv' /\ Settled'
    BY <2>9, WritePollKeeps
  <2>10. ASSUME NEW chip \in Chips, ReadPoll(chip) PROVE IInv' /\ Settled'
    BY <2>10, ReadPollKeeps
  <2>11. ASSUME ReturnFromException PROVE IInv' /\ (Settled => Settled')
    BY <2>11, ReturnKeeps
  <2>12. ASSUME ResetDevices PROVE IInv' /\ Settled'
    BY <2>12, ResetKeeps
  <2> QED BY <1>4, <2>1, <2>2, <2>3, <2>4, <2>5, <2>7, <2>8, <2>9, <2>10, <2>11, <2>12
          DEF Software
<1>5. CASE Advance
  BY <1>5, AdvanceKeeps
<1>6. CASE UNCHANGED vars
  <2>1. /\ UNCHANGED <<pic, line, due, valid, spent>>
        /\ UNCHANGED <<at, level, masked, bit, frames, plain, commands>>
    BY <1>6 DEF vars
  <2>2. /\ at' \in Phases /\ level' \in BOOLEAN /\ masked' \in BOOLEAN /\ bit' \in BOOLEAN
        /\ plain' \in BOOLEAN /\ frames' \in Seq(Frames) /\ commands' \in Nat
    BY <2>1 DEF IInv, TypeOK
  <2>3. at' = "step" => valid # 0 /\ level' = Pending(pic["master"])
    BY <2>1 DEF IInv, Ready
  <2> QED BY <2>1, <2>2, <2>3, QuietKeeps
<1> QED BY <1>1, <1>2, <1>3, <1>4, <1>5, <1>6 DEF Next

\* Every step keeps the nesting.
LEMMA NextNests ==
  ASSUME IInv, Nested, [Next]_vars
  PROVE  Nested'
<1>1. CASE Sample
  BY <1>1, SampleNests
<1>2. ASSUME UNCHANGED <<pic, frames, plain>> PROVE Nested'
  BY <1>2, SameNests
<1>3. CASE SkipSample
  BY <1>2, <1>3 DEF SkipSample
<1>4. CASE TakeInterrupt
  BY <1>4, TakeInterruptNests
<1>5. CASE Software
  <2>1. ASSUME NEW m \in BOOLEAN, Compute(m) PROVE Nested'
    BY <1>2, <2>1 DEF Compute
  <2>2. ASSUME NEW d \in Devices, TouchDevice(d) PROVE Nested'
    BY <1>2, <2>2 DEF TouchDevice
  <2>3. ASSUME NEW chip \in Chips, NEW ltim \in Triggers, WriteIcw1(chip, ltim)
        PROVE  Nested'
    BY <2>3, WriteIcw1Nests
  <2>4. ASSUME NEW chip \in Chips, NEW mask \in Masks, WriteOddAddress(chip, mask)
        PROVE  Nested'
    BY <2>4, WriteOddNests
  <2>5. ASSUME NEW chip \in Chips, NEW specific \in BOOLEAN, NEW rotate \in BOOLEAN,
               WriteEoi(chip, specific, rotate)
        PROVE  Nested'
    BY <2>5, WriteEoiNests
  <2>6. ASSUME NEW chip \in Chips, NEW q, WriteMode(chip, q) PROVE Nested'
    <3>1. frames' = frames /\ plain' = FALSE
      BY <2>6 DEF WriteMode
    <3> QED BY <3>1, SameNests
  <2>7. ASSUME NEW chip \in Chips, WritePoll(chip) PROVE Nested'
    BY <2>7, WritePollNests
  <2>8. ASSUME NEW chip \in Chips, ReadPoll(chip) PROVE Nested'
    BY <2>8, ReadPollNests
  <2>9. CASE ReturnFromException
    BY <2>9, ReturnNests
  <2>10. CASE ResetDevices
    BY <2>10, ResetNests
  <2> QED BY <1>5, <2>1, <2>2, <2>3, <2>4, <2>5, <2>6, <2>7, <2>8, <2>9, <2>10 DEF Software
<1>6. CASE Advance
  BY <1>2, <1>6 DEF Advance
<1>7. CASE UNCHANGED vars
  BY <1>2, <1>7 DEF vars
<1> QED BY <1>1, <1>3, <1>4, <1>5, <1>6, <1>7 DEF Next

\* IInv holds at every step of the board and the processor.
THEOREM Invariant == Spec => []IInv
<1>1. Init => IInv
  BY InitIs
<1>2. IInv /\ [Next]_vars => IInv'
  BY NextKeeps
<1> QED BY <1>1, <1>2, PTL DEF Spec

\* The state of the controllers, lines and handlers is always of its type.
THEOREM TypeCorrect == Spec => []TypeOK
<1>1. IInv => TypeOK
  BY DEF IInv
<1> QED BY <1>1, Invariant, PTL

\* No interrupt of the slave is lost at the master (update_cascade): whenever the
\* cascade's wire is up its request is latched, unless software threw it away.
THEOREM CascadeNeverLost == Spec => []NoLostCascade
<1>1. IInv => NoLostCascade
  BY DEF IInv, Latched, NoLostCascade
<1> QED BY <1>1, Invariant, PTL

\* No acknowledge of the processor finds nothing, on the master or on the slave
\* (ap_intr_acknowledge): the level sampled before the instruction still stands.
THEOREM SpuriousNever == Spec => []NeverSpurious
<1>1. IInv => NeverSpurious
  <2> SUFFICES ASSUME IInv, at = "step", level
               PROVE  /\ Pending(pic["master"])
                      /\ Resolve(pic["master"]) = Cascade => Pending(pic["slave"])
    BY DEF NeverSpurious
  <2>1. Pending(pic["master"])
    BY DEF IInv, Ready
  <2>2. ASSUME Resolve(pic["master"]) = Cascade PROVE Pending(pic["slave"])
    <3>1. pic["master"] \in Pics /\ Plain8259(pic["master"]) /\ CascadeTrue(pic)
      BY DEF IInv, TypeOK, Board, Sound, Chips
    <3>2. Cascade \in Requests(pic["master"])
      BY <2>1, <2>2, <3>1, ResolveIs DEF Plain8259
    <3>3. Cascade \in pic["master"].pins
      BY <3>1, <3>2 DEF Requests, Plain8259
    <3> QED BY <3>1, <3>3 DEF CascadeTrue
  <2> QED BY <2>1, <2>2
<1> QED BY <1>1, Invariant, PTL

\* A non-specific end of interrupt ends the handler that sends it (write_ocw2,
\* highest_in_service), as long as priorities are neither rotated nor masked.
THEOREM EoiRight == Spec => []EoiEndsInnermost
<1>1. Init => IInv /\ Nested
  BY InitIs
<1>2. IInv /\ Nested /\ [Next]_vars => IInv' /\ Nested'
  BY NextKeeps, NextNests
<1>3. IInv /\ Nested => EoiEndsInnermost
  <2> SUFFICES ASSUME IInv, Nested, plain, frames # <<>>, NEW c \in Innermost.owes
               PROVE  HighestInService(pic[c]) = Innermost.level[c]
    BY DEF EoiEndsInnermost
  <2>1. c \in Chips
    <3>1. Innermost \in Frames
      BY InnermostIs DEF IInv, TypeOK
    <3> QED BY <3>1 DEF Frames
  <2> QED BY <2>1, EoiFinds
<1> QED BY <1>1, <1>2, <1>3, PTL DEF Spec

\* Skipping the sample while interrupt_valid_until holds misses no line that was
\* promised to stand (ap_machine_run and ap_board_sample_interrupts), whichever
\* devices ap_board_interrupt_next_change leaves out.
THEOREM SkipInvisible == Spec => []SkippingIsInvisible
<1>1. Init => IInv /\ Settled
  BY InitIs
<1>2. IInv /\ Settled /\ [Next]_vars => IInv' /\ Settled'
  BY NextKeeps
<1>3. IInv /\ Settled => SkippingIsInvisible
  <2> SUFFICES ASSUME IInv, Settled, at = "step"
               PROVE  level = Pending(Driven(Promised)[Len(Order)]["master"])
    BY DEF SkippingIsInvisible
  <2> DEFINE b == Driven(Promised)[Len(Order)]
  <2>1. Turn(b, Len(Order), Promised)
    <3>1. Len(Order) \in 0 .. Len(Order)
      BY OrderIs
    <3>2. Promised \in [Devices -> BOOLEAN]
      BY PromisedIs DEF IInv, TypeOK
    <3> QED BY <3>1, <3>2, DrivenIs DEF IInv, TypeOK
  <2> HIDE DEF b
  <2>2. level = Pending(pic["master"]) /\ valid # 0
    BY DEF IInv, Ready
  <2>3. CASE pic["master"].imr = Level
    <3>1. SameSettings(pic["master"], b["master"]) /\ b["master"] \in Pics /\ pic["master"] \in Pics
      BY <2>1 DEF Turn, SameChips, Board, Chips, IInv, TypeOK
    <3>2. Requests(pic["master"]) = {} /\ Requests(b["master"]) = {}
      BY <2>3, <3>1 DEF SameSettings, Requests, Pics
    <3>3. ~Pending(pic["master"]) /\ ~Pending(b["master"])
      BY <3>2, NoRequestsNotPending
    <3>4. Pending(pic["master"]) \in BOOLEAN /\ Pending(b["master"]) \in BOOLEAN
      BY DEF Pending
    <3> QED BY <2>2, <3>3, <3>4 DEF b
  <2>4. CASE \A d \in Devices : Follows(pic, Irq[d], Promised[d])
    <3>1. b = pic
      BY <2>1, <2>4 DEF Turn
    <3> QED BY <2>2, <3>1 DEF b
  <2> QED BY <2>2, <2>3, <2>4 DEF Settled
<1> QED BY <1>1, <1>2, <1>3, PTL DEF Spec

=============================================================================
