---------------------------- MODULE ClocksProofs ----------------------------
(***************************************************************************)
(* Proofs about the devices that keep time.  A loop of the code is a       *)
(* recursive function of the model; here it is a run, a function on the    *)
(* naturals that has a value for every number of turns, so that the turns  *)
(* of two advances can be added up.                                        *)
(***************************************************************************)
EXTENDS Clocks, WellFoundedInduction, TLAPS

-----------------------------------------------------------------------------
(* Loops.                                                                  *)

\* A set of naturals that is not empty has a least element.
LEMMA Least ==
  ASSUME NEW T \in SUBSET Nat, T # {}
  PROVE  \E x \in T : \A y \in T : x <= y
<1> DEFINE R == {ss \in Nat \X Nat : ss[1] < ss[2]}
<1>1. IsWellFoundedOn(R, Nat)
  BY NatLessThanWellFounded DEF OpToRel
<1>2. \E x \in T : \A y \in T : ~ (<<y, x>> \in R)
  <2> HIDE DEF R
  <2> QED BY <1>1, WFMin
<1>3. PICK x \in T : \A y \in T : ~ (<<y, x>> \in R)
  BY <1>2
<1>4. ASSUME NEW y \in T PROVE x <= y
  <2>1. <<y, x>> \in Nat \X Nat /\ ~ (<<y, x>> \in R)
    BY <1>3
  <2> QED BY <2>1
<1> QED BY <1>4

\* Induction: a set that holds zero and with a number its successor holds all.
LEMMA NatSetInduction ==
  ASSUME NEW S, 0 \in S, \A n \in Nat : n \in S => n + 1 \in S
  PROVE  \A n \in Nat : n \in S
<1> SUFFICES ASSUME Nat \ S # {} PROVE FALSE
  OBVIOUS
<1>1. PICK x \in Nat \ S : \A y \in Nat \ S : x <= y
  BY Least
<1>2. x # 0 /\ x - 1 \in Nat
  BY <1>1
<1>3. x - 1 \in S
  BY <1>1, <1>2
<1>4. (x - 1) + 1 \in S
  BY <1>2, <1>3
<1> QED BY <1>1, <1>4

\* The values of a loop over a state, one turn after the other.
Turns(g, D, a) == g[0] = a /\ \A k \in Nat : g[k + 1] = D[g[k]]

\* A loop whose turn keeps a set has values, for ever.
LEMMA LoopRuns ==
  ASSUME NEW S, NEW a \in S, NEW D \in [S -> S]
  PROVE  \E g \in [Nat -> S] : Turns(g, D, a)
<1> DEFINE Upto(f, k) == f[0] = a /\ \A j \in 0 .. k - 1 : f[j + 1] = D[f[j]]
           T == {k \in Nat : \E f \in [Nat -> S] : Upto(f, k)}
<1>1. 0 \in T
  <2> DEFINE f == [j \in Nat |-> a]
  <2>1. f \in [Nat -> S] /\ Upto(f, 0)
    OBVIOUS
  <2> QED BY <2>1
<1>2. ASSUME NEW k \in Nat, k \in T PROVE k + 1 \in T
  <2>1. PICK f \in [Nat -> S] : Upto(f, k)
    BY <1>2
  <2> DEFINE h == [j \in Nat |-> IF j = k + 1 THEN D[f[k]] ELSE f[j]]
  <2>2. h \in [Nat -> S] /\ h[0] = a
    BY <2>1
  <2>3. ASSUME NEW j \in 0 .. (k + 1) - 1 PROVE h[j + 1] = D[h[j]]
    <3>1. CASE j = k
      <4>1. h[j + 1] = D[f[k]] /\ h[j] = f[k]
        BY <3>1
      <4> QED BY <3>1, <4>1
    <3>2. CASE j # k
      <4>1. j \in 0 .. k - 1 /\ j \in Nat /\ j + 1 \in Nat /\ j # k + 1 /\ j + 1 # k + 1
        BY <3>2
      <4>2. f[j + 1] = D[f[j]]
        BY <2>1, <4>1
      <4> QED BY <4>1, <4>2
    <3> QED BY <3>1, <3>2
  <2>4. Upto(h, k + 1)
    BY <2>2, <2>3
  <2> HIDE DEF h, Upto
  <2> QED BY <2>2, <2>4
<1>3. \A k \in Nat : k \in T
  <2> HIDE DEF T
  <2> QED BY <1>1, <1>2, NatSetInduction
<1> DEFINE F(k) == CHOOSE f \in [Nat -> S] : Upto(f, k)
           g == [k \in Nat |-> F(k)[k]]
<1>4. ASSUME NEW k \in Nat PROVE F(k) \in [Nat -> S] /\ Upto(F(k), k)
  <2>1. \E f \in [Nat -> S] : Upto(f, k)
    BY <1>3
  <2> HIDE DEF Upto
  <2> QED BY <2>1
<1>5. ASSUME NEW k \in Nat, NEW m \in Nat, k <= m PROVE F(k)[k] = F(m)[k]
  <2> DEFINE E == {j \in Nat : j <= k => F(k)[j] = F(m)[j]}
             p == F(k)
             q == F(m)
  <2>1. Upto(p, k) /\ Upto(q, m)
    BY <1>4
  <2> HIDE DEF p, q
  <2>2. 0 \in E
    BY <2>1 DEF p, q
  <2>3. ASSUME NEW j \in Nat, j \in E PROVE j + 1 \in E
    <3>1. CASE j + 1 <= k
      <4>1. j <= k /\ j \in 0 .. k - 1 /\ j \in 0 .. m - 1
        BY <1>5, <3>1
      <4>2. p[j] = q[j]
        BY <2>3, <4>1 DEF p, q
      <4>3. p[j + 1] = q[j + 1]
        BY <2>1, <4>1, <4>2
      <4> QED BY <4>3 DEF p, q
    <3> QED BY <3>1
  <2>4. k \in E
    <3> HIDE DEF E
    <3> QED BY <2>2, <2>3, NatSetInduction
  <2> QED BY <2>4
<1> HIDE DEF F
<1>6. g \in [Nat -> S]
  BY <1>4
<1>7. g[0] = a
  <2>1. F(0)[0] = a
    BY <1>4
  <2> QED BY <2>1
<1>8. ASSUME NEW k \in Nat PROVE g[k + 1] = D[g[k]]
  <2>1. F(k + 1)[k + 1] = D[F(k + 1)[k]]
    <3>1. Upto(F(k + 1), k + 1) /\ k \in 0 .. (k + 1) - 1
      BY <1>4
    <3> QED BY <3>1
  <2>2. F(k)[k] = F(k + 1)[k]
    BY <1>5
  <2> QED BY <2>1, <2>2
<1> QED BY <1>6, <1>7, <1>8 DEF Turns

\* The turns of a loop are those of its first m and then of the rest.
LEMMA LoopAdds ==
  ASSUME NEW S, NEW a \in S, NEW D \in [S -> S], NEW m \in Nat,
         NEW g \in [Nat -> S], Turns(g, D, a),
         NEW h \in [Nat -> S], Turns(h, D, g[m])
  PROVE  \A n \in Nat : h[n] = g[m + n]
<1> DEFINE T == {n \in Nat : h[n] = g[m + n]}
<1>1. 0 \in T
  BY DEF Turns
<1>2. ASSUME NEW n \in Nat, n \in T PROVE n + 1 \in T
  <2>1. m + n \in Nat /\ m + (n + 1) = (m + n) + 1
    OBVIOUS
  <2>2. h[n + 1] = D[h[n]] /\ g[(m + n) + 1] = D[g[m + n]]
    BY <2>1 DEF Turns
  <2> QED BY <1>2, <2>1, <2>2
<1>3. \A k \in Nat : k \in T
  <2> HIDE DEF T
  <2> QED BY <1>1, <1>2, NatSetInduction
<1> QED BY <1>3

-----------------------------------------------------------------------------
(* Bytes and words.                                                        *)

\* Division by a positive number.
LEMMA Division ==
  ASSUME NEW x \in Int, NEW n \in Nat \ {0}
  PROVE  /\ x \div n \in Int /\ x % n \in 0 .. n - 1
         /\ x = n * (x \div n) + (x % n)
OBVIOUS

\* A greater factor gives no smaller product.
LEMMA TimesLeq ==
  ASSUME NEW a \in Int, NEW b \in Int, NEW n \in Nat, a <= b
  PROVE  n * a <= n * b
OBVIOUS

\* There is one quotient.
LEMMA OneQuotient ==
  ASSUME NEW n \in Nat \ {0}, NEW q \in Int, NEW r \in 0 .. n - 1
  PROVE  (n * q + r) \div n = q /\ (n * q + r) % n = r
<1> DEFINE x == n * q + r
           d == x \div n
           m == x % n
<1>1. d \in Int /\ m \in 0 .. n - 1 /\ x = n * d + m /\ n * q \in Int
  BY Division
<1> HIDE DEF d, m
<1>2. ~ (d < q)
  <2>1. SUFFICES ASSUME d <= q - 1 PROVE FALSE
    BY <1>1
  <2>2. n * d <= n * (q - 1) /\ n * (q - 1) = n * q - n
    BY <1>1, <2>1, TimesLeq
  <2> QED BY <1>1, <2>2
<1>3. ~ (q < d)
  <2>1. SUFFICES ASSUME q <= d - 1 PROVE FALSE
    BY <1>1
  <2>2. n * q <= n * (d - 1) /\ n * (d - 1) = n * d - n
    BY <1>1, <2>1, TimesLeq
  <2> QED BY <1>1, <2>2
<1>4. d = q
  BY <1>1, <1>2, <1>3
<1>5. m = r
  BY <1>1, <1>4
<1> QED BY <1>4, <1>5 DEF d, m

\* A word is a byte squared, and even.
LEMMA WordFacts ==
  /\ Byte \in Nat /\ Byte >= 2 /\ Word \in Nat /\ Word >= 4 /\ Word = Byte * Byte
  /\ Word % 2 = 0
<1>1. Byte \in Nat /\ Byte >= 2 /\ Byte % 2 = 0
  BY ByteAssumption
<1>2. Word = Byte * Byte /\ Word \in Nat
  BY <1>1 DEF Word
<1>3. 2 * Byte <= Byte * Byte
  BY <1>1
<1>4. Word % 2 = 0
  <2>1. PICK h \in Nat : Byte = 2 * h
    <3>1. Byte = 2 * (Byte \div 2) /\ Byte \div 2 \in Nat
      BY <1>1
    <3> QED BY <3>1
  <2>2. Word = 2 * (h * Byte) /\ h * Byte \in Nat
    BY <1>1, <1>2, <2>1
  <2> QED BY <2>2
<1> QED BY <1>1, <1>2, <1>3, <1>4

\* Two bytes make a word.
LEMMA WordOf ==
  ASSUME NEW v \in 0 .. Byte - 1, NEW w \in 0 .. Byte - 1
  PROVE  v * Byte + w \in 0 .. Word - 1
<1>1. Byte * v <= Byte * (Byte - 1) /\ Byte * v \in Nat
  BY WordFacts, TimesLeq
<1>2. Byte * (Byte - 1) = Word - Byte
  BY WordFacts
<1> QED BY <1>1, <1>2, WordFacts

\* And a word has two bytes.
LEMMA BytesOf ==
  ASSUME NEW x \in 0 .. Word - 1
  PROVE  x % Byte \in 0 .. Byte - 1 /\ x \div Byte \in 0 .. Byte - 1
<1> DEFINE d == x \div Byte
<1>1. d \in Int /\ x % Byte \in 0 .. Byte - 1 /\ x = Byte * d + (x % Byte)
  BY WordFacts, Division
<1> HIDE DEF d
<1>2. ~ (d < 0)
  <2>1. SUFFICES ASSUME d <= -1 PROVE FALSE
    BY <1>1
  <2>2. Byte * d <= Byte * (-1) /\ Byte * (-1) = - Byte
    BY <1>1, <2>1, WordFacts, TimesLeq
  <2> QED BY <1>1, <2>2, WordFacts
<1>3. ~ (d >= Byte)
  <2>1. SUFFICES ASSUME Byte <= d PROVE FALSE
    BY <1>1
  <2>2. Byte * Byte <= Byte * d
    BY <1>1, <2>1, WordFacts, TimesLeq
  <2> QED BY <1>1, <2>2, WordFacts
<1> QED BY <1>1, <1>2, <1>3, WordFacts DEF d

-----------------------------------------------------------------------------
(* The timers.                                                             *)

\* What a pulse of its clock makes of a timer.
Ticked(i, preset, t) ==
    LET pre == (t.prescale + 1) % 8 IN
    IF t.control.internal \/ preset \/ t.control.measure THEN t
    ELSE IF i = 3 /\ t.control.bit0
         THEN IF pre # 0 THEN [t EXCEPT !.prescale = pre]
              ELSE CountDown([t EXCEPT !.prescale = 0])
         ELSE CountDown(t)

\* A count keeps a timer's registers within their widths and its control as it is.
LEMMA CountDownType ==
  ASSUME NEW t \in PtmTimers
  PROVE  CountDown(t) \in PtmTimers /\ CountDown(t).control = t.control
<1>1. /\ t.latch \in 0 .. Word - 1 /\ t.counter \in 0 .. Word - 1 /\ t.lsb \in 0 .. Byte - 1
      /\ t.prescale \in 0 .. 7 /\ t.flag \in BOOLEAN /\ t.control \in Controls
  BY DEF PtmTimers
<1>2. t.latch % Byte \in 0 .. Byte - 1 /\ t.counter \div Byte \in 0 .. Byte - 1
  BY <1>1, BytesOf
<1>3. TimeOut(t) \in PtmTimers /\ TimeOut(t).control = t.control
  BY <1>1, <1>2 DEF TimeOut, PtmTimers
<1>4. CASE t.control.dual
  <2>1. CASE t.lsb # 0
    <3>1. CountDown(t) = [t EXCEPT !.lsb = @ - 1]
      BY <1>4, <2>1 DEF CountDown
    <3>2. t.lsb - 1 \in 0 .. Byte - 1
      BY <1>1, <2>1, WordFacts
    <3> QED BY <3>1, <3>2 DEF PtmTimers
  <2>2. CASE t.lsb = 0 /\ t.counter \div Byte # 0
    <3> DEFINE c == (t.counter \div Byte - 1) * Byte + (t.latch % Byte)
    <3>1. CountDown(t) = [t EXCEPT !.counter = c, !.lsb = t.latch % Byte]
      BY <1>4, <2>2 DEF CountDown
    <3>2. c \in 0 .. Word - 1
      <4>1. t.counter \div Byte - 1 \in 0 .. Byte - 1
        BY <1>2, <2>2, WordFacts
      <4> QED BY <1>2, <4>1, WordOf
    <3> HIDE DEF c
    <3> QED BY <1>2, <3>1, <3>2 DEF PtmTimers
  <2>3. CASE t.lsb = 0 /\ t.counter \div Byte = 0
    <3>1. CountDown(t) = TimeOut(t)
      BY <1>4, <2>3 DEF CountDown
    <3> QED BY <1>3, <3>1
  <2> QED BY <2>1, <2>2, <2>3
<1>5. CASE ~t.control.dual
  <2>1. CASE t.counter # 0
    <3>1. CountDown(t) = [t EXCEPT !.counter = @ - 1]
      BY <1>5, <2>1 DEF CountDown
    <3>2. t.counter - 1 \in 0 .. Word - 1
      BY <1>1, <2>1, WordFacts
    <3> QED BY <3>1, <3>2 DEF PtmTimers
  <2>2. CASE t.counter = 0
    <3>1. CountDown(t) = TimeOut(t)
      BY <1>5, <2>2 DEF CountDown
    <3> QED BY <1>3, <3>1
  <2> QED BY <2>1, <2>2
<1> QED BY <1>4, <1>5

\* A tick keeps a timer's registers within their widths and its control.
LEMMA TickedType ==
  ASSUME NEW t \in PtmTimers, NEW i \in Timers, NEW preset \in BOOLEAN
  PROVE  Ticked(i, preset, t) \in PtmTimers /\ Ticked(i, preset, t).control = t.control
<1> DEFINE pre == (t.prescale + 1) % 8
<1>1. pre \in 0 .. 7
  BY DEF PtmTimers
<1>2. [t EXCEPT !.prescale = pre] \in PtmTimers /\ [t EXCEPT !.prescale = 0] \in PtmTimers
  BY <1>1 DEF PtmTimers
<1>3. /\ [t EXCEPT !.prescale = pre].control = t.control
      /\ [t EXCEPT !.prescale = 0].control = t.control
  BY DEF PtmTimers
<1> QED BY <1>2, <1>3, CountDownType DEF Ticked

\* A pulse is for one timer, and depends on the others by the preset alone.
LEMMA ClockIs ==
  ASSUME NEW p \in Ptms, NEW i \in Timers
  PROVE  Clock(p, i) = [p EXCEPT !.timer[i] = Ticked(i, TimersPreset(p), p.timer[i])]
<1> DEFINE t == p.timer[i]
           pre == (t.prescale + 1) % 8
<1>1. [p EXCEPT !.timer[i] = t] = p
  BY DEF Ptms
<1>2. CASE t.control.internal \/ ~Counting(p, i)
  <2>1. Clock(p, i) = p
    BY <1>2 DEF Clock
  <2>2. Ticked(i, TimersPreset(p), t) = t
    BY <1>2 DEF Ticked, Counting
  <2> QED BY <1>1, <2>1, <2>2
<1>3. CASE ~(t.control.internal \/ ~Counting(p, i)) /\ i = 3 /\ t.control.bit0 /\ pre # 0
  <2>1. Clock(p, i) = [p EXCEPT !.timer[i].prescale = pre]
    BY <1>3 DEF Clock
  <2>2. Ticked(i, TimersPreset(p), t) = [t EXCEPT !.prescale = pre]
    BY <1>3 DEF Ticked, Counting
  <2> QED BY <2>1, <2>2
<1>4. CASE ~(t.control.internal \/ ~Counting(p, i)) /\ i = 3 /\ t.control.bit0 /\ pre = 0
  <2>1. Clock(p, i) = [p EXCEPT !.timer[i] = CountDown([t EXCEPT !.prescale = 0])]
    BY <1>4 DEF Clock
  <2>2. Ticked(i, TimersPreset(p), t) = CountDown([t EXCEPT !.prescale = 0])
    BY <1>4 DEF Ticked, Counting
  <2> QED BY <2>1, <2>2
<1>5. CASE ~(t.control.internal \/ ~Counting(p, i)) /\ ~(i = 3 /\ t.control.bit0)
  <2>1. Clock(p, i) = [p EXCEPT !.timer[i] = CountDown(t)]
    BY <1>5 DEF Clock
  <2>2. Ticked(i, TimersPreset(p), t) = CountDown(t)
    BY <1>5 DEF Ticked, Counting
  <2> QED BY <2>1, <2>2
<1> QED BY <1>2, <1>3, <1>4, <1>5

\* Two loops that make the same of the same do the same.
LEMMA OneLoop ==
  ASSUME NEW n \in Nat, NEW f, NEW g, f[0] = g[0],
         \A k \in 1 .. n : f[k - 1] = g[k - 1] => f[k] = g[k]
  PROVE  \A k \in 0 .. n : f[k] = g[k]
<1> DEFINE T == {k \in Nat : k <= n => f[k] = g[k]}
<1>1. 0 \in T
  OBVIOUS
<1>2. ASSUME NEW k \in Nat, k \in T PROVE k + 1 \in T
  <2>1. CASE k + 1 <= n
    <3>1. k + 1 \in 1 .. n /\ (k + 1) - 1 = k /\ f[k] = g[k]
      BY <1>2, <2>1
    <3> QED BY <3>1
  <2> QED BY <2>1
<1>3. \A k \in Nat : k \in T
  <2> HIDE DEF T
  <2> QED BY <1>1, <1>2, NatSetInduction
<1> QED BY <1>3

\* A timer through the pulses of its clock.
TickedFcn(i, preset) == [t \in PtmTimers |-> Ticked(i, preset, t)]
RunsOn(g, p, i) == Turns(g, TickedFcn(i, TimersPreset(p)), p.timer[i])
TimerRun(p, i) == CHOOSE g \in [Nat -> PtmTimers] : RunsOn(g, p, i)

\* A timer's run exists, because a tick keeps the timers' type.
LEMMA TimerRuns ==
  ASSUME NEW p \in Ptms, NEW i \in Timers
  PROVE  /\ TimerRun(p, i) \in [Nat -> PtmTimers] /\ RunsOn(TimerRun(p, i), p, i)
         /\ TickedFcn(i, TimersPreset(p)) \in [PtmTimers -> PtmTimers]
         /\ p.timer[i] \in PtmTimers
<1> DEFINE D == TickedFcn(i, TimersPreset(p))
           a == p.timer[i]
<1>1. TimersPreset(p) \in BOOLEAN
  BY DEF TimersPreset, Ptms, PtmTimers, Controls, Timers
<1>2. D \in [PtmTimers -> PtmTimers]
  BY <1>1, TickedType DEF TickedFcn
<1>3. a \in PtmTimers
  BY DEF Ptms
<1>4. \E g \in [Nat -> PtmTimers] : Turns(g, D, a)
  <2> HIDE DEF D, a
  <2> QED BY <1>2, <1>3, LoopRuns
<1>5. \E g \in [Nat -> PtmTimers] : RunsOn(g, p, i)
  BY <1>4 DEF RunsOn
<1> QED BY <1>2, <1>3, <1>5 DEF TimerRun

\* The run, turn by turn.
LEMMA TimerRunTurns ==
  ASSUME NEW p \in Ptms, NEW i \in Timers
  PROVE  /\ TimerRun(p, i)[0] = p.timer[i]
         /\ \A k \in Nat : /\ TimerRun(p, i)[k] \in PtmTimers
                           /\ TimerRun(p, i)[k + 1] = Ticked(i, TimersPreset(p), TimerRun(p, i)[k])
                           /\ TimerRun(p, i)[k].control = p.timer[i].control
<1> DEFINE g == TimerRun(p, i)
<1>0. TimersPreset(p) \in BOOLEAN
  BY DEF TimersPreset, Ptms, PtmTimers, Controls, Timers
<1>1. g \in [Nat -> PtmTimers] /\ RunsOn(g, p, i)
  BY TimerRuns
<1> HIDE DEF g
<1>2. g[0] = p.timer[i]
  BY <1>1 DEF RunsOn, Turns
<1>3. ASSUME NEW k \in Nat PROVE g[k] \in PtmTimers /\ g[k + 1] = Ticked(i, TimersPreset(p), g[k])
  BY <1>1 DEF RunsOn, Turns, TickedFcn
<1> DEFINE T == {k \in Nat : g[k].control = p.timer[i].control}
<1>4. 0 \in T
  BY <1>2
<1>5. ASSUME NEW k \in Nat, k \in T PROVE k + 1 \in T
  BY <1>0, <1>3, <1>5, TickedType
<1>6. \A k \in Nat : k \in T
  <2> HIDE DEF T
  <2> QED BY <1>4, <1>5, NatSetInduction
<1> QED BY <1>2, <1>3, <1>6 DEF g

\* The pulses a timer's clock gave it.
Pulses(p, i, at) == (at - p.to[i]) \div Period[i]

\* The three clocks are 1, 2 and 4 units apart.
LEMMA PeriodFacts == \A i \in Timers : Period[i] \in {1, 2, 4}
BY DEF Timers, Period

\* A clock that is not ahead of the time has had so many pulses.
LEMMA PulsesNat ==
  ASSUME NEW p \in Ptms, NEW i \in Timers, NEW at \in Nat, p.to[i] <= at
  PROVE  Pulses(p, i, at) \in Nat
<1>1. p.to[i] \in Nat /\ Period[i] \in {1, 2, 4}
  BY PeriodFacts DEF Ptms
<1>2. \A x \in Nat : \A y \in {1, 2, 4} : x \div y \in Nat
  OBVIOUS
<1>3. at - p.to[i] \in Nat
  BY <1>1
<1> QED BY <1>1, <1>2, <1>3 DEF Pulses

\* The loop of ap_timer_advance: the timer of a turn, and the turns a timer had.
OfTurn(k, m, n) == IF k <= m THEN 1 ELSE IF k <= m + n THEN 2 ELSE 3
Share(i, k, m, n) ==
    IF i = 1 THEN IF k <= m THEN k ELSE m
    ELSE IF i = 2 THEN IF k <= m THEN 0 ELSE IF k <= m + n THEN k - m ELSE n
    ELSE IF k <= m + n THEN 0 ELSE k - (m + n)

AdvanceRun(f, p, m, n, o) ==
    f = [k \in 0 .. m + n + o |-> IF k = 0 THEN p ELSE Clock(f[k - 1], OfTurn(k, m, n))]

\* Before its first turn no timer has had one, and every turn is a timer's.
LEMMA ShareTurns ==
  ASSUME NEW m \in Nat, NEW n \in Nat, NEW o \in Nat
  PROVE  /\ \A i \in Timers : Share(i, 0, m, n) = 0
         /\ \A k \in 0 .. m + n + o : \A i \in Timers : Share(i, k, m, n) \in Nat
         /\ \A k \in 1 .. m + n + o : OfTurn(k, m, n) \in Timers
BY DEF Share, OfTurn, Timers

\* A turn is had by the timer whose it is.
LEMMA ShareTurn ==
  ASSUME NEW m \in Nat, NEW n \in Nat, NEW o \in Nat, NEW k \in 1 .. m + n + o, NEW i \in Timers
  PROVE  Share(i, k, m, n) = IF i = OfTurn(k, m, n) THEN Share(i, k - 1, m, n) + 1
                             ELSE Share(i, k - 1, m, n)
BY DEF Share, OfTurn, Timers

\* The loop's state after k turns.
AfterTurns(p, k, m, n) ==
    [p EXCEPT !.timer = [i \in Timers |-> TimerRun(p, i)[Share(i, k, m, n)]]]

\* That is the state: a turn makes of the last one what Clock makes.
LEMMA AfterTurnsStep ==
  ASSUME NEW p \in Ptms, NEW m \in Nat, NEW n \in Nat, NEW o \in Nat
  PROVE  /\ AfterTurns(p, 0, m, n) = p
         /\ \A k \in 1 .. m + n + o :
              AfterTurns(p, k, m, n) = Clock(AfterTurns(p, k - 1, m, n), OfTurn(k, m, n))
<1>1. AfterTurns(p, 0, m, n) = p
  <2>1. \A i \in Timers : TimerRun(p, i)[Share(i, 0, m, n)] = p.timer[i]
    <3>1. \A i \in Timers : Share(i, 0, m, n) = 0
      BY ShareTurns
    <3>2. \A i \in Timers : TimerRun(p, i)[0] = p.timer[i]
      BY TimerRunTurns
    <3> QED BY <3>1, <3>2
  <2>2. [i \in Timers |-> TimerRun(p, i)[Share(i, 0, m, n)]] = p.timer
    BY <2>1 DEF Ptms
  <2> QED BY <2>2 DEF AfterTurns, Ptms
<1>2. ASSUME NEW k \in 1 .. m + n + o
      PROVE AfterTurns(p, k, m, n) = Clock(AfterTurns(p, k - 1, m, n), OfTurn(k, m, n))
  <2> DEFINE q == AfterTurns(p, k - 1, m, n)
             j == OfTurn(k, m, n)
             S(i) == Share(i, k, m, n)
             R(i) == Share(i, k - 1, m, n)
             A == [i \in Timers |-> TimerRun(p, i)[R(i)]]
  <2>1. k - 1 \in 0 .. m + n + o /\ j \in Timers
    <3>1. k - 1 \in 0 .. m + n + o
      OBVIOUS
    <3>2. j \in Timers
      BY ShareTurns
    <3> QED BY <3>1, <3>2
  <2>2. \A i \in Timers : R(i) \in Nat /\ S(i) = IF i = j THEN R(i) + 1 ELSE R(i)
    <3>1. \A i \in Timers : R(i) \in Nat
      <4>1. \A l \in 0 .. m + n + o : \A i \in Timers : Share(i, l, m, n) \in Nat
        BY ShareTurns
      <4> QED BY <2>1, <4>1
    <3>2. \A i \in Timers : S(i) = IF i = j THEN R(i) + 1 ELSE R(i)
      <4> SUFFICES ASSUME NEW i \in Timers
                   PROVE  S(i) = IF i = j THEN R(i) + 1 ELSE R(i)
        OBVIOUS
      <4> QED BY ShareTurn
    <3> QED BY <3>1, <3>2
  <2> HIDE DEF j, S, R
  <2>3. A \in [Timers -> PtmTimers] /\ q = [p EXCEPT !.timer = A]
    <3>1. \A i \in Timers : TimerRun(p, i)[R(i)] \in PtmTimers
      BY <2>2, TimerRunTurns
    <3> QED BY <3>1 DEF AfterTurns, R
  <2>4. q \in Ptms /\ q.timer = A
    BY <2>3 DEF Ptms
  <2>5. TimersPreset(q) = TimersPreset(p)
    <3>1. 1 \in Timers /\ A[1] = TimerRun(p, 1)[R(1)] /\ R(1) \in Nat
      BY <2>2 DEF Timers
    <3>2. A[1].control = p.timer[1].control
      BY <3>1, TimerRunTurns
    <3> QED BY <2>4, <3>2 DEF TimersPreset
  <2> HIDE DEF q
  <2>6. Clock(q, j) = [q EXCEPT !.timer[j] = Ticked(j, TimersPreset(p), A[j])]
    BY <2>1, <2>4, <2>5, ClockIs
  <2>7. Ticked(j, TimersPreset(p), A[j]) = TimerRun(p, j)[R(j) + 1]
    BY <2>1, <2>2, TimerRunTurns
  <2> DEFINE B == [i \in Timers |-> TimerRun(p, i)[S(i)]]
  <2>8. [A EXCEPT ![j] = TimerRun(p, j)[R(j) + 1]] = B
    BY <2>1, <2>2
  <2>9. Clock(q, j) = [p EXCEPT !.timer = B]
    <3> HIDE DEF A, B
    <3>1. Clock(q, j) = [q EXCEPT !.timer = [q.timer EXCEPT ![j] = TimerRun(p, j)[R(j) + 1]]]
      BY <2>6, <2>7
    <3>2. [q EXCEPT !.timer = B] = [p EXCEPT !.timer = B]
      BY <2>3
    <3> QED BY <2>4, <2>8, <3>1, <3>2
  <2>10. AfterTurns(p, k, m, n) = [p EXCEPT !.timer = B]
    BY DEF AfterTurns, S
  <2> QED BY <2>9, <2>10 DEF q, j
<1> QED BY <1>1, <1>2

\* What the advance does, timer by timer.
LEMMA TimerAdvanceIs ==
  ASSUME NEW p \in Ptms, NEW at \in Nat, \A i \in Timers : p.to[i] <= at
  PROVE  TimerAdvance(p, at)
           = [p EXCEPT !.timer = [i \in Timers |-> TimerRun(p, i)[Pulses(p, i, at)]],
                       !.to = [i \in Timers |-> ClockedTo(p, i, at)]]
<1> DEFINE n == [i \in Timers |-> (at - p.to[i]) \div Period[i]]
           m1 == n[1]
           m2 == n[2]
           m3 == n[3]
<1>1. /\ m1 \in Nat /\ m2 \in Nat /\ m3 \in Nat
      /\ m1 = Pulses(p, 1, at) /\ m2 = Pulses(p, 2, at) /\ m3 = Pulses(p, 3, at)
  <2>1. \A i \in Timers : n[i] = Pulses(p, i, at) /\ n[i] \in Nat
    BY PulsesNat DEF Pulses
  <2>2. 1 \in Timers /\ 2 \in Timers /\ 3 \in Timers
    BY DEF Timers
  <2> HIDE DEF n
  <2> QED BY <2>1, <2>2
<1> DEFINE f == CHOOSE g : AdvanceRun(g, p, m1, m2, m3)
<1>2. TimerAdvance(p, at) = [f[m1 + m2 + m3] EXCEPT !.to = [i \in Timers |-> ClockedTo(p, i, at)]]
  BY DEF TimerAdvance, AdvanceRun, OfTurn
<1> HIDE DEF n, m1, m2, m3
<1> DEFINE g == [k \in 0 .. m1 + m2 + m3 |-> AfterTurns(p, k, m1, m2)]
<1>3. AdvanceRun(g, p, m1, m2, m3)
  <2>1. ASSUME NEW k \in 0 .. m1 + m2 + m3
        PROVE AfterTurns(p, k, m1, m2) = IF k = 0 THEN p ELSE Clock(g[k - 1], OfTurn(k, m1, m2))
    <3>1. CASE k = 0
      BY <1>1, <3>1, AfterTurnsStep
    <3>2. CASE k # 0
      <4>1. k \in 1 .. m1 + m2 + m3 /\ k - 1 \in 0 .. m1 + m2 + m3
        BY <1>1, <3>2
      <4>2. AfterTurns(p, k, m1, m2) = Clock(AfterTurns(p, k - 1, m1, m2), OfTurn(k, m1, m2))
        BY <1>1, <4>1, AfterTurnsStep
      <4> QED BY <3>2, <4>1, <4>2
    <3> QED BY <3>1, <3>2
  <2> QED BY <2>1 DEF AdvanceRun
<1>4. AdvanceRun(f, p, m1, m2, m3)
  BY <1>3
<1> HIDE DEF f
<1> DEFINE z == m1 + m2 + m3
<1>5. f[z] = AfterTurns(p, z, m1, m2)
  <2>1. f[0] = g[0]
    <3>1. 0 \in 0 .. z
      BY <1>1
    <3> QED BY <1>3, <1>4, <3>1 DEF AdvanceRun
  <2>2. ASSUME NEW k \in 1 .. z, f[k - 1] = g[k - 1] PROVE f[k] = g[k]
    <3>1. k \in 0 .. z /\ k # 0
      BY <1>1
    <3>2. f[k] = Clock(f[k - 1], OfTurn(k, m1, m2))
      BY <1>4, <3>1 DEF AdvanceRun
    <3>3. g[k] = Clock(g[k - 1], OfTurn(k, m1, m2))
      <4> HIDE DEF g
      <4> QED BY <1>3, <3>1 DEF AdvanceRun
    <3> QED BY <2>2, <3>2, <3>3
  <2>3. z \in Nat
    BY <1>1
  <2>4. g[z] = AfterTurns(p, z, m1, m2)
    BY <2>3
  <2> HIDE DEF g, z
  <2>5. \A k \in 0 .. z : f[k] = g[k]
    <3>1. \A k \in 1 .. z : f[k - 1] = g[k - 1] => f[k] = g[k]
      BY <2>2
    <3> QED BY <2>1, <2>3, <3>1, OneLoop
  <2> QED BY <2>3, <2>4, <2>5
<1>6. AfterTurns(p, z, m1, m2)
        = [p EXCEPT !.timer = [i \in Timers |-> TimerRun(p, i)[Pulses(p, i, at)]]]
  <2>1. \A i \in Timers : Share(i, z, m1, m2) = Pulses(p, i, at)
    <3>1. /\ Share(1, m1 + m2 + m3, m1, m2) = m1 /\ Share(2, m1 + m2 + m3, m1, m2) = m2
          /\ Share(3, m1 + m2 + m3, m1, m2) = m3
      <4>1. m1 \in Nat /\ m2 \in Nat /\ m3 \in Nat
        BY <1>1
      <4> QED BY <4>1 DEF Share
    <3>2. \A i \in Timers : i = 1 \/ i = 2 \/ i = 3
      BY DEF Timers
    <3> QED BY <1>1, <3>1, <3>2
  <2>2. [i \in Timers |-> TimerRun(p, i)[Share(i, z, m1, m2)]]
          = [i \in Timers |-> TimerRun(p, i)[Pulses(p, i, at)]]
    BY <2>1
  <2> QED BY <2>2 DEF AfterTurns
<1>7. TimerAdvance(p, at) = [AfterTurns(p, z, m1, m2) EXCEPT !.to = [i \in Timers |-> ClockedTo(p, i, at)]]
  BY <1>2, <1>5
<1> QED BY <1>6, <1>7

\* The periods P between t and a, and where the last of them ends.
Periods(t, a, P) == (a - t) \div P
Whole(t, a, P) == t + ((a - t) \div P) * P

\* Whole periods are taken, and what is left of one is carried.
LEMMA WholePeriods ==
  ASSUME NEW P \in Nat \ {0}, NEW t \in Nat, NEW a \in Nat, t <= a
  PROVE  /\ Periods(t, a, P) \in Nat /\ Whole(t, a, P) = t + P * Periods(t, a, P)
         /\ Whole(t, a, P) \in Nat /\ Whole(t, a, P) <= a /\ a < Whole(t, a, P) + P
         /\ t <= Whole(t, a, P)
<1> DEFINE x == a - t
           d == x \div P
           m == x % P
<1>0. x \in Nat
  OBVIOUS
<1> HIDE DEF x
<1>1. d \in Int /\ m \in 0 .. P - 1 /\ x = P * d + m
  BY <1>0, Division
<1> HIDE DEF d, m
<1>2. ~ (d < 0)
  <2>1. SUFFICES ASSUME d <= -1 PROVE FALSE
    BY <1>1
  <2>2. P * d <= P * (-1) /\ P * (-1) = - P
    BY <1>1, <2>1, TimesLeq
  <2> QED BY <1>0, <1>1, <2>2
<1>3. d \in Nat /\ P * d \in Nat /\ d * P = P * d
  BY <1>1, <1>2
<1>4. Periods(t, a, P) = d /\ Whole(t, a, P) = t + d * P
  BY DEF Periods, Whole, d, x
<1>5. a = t + x
  BY DEF x
<1> HIDE DEF x
<1> QED BY <1>1, <1>3, <1>4, <1>5

\* The whole periods up to one instant and from there to another add up, and the rest is
\* carried.
LEMMA PeriodsAdd ==
  ASSUME NEW P \in Nat \ {0}, NEW t \in Nat, NEW a \in Nat, NEW b \in Nat, t <= a, a <= b
  PROVE  /\ Periods(t, b, P) = Periods(t, a, P) + Periods(Whole(t, a, P), b, P)
         /\ Whole(Whole(t, a, P), b, P) = Whole(t, b, P)
<1> DEFINE u == Whole(t, a, P)
           n == Periods(t, a, P)
           d == Periods(u, b, P)
<1>0. n \in Nat /\ u = t + P * n /\ u \in Nat /\ u <= a
  BY WholePeriods
<1>1. n \in Nat /\ u = t + P * n /\ u \in Nat /\ u <= b /\ P * n \in Nat
  <2> HIDE DEF u, n
  <2> QED BY <1>0
<1> HIDE DEF u, n
<1>2. d \in Nat /\ Whole(u, b, P) = u + P * d /\ Whole(u, b, P) <= b /\ b < Whole(u, b, P) + P
      /\ P * d \in Nat
  BY <1>1, WholePeriods
<1> HIDE DEF d
<1> DEFINE r == b - Whole(u, b, P)
<1>3. r \in 0 .. P - 1
  BY <1>1, <1>2
<1>4. P * (n + d) = P * n + P * d
  BY <1>1, <1>2
<1> DEFINE x == b - t
           e == n + d
<1>5. x = P * e + r
  BY <1>1, <1>2, <1>4
<1>6. x \div P = e
  <2>1. e \in Int
    BY <1>1, <1>2
  <2> HIDE DEF r, x, e
  <2> QED BY <1>3, <1>5, <2>1, OneQuotient
<1>7. Periods(t, b, P) = n + d /\ Whole(t, b, P) = t + P * Periods(t, b, P)
  BY <1>6, WholePeriods DEF Periods
<1> QED BY <1>1, <1>2, <1>4, <1>7 DEF u, n, d

\* No timer's clock is ahead of the time.
Behind(p, at) == \A i \in Timers : p.to[i] <= at

\* An advance keeps the timers' type, and leaves every clock less than a period behind.
LEMMA TimerAdvanceType ==
  ASSUME NEW p \in Ptms, NEW at \in Nat, Behind(p, at)
  PROVE  /\ TimerAdvance(p, at) \in Ptms /\ Behind(TimerAdvance(p, at), at)
         /\ \A i \in Timers : at < TimerAdvance(p, at).to[i] + Period[i]
         /\ \A i \in Timers : TimerAdvance(p, at).timer[i].control = p.timer[i].control
<1> DEFINE T == [i \in Timers |-> TimerRun(p, i)[Pulses(p, i, at)]]
           O == [i \in Timers |-> ClockedTo(p, i, at)]
<1>1. TimerAdvance(p, at) = [p EXCEPT !.timer = T, !.to = O]
  BY TimerAdvanceIs DEF Behind
<1>2. \A i \in Timers : T[i] \in PtmTimers /\ T[i].control = p.timer[i].control
  <2> SUFFICES ASSUME NEW i \in Timers
               PROVE  T[i] \in PtmTimers /\ T[i].control = p.timer[i].control
    OBVIOUS
  <2>1. Pulses(p, i, at) \in Nat
    BY PulsesNat DEF Behind
  <2> QED BY <2>1, TimerRunTurns
<1>3. \A i \in Timers : O[i] \in Nat /\ O[i] <= at /\ at < O[i] + Period[i]
  <2> SUFFICES ASSUME NEW i \in Timers
               PROVE  O[i] \in Nat /\ O[i] <= at /\ at < O[i] + Period[i]
    OBVIOUS
  <2>1. p.to[i] \in Nat /\ p.to[i] <= at /\ Period[i] \in Nat \ {0}
    BY PeriodFacts DEF Behind, Ptms
  <2>2. O[i] = Whole(p.to[i], at, Period[i])
    BY DEF ClockedTo, Whole
  <2> HIDE DEF O
  <2> QED BY <2>1, <2>2, WholePeriods
<1>4. T \in [Timers -> PtmTimers] /\ O \in [Timers -> Nat]
  BY <1>2, <1>3
<1> HIDE DEF T, O
<1>5. TimerAdvance(p, at) \in Ptms
  BY <1>1, <1>4 DEF Ptms
<1>6. TimerAdvance(p, at).timer = T /\ TimerAdvance(p, at).to = O
  BY <1>1 DEF Ptms
<1> QED BY <1>2, <1>3, <1>5, <1>6 DEF Behind

\* Two advances are one.
LEMMA TimerAdvanceAdds ==
  ASSUME NEW p \in Ptms, NEW a \in Nat, NEW b \in Nat, Behind(p, a), a <= b
  PROVE  TimerAdvance(TimerAdvance(p, a), b) = TimerAdvance(p, b)
<1> DEFINE q == TimerAdvance(p, a)
           T == [i \in Timers |-> TimerRun(p, i)[Pulses(p, i, a)]]
           O == [i \in Timers |-> ClockedTo(p, i, a)]
<1>1. q = [p EXCEPT !.timer = T, !.to = O]
  BY TimerAdvanceIs DEF Behind
<1>2. q \in Ptms /\ Behind(q, a)
  BY TimerAdvanceType
<1>3. q.timer = T /\ q.to = O
  BY <1>1 DEF Ptms
<1>4. TimerAdvance(q, b) = [q EXCEPT !.timer = [i \in Timers |-> TimerRun(q, i)[Pulses(q, i, b)]],
                                     !.to = [i \in Timers |-> ClockedTo(q, i, b)]]
  <2>1. \A i \in Timers : q.to[i] <= b
    BY <1>2 DEF Behind, Ptms
  <2> HIDE DEF q
  <2> QED BY <1>2, <2>1, TimerAdvanceIs
<1>5. TimerAdvance(p, b) = [p EXCEPT !.timer = [i \in Timers |-> TimerRun(p, i)[Pulses(p, i, b)]],
                                     !.to = [i \in Timers |-> ClockedTo(p, i, b)]]
  <2>1. \A i \in Timers : p.to[i] <= b
    BY DEF Behind, Ptms
  <2> QED BY <2>1, TimerAdvanceIs
<1>6. ASSUME NEW i \in Timers
      PROVE  /\ ClockedTo(q, i, b) = ClockedTo(p, i, b)
             /\ TimerRun(q, i)[Pulses(q, i, b)] = TimerRun(p, i)[Pulses(p, i, b)]
  <2>1. p.to[i] \in Nat /\ p.to[i] <= a /\ Period[i] \in Nat \ {0}
    BY PeriodFacts DEF Behind, Ptms
  <2>2. O[i] = Whole(p.to[i], a, Period[i])
    BY DEF ClockedTo, Whole
  <2> DEFINE t == p.to[i]
             u == O[i]
             P == Period[i]
  <2>3. Periods(t, b, P) = Periods(t, a, P) + Periods(u, b, P) /\ Whole(u, b, P) = Whole(t, b, P)
    <3>1. u = Whole(t, a, P)
      BY <2>2
    <3> HIDE DEF t, u, P
    <3>2. t \in Nat /\ t <= a /\ P \in Nat \ {0}
      BY <2>1 DEF t, P
    <3> QED BY <3>1, <3>2, PeriodsAdd
  <2>4. /\ Pulses(q, i, b) = Periods(u, b, P) /\ Pulses(p, i, b) = Periods(t, b, P)
        /\ Pulses(p, i, a) = Periods(t, a, P)
        /\ ClockedTo(q, i, b) = Whole(u, b, P)
        /\ ClockedTo(p, i, b) = Whole(t, b, P)
    BY <1>3 DEF Pulses, ClockedTo, Whole, Periods
  <2> HIDE DEF t, u, P
  <2>5. Pulses(p, i, b) = Pulses(p, i, a) + Pulses(q, i, b)
    BY <2>3, <2>4
  <2>6. Pulses(p, i, a) \in Nat /\ Pulses(q, i, b) \in Nat
    <3>1. q.to[i] <= b
      BY <1>2 DEF Behind, Ptms
    <3> HIDE DEF q
    <3> QED BY <1>2, <2>1, <3>1, PulsesNat
  <2> DEFINE m == Pulses(p, i, a)
             D == TickedFcn(i, TimersPreset(p))
             g == TimerRun(p, i)
             h == TimerRun(q, i)
  <2>7. /\ g \in [Nat -> PtmTimers] /\ Turns(g, D, p.timer[i])
        /\ D \in [PtmTimers -> PtmTimers] /\ p.timer[i] \in PtmTimers
    BY TimerRuns DEF RunsOn
  <2>8. TimersPreset(q) = TimersPreset(p)
    <3>1. q.timer[1].control = p.timer[1].control
      BY TimerAdvanceType DEF Timers
    <3> QED BY <3>1 DEF TimersPreset
  <2>9. q.timer[i] = g[m]
    BY <1>3
  <2>10. h \in [Nat -> PtmTimers] /\ Turns(h, D, g[m])
    <3> HIDE DEF q, T, O
    <3> QED BY <1>2, <2>8, <2>9, TimerRuns DEF RunsOn
  <2> DEFINE e == Pulses(q, i, b)
  <2>11. m \in Nat /\ e \in Nat
    BY <2>6
  <2> HIDE DEF m, D, g, h, e, q, T, O
  <2>12. h[e] = g[m + e]
    BY <2>7, <2>10, <2>11, LoopAdds
  <2>13. TimerRun(q, i)[Pulses(q, i, b)] = TimerRun(p, i)[Pulses(p, i, b)]
    BY <2>5, <2>12 DEF m, g, h, e
  <2> QED BY <2>3, <2>4, <2>13
<1>7. /\ [i \in Timers |-> TimerRun(q, i)[Pulses(q, i, b)]] = [i \in Timers |-> TimerRun(p, i)[Pulses(p, i, b)]]
      /\ [i \in Timers |-> ClockedTo(q, i, b)] = [i \in Timers |-> ClockedTo(p, i, b)]
  BY <1>6
<1> DEFINE X == [i \in Timers |-> TimerRun(p, i)[Pulses(p, i, b)]]
           Y == [i \in Timers |-> ClockedTo(p, i, b)]
<1>8. TimerAdvance(q, b) = [q EXCEPT !.timer = X, !.to = Y]
  BY <1>4, <1>7
<1> HIDE DEF X, Y, T, O
<1>9. [q EXCEPT !.timer = X, !.to = Y] = [p EXCEPT !.timer = X, !.to = Y]
  BY <1>1
<1> QED BY <1>5, <1>8, <1>9 DEF X, Y

\* The next pulse is the earliest of the three clocks'.
LEMMA NextPulse ==
  ASSUME NEW p \in Ptms
  PROVE  /\ TimerNextPulse(p) \in Nat
         /\ \A i \in Timers : TimerNextPulse(p) <= p.to[i] + Period[i]
<1> DEFINE due == {p.to[i] + Period[i] : i \in Timers}
<1>1. \A i \in Timers : p.to[i] + Period[i] \in Nat
  BY PeriodFacts DEF Ptms
<1>2. due \in SUBSET Nat /\ due # {}
  BY <1>1 DEF Timers
<1>3. \E t \in due : \A u \in due : t <= u
  <2> HIDE DEF due
  <2> QED BY <1>2, Least
<1>4. TimerNextPulse(p) = CHOOSE t \in due : \A u \in due : t <= u
  BY DEF TimerNextPulse
<1>5. TimerNextPulse(p) \in due /\ \A u \in due : TimerNextPulse(p) <= u
  <2> HIDE DEF due
  <2> QED BY <1>3, <1>4
<1> QED BY <1>2, <1>5

\* The board leaves the timers alone only while no pulse is due.
LEMMA BoardAdvanceIs ==
  ASSUME NEW p \in Ptms, NEW at \in Nat, Behind(p, at)
  PROVE  BoardAdvanceTimer(p, at) = TimerAdvance(p, at)
<1>1. CASE at >= TimerNextPulse(p)
  BY <1>1 DEF BoardAdvanceTimer
<1>2. CASE at < TimerNextPulse(p)
  <2>1. BoardAdvanceTimer(p, at) = p
    BY <1>2, NextPulse DEF BoardAdvanceTimer
  <2>2. ASSUME NEW i \in Timers
        PROVE  /\ TimerRun(p, i)[Pulses(p, i, at)] = p.timer[i]
               /\ ClockedTo(p, i, at) = p.to[i]
    <3>1. at < p.to[i] + Period[i] /\ p.to[i] <= at /\ p.to[i] \in Nat /\ Period[i] \in {1, 2, 4}
      BY <1>2, NextPulse, PeriodFacts DEF Behind, Ptms
    <3>2. \A x \in Nat : \A y \in {1, 2, 4} : x < y => x \div y = 0
      OBVIOUS
    <3>3. at - p.to[i] \in Nat /\ at - p.to[i] < Period[i]
      BY <3>1
    <3>4. (at - p.to[i]) \div Period[i] = 0
      BY <3>1, <3>2, <3>3
    <3>5. Pulses(p, i, at) = 0 /\ ClockedTo(p, i, at) = p.to[i]
      BY <3>1, <3>4 DEF Pulses, ClockedTo
    <3> QED BY <3>5, TimerRunTurns
  <2>3. /\ [i \in Timers |-> TimerRun(p, i)[Pulses(p, i, at)]] = p.timer
        /\ [i \in Timers |-> ClockedTo(p, i, at)] = p.to
    <3>1. p.timer \in [Timers -> PtmTimers] /\ p.to \in [Timers -> Nat]
      BY DEF Ptms
    <3>2. p.timer = [i \in Timers |-> p.timer[i]] /\ p.to = [i \in Timers |-> p.to[i]]
      BY <3>1
    <3> QED BY <2>2, <3>2
  <2>4. TimerAdvance(p, at) = [p EXCEPT !.timer = p.timer, !.to = p.to]
    <3>1. \A i \in Timers : p.to[i] <= at
      BY DEF Behind
    <3>2. TimerAdvance(p, at)
            = [p EXCEPT !.timer = [i \in Timers |-> TimerRun(p, i)[Pulses(p, i, at)]],
                        !.to = [i \in Timers |-> ClockedTo(p, i, at)]]
      BY <3>1, TimerAdvanceIs, ZenonT(60)
    <3> QED BY <3>2, <2>3
  <2>5. [p EXCEPT !.timer = p.timer, !.to = p.to] = p
    BY DEF Ptms
  <2> QED BY <2>1, <2>4, <2>5
<1>3. TimerNextPulse(p) \in Nat
  BY NextPulse
<1> QED BY <1>1, <1>2, <1>3

\* Advancing the timers in two steps leaves them as one step does.
LEMMA TimerCut ==
  ASSUME NEW p \in Ptms, NEW a \in Nat, NEW b \in Nat, Behind(p, a), a <= b
  PROVE  BoardAdvanceTimer(BoardAdvanceTimer(p, a), b) = BoardAdvanceTimer(p, b)
<1>1. BoardAdvanceTimer(p, a) = TimerAdvance(p, a)
  BY BoardAdvanceIs
<1>2. TimerAdvance(p, a) \in Ptms /\ Behind(TimerAdvance(p, a), b)
  BY TimerAdvanceType DEF Behind, Ptms
<1>3. BoardAdvanceTimer(TimerAdvance(p, a), b) = TimerAdvance(TimerAdvance(p, a), b)
  BY <1>2, BoardAdvanceIs
<1>4. Behind(p, b)
  BY DEF Behind, Ptms
<1>5. BoardAdvanceTimer(p, b) = TimerAdvance(p, b)
  BY <1>4, BoardAdvanceIs
<1> QED BY <1>1, <1>3, <1>5, TimerAdvanceAdds

-----------------------------------------------------------------------------
(* The calendar.                                                           *)

\* The calendar, field by field.
LEMMA CalendarFields ==
  ASSUME NEW r \in Calendars
  PROVE  /\ r = [date |-> r.date, a |-> r.a, b |-> r.b, c |-> r.c, alarm |-> r.alarm,
                 updated |-> r.updated, periodic |-> r.periodic, held |-> r.held,
                 tick |-> r.tick, shifted |-> r.shifted, cycles |-> r.cycles]
         /\ r.date \in Dates /\ r.a \in RegisterA /\ r.b \in RegisterB /\ r.c \subseteq Flags
         /\ r.alarm \in ClockTimes /\ r.updated \in Nat /\ r.periodic \in Nat
         /\ r.held \in BOOLEAN /\ r.tick \in 0 .. Second /\ r.shifted \in BOOLEAN
         /\ r.cycles \in Nat
BY DEF Calendars

\* A carry ends in a date.
LEMMA CarriedType ==
  ASSUME NEW d \in Dates
  PROVE  Carried(d) \in Dates
<1> DEFINE s == [d EXCEPT !.second = @ + 1]
           n == IF s.second >= Sixty THEN [s EXCEPT !.second = 0, !.minute = @ + 1] ELSE s
           h == IF n.minute >= Sixty THEN [n EXCEPT !.minute = 0, !.hour = @ + 1] ELSE n
           y == IF h.hour >= 24
                THEN [h EXCEPT !.hour = 0, !.day = @ + 1, !.weekday = (@ % 7) + 1] ELSE h
           m == IF y.day > DaysInMonth(y.year, y.month)
                THEN [y EXCEPT !.day = 1, !.month = @ + 1] ELSE y
<1>0. ASSUME NEW x \in Dates
      PROVE  /\ [x EXCEPT !.second = 0, !.minute = @ + 1] \in Dates
             /\ [x EXCEPT !.minute = 0, !.hour = @ + 1] \in Dates
             /\ [x EXCEPT !.hour = 0, !.day = @ + 1, !.weekday = (@ % 7) + 1] \in Dates
             /\ [x EXCEPT !.day = 1, !.month = @ + 1] \in Dates
             /\ [x EXCEPT !.month = 1, !.year = @ + 1] \in Dates
  <2>0. /\ x.second \in Nat /\ x.minute \in Nat /\ x.hour \in Nat /\ x.day \in Nat
        /\ x.weekday \in Nat /\ x.month \in Nat /\ x.year \in Nat
    BY DEF Dates
  <2>1. /\ x.minute + 1 \in Nat /\ x.hour + 1 \in Nat /\ x.day + 1 \in Nat
        /\ (x.weekday % 7) + 1 \in Nat /\ x.month + 1 \in Nat /\ x.year + 1 \in Nat
    BY <2>0
  <2>2. /\ \A k \in Nat : [x EXCEPT !.second = 0, !.minute = k] \in Dates
        /\ \A k \in Nat : [x EXCEPT !.minute = 0, !.hour = k] \in Dates
        /\ \A k, w \in Nat : [x EXCEPT !.hour = 0, !.day = k, !.weekday = w] \in Dates
        /\ \A k \in Nat : [x EXCEPT !.day = 1, !.month = k] \in Dates
        /\ \A k \in Nat : [x EXCEPT !.month = 1, !.year = k] \in Dates
    BY DEF Dates
  <2> QED BY <2>1, <2>2
<1>1. s \in Dates
  BY DEF Dates
<1> HIDE DEF s
<1>2. n \in Dates
  BY <1>0, <1>1
<1> HIDE DEF n
<1>3. h \in Dates
  BY <1>0, <1>2
<1> HIDE DEF h
<1>4. y \in Dates
  BY <1>0, <1>3
<1> HIDE DEF y
<1>5. m \in Dates
  BY <1>0, <1>4
<1> HIDE DEF m
<1>6. Carried(d) = IF m.month > 12 THEN [m EXCEPT !.month = 1, !.year = @ + 1] ELSE m
  BY DEF Carried, m, y, h, n, s
<1> QED BY <1>0, <1>5, <1>6

\* Daylight saving changes the hour and its own mark, and nothing else.
LEMMA DaylightSavingIs ==
  ASSUME NEW r \in Calendars
  PROVE  \E h \in Nat, s \in BOOLEAN :
           DaylightSaving(r) = [r EXCEPT !.date = [@ EXCEPT !.hour = h], !.shifted = s]
<1>1. [r EXCEPT !.date = [@ EXCEPT !.hour = r.date.hour], !.shifted = r.shifted] = r
  BY DEF Calendars, Dates
<1>2. [r EXCEPT !.shifted = FALSE]
        = [r EXCEPT !.date = [@ EXCEPT !.hour = r.date.hour], !.shifted = FALSE]
  BY DEF Calendars, Dates
<1>3. r.date.hour \in Nat /\ r.shifted \in BOOLEAN
  BY DEF Calendars, Dates
<1>4. CASE r.b.dse /\ AtTheShift(r.date)
  <2>1. CASE r.date.month \in {4, 10} /\ ~r.shifted
    <3> DEFINE h == IF r.date.month = 4 THEN 3 ELSE 1
    <3>1. DaylightSaving(r) = [r EXCEPT !.date.hour = h, !.shifted = TRUE]
      BY <1>4, <2>1 DEF DaylightSaving
    <3>2. h \in Nat
      OBVIOUS
    <3> QED BY <3>1, <3>2
  <2>2. CASE ~(r.date.month \in {4, 10} /\ ~r.shifted)
    <3>1. DaylightSaving(r) = r
      BY <1>4, <2>2 DEF DaylightSaving
    <3> QED BY <1>1, <1>3, <3>1
  <2> QED BY <2>1, <2>2
<1>5. CASE ~(r.b.dse /\ AtTheShift(r.date)) /\ r.date.hour \notin {1, 2}
  <2>1. DaylightSaving(r) = [r EXCEPT !.shifted = FALSE]
    BY <1>5 DEF DaylightSaving
  <2> QED BY <1>2, <1>3, <2>1
<1>6. CASE ~(r.b.dse /\ AtTheShift(r.date)) /\ r.date.hour \in {1, 2}
  <2>1. DaylightSaving(r) = r
    BY <1>6 DEF DaylightSaving
  <2> QED BY <1>1, <1>3, <2>1
<1> QED BY <1>4, <1>5, <1>6

\* What an update leaves alone.
LEMMA UpdateIs ==
  ASSUME NEW r \in Calendars
  PROVE  LET q == UpdateCycle(r) IN
         /\ q \in Calendars /\ q.cycles = r.cycles + 1
         /\ q.a = r.a /\ q.b = r.b /\ q.alarm = r.alarm /\ q.updated = r.updated
         /\ q.periodic = r.periodic /\ q.held = r.held /\ q.tick = r.tick
         /\ q = [r EXCEPT !.date = DaylightSaving([r EXCEPT !.date = Carried(@)]).date,
                          !.shifted = DaylightSaving([r EXCEPT !.date = Carried(@)]).shifted,
                          !.c = q.c, !.cycles = @ + 1]
<1> DEFINE s == [r EXCEPT !.date = Carried(@)]
           q == DaylightSaving(s)
           e == {"UF"} \cup (IF AlarmMatches(q) THEN {"AF"} ELSE {})
<1>1. s \in Calendars
  <2>1. Carried(r.date) \in Dates
    BY CalendarFields, CarriedType
  <2> QED BY <2>1 DEF Calendars
<1>2. PICK h \in Nat, x \in BOOLEAN : q = [s EXCEPT !.date = [@ EXCEPT !.hour = h], !.shifted = x]
  BY <1>1, DaylightSavingIs
<1>3. UpdateCycle(r) = [q EXCEPT !.c = (@ \cup {"UF"}) \cup (IF AlarmMatches(q) THEN {"AF"} ELSE {}),
                                 !.cycles = @ + 1]
  BY DEF UpdateCycle
<1> DEFINE c == (q.c \cup {"UF"}) \cup (IF AlarmMatches(q) THEN {"AF"} ELSE {})
<1>4. q \in Calendars
  <2> HIDE DEF s, q
  <2>1. s.date \in Dates
    BY <1>1, CalendarFields
  <2>2. [s.date EXCEPT !.hour = h] \in Dates
    BY <2>1 DEF Dates
  <2> QED BY <1>1, <1>2, <2>2 DEF Calendars
<1>5. c \subseteq Flags
  BY <1>4, CalendarFields DEF Flags
<1>6. UpdateCycle(r) = [q EXCEPT !.c = c, !.cycles = @ + 1]
  BY <1>3
<1> HIDE DEF c
<1>7. q = [r EXCEPT !.date = q.date, !.shifted = q.shifted]
  <2>1. s = [r EXCEPT !.date = s.date]
    BY DEF Calendars
  <2> HIDE DEF s, q
  <2> QED BY <1>1, <1>2, <2>1 DEF Calendars
<1> HIDE DEF q
<1>8. UpdateCycle(r) = [r EXCEPT !.date = q.date, !.shifted = q.shifted, !.c = c, !.cycles = @ + 1]
  BY <1>4, <1>6, <1>7 DEF Calendars
<1>9. UpdateCycle(r) \in Calendars
  <2>1. q.date \in Dates /\ q.shifted \in BOOLEAN
    BY <1>4, CalendarFields
  <2>2. r.cycles + 1 \in Nat
    BY CalendarFields
  <2> QED BY <1>5, <1>8, <2>1, <2>2 DEF Calendars
<1> QED BY <1>8, <1>9 DEF q, Calendars

\* The clocks of the seconds and of the periodic interrupt, which an update does not look at.
Aside(r, u, p, t, e) == [r EXCEPT !.updated = u, !.periodic = p, !.tick = t, !.c = @ \cup e]

\* Those clocks keep the calendar's type, ...
LEMMA AsideType ==
  ASSUME NEW r \in Calendars, NEW u \in Nat, NEW p \in Nat, NEW t \in 0 .. Second, NEW e \in SUBSET Flags
  PROVE  Aside(r, u, p, t, e) \in Calendars
BY DEF Aside, Calendars

\* ... and an update passes them by.
LEMMA UpdateAside ==
  ASSUME NEW r \in Calendars, NEW u \in Nat, NEW p \in Nat, NEW t \in 0 .. Second, NEW e \in SUBSET Flags
  PROVE  UpdateCycle(Aside(r, u, p, t, e)) = Aside(UpdateCycle(r), u, p, t, e)
<1> DEFINE s == [r EXCEPT !.date = Carried(@)]
           q == DaylightSaving(s)
           A(x) == Aside(x, u, p, t, e)
<1>1. s \in Calendars
  <2>1. Carried(r.date) \in Dates
    BY CalendarFields, CarriedType
  <2> QED BY <2>1 DEF Calendars
<1>2. [A(r) EXCEPT !.date = Carried(@)] = A(s)
  BY DEF Aside, Calendars
<1> HIDE DEF s
<1>3. DaylightSaving(A(s)) = A(q)
  <2>1. A(s).b = s.b /\ A(s).date = s.date /\ A(s).shifted = s.shifted
    BY <1>1 DEF Aside, Calendars
  <2>2. [A(s) EXCEPT !.date.hour = IF s.date.month = 4 THEN 3 ELSE 1, !.shifted = TRUE]
          = A([s EXCEPT !.date.hour = IF s.date.month = 4 THEN 3 ELSE 1, !.shifted = TRUE])
    BY <1>1 DEF Aside, Calendars
  <2>3. [A(s) EXCEPT !.shifted = FALSE] = A([s EXCEPT !.shifted = FALSE])
    BY <1>1 DEF Aside, Calendars
  <2> HIDE DEF A
  <2> QED BY <2>1, <2>2, <2>3 DEF DaylightSaving
<1>4. q \in Calendars
  <2>1. PICK h \in Nat, x \in BOOLEAN : q = [s EXCEPT !.date = [@ EXCEPT !.hour = h], !.shifted = x]
    BY <1>1, DaylightSavingIs
  <2>2. s.date \in Dates
    BY <1>1, CalendarFields
  <2>3. [s.date EXCEPT !.hour = h] \in Dates
    BY <2>2 DEF Dates
  <2> HIDE DEF q
  <2> QED BY <1>1, <2>1, <2>3 DEF Calendars
<1> HIDE DEF q
<1>5. AlarmMatches(A(q)) = AlarmMatches(q)
  <2>1. A(q).b = q.b /\ A(q).date = q.date /\ A(q).alarm = q.alarm
    BY <1>4 DEF Aside, Calendars
  <2> HIDE DEF A
  <2> QED BY <2>1 DEF AlarmMatches
<1> DEFINE f == IF AlarmMatches(q) THEN {"AF"} ELSE {}
<1>6. UpdateCycle(A(r)) = [A(q) EXCEPT !.c = @ \cup {"UF"} \cup f, !.cycles = @ + 1]
  <2> HIDE DEF A
  <2> QED BY <1>2, <1>3, <1>5 DEF UpdateCycle
<1>7. UpdateCycle(r) = [q EXCEPT !.c = @ \cup {"UF"} \cup f, !.cycles = @ + 1]
  BY DEF UpdateCycle, s, q
<1> HIDE DEF f
<1>8. (q.c \cup e) \cup {"UF"} \cup f = (q.c \cup {"UF"} \cup f) \cup e
  OBVIOUS
<1>9. [A(q) EXCEPT !.c = @ \cup {"UF"} \cup f, !.cycles = @ + 1]
        = A([q EXCEPT !.c = @ \cup {"UF"} \cup f, !.cycles = @ + 1])
  BY <1>4, <1>8 DEF Aside, Calendars
<1> QED BY <1>6, <1>7, <1>9

\* The calendar through its seconds.
UpdateFcn == [r \in Calendars |-> UpdateCycle(r)]
SecondRun(r) == CHOOSE g \in [Nat -> Calendars] : Turns(g, UpdateFcn, r)

\* The run of the seconds exists, because an update keeps the calendar's type.
LEMMA SecondRuns ==
  ASSUME NEW r \in Calendars
  PROVE  /\ SecondRun(r) \in [Nat -> Calendars] /\ Turns(SecondRun(r), UpdateFcn, r)
         /\ UpdateFcn \in [Calendars -> Calendars]
<1>1. UpdateFcn \in [Calendars -> Calendars]
  BY UpdateIs DEF UpdateFcn
<1>2. \E g \in [Nat -> Calendars] : Turns(g, UpdateFcn, r)
  BY <1>1, LoopRuns
<1> QED BY <1>1, <1>2 DEF SecondRun

\* The run, second by second.
LEMMA SecondRunTurns ==
  ASSUME NEW r \in Calendars
  PROVE  /\ SecondRun(r)[0] = r
         /\ \A k \in Nat : /\ SecondRun(r)[k] \in Calendars
                           /\ SecondRun(r)[k + 1] = UpdateCycle(SecondRun(r)[k])
BY SecondRuns DEF Turns, UpdateFcn

\* What no second changes.
LEMMA SecondRunKeeps ==
  ASSUME NEW r \in Calendars, NEW k \in Nat
  PROVE  LET q == SecondRun(r)[k] IN
         /\ q.a = r.a /\ q.b = r.b /\ q.alarm = r.alarm /\ q.updated = r.updated
         /\ q.periodic = r.periodic /\ q.held = r.held /\ q.tick = r.tick
         /\ q.cycles = r.cycles + k
<1> DEFINE g == SecondRun(r)
           Kept(j) == /\ g[j].a = r.a /\ g[j].b = r.b /\ g[j].alarm = r.alarm
                      /\ g[j].updated = r.updated /\ g[j].periodic = r.periodic
                      /\ g[j].held = r.held /\ g[j].tick = r.tick
                      /\ g[j].cycles = r.cycles + j
           T == {j \in Nat : Kept(j)}
<1>0. r.cycles \in Nat
  BY CalendarFields
<1>1. 0 \in T
  BY <1>0, SecondRunTurns
<1>2. ASSUME NEW j \in Nat, j \in T PROVE j + 1 \in T
  <2>1. g[j] \in Calendars /\ g[j + 1] = UpdateCycle(g[j])
    BY SecondRunTurns
  <2>2. Kept(j)
    BY <1>2
  <2> HIDE DEF g
  <2> DEFINE s == g[j]
  <2>6. s \in Calendars /\ g[j + 1] = UpdateCycle(s)
    BY <2>1
  <2> HIDE DEF s
  <2>7. /\ g[j + 1].a = s.a /\ g[j + 1].b = s.b /\ g[j + 1].alarm = s.alarm
        /\ g[j + 1].updated = s.updated /\ g[j + 1].periodic = s.periodic
        /\ g[j + 1].held = s.held /\ g[j + 1].tick = s.tick
        /\ g[j + 1].cycles = s.cycles + 1
    BY <2>6, UpdateIs
  <2>3. /\ g[j + 1].a = g[j].a /\ g[j + 1].b = g[j].b /\ g[j + 1].alarm = g[j].alarm
        /\ g[j + 1].updated = g[j].updated /\ g[j + 1].periodic = g[j].periodic
        /\ g[j + 1].held = g[j].held /\ g[j + 1].tick = g[j].tick
        /\ g[j + 1].cycles = g[j].cycles + 1
    BY <2>7 DEF s
  <2>4. g[j + 1].cycles = r.cycles + (j + 1)
    BY <1>0, <2>2, <2>3
  <2>5. Kept(j + 1)
    BY <2>2, <2>3, <2>4
  <2> QED BY <2>5
<1>3. \A j \in Nat : j \in T
  <2> HIDE DEF T
  <2> QED BY <1>1, <1>2, NatSetInduction
<1> QED BY <1>3

\* The seconds pass the clocks set aside.
LEMMA SecondRunAside ==
  ASSUME NEW r \in Calendars, NEW u \in Nat, NEW p \in Nat, NEW t \in 0 .. Second, NEW e \in SUBSET Flags
  PROVE  \A k \in Nat : SecondRun(Aside(r, u, p, t, e))[k] = Aside(SecondRun(r)[k], u, p, t, e)
<1> DEFINE s == Aside(r, u, p, t, e)
           g == SecondRun(r)
           h == SecondRun(s)
           T == {k \in Nat : h[k] = Aside(g[k], u, p, t, e)}
<1>0. s \in Calendars
  BY AsideType
<1>1. h[0] = s /\ \A k \in Nat : h[k] \in Calendars /\ h[k + 1] = UpdateCycle(h[k])
  <2> HIDE DEF s
  <2> QED BY <1>0, SecondRunTurns
<1>2. g[0] = r /\ \A k \in Nat : g[k] \in Calendars /\ g[k + 1] = UpdateCycle(g[k])
  BY SecondRunTurns
<1> HIDE DEF g, h
<1>3. 0 \in T
  BY <1>1, <1>2
<1>4. ASSUME NEW k \in Nat, k \in T PROVE k + 1 \in T
  <2>1. h[k + 1] = UpdateCycle(Aside(g[k], u, p, t, e))
    BY <1>1, <1>4
  <2>2. UpdateCycle(Aside(g[k], u, p, t, e)) = Aside(UpdateCycle(g[k]), u, p, t, e)
    <3>1. g[k] \in Calendars
      BY <1>2
    <3> QED BY <3>1, UpdateAside
  <2>3. h[k + 1] = Aside(g[k + 1], u, p, t, e)
    BY <1>2, <2>1, <2>2
  <2> QED BY <2>3
<1>5. \A k \in Nat : k \in T
  <2> HIDE DEF T
  <2> QED BY <1>3, <1>4, NatSetInduction
<1> QED BY <1>5 DEF g, h

\* Seconds go on where they have been left.
LEMMA SecondRunAdds ==
  ASSUME NEW r \in Calendars, NEW m \in Nat, NEW n \in Nat
  PROVE  SecondRun(SecondRun(r)[m])[n] = SecondRun(r)[m + n]
<1> DEFINE g == SecondRun(r)
           h == SecondRun(g[m])
           S == Calendars
           D == UpdateFcn
<1>1. g \in [Nat -> S] /\ Turns(g, D, r) /\ D \in [S -> S]
  BY SecondRuns
<1>2. g[m] \in S
  BY <1>1
<1>3. h \in [Nat -> S] /\ Turns(h, D, g[m])
  <2> HIDE DEF g
  <2> QED BY <1>2, SecondRuns
<1> HIDE DEF g, h, S, D
<1>4. r \in S
  BY DEF S
<1>5. h[n] = g[m + n]
  BY <1>1, <1>3, <1>4, LoopAdds
<1> QED BY <1>5 DEF g, h

\* Where the date is after n seconds: with SET it stays.
Dated(r, n) == IF r.b.set THEN r ELSE SecondRun(r)[n]

SecondsRun(f, r, n) == f = [k \in 0 .. n |-> IF k = 0 THEN r ELSE UpdateCycle(f[k - 1])]

\* The loop over the seconds is the run, for as many as are due.
LEMMA SecondsIs ==
  ASSUME NEW r \in Calendars, NEW at \in Nat, r.updated <= at
  PROVE  Seconds(r, at) = [Dated(r, Periods(r.updated, at, Second))
                             EXCEPT !.updated = Whole(r.updated, at, Second)]
<1> DEFINE n == (at - r.updated) \div Second
           f == CHOOSE g : SecondsRun(g, r, n)
<1>1. n = Periods(r.updated, at, Second) /\ n \in Nat
      /\ r.updated + n * Second = Whole(r.updated, at, Second)
  <2>1. r.updated \in Nat /\ Second \in Nat \ {0}
    BY CalendarFields, SecondAssumption
  <2>2. Periods(r.updated, at, Second) \in Nat
    BY <2>1, WholePeriods
  <2> QED BY <2>2 DEF Periods, Whole
<1>2. Seconds(r, at) = [IF r.b.set THEN r ELSE f[n] EXCEPT !.updated = r.updated + n * Second]
  BY DEF Seconds, SecondsRun
<1> HIDE DEF n
<1> DEFINE g == SecondRun(r)
           h == [k \in 0 .. n |-> g[k]]
<1>3. g[0] = r /\ \A k \in Nat : g[k] \in Calendars /\ g[k + 1] = UpdateCycle(g[k])
  BY SecondRunTurns
<1> HIDE DEF g
<1>4. SecondsRun(h, r, n)
  <2>1. ASSUME NEW k \in 0 .. n PROVE g[k] = IF k = 0 THEN r ELSE UpdateCycle(h[k - 1])
    <3>1. CASE k = 0
      BY <1>3, <3>1
    <3>2. CASE k # 0
      <4>1. k - 1 \in 0 .. n /\ k - 1 \in Nat /\ (k - 1) + 1 = k
        BY <1>1, <3>2
      <4>2. g[(k - 1) + 1] = UpdateCycle(g[k - 1])
        BY <1>3, <4>1
      <4> QED BY <3>2, <4>1, <4>2
    <3> QED BY <3>1, <3>2
  <2> QED BY <2>1 DEF SecondsRun
<1>5. SecondsRun(f, r, n)
  BY <1>4
<1> HIDE DEF f
<1>6. f[n] = g[n]
  <2>1. 0 \in 0 .. n /\ n \in 0 .. n
    BY <1>1
  <2>2. f[0] = h[0] /\ h[n] = g[n]
    BY <1>3, <1>5, <2>1 DEF SecondsRun
  <2>3. \A k \in 1 .. n : f[k - 1] = h[k - 1] => f[k] = h[k]
    <3> SUFFICES ASSUME NEW k \in 1 .. n, f[k - 1] = h[k - 1] PROVE f[k] = h[k]
      OBVIOUS
    <3>1. k \in 0 .. n /\ k # 0
      BY <1>1
    <3> HIDE DEF h
    <3>2. f[k] = UpdateCycle(f[k - 1]) /\ h[k] = UpdateCycle(h[k - 1])
      BY <1>4, <1>5, <3>1 DEF SecondsRun
    <3> QED BY <3>2
  <2> HIDE DEF h
  <2>4. \A k \in 0 .. n : f[k] = h[k]
    BY <1>1, <2>2, <2>3, OneLoop
  <2> QED BY <2>1, <2>2, <2>4
<1> QED BY <1>1, <1>2, <1>6 DEF Dated, g

\* The seconds change the date, the cycles and the flags, and nothing else.
LEMMA DatedType ==
  ASSUME NEW r \in Calendars, NEW n \in Nat
  PROVE  LET q == Dated(r, n) IN
         /\ q \in Calendars /\ q.a = r.a /\ q.b = r.b /\ q.alarm = r.alarm
         /\ q.updated = r.updated /\ q.periodic = r.periodic /\ q.held = r.held /\ q.tick = r.tick
         /\ q.cycles = IF r.b.set THEN r.cycles ELSE r.cycles + n
BY SecondRunTurns, SecondRunKeeps DEF Dated

\* What the periodic clock does, on a calendar whose periodic clock stands at p: where
\* it goes, the period kept, and the flag.
TickTo(r, p, at) == IF r.a.period = 0 THEN at
                    ELSE IF at <= p THEN p ELSE Whole(p, at, r.a.period)
TickKept(r, t) == IF r.a.period = 0 THEN t ELSE r.a.period
TickFlag(r, p, at) ==
    IF r.a.period # 0 /\ at > p /\ Periods(p, at, r.a.period) # 0 THEN {"PF"} ELSE {}

\* What the periodic clock is left with is within its widths.
LEMMA TickType ==
  ASSUME NEW r \in Calendars, NEW p \in Nat, NEW t \in 0 .. Second, NEW at \in Nat
  PROVE  TickTo(r, p, at) \in Nat /\ TickKept(r, t) \in 0 .. Second /\ TickFlag(r, p, at) \in SUBSET Flags
<1>1. r.a.period \in 0 .. Second
  BY CalendarFields DEF RegisterA
<1>2. r.a.period # 0 => r.a.period \in Nat \ {0}
  BY <1>1, SecondAssumption
<1>3. r.a.period # 0 /\ p <= at => Whole(p, at, r.a.period) \in Nat
  BY <1>2, WholePeriods
<1>4. TickTo(r, p, at) \in Nat
  <2>1. at > p => p <= at
    OBVIOUS
  <2>2. CASE r.a.period = 0
    BY <2>2 DEF TickTo
  <2>3. CASE r.a.period # 0 /\ at <= p
    BY <2>3 DEF TickTo
  <2>4. CASE r.a.period # 0 /\ ~(at <= p)
    BY <1>3, <2>4 DEF TickTo
  <2> QED BY <2>2, <2>3, <2>4
<1> QED BY <1>1, <1>4 DEF TickKept, TickFlag, Flags

\* The loop over the periods sets the clock on and the flag, if any was due.
LEMMA TicksIs ==
  ASSUME NEW r \in Calendars, NEW at \in Nat
  PROVE  Ticks(r, at) = Aside(r, r.updated, TickTo(r, r.periodic, at), TickKept(r, r.tick),
                              TickFlag(r, r.periodic, at))
<1> DEFINE P == r.a.period
           p == r.periodic
<1>0. p \in Nat /\ P \in 0 .. Second
  BY CalendarFields DEF RegisterA
<1>1. CASE P = 0
  <2>1. Ticks(r, at) = [r EXCEPT !.periodic = at]
    BY <1>1 DEF Ticks
  <2>2. TickTo(r, p, at) = at /\ TickKept(r, r.tick) = r.tick /\ TickFlag(r, p, at) = {}
    BY <1>1 DEF TickTo, TickKept, TickFlag
  <2>3. Aside(r, r.updated, at, r.tick, {}) = [r EXCEPT !.periodic = at]
    BY DEF Aside, Calendars
  <2> QED BY <2>1, <2>2, <2>3
<1>2. CASE P # 0
  <2> DEFINE n == (at - p) \div P
             q == [r EXCEPT !.tick = P]
  <2>0. P \in Nat \ {0}
    BY <1>0, <1>2, SecondAssumption
  <2>1. Ticks(r, at) = IF at <= p \/ n = 0 THEN q
                       ELSE [q EXCEPT !.c = @ \cup {"PF"}, !.periodic = @ + n * P]
    BY <1>2 DEF Ticks
  <2>2. TickKept(r, r.tick) = P
    BY <1>2 DEF TickKept
  <2>3. Aside(r, r.updated, p, P, {}) = q
    BY DEF Aside, Calendars
  <2>4. CASE at <= p
    <3>1. TickTo(r, p, at) = p /\ TickFlag(r, p, at) = {}
      BY <1>0, <1>2, <2>4 DEF TickTo, TickFlag
    <3> QED BY <2>1, <2>2, <2>3, <2>4, <3>1
  <2>5. CASE ~(at <= p)
    <3>1. p <= at /\ at > p
      BY <1>0, <2>5
    <3>2. n = Periods(p, at, P) /\ Whole(p, at, P) = p + P * n /\ n \in Nat
      BY <1>0, <2>0, <3>1, WholePeriods DEF Periods
    <3>3. TickTo(r, p, at) = p + P * n
      BY <1>2, <2>5, <3>2 DEF TickTo
    <3>4. TickFlag(r, p, at) = IF n = 0 THEN {} ELSE {"PF"}
      BY <1>2, <3>1, <3>2 DEF TickFlag
    <3> DEFINE w == p + P * n
    <3>5. w = p + n * P
      BY <1>0, <2>0, <3>2
    <3>6. n = 0 => w = p
      BY <1>0, <2>0
    <3> HIDE DEF w, n
    <3>7. [q EXCEPT !.c = @ \cup {"PF"}, !.periodic = w] = Aside(r, r.updated, w, P, {"PF"})
      BY DEF Aside, Calendars
    <3>8. q.periodic = p
      BY DEF Calendars
    <3>9. CASE n = 0
      <4>1. TickTo(r, p, at) = p /\ TickFlag(r, p, at) = {}
        BY <3>3, <3>4, <3>6, <3>9 DEF w
      <4> QED BY <2>1, <2>2, <2>3, <3>9, <4>1 DEF n
    <3>10. CASE n # 0
      <4>1. TickTo(r, p, at) = w /\ TickFlag(r, p, at) = {"PF"}
        BY <3>3, <3>4, <3>10 DEF w
      <4>2. Ticks(r, at) = [q EXCEPT !.c = @ \cup {"PF"}, !.periodic = p + n * P]
        <5>1. Ticks(r, at) = [q EXCEPT !.c = @ \cup {"PF"}, !.periodic = @ + n * P]
          BY <2>1, <2>5, <3>10 DEF n
        <5> QED BY <3>8, <5>1
      <4> QED BY <2>2, <3>5, <3>7, <4>1, <4>2
    <3> QED BY <3>9, <3>10
  <2> QED BY <2>4, <2>5
<1> QED BY <1>1, <1>2

\* The periodic clock goes on where it has been left.
LEMMA TicksAdd ==
  ASSUME NEW r \in Calendars, NEW p \in Nat, NEW t \in 0 .. Second, NEW a \in Nat, NEW b \in Nat, a < b
  PROVE  /\ TickTo(r, TickTo(r, p, a), b) = TickTo(r, p, b)
         /\ TickKept(r, TickKept(r, t)) = TickKept(r, t)
         /\ TickFlag(r, p, a) \cup TickFlag(r, TickTo(r, p, a), b) = TickFlag(r, p, b)
<1> DEFINE P == r.a.period
<1>0. P \in 0 .. Second
  BY CalendarFields DEF RegisterA
<1>1. CASE P = 0
  BY <1>1 DEF TickTo, TickKept, TickFlag
<1>2. CASE P # 0
  <2>0. P \in Nat \ {0}
    BY <1>0, <1>2, SecondAssumption
  <2>1. TickKept(r, TickKept(r, t)) = TickKept(r, t)
    BY DEF TickKept
  <2>2. CASE a <= p
    <3>1. TickTo(r, p, a) = p /\ TickFlag(r, p, a) = {}
      BY <1>2, <2>2 DEF TickTo, TickFlag
    <3> QED BY <2>1, <3>1
  <2>3. CASE ~(a <= p)
    <3> DEFINE u == Whole(p, a, P)
               m == Periods(p, a, P)
               n == Periods(u, b, P)
    <3>1. p <= a /\ a <= b /\ p <= b
      BY <2>3
    <3>2. m \in Nat /\ u \in Nat /\ u <= a
      BY <2>0, <3>1, WholePeriods
    <3>3. u <= b /\ n \in Nat
      <4> HIDE DEF u
      <4>1. u <= b
        BY <3>1, <3>2
      <4> QED BY <2>0, <3>2, <4>1, WholePeriods
    <3>4. Periods(p, b, P) = m + n /\ Whole(u, b, P) = Whole(p, b, P)
      BY <2>0, <3>1, PeriodsAdd
    <3>5. TickTo(r, p, a) = u
      BY <1>2, <2>3 DEF TickTo
    <3> HIDE DEF u, m, n
    <3>6. ~(b <= u) /\ b > u /\ ~(b <= p) /\ b > p /\ a > p
      BY <2>3, <3>1, <3>2
    <3>7. TickTo(r, u, b) = TickTo(r, p, b)
      BY <1>2, <3>4, <3>6 DEF TickTo
    <3>8. /\ TickFlag(r, p, a) = IF m # 0 THEN {"PF"} ELSE {}
          /\ TickFlag(r, u, b) = IF n # 0 THEN {"PF"} ELSE {}
          /\ TickFlag(r, p, b) = IF m + n # 0 THEN {"PF"} ELSE {}
      BY <1>2, <3>4, <3>6 DEF TickFlag, m, n
    <3>9. m + n # 0 <=> m # 0 \/ n # 0
      BY <3>2, <3>3
    <3> QED BY <2>1, <3>5, <3>7, <3>8, <3>9
  <2> QED BY <2>2, <2>3
<1> QED BY <1>1, <1>2

\* What ap_mc146818_advance does to a calendar that runs.
LEMMA AdvanceIs ==
  ASSUME NEW r \in Calendars, NEW at \in Nat, r.a.divider = "running", ~r.held, r.updated < at
  PROVE  CalendarAdvance(r, at)
           = Aside(Dated(r, Periods(r.updated, at, Second)), Whole(r.updated, at, Second),
                   TickTo(r, r.periodic, at), TickKept(r, r.tick), TickFlag(r, r.periodic, at))
<1> DEFINE n == Periods(r.updated, at, Second)
           u == Whole(r.updated, at, Second)
           x == Dated(r, n)
           s == [x EXCEPT !.updated = u]
<1>0. r.updated \in Nat /\ Second \in Nat \ {0} /\ r.updated <= at
  BY CalendarFields, SecondAssumption
<1>1. n \in Nat /\ u \in Nat
  BY <1>0, WholePeriods
<1>2. Seconds(r, at) = s
  BY <1>0, SecondsIs
<1>3. CalendarAdvance(r, at) = Ticks(s, at)
  <2>1. ~(at <= r.updated)
    BY <1>0
  <2> HIDE DEF s
  <2> QED BY <1>2, <2>1 DEF CalendarAdvance
<1> HIDE DEF n, u
<1>4. x \in Calendars /\ x.a = r.a /\ x.periodic = r.periodic /\ x.tick = r.tick
  BY <1>1, DatedType
<1> HIDE DEF x
<1>5. s \in Calendars /\ s.a = r.a /\ s.periodic = r.periodic /\ s.tick = r.tick /\ s.updated = u
  BY <1>1, <1>4 DEF Calendars
<1>6. \A p, t, e : Aside(s, u, p, t, e) = Aside(x, u, p, t, e)
  BY <1>4 DEF Aside, Calendars
<1> HIDE DEF s
<1>7. Ticks(s, at) = Aside(s, u, TickTo(s, r.periodic, at), TickKept(s, r.tick),
                           TickFlag(s, r.periodic, at))
  BY <1>5, TicksIs
<1>8. /\ TickTo(s, r.periodic, at) = TickTo(r, r.periodic, at)
      /\ TickKept(s, r.tick) = TickKept(r, r.tick)
      /\ TickFlag(s, r.periodic, at) = TickFlag(r, r.periodic, at)
  BY <1>5 DEF TickTo, TickKept, TickFlag
<1> QED BY <1>3, <1>6, <1>7, <1>8 DEF x, n, u

\* The periodic clock does not disturb the seconds that follow, ...
LEMMA DatedAside ==
  ASSUME NEW r \in Calendars, NEW u \in Nat, NEW p \in Nat, NEW t \in 0 .. Second,
         NEW e \in SUBSET Flags, NEW m \in Nat, NEW n \in Nat
  PROVE  Dated(Aside(Dated(r, m), u, p, t, e), n) = Aside(Dated(r, m + n), u, p, t, e)
<1> DEFINE x == Dated(r, m)
           q == Aside(x, u, p, t, e)
<1>1. x \in Calendars /\ x.b = r.b
  BY DatedType
<1>2. q.b = r.b
  BY <1>1 DEF Aside, Calendars
<1>3. CASE r.b.set
  BY <1>2, <1>3 DEF Dated
<1>4. CASE ~r.b.set
  <2>1. x = SecondRun(r)[m] /\ Dated(r, m + n) = SecondRun(r)[m + n]
    BY <1>4 DEF Dated
  <2>2. Dated(q, n) = SecondRun(q)[n]
    BY <1>2, <1>4 DEF Dated
  <2>3. SecondRun(q)[n] = Aside(SecondRun(x)[n], u, p, t, e)
    <3> HIDE DEF x
    <3> QED BY <1>1, SecondRunAside
  <2>4. SecondRun(x)[n] = SecondRun(r)[m + n]
    BY <2>1, SecondRunAdds
  <2> QED BY <2>1, <2>2, <2>3, <2>4
<1> QED BY <1>3, <1>4

\* ... and is set on twice as it is set on once.
LEMMA AsideTwice ==
  ASSUME NEW r \in Calendars, NEW u, NEW p, NEW t, NEW e, NEW v, NEW q, NEW w, NEW f
  PROVE  Aside(Aside(r, u, p, t, e), v, q, w, f) = Aside(r, v, q, w, e \cup f)
<1>1. (r.c \cup e) \cup f = r.c \cup (e \cup f)
  OBVIOUS
<1> QED BY <1>1 DEF Aside, Calendars

\* Advancing the calendar in two steps leaves it as one step does.
LEMMA CalendarCut ==
  ASSUME NEW r \in Calendars, NEW a \in Nat, NEW b \in Nat, ~r.held, r.updated < a, a < b
  PROVE  CalendarAdvance(CalendarAdvance(r, a), b) = CalendarAdvance(r, b)
<1>0. r.updated \in Nat /\ Second \in Nat \ {0} /\ r.updated <= a /\ a <= b /\ r.updated < b
      /\ r.periodic \in Nat /\ r.tick \in 0 .. Second
  BY CalendarFields, SecondAssumption
<1>1. CASE r.a.divider = "reset"
  <2> DEFINE q == [r EXCEPT !.updated = a, !.held = TRUE]
  <2>1. CalendarAdvance(r, a) = q /\ CalendarAdvance(r, b) = [r EXCEPT !.updated = b, !.held = TRUE]
    BY <1>0, <1>1 DEF CalendarAdvance
  <2>2. q.a = r.a /\ q.updated = a /\ [q EXCEPT !.updated = b, !.held = TRUE]
                                         = [r EXCEPT !.updated = b, !.held = TRUE]
    BY DEF Calendars
  <2> HIDE DEF q
  <2>3. CalendarAdvance(q, b) = [q EXCEPT !.updated = b, !.held = TRUE]
    BY <1>0, <1>1, <2>2 DEF CalendarAdvance
  <2> QED BY <2>1, <2>2, <2>3
<1>2. CASE r.a.divider # "reset"
  <2> DEFINE n == Periods(r.updated, a, Second)
             u == Whole(r.updated, a, Second)
             p == TickTo(r, r.periodic, a)
             t == TickKept(r, r.tick)
             e == TickFlag(r, r.periodic, a)
             x == Dated(r, n)
             q == Aside(x, u, p, t, e)
             m == Periods(u, b, Second)
             v == Whole(u, b, Second)
             f == TickFlag(r, p, b)
  <2>0. r.a.divider = "running"
    BY <1>2, CalendarFields DEF RegisterA
  <2>1. CalendarAdvance(r, a) = q
    BY <1>0, <2>0, AdvanceIs
  <2>2. n \in Nat /\ u \in Nat /\ u <= a
    BY <1>0, WholePeriods
  <2>3. p \in Nat /\ t \in 0 .. Second /\ e \in SUBSET Flags
    BY <1>0, TickType
  <2>4. x \in Calendars /\ x.a = r.a /\ x.held = r.held
    <3> HIDE DEF n
    <3> QED BY <2>2, DatedType
  <2>5. q \in Calendars
    <3> HIDE DEF u, p, t, e, x
    <3> QED BY <2>2, <2>3, <2>4, AsideType
  <2>6. q.a = r.a /\ ~q.held /\ q.updated = u /\ q.periodic = p /\ q.tick = t
    <3> HIDE DEF u, p, t, e, x
    <3> QED BY <2>4 DEF Aside, Calendars
  <2>7. m \in Nat /\ v \in Nat
    <3> HIDE DEF u
    <3>1. u <= b
      BY <1>0, <2>2
    <3> QED BY <1>0, <2>2, <3>1, WholePeriods
  <2>8. CalendarAdvance(q, b) = Aside(Dated(q, m), v, TickTo(q, p, b), TickKept(q, t), TickFlag(q, p, b))
    <3>1. u < b
      <4> HIDE DEF u
      <4> QED BY <1>0, <2>2
    <3> HIDE DEF q, u, p, t
    <3> QED BY <2>0, <2>5, <2>6, <3>1, AdvanceIs
  <2>9. TickTo(q, p, b) = TickTo(r, p, b) /\ TickKept(q, t) = TickKept(r, t) /\ TickFlag(q, p, b) = f
    <3> HIDE DEF q, p, t
    <3> QED BY <2>6 DEF TickTo, TickKept, TickFlag
  <2>10. /\ TickTo(r, p, b) = TickTo(r, r.periodic, b) /\ TickKept(r, t) = t
         /\ e \cup f = TickFlag(r, r.periodic, b)
    BY <1>0, TicksAdd
  <2>11. Dated(q, m) = Aside(Dated(r, n + m), u, p, t, e)
    <3> HIDE DEF n, u, p, t, e, m
    <3> QED BY <2>2, <2>3, <2>7, DatedAside
  <2>12. n + m = Periods(r.updated, b, Second) /\ v = Whole(r.updated, b, Second)
    BY <1>0, PeriodsAdd
  <2>13. CalendarAdvance(r, b)
           = Aside(Dated(r, n + m), v, TickTo(r, r.periodic, b), t, e \cup f)
    BY <1>0, <2>0, <2>10, <2>12, AdvanceIs
  <2>14. Dated(r, n + m) \in Calendars
    <3> HIDE DEF n, m
    <3> QED BY <2>2, <2>7, DatedType
  <2> HIDE DEF n, u, p, t, e, x, q, m, v, f
  <2>15. CalendarAdvance(q, b)
           = Aside(Aside(Dated(r, n + m), u, p, t, e), v, TickTo(r, r.periodic, b), t, f)
    BY <2>8, <2>9, <2>10, <2>11
  <2>16. CalendarAdvance(q, b) = Aside(Dated(r, n + m), v, TickTo(r, r.periodic, b), t, e \cup f)
    BY <2>14, <2>15, AsideTwice
  <2> QED BY <2>1, <2>13, <2>16
<1> QED BY <1>1, <1>2

-----------------------------------------------------------------------------
(* The serial part's counter.                                              *)

\* The counter, field by field.
LEMMA SioFields ==
  ASSUME NEW u \in SioCounters
  PROVE  /\ u.counter \in 0 .. Word - 1 /\ u.preload \in 0 .. Word - 1 /\ u.running \in BOOLEAN
         /\ u.acr \subseteq {"timer", "pin"} /\ u.output \in BOOLEAN /\ u.second \in BOOLEAN
         /\ u.isr \subseteq {"input", "counter"} /\ u.imr \subseteq {"input", "counter"}
         /\ u.divider \in 0 .. Samples - 1 /\ u.sampled \in BOOLEAN /\ u.detected \in BOOLEAN
         /\ u.input \in BOOLEAN /\ u.to \in Nat
BY DEF SioCounters

\* What a sample of the pin moves.
LEMMA SampleIs ==
  ASSUME NEW u \in SioCounters
  PROVE  LET q == SampleInput(u) IN
         /\ q \in SioCounters
         /\ q.counter = u.counter /\ q.preload = u.preload /\ q.running = u.running
         /\ q.acr = u.acr /\ q.output = u.output /\ q.second = u.second /\ q.imr = u.imr
         /\ q.divider = u.divider /\ q.input = u.input /\ q.to = u.to
         /\ q.isr = u.isr \/ (u.input # u.detected /\ "pin" \in u.acr)
         /\ q.detected = u.detected \/ q.detected = u.input
<1> DEFINE q == [u EXCEPT !.sampled = u.input]
           i == u.isr \cup (IF "pin" \in u.acr THEN {"input"} ELSE {})
<1>1. q \in SioCounters
  BY DEF SioCounters
<1>2. i \subseteq {"input", "counter"}
  BY SioFields
<1>3. CASE u.input # u.sampled \/ u.input = u.detected
  <2>1. SampleInput(u) = q
    BY <1>3 DEF SampleInput
  <2> QED BY <1>1, <2>1 DEF SioCounters
<1>4. CASE ~(u.input # u.sampled \/ u.input = u.detected)
  <2>1. SampleInput(u) = [q EXCEPT !.detected = u.input, !.isr = i]
    BY <1>4 DEF SampleInput, SioCounters
  <2>2. "pin" \notin u.acr => i = u.isr
    OBVIOUS
  <2>3. "pin" \notin u.acr => SampleInput(u).isr = u.isr
    <3> HIDE DEF i
    <3> QED BY <1>1, <2>1, <2>2 DEF SioCounters
  <2>4. LET r == SampleInput(u) IN
        /\ r.counter = q.counter /\ r.preload = q.preload /\ r.running = q.running
        /\ r.acr = q.acr /\ r.output = q.output /\ r.second = q.second /\ r.imr = q.imr
        /\ r.divider = q.divider /\ r.input = q.input /\ r.to = q.to
        /\ r.detected = u.input
    <3> HIDE DEF i, q
    <3> QED BY <1>1, <2>1 DEF SioCounters
  <2>5. SampleInput(u) \in SioCounters
    <3>1. u.input \in BOOLEAN
      BY SioFields
    <3> HIDE DEF i, q
    <3> QED BY <1>1, <1>2, <2>1, <3>1 DEF SioCounters
  <2> QED BY <1>4, <2>3, <2>4, <2>5 DEF SioCounters
<1> QED BY <1>3, <1>4

\* A pulse: first the divider of the samples, then the count.
Divided(u) == IF u.divider + 1 >= Samples THEN SampleInput([u EXCEPT !.divider = 0])
              ELSE [u EXCEPT !.divider = @ + 1]

\* A sample of the pin changes nothing of the count.
LEMMA DividedIs ==
  ASSUME NEW u \in SioCounters
  PROVE  LET q == Divided(u) IN
         /\ q \in SioCounters
         /\ q.counter = u.counter /\ q.preload = u.preload /\ q.running = u.running
         /\ q.acr = u.acr /\ q.output = u.output /\ q.second = u.second /\ q.imr = u.imr
         /\ q.input = u.input /\ q.to = u.to
         /\ \/ q.isr = u.isr
            \/ u.divider + 1 >= Samples /\ u.input # u.detected /\ "pin" \in u.acr
         /\ q.detected = u.detected \/ q.detected = u.input
         /\ u.divider + 1 < Samples => q.divider = u.divider + 1 /\ q.detected = u.detected
<1>0. u.divider \in 0 .. Samples - 1 /\ Samples \in Nat \ {0}
  BY SioFields, SamplesAssumption
<1>1. CASE u.divider + 1 >= Samples
  <2> DEFINE v == [u EXCEPT !.divider = 0]
  <2>1. v \in SioCounters
    BY <1>0 DEF SioCounters
  <2>2. /\ v.counter = u.counter /\ v.preload = u.preload /\ v.running = u.running
        /\ v.acr = u.acr /\ v.output = u.output /\ v.second = u.second /\ v.imr = u.imr
        /\ v.input = u.input /\ v.to = u.to /\ v.isr = u.isr /\ v.detected = u.detected
    BY DEF SioCounters
  <2> HIDE DEF v
  <2>3. Divided(u) = SampleInput(v)
    BY <1>1 DEF Divided, v
  <2>4. ~(u.divider + 1 < Samples)
    BY <1>0, <1>1
  <2> QED BY <1>1, <2>1, <2>2, <2>3, <2>4, SampleIs
<1>2. CASE ~(u.divider + 1 >= Samples)
  <2>1. Divided(u) = [u EXCEPT !.divider = u.divider + 1]
    BY <1>2 DEF Divided
  <2>2. u.divider + 1 \in 0 .. Samples - 1
    BY <1>0, <1>2
  <2> QED BY <2>1, <2>2 DEF SioCounters
<1> QED BY <1>1, <1>2

\* One count less, or zero.
OneLess(k) == IF k > 0 THEN k - 1 ELSE 0

\* A pulse counts down or samples the pin, and its flag shows only at the end of either.
LEMMA PulseIs ==
  ASSUME NEW u \in SioCounters
  PROVE  LET q == Pulse(u) IN
         /\ q \in SioCounters
         /\ q.preload = u.preload /\ q.running = u.running /\ q.acr = u.acr /\ q.imr = u.imr
         /\ q.input = u.input /\ q.to = u.to
         /\ \/ CountsDown(u) /\ OneLess(u.counter) = 0
            \/ /\ q.output = u.output
               /\ q.counter = IF CountsDown(u) THEN OneLess(u.counter) ELSE u.counter
               /\ \/ q.isr = u.isr
                  \/ u.divider + 1 >= Samples /\ u.input # u.detected /\ "pin" \in u.acr
         /\ q.detected = u.detected \/ q.detected = u.input
         /\ u.divider + 1 < Samples => q.divider = u.divider + 1 /\ q.detected = u.detected
<1> DEFINE d == Divided(u)
           n == OneLess(d.counter)
<1>1. /\ d \in SioCounters /\ d.counter = u.counter /\ d.preload = u.preload
      /\ d.running = u.running /\ d.acr = u.acr /\ d.output = u.output /\ d.second = u.second
      /\ d.imr = u.imr /\ d.input = u.input /\ d.to = u.to
      /\ \/ d.isr = u.isr
         \/ u.divider + 1 >= Samples /\ u.input # u.detected /\ "pin" \in u.acr
      /\ d.detected = u.detected \/ d.detected = u.input
      /\ u.divider + 1 < Samples => d.divider = u.divider + 1 /\ d.detected = u.detected
  BY DividedIs
<1>2. Pulse(u) = IF ~CountsDown(d) THEN d
                 ELSE IF n # 0 THEN [d EXCEPT !.counter = n]
                 ELSE Terminal([d EXCEPT !.counter = 0])
  BY DEF Pulse, Divided, OneLess
<1> HIDE DEF d
<1>3. CountsDown(d) = CountsDown(u)
  BY <1>1 DEF CountsDown
<1>4. n = OneLess(u.counter) /\ n \in 0 .. Word - 1
  BY <1>1, SioFields, WordFacts DEF OneLess
<1>5. CASE ~CountsDown(u)
  <2>1. Pulse(u) = d
    BY <1>2, <1>3, <1>5
  <2> QED BY <1>1, <1>5, <2>1
<1>6. CASE CountsDown(u) /\ n # 0
  <2>1. Pulse(u) = [d EXCEPT !.counter = n]
    BY <1>2, <1>3, <1>6
  <2> HIDE DEF n
  <2>2. Pulse(u) \in SioCounters
    BY <1>1, <1>4, <2>1 DEF SioCounters
  <2>3. LET q == Pulse(u) IN
        /\ q.counter = n /\ q.preload = d.preload /\ q.running = d.running /\ q.acr = d.acr
        /\ q.output = d.output /\ q.imr = d.imr /\ q.input = d.input /\ q.to = d.to
        /\ q.isr = d.isr /\ q.detected = d.detected /\ q.divider = d.divider
    BY <1>1, <2>1 DEF SioCounters
  <2> QED BY <1>1, <1>4, <1>6, <2>2, <2>3
<1>7. CASE CountsDown(u) /\ n = 0
  <2> DEFINE v == [d EXCEPT !.counter = 0]
             i == v.isr \cup (IF v.second THEN {"counter"} ELSE {})
  <2>1. v \in SioCounters /\ v.preload = d.preload
    BY <1>1, WordFacts DEF SioCounters
  <2>2. Pulse(u) = [v EXCEPT !.output = ~@, !.second = ~@, !.counter = v.preload, !.isr = i]
    BY <1>2, <1>3, <1>7, <2>1 DEF Terminal
  <2>3. i \subseteq {"input", "counter"}
    BY <2>1, SioFields
  <2>4. v.preload \in 0 .. Word - 1
    <3> HIDE DEF v, i
    <3> QED BY <2>1, SioFields
  <2>5. LET q == Pulse(u) IN
        /\ q.preload = d.preload /\ q.running = d.running /\ q.acr = d.acr
        /\ q.imr = d.imr /\ q.input = d.input /\ q.to = d.to
        /\ q.detected = d.detected /\ q.divider = d.divider
    BY <1>1, <2>2 DEF SioCounters
  <2> HIDE DEF v, i
  <2>6. Pulse(u) \in SioCounters
    <3> DEFINE x == ~v.output
               y == ~v.second
    <3>1. Pulse(u) = [v EXCEPT !.output = x, !.second = y, !.counter = v.preload, !.isr = i]
      BY <2>2
    <3>2. x \in BOOLEAN /\ y \in BOOLEAN
      OBVIOUS
    <3> HIDE DEF x, y
    <3> DEFINE w == [v EXCEPT !.output = x, !.second = y]
    <3>3. w \in SioCounters
      BY <2>1, <3>2 DEF SioCounters
    <3>4. Pulse(u) = [w EXCEPT !.counter = v.preload, !.isr = i]
      BY <2>1, <3>1
    <3> HIDE DEF w
    <3> QED BY <2>3, <2>4, <3>3, <3>4 DEF SioCounters
  <2> QED BY <1>1, <1>4, <1>7, <2>5, <2>6
<1> QED BY <1>5, <1>6, <1>7

\* The counter through its pulses.
PulseFcn == [u \in SioCounters |-> Pulse(u)]
PulseRun(u) == CHOOSE g \in [Nat -> SioCounters] : Turns(g, PulseFcn, u)

\* The run, pulse by pulse.
LEMMA PulseRunTurns ==
  ASSUME NEW u \in SioCounters
  PROVE  /\ PulseRun(u)[0] = u
         /\ \A k \in Nat : /\ PulseRun(u)[k] \in SioCounters
                           /\ PulseRun(u)[k + 1] = Pulse(PulseRun(u)[k])
<1>1. PulseFcn \in [SioCounters -> SioCounters]
  BY PulseIs DEF PulseFcn
<1>2. \E g \in [Nat -> SioCounters] : Turns(g, PulseFcn, u)
  BY <1>1, LoopRuns
<1>3. PulseRun(u) \in [Nat -> SioCounters] /\ Turns(PulseRun(u), PulseFcn, u)
  BY <1>2 DEF PulseRun
<1> QED BY <1>3 DEF Turns, PulseFcn

\* What no pulse changes.
PulseKept(u, q) == /\ q.preload = u.preload /\ q.running = u.running /\ q.acr = u.acr
                   /\ q.imr = u.imr /\ q.input = u.input /\ q.to = u.to

\* What is written is kept through every pulse.
LEMMA PulseRunKeeps ==
  ASSUME NEW u \in SioCounters, NEW k \in Nat
  PROVE  PulseKept(u, PulseRun(u)[k])
<1> DEFINE g == PulseRun(u)
           T == {j \in Nat : PulseKept(u, g[j])}
<1>1. 0 \in T
  BY PulseRunTurns DEF PulseKept
<1>2. ASSUME NEW j \in Nat, j \in T PROVE j + 1 \in T
  <2>1. g[j] \in SioCounters /\ g[j + 1] = Pulse(g[j]) /\ PulseKept(u, g[j])
    BY <1>2, PulseRunTurns
  <2> HIDE DEF g
  <2>2. PulseKept(g[j], g[j + 1])
    BY <2>1, PulseIs DEF PulseKept
  <2> QED BY <2>1, <2>2 DEF PulseKept
<1>3. \A j \in Nat : j \in T
  <2> HIDE DEF T
  <2> QED BY <1>1, <1>2, NatSetInduction
<1> QED BY <1>3

PulsesRun(f, u, n) == f = [k \in 0 .. n |-> IF k = 0 THEN u ELSE Pulse(f[k - 1])]

\* What ap_sio_advance does: the whole pulses, and the pin follows.
LEMMA SioAdvanceIs ==
  ASSUME NEW u \in SioCounters, NEW at \in Nat, u.to <= at
  PROVE  LET q == PulseRun(u)[Periods(u.to, at, X1)] IN
         SioAdvance(u, at) = [q EXCEPT !.to = Whole(u.to, at, X1), !.input = q.output]
<1> DEFINE n == (at - u.to) \div X1
           f == CHOOSE g : PulsesRun(g, u, n)
<1>1. n = Periods(u.to, at, X1) /\ n \in Nat /\ u.to + n * X1 = Whole(u.to, at, X1)
  <2>1. u.to \in Nat /\ X1 \in Nat \ {0}
    BY SioFields, X1Assumption
  <2>2. Periods(u.to, at, X1) \in Nat
    BY <2>1, WholePeriods
  <2> QED BY <2>2 DEF Periods, Whole
<1>2. SioAdvance(u, at) = [f[n] EXCEPT !.to = u.to + n * X1, !.input = f[n].output]
  BY DEF SioAdvance, PulsesRun
<1> HIDE DEF n
<1> DEFINE g == PulseRun(u)
           h == [k \in 0 .. n |-> g[k]]
<1>3. g[0] = u /\ \A k \in Nat : g[k] \in SioCounters /\ g[k + 1] = Pulse(g[k])
  BY PulseRunTurns
<1> HIDE DEF g
<1>4. PulsesRun(h, u, n)
  <2>1. ASSUME NEW k \in 0 .. n PROVE g[k] = IF k = 0 THEN u ELSE Pulse(h[k - 1])
    <3>1. CASE k = 0
      BY <1>3, <3>1
    <3>2. CASE k # 0
      <4>1. k - 1 \in 0 .. n /\ k - 1 \in Nat /\ (k - 1) + 1 = k
        BY <1>1, <3>2
      <4>2. g[(k - 1) + 1] = Pulse(g[k - 1])
        BY <1>3, <4>1
      <4> QED BY <3>2, <4>1, <4>2
    <3> QED BY <3>1, <3>2
  <2> QED BY <2>1 DEF PulsesRun
<1>5. PulsesRun(f, u, n)
  BY <1>4
<1> HIDE DEF f
<1>6. f[n] = g[n]
  <2>1. 0 \in 0 .. n /\ n \in 0 .. n
    BY <1>1
  <2>2. f[0] = h[0] /\ h[n] = g[n]
    BY <1>3, <1>5, <2>1 DEF PulsesRun
  <2>3. \A k \in 1 .. n : f[k - 1] = h[k - 1] => f[k] = h[k]
    <3> SUFFICES ASSUME NEW k \in 1 .. n, f[k - 1] = h[k - 1] PROVE f[k] = h[k]
      OBVIOUS
    <3>1. k \in 0 .. n /\ k # 0
      BY <1>1
    <3> HIDE DEF h
    <3>2. f[k] = Pulse(f[k - 1]) /\ h[k] = Pulse(h[k - 1])
      BY <1>4, <1>5, <3>1 DEF PulsesRun
    <3> QED BY <3>2
  <2> HIDE DEF h
  <2>4. \A k \in 0 .. n : f[k] = h[k]
    BY <1>1, <2>2, <2>3, OneLoop
  <2> QED BY <2>1, <2>2, <2>4
<1> QED BY <1>1, <1>2, <1>6 DEF g

\* After an advance the pin is the output.
LEMMA SioAdvanceType ==
  ASSUME NEW u \in SioCounters, NEW at \in Nat, u.to <= at
  PROVE  LET q == SioAdvance(u, at) IN
         /\ q \in SioCounters /\ q.to <= at /\ q.input = q.output
<1> DEFINE n == Periods(u.to, at, X1)
           w == Whole(u.to, at, X1)
           v == PulseRun(u)[n]
<1>1. SioAdvance(u, at) = [v EXCEPT !.to = w, !.input = v.output]
  BY SioAdvanceIs
<1>2. n \in Nat /\ w \in Nat /\ w <= at
  BY SioFields, X1Assumption, WholePeriods
<1> HIDE DEF n, w
<1>3. v \in SioCounters
  BY <1>2, PulseRunTurns
<1> HIDE DEF v
<1>4. v.output \in BOOLEAN
  BY <1>3, SioFields
<1> QED BY <1>1, <1>2, <1>3, <1>4 DEF SioCounters

\* Before the terminal count, and before the sample that would see a change, a pulse
\* counts down and nothing else is seen of it.
Until1(u) == IF u.counter > 0 THEN u.counter ELSE 1
Before(u, n) == /\ CountsDown(u) => n < Until1(u)
                /\ u.input # u.detected /\ "pin" \in u.acr => n < Samples - u.divider

Unseen(u, q, k) ==
    /\ q.isr = u.isr /\ q.output = u.output
    /\ CountsDown(u) /\ k < u.counter => q.counter = u.counter - k
    /\ u.input # u.detected /\ "pin" \in u.acr => q.detected = u.detected /\ q.divider = u.divider + k
    /\ u.input = u.detected => q.detected = u.detected

\* Before the count runs out and the pin's change is noticed, nobody can tell.
LEMMA PulsesUnseen ==
  ASSUME NEW u \in SioCounters, NEW n \in Nat, Before(u, n)
  PROVE  Unseen(u, PulseRun(u)[n], n)
<1> DEFINE g == PulseRun(u)
           T == {k \in Nat : k <= n => Unseen(u, g[k], k)}
<1>0. /\ u.counter \in Nat /\ u.divider \in Nat /\ Samples \in Nat /\ u.counter \in 0 .. Word - 1
      /\ u.divider \in 0 .. Samples - 1 /\ Word \in Nat
  BY SioFields, SamplesAssumption, WordFacts
<1>1. 0 \in T
  BY <1>0, PulseRunTurns DEF Unseen
<1>2. ASSUME NEW k \in Nat, k \in T PROVE k + 1 \in T
  <2> SUFFICES ASSUME k + 1 <= n PROVE Unseen(u, g[k + 1], k + 1)
    OBVIOUS
  <2>1. Unseen(u, g[k], k) /\ k < n
    BY <1>2
  <2>2. g[k] \in SioCounters /\ g[k + 1] = Pulse(g[k]) /\ PulseKept(u, g[k])
    BY PulseRunTurns, PulseRunKeeps
  <2> HIDE DEF g, T
  <2> DEFINE x == g[k]
             y == g[k + 1]
  <2>3. /\ \/ CountsDown(x) /\ OneLess(x.counter) = 0
           \/ /\ y.output = x.output
              /\ y.counter = IF CountsDown(x) THEN OneLess(x.counter) ELSE x.counter
              /\ \/ y.isr = x.isr
                 \/ x.divider + 1 >= Samples /\ x.input # x.detected /\ "pin" \in x.acr
        /\ y.detected = x.detected \/ y.detected = x.input
        /\ x.divider + 1 < Samples => y.divider = x.divider + 1 /\ y.detected = x.detected
    BY <2>2, PulseIs
  <2>4. (CountsDown(x) <=> CountsDown(u)) /\ x.input = u.input /\ x.acr = u.acr
    BY <2>2 DEF PulseKept, CountsDown
  <2> HIDE DEF x, y
  <2>5. CountsDown(u) => k + 1 < u.counter
    BY <1>0, <2>1 DEF Before, Until1
  <2>6. CountsDown(u) => x.counter = u.counter - k /\ OneLess(x.counter) = u.counter - (k + 1)
                          /\ OneLess(x.counter) # 0
    BY <1>0, <2>1, <2>5 DEF Unseen, OneLess, x
  <2>7. u.input # u.detected /\ "pin" \in u.acr =>
          x.detected = u.detected /\ x.divider = u.divider + k /\ x.divider + 1 < Samples
    BY <1>0, <2>1 DEF Unseen, Before, x
  <2>8. u.input = u.detected => x.detected = u.detected
    BY <2>1 DEF Unseen, x
  <2>9. ~(x.divider + 1 >= Samples /\ x.input # x.detected /\ "pin" \in x.acr)
    <3>1. CASE u.input = u.detected
      BY <2>4, <2>8, <3>1
    <3>2. CASE u.input # u.detected /\ "pin" \in u.acr
      BY <1>0, <2>7, <3>2
    <3>3. CASE "pin" \notin u.acr
      BY <2>4, <3>3
    <3> QED BY <3>1, <3>2, <3>3
  <2>10. y.isr = x.isr /\ y.output = x.output
    BY <2>3, <2>4, <2>6, <2>9
  <2>11. CountsDown(u) => y.counter = u.counter - (k + 1)
    BY <2>3, <2>4, <2>6
  <2>12. u.input # u.detected /\ "pin" \in u.acr =>
           y.detected = u.detected /\ y.divider = u.divider + (k + 1)
    BY <1>0, <2>3, <2>7
  <2>13. u.input = u.detected => y.detected = u.detected
    BY <2>3, <2>4, <2>8
  <2>14. x.isr = u.isr /\ x.output = u.output
    BY <2>1 DEF Unseen, x
  <2> QED BY <2>10, <2>11, <2>12, <2>13, <2>14 DEF Unseen, y
<1>3. \A k \in Nat : k \in T
  <2> HIDE DEF T
  <2> QED BY <1>1, <1>2, NatSetInduction
<1> QED BY <1>3

-----------------------------------------------------------------------------
(* What software writes.                                                   *)

\* A timer, field by field.
LEMMA TimerFields ==
  ASSUME NEW p \in Ptms, NEW i \in Timers
  PROVE  LET t == p.timer[i] IN
         /\ t \in PtmTimers /\ t.latch \in 0 .. Word - 1 /\ t.counter \in 0 .. Word - 1
         /\ t.lsb \in 0 .. Byte - 1 /\ t.prescale \in 0 .. 7 /\ t.flag \in BOOLEAN
         /\ t.control \in Controls
         /\ p.msb \in 0 .. Byte - 1 /\ p.to[i] \in Nat
BY DEF Ptms, PtmTimers

\* A load keeps a timer's registers within their widths.
LEMMA ReloadType ==
  ASSUME NEW t \in PtmTimers
  PROVE  /\ Reload(t) \in PtmTimers /\ [Reload(t) EXCEPT !.flag = FALSE] \in PtmTimers
         /\ [t EXCEPT !.flag = FALSE] \in PtmTimers
<1>1. t.latch \in 0 .. Word - 1
  BY DEF PtmTimers
<1>2. t.latch % Byte \in 0 .. Byte - 1
  BY <1>1, BytesOf
<1> DEFINE b == t.latch % Byte
<1> HIDE DEF b
<1> DEFINE l == t.latch
<1>3. Reload(t) = [t EXCEPT !.counter = l, !.lsb = b, !.prescale = 0]
  BY DEF Reload, b
<1>4. b \in 0 .. Byte - 1
  BY <1>2 DEF b
<1>5. Reload(t) \in PtmTimers
  <2>1. l \in 0 .. Word - 1
    BY <1>1
  <2>2. [t EXCEPT !.prescale = 0] \in PtmTimers
    BY DEF PtmTimers
  <2>3. Reload(t) = [[t EXCEPT !.prescale = 0] EXCEPT !.counter = l, !.lsb = b]
    BY <1>3 DEF PtmTimers
  <2> DEFINE x == [t EXCEPT !.prescale = 0]
  <2> HIDE DEF l, x
  <2> QED BY <1>4, <2>1, <2>2, <2>3 DEF PtmTimers, x
<1>6. \A s \in PtmTimers : [s EXCEPT !.flag = FALSE] \in PtmTimers
  BY DEF PtmTimers
<1> QED BY <1>5, <1>6

\* A timer replaced by another.
LEMMA TimerPut ==
  ASSUME NEW p \in Ptms, NEW i \in Timers, NEW t \in PtmTimers
  PROVE  [p EXCEPT !.timer[i] = t] \in Ptms /\ [p EXCEPT !.timer[i] = t].to = p.to
BY DEF Ptms

\* So does a control that timer 1 or 3 is given, and no clock moves, ...
LEMMA WriteControl13Type ==
  ASSUME NEW p \in Ptms, NEW c \in Controls
  PROVE  WriteControl13(p, c) \in Ptms /\ WriteControl13(p, c).to = p.to
<1> DEFINE i == IF p.select THEN 1 ELSE 3
           t == [p.timer[i] EXCEPT !.control = c]
           q == [p EXCEPT !.timer[i].control = c]
           F == [k \in Timers |-> [q.timer[k] EXCEPT !.flag = FALSE]]
           R == [k \in Timers |-> Reload(q.timer[k])]
<1>1. i \in Timers
  BY DEF Timers
<1>2. t \in PtmTimers
  BY <1>1, TimerFields DEF PtmTimers
<1>3. [p EXCEPT !.timer[i] = t] \in Ptms /\ [p EXCEPT !.timer[i] = t].to = p.to
  BY <1>1, <1>2, TimerPut
<1>4. q = [p EXCEPT !.timer[i] = t]
  BY <1>1 DEF Ptms
<1>6. WriteControl13(p, c)
        = CASE ~TimersPreset(p) /\ TimersPreset(q) -> [q EXCEPT !.timer = F]
            [] TimersPreset(p) /\ ~TimersPreset(q) -> [q EXCEPT !.timer = R]
            [] OTHER -> q
  BY DEF WriteControl13
<1> HIDE DEF q
<1>5. F \in [Timers -> PtmTimers] /\ R \in [Timers -> PtmTimers]
  <2>1. \A k \in Timers : q.timer[k] \in PtmTimers
    BY <1>3, <1>4 DEF Ptms
  <2> QED BY <2>1, ReloadType
<1> HIDE DEF F, R
<1>7. /\ [q EXCEPT !.timer = F] \in Ptms /\ [q EXCEPT !.timer = R] \in Ptms
      /\ [q EXCEPT !.timer = F].to = q.to /\ [q EXCEPT !.timer = R].to = q.to
  BY <1>3, <1>4, <1>5 DEF Ptms
<1>8. CASE ~TimersPreset(p) /\ TimersPreset(q)
  BY <1>3, <1>4, <1>6, <1>7, <1>8
<1>9. CASE TimersPreset(p) /\ ~TimersPreset(q)
  BY <1>3, <1>4, <1>6, <1>7, <1>9
<1>10. CASE TimersPreset(p) <=> TimersPreset(q)
  BY <1>3, <1>4, <1>6, <1>10
<1> QED BY <1>8, <1>9, <1>10

\* ... and so does a count.
LEMMA WriteLatchType ==
  ASSUME NEW p \in Ptms, NEW i \in Timers, NEW v \in 0 .. Byte - 1
  PROVE  WriteLatch(p, i, v) \in Ptms /\ WriteLatch(p, i, v).to = p.to
<1> DEFINE w == p.msb * Byte + v
           t == [p.timer[i] EXCEPT !.latch = w]
           u == IF t.control.bit4 THEN t ELSE Reload(t)
           x == IF t.control.bit4 \/ t.control.measure THEN u ELSE [u EXCEPT !.flag = FALSE]
<1>1. w \in 0 .. Word - 1
  BY TimerFields, WordOf
<1> HIDE DEF w
<1>2. t \in PtmTimers
  BY <1>1, TimerFields DEF PtmTimers
<1> HIDE DEF t
<1>3. u \in PtmTimers
  BY <1>2, ReloadType
<1> HIDE DEF u
<1>4. x \in PtmTimers
  BY <1>3, ReloadType
<1> HIDE DEF x
<1>5. WriteLatch(p, i, v) = [p EXCEPT !.timer[i] = x]
  BY DEF WriteLatch, x, u, t, w
<1> QED BY <1>4, <1>5, TimerPut

\* An access leaves the timers' registers within their widths and their clocks alone.
LEMMA TimerAccessType ==
  ASSUME NEW p \in Ptms, NEW CS \in SUBSET Controls, NEW q \in TimerAccess(p, CS, 0 .. Byte - 1)
  PROVE  q \in Ptms /\ q.to = p.to
<1>1. ASSUME NEW c \in CS, q = WriteControl13(p, c) PROVE q \in Ptms /\ q.to = p.to
  <2>1. c \in Controls
    OBVIOUS
  <2> QED BY <1>1, <2>1, WriteControl13Type
<1>2. ASSUME NEW c \in CS, q = WriteControl2(p, c) PROVE q \in Ptms /\ q.to = p.to
  <2> DEFINE t == [p.timer[2] EXCEPT !.control = c]
             r == [p EXCEPT !.timer[2] = t]
  <2>1. c \in Controls /\ c.bit0 \in BOOLEAN /\ 2 \in Timers
    BY DEF Controls, Timers
  <2>2. t \in PtmTimers
    BY <2>1, TimerFields DEF PtmTimers
  <2>3. r \in Ptms /\ r.to = p.to
    BY <2>1, <2>2, TimerPut
  <2>4. q = [r EXCEPT !.select = c.bit0]
    BY <1>2, <2>1 DEF WriteControl2, Ptms
  <2> HIDE DEF r
  <2> QED BY <2>1, <2>3, <2>4 DEF Ptms
<1>3. ASSUME NEW v \in 0 .. Byte - 1, q = WriteMsb(p, v) PROVE q \in Ptms /\ q.to = p.to
  BY <1>3 DEF WriteMsb, Ptms
<1>4. ASSUME q = ReadStatus(p) PROVE q \in Ptms /\ q.to = p.to
  <2> DEFINE s == {i \in Timers : p.timer[i].flag}
  <2>1. s \in SUBSET Timers
    OBVIOUS
  <2>2. q = [p EXCEPT !.seen = s, !.read = TRUE]
    BY <1>4 DEF ReadStatus
  <2> HIDE DEF s
  <2> QED BY <2>1, <2>2 DEF Ptms
<1>5. ASSUME NEW i \in Timers, NEW v \in 0 .. Byte - 1, q = WriteLatch(p, i, v)
      PROVE  q \in Ptms /\ q.to = p.to
  BY <1>5, WriteLatchType
<1>6. ASSUME NEW i \in Timers, q = ReadCounter(p, i) PROVE q \in Ptms /\ q.to = p.to
  <2> DEFINE t == [p.timer[i] EXCEPT !.flag = FALSE]
             r == [p EXCEPT !.timer[i] = t]
  <2>1. t \in PtmTimers
    BY TimerFields, ReloadType
  <2>2. r \in Ptms /\ r.to = p.to
    BY <2>1, TimerPut
  <2>3. q = p \/ q = [r EXCEPT !.read = FALSE]
    BY <1>6 DEF ReadCounter, Ptms
  <2> HIDE DEF r
  <2> QED BY <2>2, <2>3 DEF Ptms
<1> QED BY <1>1, <1>2, <1>3, <1>4, <1>5, <1>6 DEF TimerAccess

\* A reset timer is a timer that asks for nothing.
LEMMA TimerResetType ==
  TimerReset \in Ptms /\ \A i \in Timers : TimerReset.to[i] = 0 /\ ~TimerReset.timer[i].control.irq
<1>1. Word - 1 \in 0 .. Word - 1 /\ 0 \in 0 .. Byte - 1
  BY WordFacts
<1>2. CleanControl \in Controls
  BY DEF CleanControl, Controls
<1> DEFINE t == [latch |-> Word - 1, counter |-> Word - 1,
                 lsb |-> 0, prescale |-> 0, flag |-> FALSE, control |-> CleanControl]
<1>3. t \in PtmTimers
  BY <1>1, <1>2 DEF PtmTimers
<1>4. t.control = CleanControl
  OBVIOUS
<1> HIDE DEF t
<1>5. TimerReset = [timer |-> [i \in Timers |-> t], msb |-> 0, select |-> FALSE, seen |-> {},
                    read |-> FALSE, to |-> [i \in Timers |-> 0]]
  BY DEF TimerReset, t
<1> QED BY <1>1, <1>3, <1>4, <1>5 DEF Ptms, CleanControl

\* A write of the date writes a date.
LEMMA FromFormatNat ==
  ASSUME NEW b, NEW v \in Nat
  PROVE  FromFormat(b, v) \in Nat
<1>1. v \div 16 \in Nat /\ v % 16 \in Nat
  OBVIOUS
<1> QED BY <1>1 DEF FromFormat

\* Hours are numbers.
LEMMA HoursNat ==
  ASSUME NEW b, NEW v \in Nat
  PROVE  HoursFromByte(b, v) \in Nat
<1>1. v % 128 \in Nat
  OBVIOUS
<1> DEFINE twelve == FromFormat(b, v % 128)
<1>2. twelve \in Nat
  BY <1>1, FromFormatNat
<1>3. FromFormat(b, v) \in Nat
  BY FromFormatNat
<1>4. HoursFromByte(b, v) = IF b.full THEN FromFormat(b, v)
                            ELSE (IF twelve = 12 THEN 0 ELSE twelve) + (IF v >= 128 THEN 12 ELSE 0)
  BY DEF HoursFromByte
<1> HIDE DEF twelve
<1> QED BY <1>2, <1>3, <1>4

\* A date written is a date, and changes the date only.
LEMMA WriteDateType ==
  ASSUME NEW r \in Calendars, NEW d \in DateRegisters
  PROVE  WriteDate(r, d) = [r EXCEPT !.date = WriteDate(r, d).date] /\ WriteDate(r, d).date \in Dates
<1> DEFINE h == HoursFromByte(r.b, d.hour)
           y == (r.date.year \div 100) * 100 + FromFormat(r.b, d.year)
           w == [hour |-> h, minute |-> FromFormat(r.b, d.minute),
                 second |-> FromFormat(r.b, d.second), weekday |-> FromFormat(r.b, d.weekday),
                 day |-> FromFormat(r.b, d.day), month |-> FromFormat(r.b, d.month), year |-> y]
<1>1. /\ d.hour \in Nat /\ d.minute \in Nat /\ d.second \in Nat /\ d.weekday \in Nat
      /\ d.day \in Nat /\ d.month \in Nat /\ d.year \in Nat
  BY SMTT(30) DEF DateRegisters, Byte8
<1>2. h \in Nat
  BY <1>1, HoursNat
<1>3. /\ FromFormat(r.b, d.minute) \in Nat /\ FromFormat(r.b, d.second) \in Nat
      /\ FromFormat(r.b, d.weekday) \in Nat /\ FromFormat(r.b, d.day) \in Nat
      /\ FromFormat(r.b, d.month) \in Nat /\ FromFormat(r.b, d.year) \in Nat
  BY <1>1, FromFormatNat
<1>4. y \in Nat
  <2>1. r.date.year \in Nat
    BY CalendarFields DEF Dates
  <2>2. r.date.year \div 100 \in Nat
    BY <2>1
  <2> QED BY <1>3, <2>2
<1>5. WriteDate(r, d) = [r EXCEPT !.date = w]
  BY DEF WriteDate, DateFrom
<1> HIDE DEF h, y
<1>6. w \in Dates
  BY <1>2, <1>3, <1>4 DEF Dates
<1> HIDE DEF w
<1> QED BY <1>5, <1>6 DEF Calendars

\* Of the date and the mode an access writes one, if any.
OneWritten(r, q, BS, DS) ==
    \/ q.date = r.date /\ q.b = r.b
    \/ q.date = r.date /\ \E b \in BS : \E s \in SUBSET Flags : q.b = [b EXCEPT !.enabled = s]
    \/ q.b = r.b /\ \E d \in DS : q.date = WriteDate(r, d).date

\* An access leaves the calendar's clocks alone.
LEMMA CalendarAccessType ==
  ASSUME NEW r \in Calendars, NEW AS \in SUBSET RegisterA, NEW BS \in SUBSET RegisterB,
         NEW LS \in SUBSET ClockTimes, NEW DS \in SUBSET DateRegisters,
         NEW q \in CalendarAccess(r, AS, BS, LS, DS)
  PROVE  /\ q \in Calendars /\ q.updated = r.updated /\ q.shifted = r.shifted
         /\ q.cycles = r.cycles /\ q.held = r.held
         /\ OneWritten(r, q, BS, DS)
<1>1. ASSUME NEW a \in AS, q = WriteA(r, a)
      PROVE  q \in Calendars /\ q = [r EXCEPT !.a = a]
  BY <1>1 DEF WriteA, Calendars
<1>2. ASSUME NEW b \in BS, q = WriteB(r, b)
      PROVE  \E s \in SUBSET Flags : q = [r EXCEPT !.b = [b EXCEPT !.enabled = s]]
                                     /\ [b EXCEPT !.enabled = s] \in RegisterB
  <2>1. CASE b.set /\ ~r.b.set
    <3>1. b \in RegisterB /\ b.enabled \ {"UF"} \in SUBSET Flags
      BY DEF RegisterB
    <3> DEFINE s == b.enabled \ {"UF"}
    <3>2. q = [r EXCEPT !.b = [b EXCEPT !.enabled = s]]
      BY <1>2, <2>1 DEF WriteB
    <3> HIDE DEF s
    <3>3. [b EXCEPT !.enabled = s] \in RegisterB
      BY <3>1 DEF RegisterB, s
    <3> QED BY <3>1, <3>2, <3>3 DEF s
  <2>2. CASE ~(b.set /\ ~r.b.set)
    <3>1. b \in RegisterB /\ b.enabled \in SUBSET Flags
      BY DEF RegisterB
    <3>2. [b EXCEPT !.enabled = b.enabled] = b
      BY <3>1 DEF RegisterB
    <3>3. q = [r EXCEPT !.b = b]
      BY <1>2, <2>2 DEF WriteB
    <3> QED BY <3>1, <3>2, <3>3
  <2> QED BY <2>1, <2>2
<1>3. ASSUME q = ReadC(r) PROVE q \in Calendars /\ q = [r EXCEPT !.c = {}]
  BY <1>3 DEF ReadC, Calendars
<1>4. ASSUME NEW l \in LS, q = WriteAlarm(r, l) PROVE q \in Calendars /\ q = [r EXCEPT !.alarm = l]
  BY <1>4 DEF WriteAlarm, Calendars
<1>5. ASSUME NEW d \in DS, q = WriteDate(r, d)
      PROVE  q = [r EXCEPT !.date = WriteDate(r, d).date] /\ WriteDate(r, d).date \in Dates
  <2>1. d \in DateRegisters
    OBVIOUS
  <2> QED BY <1>5, <2>1, WriteDateType
<1>6. ASSUME NEW a \in AS, q = WriteA(r, a)
      PROVE  /\ q.updated = r.updated /\ q.shifted = r.shifted /\ q.cycles = r.cycles
             /\ q.held = r.held /\ q.date = r.date /\ q.b = r.b
  BY <1>1, <1>6 DEF Calendars
<1>7. ASSUME q = ReadC(r)
      PROVE  /\ q.updated = r.updated /\ q.shifted = r.shifted /\ q.cycles = r.cycles
             /\ q.held = r.held /\ q.date = r.date /\ q.b = r.b
  BY <1>3, <1>7 DEF Calendars
<1>8. ASSUME NEW l \in LS, q = WriteAlarm(r, l)
      PROVE  /\ q.updated = r.updated /\ q.shifted = r.shifted /\ q.cycles = r.cycles
             /\ q.held = r.held /\ q.date = r.date /\ q.b = r.b
  BY <1>4, <1>8 DEF Calendars
<1>9. ASSUME NEW d \in DS, q = WriteDate(r, d)
      PROVE  /\ q.updated = r.updated /\ q.shifted = r.shifted /\ q.cycles = r.cycles
             /\ q.held = r.held /\ q.date = WriteDate(r, d).date /\ q.b = r.b /\ q \in Calendars
  <2> DEFINE w == WriteDate(r, d).date
  <2>1. q = [r EXCEPT !.date = w] /\ w \in Dates
    BY <1>5, <1>9
  <2> HIDE DEF w
  <2>2. /\ q.updated = r.updated /\ q.shifted = r.shifted /\ q.cycles = r.cycles
        /\ q.held = r.held /\ q.date = w /\ q.b = r.b /\ q \in Calendars
    BY <2>1 DEF Calendars
  <2> QED BY <2>2 DEF w
<1>10. ASSUME NEW b \in BS, q = WriteB(r, b)
       PROVE  /\ q.updated = r.updated /\ q.shifted = r.shifted /\ q.cycles = r.cycles
              /\ q.held = r.held /\ q.date = r.date /\ q \in Calendars
              /\ \E s \in SUBSET Flags : q.b = [b EXCEPT !.enabled = s]
  <2>1. PICK s \in SUBSET Flags : q = [r EXCEPT !.b = [b EXCEPT !.enabled = s]]
                                   /\ [b EXCEPT !.enabled = s] \in RegisterB
    BY <1>2, <1>10
  <2> DEFINE x == [b EXCEPT !.enabled = s]
  <2>2. q = [r EXCEPT !.b = x] /\ x \in RegisterB
    BY <2>1
  <2> HIDE DEF x
  <2>3. /\ q.updated = r.updated /\ q.shifted = r.shifted /\ q.cycles = r.cycles
        /\ q.held = r.held /\ q.date = r.date /\ q \in Calendars /\ q.b = x
    BY <2>2 DEF Calendars
  <2> QED BY <2>3 DEF x
<1>11. \/ \E a \in AS : q = WriteA(r, a)
       \/ \E b \in BS : q = WriteB(r, b)
       \/ q = ReadC(r)
       \/ \E l \in LS : q = WriteAlarm(r, l)
       \/ \E d \in DS : q = WriteDate(r, d)
  BY DEF CalendarAccess
<1>12. CASE \E a \in AS : q = WriteA(r, a)
  BY <1>1, <1>6, <1>12 DEF OneWritten
<1>13. CASE \E b \in BS : q = WriteB(r, b)
  BY <1>10, <1>13 DEF OneWritten
<1>14. CASE q = ReadC(r)
  BY <1>3, <1>7, <1>14 DEF OneWritten
<1>15. CASE \E l \in LS : q = WriteAlarm(r, l)
  BY <1>4, <1>8, <1>15 DEF OneWritten
<1>16. CASE \E d \in DS : q = WriteDate(r, d)
  BY <1>9, <1>16 DEF OneWritten
<1> QED BY <1>11, <1>12, <1>13, <1>14, <1>15, <1>16

\* An access leaves the counter's registers within their widths and its clock alone.
LEMMA SioAccessType ==
  ASSUME NEW u \in SioCounters, NEW q \in SioAccess(u, 0 .. Byte - 1)
  PROVE  q \in SioCounters /\ q.to = u.to
<1>0. u.preload \in 0 .. Word - 1 /\ u.output \in BOOLEAN /\ u.running \in BOOLEAN
      /\ u.isr \subseteq {"input", "counter"}
  BY SioFields
<1>1. CASE q = StartCounter(u)
  <2> DEFINE o == ~u.output
  <2>1. q = [u EXCEPT !.running = TRUE, !.output = o, !.second = FALSE, !.counter = u.preload]
    BY <1>1 DEF StartCounter
  <2>2. o \in BOOLEAN
    OBVIOUS
  <2> HIDE DEF o
  <2> QED BY <1>0, <2>1, <2>2 DEF SioCounters
<1>2. CASE q = StopCounter(u)
  <2> DEFINE o == u.running /\ "timer" \in u.acr
             i == u.isr \ {"counter"}
  <2>1. q = [u EXCEPT !.isr = i, !.running = o]
    BY <1>2 DEF StopCounter
  <2>2. o \in BOOLEAN /\ i \subseteq {"input", "counter"}
    BY <1>0
  <2> HIDE DEF o, i
  <2> QED BY <2>1, <2>2 DEF SioCounters
<1>3. CASE q = ReadInputChange(u)
  <2> DEFINE i == u.isr \ {"input"}
  <2>1. q = [u EXCEPT !.isr = i]
    BY <1>3 DEF ReadInputChange
  <2>2. i \subseteq {"input", "counter"}
    BY <1>0
  <2> HIDE DEF i
  <2> QED BY <2>1, <2>2 DEF SioCounters
<1>4. ASSUME NEW a \in SUBSET {"timer", "pin"}, q = WriteAcr(u, a)
      PROVE  q \in SioCounters /\ q.to = u.to
  BY <1>4 DEF WriteAcr, SioCounters
<1>5. ASSUME NEW m \in SUBSET {"input", "counter"}, q = WriteImr(u, m)
      PROVE  q \in SioCounters /\ q.to = u.to
  BY <1>5 DEF WriteImr, SioCounters
<1>6. u.preload % Byte \in 0 .. Byte - 1 /\ u.preload \div Byte \in 0 .. Byte - 1
  BY <1>0, BytesOf
<1>7. \A w \in 0 .. Word - 1 : [u EXCEPT !.preload = w] \in SioCounters /\ [u EXCEPT !.preload = w].to = u.to
  BY DEF SioCounters
<1>8. ASSUME NEW v \in 0 .. Byte - 1, q = WriteUpper(u, v) PROVE q \in SioCounters /\ q.to = u.to
  <2> DEFINE w == v * Byte + (u.preload % Byte)
  <2>1. w \in 0 .. Word - 1
    BY <1>6, WordOf
  <2>2. q = [u EXCEPT !.preload = w]
    BY <1>8 DEF WriteUpper
  <2> HIDE DEF w
  <2> QED BY <1>7, <2>1, <2>2
<1>9. ASSUME NEW v \in 0 .. Byte - 1, q = WriteLower(u, v) PROVE q \in SioCounters /\ q.to = u.to
  <2> DEFINE w == (u.preload \div Byte) * Byte + v
  <2>1. w \in 0 .. Word - 1
    BY <1>6, WordOf
  <2>2. q = [u EXCEPT !.preload = w]
    BY <1>9 DEF WriteLower
  <2> HIDE DEF w
  <2> QED BY <1>7, <2>1, <2>2
<1> QED BY <1>1, <1>2, <1>3, <1>4, <1>5, <1>8, <1>9 DEF SioAccess

\* A reset counter is a counter at the start of time.
LEMMA SioResetType == SioReset \in SioCounters /\ SioReset.to = 0 /\ SioReset.input = SioReset.output
<1>1. 0 \in 0 .. Word - 1 /\ 0 \in 0 .. Samples - 1
  BY WordFacts, SamplesAssumption
<1> QED BY <1>1 DEF SioReset, SioCounters

-----------------------------------------------------------------------------
(* What an advance leaves behind, and what it does before the promised     *)
(* instant.                                                                *)

\* An advance keeps the calendar's type, what was written, and settles its clocks.
LEMMA CalendarAdvanceType ==
  ASSUME NEW r \in Calendars, NEW at \in Nat, r.updated < at
  PROVE  LET q == CalendarAdvance(r, at) IN
         /\ q \in Calendars /\ q.updated <= at /\ q.a = r.a /\ q.b = r.b
         /\ r.a.divider = "running" => ~q.held /\ (r.a.period # 0 => q.tick = r.a.period)
<1>0. r.updated \in Nat /\ r.a \in RegisterA /\ r.a.divider \in {"running", "reset"}
  BY CalendarFields DEF RegisterA
<1>1. CASE r.a.divider = "reset"
  <2>1. CalendarAdvance(r, at) = [r EXCEPT !.updated = at, !.held = TRUE]
    BY <1>0, <1>1 DEF CalendarAdvance
  <2> DEFINE q == [r EXCEPT !.updated = at, !.held = TRUE]
  <2>2. q \in Calendars /\ q.updated = at /\ q.a = r.a /\ q.b = r.b
    BY DEF Calendars
  <2> HIDE DEF q
  <2>3. CalendarAdvance(r, at) = q
    BY <2>1 DEF q
  <2> QED BY <1>1, <2>2, <2>3
<1>2. CASE r.a.divider = "running"
  <2> DEFINE v == IF at > Second \div 2 THEN at - Second \div 2 ELSE 0
             s == IF r.held THEN [r EXCEPT !.held = FALSE, !.periodic = at, !.updated = v] ELSE r
  <2>1. v \in Nat /\ v < at
    <3>1. \A x \in Nat \ {0, 1} : x \div 2 \in Nat /\ x \div 2 > 0
      OBVIOUS
    <3>2. Second \div 2 \in Nat /\ Second \div 2 > 0
      BY <3>1, SecondAssumption
    <3>3. at > 0
      BY <1>0
    <3> QED BY <3>2, <3>3
  <2>2. CalendarAdvance(r, at) = IF at <= s.updated THEN s ELSE Ticks(Seconds(s, at), at)
    BY <1>2 DEF CalendarAdvance, Released
  <2> HIDE DEF v
  <2>3. s \in Calendars /\ s.a = r.a /\ s.b = r.b /\ ~s.held /\ s.updated < at
    BY <2>1 DEF Calendars
  <2> HIDE DEF s
  <2>4. s.a.divider = "running"
    BY <1>2, <2>3
  <2> DEFINE n == Periods(s.updated, at, Second)
             w == Whole(s.updated, at, Second)
             x == Dated(s, n)
             p == TickTo(s, s.periodic, at)
             t == TickKept(s, s.tick)
             e == TickFlag(s, s.periodic, at)
  <2>5. CalendarAdvance(s, at) = Aside(x, w, p, t, e)
    BY <2>3, <2>4, AdvanceIs
  <2>6. CalendarAdvance(s, at) = CalendarAdvance(r, at)
    <3>1. ~(at <= s.updated)
      BY <2>3, CalendarFields
    <3> QED BY <2>2, <2>3, <2>4, <3>1 DEF CalendarAdvance
  <2>7. n \in Nat /\ w \in Nat /\ w <= at
    BY <2>3, CalendarFields, SecondAssumption, WholePeriods
  <2>8. p \in Nat /\ t \in 0 .. Second /\ e \in SUBSET Flags
    BY <2>3, CalendarFields, TickType
  <2>9. r.a.period # 0 => t = r.a.period
    BY <2>3 DEF TickKept
  <2> HIDE DEF n, w, p, t, e
  <2>10. x \in Calendars /\ x.a = r.a /\ x.b = r.b /\ ~x.held
    BY <2>3, <2>7, DatedType
  <2> HIDE DEF x
  <2> DEFINE q == Aside(x, w, p, t, e)
  <2>11. q \in Calendars
    BY <2>7, <2>8, <2>10, AsideType
  <2>12. q.a = r.a /\ q.b = r.b /\ ~q.held /\ q.updated = w /\ q.tick = t
    BY <2>10 DEF Aside, Calendars
  <2> HIDE DEF q
  <2>13. CalendarAdvance(r, at) = q
    BY <2>5, <2>6 DEF q
  <2> QED BY <2>7, <2>9, <2>11, <2>12, <2>13
<1> QED BY <1>0, <1>1, <1>2

\* No whole period has passed.
LEMMA NoPeriod ==
  ASSUME NEW P \in Nat \ {0}, NEW t \in Nat, NEW a \in Nat, t <= a, a < t + P
  PROVE  Periods(t, a, P) = 0 /\ Whole(t, a, P) = t
<1> DEFINE x == a - t
<1>1. x \in 0 .. P - 1 /\ x = P * 0 + x
  OBVIOUS
<1>2. x \div P = 0
  <2> HIDE DEF x
  <2> QED BY <1>1, OneQuotient
<1>3. Periods(t, a, P) = 0
  BY <1>2 DEF Periods
<1> QED BY <1>3, WholePeriods

\* Before the next second and the next period the flags stay as they are.
LEMMA CalendarQuiet ==
  ASSUME NEW r \in Calendars, NEW at \in Nat, r.updated < at, at < r.updated + Second,
         r.a.divider = "running" => ~r.held /\ (r.a.period # 0 => at < r.periodic + r.a.period)
  PROVE  LET q == CalendarAdvance(r, at) IN
         /\ q.c = r.c /\ q.updated >= r.updated
         /\ r.a.divider = "running" /\ r.a.period # 0 => q.periodic = r.periodic
<1>0. r.updated \in Nat /\ r.a \in RegisterA /\ r.a.divider \in {"running", "reset"}
      /\ r.periodic \in Nat /\ r.tick \in 0 .. Second /\ r.a.period \in 0 .. Second
      /\ r.c \in SUBSET Flags
  BY CalendarFields DEF RegisterA
<1>1. CASE r.a.divider = "reset"
  <2>1. CalendarAdvance(r, at) = [r EXCEPT !.updated = at, !.held = TRUE]
    BY <1>0, <1>1 DEF CalendarAdvance
  <2> QED BY <1>0, <1>1, <2>1 DEF Calendars
<1>2. CASE r.a.divider = "running"
  <2> DEFINE p == TickTo(r, r.periodic, at)
             t == TickKept(r, r.tick)
             e == TickFlag(r, r.periodic, at)
  <2>1. Periods(r.updated, at, Second) = 0 /\ Whole(r.updated, at, Second) = r.updated
    BY <1>0, SecondAssumption, NoPeriod
  <2>2. Dated(r, 0) = r
    BY SecondRunTurns DEF Dated
  <2>3. CalendarAdvance(r, at) = Aside(r, r.updated, p, t, e)
    BY <1>2, <2>1, <2>2, AdvanceIs
  <2>4. r.a.period # 0 /\ r.periodic <= at =>
          Periods(r.periodic, at, r.a.period) = 0 /\ Whole(r.periodic, at, r.a.period) = r.periodic
    <3> SUFFICES ASSUME r.a.period # 0, r.periodic <= at
                 PROVE  Periods(r.periodic, at, r.a.period) = 0
                        /\ Whole(r.periodic, at, r.a.period) = r.periodic
      OBVIOUS
    <3>1. r.a.period \in Nat \ {0} /\ at < r.periodic + r.a.period
      BY <1>0, <1>2, SecondAssumption
    <3> QED BY <1>0, <3>1, NoPeriod
  <2>5. e = {}
    BY <1>0, <2>4 DEF TickFlag
  <2>6. r.a.period # 0 => p = r.periodic
    BY <1>0, <2>4 DEF TickTo
  <2> HIDE DEF p, t, e
  <2>7. LET q == Aside(r, r.updated, p, t, {}) IN q.c = r.c /\ q.updated = r.updated /\ q.periodic = p
    BY DEF Aside, Calendars
  <2> QED BY <1>0, <1>2, <2>3, <2>5, <2>6, <2>7
<1> QED BY <1>0, <1>1, <1>2

\* The instants the counter gives.
CountDue(u) == u.to + Until1(u) * X1
SampleDue(u) == u.to + (Samples - u.divider) * X1
SioDue(u, until_) == /\ CountsDown(u) => until_ <= CountDue(u)
                     /\ u.input # u.detected /\ "pin" \in u.acr => until_ <= SampleDue(u)

\* Fewer than m whole periods have passed before m periods are over, and the others are
\* still to come.
LEMMA FewerPeriods ==
  ASSUME NEW P \in Nat \ {0}, NEW t \in Nat, NEW a \in Nat, NEW m \in Nat, t <= a, a < t + m * P
  PROVE  /\ Periods(t, a, P) < m /\ Whole(t, a, P) + (m - Periods(t, a, P)) * P = t + m * P
<1> DEFINE n == Periods(t, a, P)
<1>1. n \in Nat /\ Whole(t, a, P) = t + P * n /\ Whole(t, a, P) <= a
  BY WholePeriods
<1> HIDE DEF n
<1>2. n < m
  <2> SUFFICES ASSUME m <= n PROVE FALSE
    BY <1>1
  <2>1. P * m <= P * n /\ P * m = m * P
    BY <1>1, TimesLeq
  <2>2. P * n \in Nat /\ P * m \in Nat
    BY <1>1
  <2> QED BY <1>1, <2>1, <2>2
<1>3. (m - n) * P + P * n = m * P
  BY <1>1
<1>4. (m - n) * P \in Int /\ P * n \in Int /\ m * P \in Int
  BY <1>1
<1> DEFINE y == (m - n) * P
           z == P * n
<1> HIDE DEF y, z
<1>5. Whole(t, a, P) + y = t + m * P
  BY <1>1, <1>3, <1>4 DEF y, z
<1> QED BY <1>2, <1>5 DEF n, y

\* Before the promised instant the counter's line stays as it is.
LEMMA SioQuiet ==
  ASSUME NEW u \in SioCounters, NEW at \in Nat, NEW until_ \in Nat, u.to <= at, at < until_,
         SioDue(u, until_), u.input = u.output
  PROVE  LET q == SioAdvance(u, at) IN SioIrq(q) = SioIrq(u) /\ SioDue(q, until_)
<1> DEFINE n == Periods(u.to, at, X1)
           w == Whole(u.to, at, X1)
           v == PulseRun(u)[n]
           q == SioAdvance(u, at)
           c == Until1(u)
           s == Samples - u.divider
<1>0. u.to \in Nat /\ X1 \in Nat \ {0} /\ c \in Nat /\ s \in Nat /\ s > 0 /\ u.counter \in Nat
      /\ u.divider \in Nat /\ Samples \in Nat
  BY SioFields, X1Assumption, SamplesAssumption, WordFacts DEF Until1
<1>1. n \in Nat /\ w \in Nat
  BY <1>0, WholePeriods
<1>2. CountsDown(u) => n < c /\ w + (c - n) * X1 = CountDue(u)
  <2> SUFFICES ASSUME CountsDown(u) PROVE n < c /\ w + (c - n) * X1 = CountDue(u)
    OBVIOUS
  <2>1. until_ <= CountDue(u)
    BY DEF SioDue
  <2>2. CountDue(u) = u.to + c * X1
    BY DEF CountDue
  <2> HIDE DEF c
  <2>3. c * X1 \in Nat
    BY <1>0
  <2>4. at < u.to + c * X1
    BY <1>0, <2>1, <2>2, <2>3
  <2> DEFINE t == u.to
  <2>5. t \in Nat /\ t <= at /\ at < t + c * X1 /\ X1 \in Nat \ {0} /\ c \in Nat
    BY <1>0, <2>4
  <2>6. /\ n = Periods(t, at, X1) /\ w = Whole(t, at, X1) /\ CountDue(u) = t + c * X1
    BY <2>2
  <2> HIDE DEF t, n, w
  <2>7. Periods(t, at, X1) < c /\ Whole(t, at, X1) + (c - Periods(t, at, X1)) * X1 = t + c * X1
    BY <2>5, FewerPeriods
  <2> QED BY <2>6, <2>7
<1>3. u.input # u.detected /\ "pin" \in u.acr => n < s /\ w + (s - n) * X1 = SampleDue(u)
  <2> SUFFICES ASSUME u.input # u.detected, "pin" \in u.acr
               PROVE  n < s /\ w + (s - n) * X1 = SampleDue(u)
    OBVIOUS
  <2>1. until_ <= SampleDue(u)
    BY DEF SioDue
  <2>2. SampleDue(u) = u.to + s * X1
    BY DEF SampleDue
  <2> HIDE DEF s
  <2>3. s * X1 \in Nat
    BY <1>0
  <2>4. at < u.to + s * X1
    BY <1>0, <2>1, <2>2, <2>3
  <2> DEFINE t == u.to
  <2>5. t \in Nat /\ t <= at /\ at < t + s * X1 /\ X1 \in Nat \ {0} /\ s \in Nat
    BY <1>0, <2>4
  <2>6. /\ n = Periods(t, at, X1) /\ w = Whole(t, at, X1) /\ SampleDue(u) = t + s * X1
    BY <2>2
  <2> HIDE DEF t, n, w
  <2>7. Periods(t, at, X1) < s /\ Whole(t, at, X1) + (s - Periods(t, at, X1)) * X1 = t + s * X1
    BY <2>5, FewerPeriods
  <2> QED BY <2>6, <2>7
<1> HIDE DEF n, w
<1>4. Unseen(u, v, n) /\ PulseKept(u, v) /\ v \in SioCounters
  <2>1. Before(u, n)
    BY <1>2, <1>3 DEF Before
  <2> QED BY <1>1, <2>1, PulsesUnseen, PulseRunKeeps, PulseRunTurns
<1>5. q = [v EXCEPT !.to = w, !.input = v.output]
  BY SioAdvanceIs DEF n, w
<1> HIDE DEF v, q
<1>6. /\ q.isr = u.isr /\ q.imr = u.imr /\ q.acr = u.acr /\ q.running = u.running /\ q.to = w
      /\ q.input = u.input /\ q.counter = v.counter /\ q.detected = v.detected
      /\ q.divider = v.divider
  BY <1>4, <1>5 DEF Unseen, PulseKept, SioCounters
<1>7. SioIrq(q) = SioIrq(u)
  BY <1>6 DEF SioIrq
<1>8. CountsDown(q) = CountsDown(u)
  BY <1>6 DEF CountsDown
<1>9. CountsDown(u) => CountDue(q) = CountDue(u)
  <2> SUFFICES ASSUME CountsDown(u) PROVE CountDue(q) = CountDue(u)
    OBVIOUS
  <2>1. Until1(q) = c - n
    <3>1. CASE u.counter > 0
      <4>1. q.counter = u.counter - n /\ q.counter > 0
        BY <1>0, <1>1, <1>2, <1>4, <1>6, <3>1 DEF Unseen, Until1
      <4> QED BY <3>1, <4>1 DEF Until1
    <3>2. CASE ~(u.counter > 0)
      <4>1. n = 0
        BY <1>0, <1>1, <1>2, <3>2 DEF Until1
      <4>2. v = u
        BY <4>1, PulseRunTurns DEF v
      <4> QED BY <1>0, <1>6, <3>2, <4>1, <4>2 DEF Until1
    <3> QED BY <3>1, <3>2
  <2> QED BY <1>2, <1>6, <2>1 DEF CountDue
<1>10. q.input # q.detected /\ "pin" \in q.acr =>
         u.input # u.detected /\ "pin" \in u.acr /\ SampleDue(q) = SampleDue(u)
  <2> SUFFICES ASSUME q.input # q.detected, "pin" \in q.acr
               PROVE  u.input # u.detected /\ "pin" \in u.acr /\ SampleDue(q) = SampleDue(u)
    OBVIOUS
  <2>1. u.input # u.detected /\ "pin" \in u.acr
    BY <1>4, <1>6 DEF Unseen
  <2>2. q.divider = u.divider + n
    BY <1>4, <1>6, <2>1 DEF Unseen
  <2>3. Samples - q.divider = s - n
    BY <1>0, <1>1, <2>2
  <2> QED BY <1>3, <1>6, <2>1, <2>3 DEF SampleDue
<1>11. SioDue(q, until_)
  BY <1>8, <1>9, <1>10 DEF SioDue
<1> QED BY <1>7, <1>11 DEF q

-----------------------------------------------------------------------------
(* The machine.                                                            *)

\* Every register is within its width, and no device's clock is ahead of the time.
Typed ==
    /\ which \in Devices /\ now \in Nat /\ until \in Nat /\ left \in Nat
    /\ phase \in {"boundary", "execute", "advance"}
    /\ which = "timer"    => dev \in Ptms /\ Behind(dev, now)
    /\ which = "calendar" => dev \in Calendars /\ dev.updated <= now
    /\ which = "sio"      => dev \in SioCounters /\ dev.to <= now

\* Unless an access is waiting for the end of its instruction, the calendar's divider
\* is let go and its periodic clock set, and the counter's pin is its output.
Settled == until # 0 \/ phase # "advance"
CalendarSettled ==
    dev.a.divider = "running" => ~dev.held /\ (dev.a.period # 0 => dev.tick = dev.a.period)
\* The instants the calendar gives.
CalendarDue(r, u) ==
    /\ u <= r.updated + Second
    /\ r.a.divider = "running" /\ r.a.period # 0 => u <= r.periodic + r.a.period

\* The promise that stands is no later than any instant the device would give now.
PromiseHolds ==
    /\ which = "timer" /\ now < until =>
         until <= TimerNextPulse(dev) \/ \A i \in Timers : ~dev.timer[i].control.irq
    /\ which = "calendar" => (Settled => CalendarSettled) /\ (now < until => CalendarDue(dev, until))
    /\ which = "sio" => /\ Settled => dev.input = dev.output
                        /\ now < until => SioDue(dev, until)

\* What is assumed of the devices.
LEMMA DeviceFacts ==
  /\ MaxStep \in Nat \ {0} /\ Never \in Nat
  /\ Devices \subseteq {"timer", "calendar", "sio", "pit"}
  /\ \A d \in Devices : MaxAccess[d] \in Nat /\ MaxNow[d] \in Nat
BY ClocksAssumption

\* The machine starts typed, and with no promise.
LEMMA TypedInit == Init => Typed /\ PromiseHolds
<1> SUFFICES ASSUME Init PROVE Typed /\ PromiseHolds
  OBVIOUS
<1>1. /\ which \in Devices /\ which \in {"timer", "calendar", "sio", "pit"}
      /\ now = 0 /\ until = 0 /\ phase = "boundary" /\ left = MaxAccess[which] /\ left \in Nat
  BY DeviceFacts DEF Init
<1>2. CASE which = "timer"
  <2>1. dev = TimerReset
    BY <1>2 DEF Init
  <2>2. dev \in Ptms /\ \A i \in Timers : dev.to[i] = 0
    BY <2>1, TimerResetType
  <2> QED BY <1>1, <1>2, <2>2 DEF Typed, PromiseHolds, Behind
<1>3. CASE which = "calendar"
  <2>1. PICK s \in StartDates : dev = CalendarReset(s)
    BY <1>3 DEF Init
  <2>2. s \in Dates
    BY WrittenAssumption
  <2>3. dev \in Calendars /\ dev.updated = 0 /\ ~dev.held /\ dev.a.period = 0
    <3>1. 0 \in 0 .. Second /\ 0 \in Nat
      BY SecondAssumption
    <3> QED BY <2>1, <2>2, <3>1 DEF CalendarReset, Calendars, RegisterA, RegisterB, BatteryB,
                                    ClockTimes, Flags
  <2> QED BY <1>1, <1>3, <2>3 DEF Typed, PromiseHolds, CalendarSettled
<1>4. CASE which = "sio"
  <2>1. dev = SioReset
    BY <1>4 DEF Init
  <2> QED BY <1>1, <1>4, <2>1, SioResetType DEF Typed, PromiseHolds
<1>5. CASE which = "pit"
  BY <1>1, <1>5 DEF Typed, PromiseHolds
<1> QED BY <1>1, <1>2, <1>3, <1>4, <1>5

\* A promise is an instant no later than those of the device.
LEMMA CalendarPromises ==
  ASSUME NEW r \in Calendars, r.a.divider = "running" => ~r.held /\ (r.a.period # 0 => r.tick = r.a.period)
  PROVE  CalendarNextChange(r) \in Nat /\ CalendarDue(r, CalendarNextChange(r))
<1>1. r.updated \in Nat /\ r.periodic \in Nat /\ r.tick \in 0 .. Second /\ Second \in Nat
      /\ r.a.period \in 0 .. Second
  BY CalendarFields, SecondAssumption DEF RegisterA
<1>2. r.tick \in Nat
  BY <1>1
<1> QED BY <1>1, <1>2 DEF CalendarNextChange, CalendarDue

\* The counter is due at the instant it gives.
LEMMA SioPromises ==
  ASSUME NEW u \in SioCounters
  PROVE  SioNextChange(u) \in Nat /\ SioDue(u, SioNextChange(u))
<1>0. u.to \in Nat /\ X1 \in Nat \ {0} /\ Until1(u) \in Nat /\ Samples - u.divider \in Nat
  BY SioFields, X1Assumption, SamplesAssumption, WordFacts DEF Until1
<1> DEFINE c == Until1(u)
           s == Samples - u.divider
           x == c * X1
           y == s * X1
           sample == IF u.input # u.detected /\ "pin" \in u.acr THEN u.to + y ELSE Never
           count == IF CountsDown(u) THEN u.to + x ELSE Never
<1>1. x \in Nat /\ y \in Nat
  <2>1. c \in Nat /\ s \in Nat /\ X1 \in Nat
    BY <1>0
  <2> HIDE DEF c, s
  <2> QED BY <2>1
<1>2. SioNextChange(u) = IF sample < count THEN sample ELSE count
  BY DEF SioNextChange, Until1
<1>3. CountDue(u) = u.to + x /\ SampleDue(u) = u.to + y
  BY DEF CountDue, SampleDue
<1> HIDE DEF x, y
<1>4. sample \in Nat /\ count \in Nat
  BY <1>0, <1>1, DeviceFacts
<1>5. SioNextChange(u) <= sample /\ SioNextChange(u) <= count /\ SioNextChange(u) \in Nat
  <2> HIDE DEF sample, count
  <2> QED BY <1>2, <1>4
<1> QED BY <1>3, <1>5 DEF SioDue

\* Accesses of each device, and the values they may use.
LEMMA AccessesOf ==
  ASSUME Typed, Access
  PROVE  /\ which = "timer" => dev' \in TimerAccess(dev, ControlWords, 0 .. Byte - 1)
         /\ which = "calendar" => dev' \in CalendarAccess(dev, RatesA, SetsB, Alarms, WrittenDates)
         /\ which = "sio" => dev' \in SioAccess(dev, 0 .. Byte - 1)
BY DEF Access, Accesses

\* What is assumed of the writes.
LEMMA WrittenFacts ==
  /\ ControlWords \in SUBSET Controls /\ RatesA \in SUBSET RegisterA /\ SetsB \in SUBSET RegisterB
  /\ Alarms \in SUBSET ClockTimes /\ WrittenDates \in SUBSET DateRegisters
BY WrittenAssumption

\* A sample asks for a new promise when the last has run out.
LEMMA SampleKeeps ==
  ASSUME Typed, PromiseHolds, Sample
  PROVE  Typed' /\ PromiseHolds' /\ until' \in Nat
<1>1. /\ which' = which /\ dev' = dev /\ now' = now /\ left' = left /\ phase = "boundary"
      /\ phase' = "execute" /\ which # "pit"
      /\ until' = IF now >= until THEN NextChange(which, dev) ELSE until
  BY DEF Sample
<1>2. CASE which = "timer"
  <2>1. NextChange(which, dev) = TimerNextPulse(dev) /\ TimerNextPulse(dev) \in Nat
    BY <1>2, NextPulse DEF NextChange, Typed
  <2>2. until' \in Nat
    BY <1>1, <2>1 DEF Typed
  <2>3. until' <= TimerNextPulse(dev) \/ (until' = until /\ now < until)
    BY <1>1, <2>1 DEF Typed
  <2> QED BY <1>1, <1>2, <2>2, <2>3 DEF Typed, PromiseHolds
<1>3. CASE which = "calendar"
  <2>1. dev \in Calendars /\ CalendarSettled
    BY <1>1, <1>3 DEF Typed, PromiseHolds, Settled
  <2>2. NextChange(which, dev) = CalendarNextChange(dev) /\ CalendarNextChange(dev) \in Nat
        /\ CalendarDue(dev, CalendarNextChange(dev))
    BY <1>3, <2>1, CalendarPromises DEF NextChange, CalendarSettled
  <2>3. until' \in Nat /\ (until' = CalendarNextChange(dev) \/ (until' = until /\ now < until))
    BY <1>1, <2>2 DEF Typed
  <2>4. CalendarSettled' /\ (now < until => CalendarDue(dev, until))
    BY <1>1, <1>3, <2>1 DEF CalendarSettled, PromiseHolds
  <2>5. now' < until' => CalendarDue(dev', until')
    BY <1>1, <2>2, <2>3, <2>4
  <2> QED BY <1>1, <1>3, <2>1, <2>3, <2>4, <2>5 DEF Typed, PromiseHolds
<1>4. CASE which = "sio"
  <2>1. dev \in SioCounters /\ dev.input = dev.output
    BY <1>1, <1>4 DEF Typed, PromiseHolds, Settled
  <2>2. NextChange(which, dev) = SioNextChange(dev) /\ SioNextChange(dev) \in Nat
        /\ SioDue(dev, SioNextChange(dev))
    BY <1>4, <2>1, SioPromises DEF NextChange
  <2>3. until' \in Nat /\ (until' = SioNextChange(dev) \/ (until' = until /\ now < until))
    BY <1>1, <2>2 DEF Typed
  <2>4. now < until => SioDue(dev, until)
    BY <1>4 DEF PromiseHolds
  <2>5. now' < until' => SioDue(dev', until')
    BY <1>1, <2>2, <2>3, <2>4
  <2> QED BY <1>1, <1>4, <2>1, <2>3, <2>5 DEF Typed, PromiseHolds
<1> QED BY <1>1, <1>2, <1>3, <1>4, DeviceFacts DEF Typed

\* An access withdraws the promise, so whatever it wrote is seen in time.
LEMMA AccessKeeps ==
  ASSUME Typed, PromiseHolds, Access
  PROVE  Typed' /\ PromiseHolds'
<1>1. /\ which' = which /\ now' = now /\ left' = left - 1 /\ left > 0 /\ phase' = "advance"
      /\ until' = 0 /\ which # "pit"
  BY DEF Access
<1>2. left' \in Nat /\ ~Settled' /\ ~(now' < until')
  BY <1>1 DEF Typed, Settled
<1>3. CASE which = "timer"
  <2>1. dev' \in Ptms /\ dev'.to = dev.to
    BY <1>3, AccessesOf, WrittenFacts, TimerAccessType DEF Typed
  <2>2. Behind(dev', now')
    BY <1>1, <1>3, <2>1 DEF Typed, Behind
  <2> QED BY <1>1, <1>2, <1>3, <2>1, <2>2 DEF Typed, PromiseHolds
<1>4. CASE which = "calendar"
  <2>1. dev' \in Calendars /\ dev'.updated = dev.updated
    <3>1. dev' \in CalendarAccess(dev, RatesA, SetsB, Alarms, WrittenDates) /\ dev \in Calendars
      BY <1>4, AccessesOf DEF Typed
    <3> DEFINE q == dev'
    <3>2. q \in CalendarAccess(dev, RatesA, SetsB, Alarms, WrittenDates)
      BY <3>1
    <3> HIDE DEF q
    <3> DEFINE r == dev
    <3>3. /\ RatesA \in SUBSET RegisterA /\ SetsB \in SUBSET RegisterB
          /\ Alarms \in SUBSET ClockTimes /\ WrittenDates \in SUBSET DateRegisters
          /\ r \in Calendars /\ q \in CalendarAccess(r, RatesA, SetsB, Alarms, WrittenDates)
      BY <3>1, <3>2, WrittenFacts
    <3> HIDE DEF r
    <3>4. q \in Calendars /\ q.updated = r.updated
      BY <3>3, CalendarAccessType
    <3> QED BY <3>4 DEF q, r
  <2> QED BY <1>1, <1>2, <1>4, <2>1 DEF Typed, PromiseHolds
<1>5. CASE which = "sio"
  <2>1. dev' \in SioCounters /\ dev'.to = dev.to
    BY <1>5, AccessesOf, SioAccessType DEF Typed
  <2> QED BY <1>1, <1>2, <1>5, <2>1 DEF Typed, PromiseHolds
<1> QED BY <1>1, <1>3, <1>4, <1>5, DeviceFacts DEF Typed

\* The timers until the promised instant: nothing happens, or nothing that could be seen.
LEMMA TimerStep ==
  ASSUME NEW p \in Ptms, NEW at \in Nat, Behind(p, at)
  PROVE  LET q == BoardAdvanceTimer(p, at) IN
         /\ q \in Ptms /\ Behind(q, at)
         /\ \A i \in Timers : q.timer[i].control = p.timer[i].control
         /\ at < TimerNextPulse(p) => q = p
<1>1. BoardAdvanceTimer(p, at) = TimerAdvance(p, at)
  BY BoardAdvanceIs
<1>2. at < TimerNextPulse(p) => BoardAdvanceTimer(p, at) = p
  BY NextPulse DEF BoardAdvanceTimer
<1> QED BY <1>1, <1>2, TimerAdvanceType

\* Before the promised instant an advance leaves the line as it is.
LEMMA AdvancedKeeps ==
  ASSUME Typed, PromiseHolds, Advanced
  PROVE  /\ Typed' /\ PromiseHolds' /\ now' > now
         /\ now' < until => Irq(which, dev') = Irq(which, dev)
<1>1. /\ which' = which /\ until' = until /\ left' = left /\ phase = "advance"
      /\ phase' = "boundary" /\ which # "pit"
  BY DEF Advanced
<1>2. PICK s \in 1 .. MaxStep : now' = now + s /\ dev' = Advance(which, dev, now + s)
  BY DEF Advanced
<1> DEFINE at == now + s
<1>3. at \in Nat /\ at > now /\ now' = at
  BY <1>2, DeviceFacts DEF Typed
<1> HIDE DEF at
<1>4. Settled' /\ (now' < until' => now < until /\ Settled)
  BY <1>1, <1>3 DEF Settled, Typed
<1>5. CASE which = "timer"
  <2>1. dev \in Ptms /\ Behind(dev, at)
    BY <1>3, <1>5 DEF Typed, Behind, Ptms
  <2>2. dev' = BoardAdvanceTimer(dev, at)
    BY <1>2, <1>5 DEF Advance, at
  <2>3. /\ dev' \in Ptms /\ Behind(dev', at)
        /\ \A i \in Timers : dev'.timer[i].control = dev.timer[i].control
        /\ at < TimerNextPulse(dev) => dev' = dev
    <3> DEFINE x == BoardAdvanceTimer(dev, at)
    <3>1. /\ x \in Ptms /\ Behind(x, at)
          /\ \A i \in Timers : x.timer[i].control = dev.timer[i].control
          /\ at < TimerNextPulse(dev) => x = dev
      BY <1>3, <2>1, TimerStep
    <3> HIDE DEF x
    <3> QED BY <2>2, <3>1 DEF x
  <2>4. now' < until => \/ until <= TimerNextPulse(dev) /\ at < TimerNextPulse(dev)
                        \/ \A i \in Timers : ~dev.timer[i].control.irq
    BY <1>1, <1>3, <1>4, <1>5, <2>1, NextPulse DEF PromiseHolds, Typed
  <2>5. now' < until => TimerIrq(dev') = TimerIrq(dev)
    BY <2>3, <2>4 DEF TimerIrq
  <2>6. now' < until => until <= TimerNextPulse(dev') \/ \A i \in Timers : ~dev'.timer[i].control.irq
    BY <2>3, <2>4
  <2> QED BY <1>1, <1>3, <1>5, <2>3, <2>5, <2>6 DEF Typed, PromiseHolds, Irq
<1>6. CASE which = "calendar"
  <2>1. dev \in Calendars /\ dev.updated < at /\ dev.updated \in Nat
    BY <1>3, <1>6, CalendarFields DEF Typed
  <2>2. dev' = CalendarAdvance(dev, at)
    BY <1>2, <1>6 DEF Advance, at
  <2>3. /\ dev' \in Calendars /\ dev'.updated <= at /\ dev'.a = dev.a /\ dev'.b = dev.b
        /\ dev.a.divider = "running" => ~dev'.held /\ (dev.a.period # 0 => dev'.tick = dev.a.period)
    <3> DEFINE x == CalendarAdvance(dev, at)
    <3>1. /\ x \in Calendars /\ x.updated <= at /\ x.a = dev.a /\ x.b = dev.b
          /\ dev.a.divider = "running" => ~x.held /\ (dev.a.period # 0 => x.tick = dev.a.period)
      BY <1>3, <2>1, CalendarAdvanceType
    <3> HIDE DEF x
    <3> QED BY <2>2, <3>1 DEF x
  <2>4. CalendarSettled'
    BY <2>3 DEF CalendarSettled
  <2>5. now' < until =>
          /\ CalendarDue(dev, until) /\ at < dev.updated + Second
          /\ dev.a.divider = "running" => ~dev.held /\ (dev.a.period # 0 => at < dev.periodic + dev.a.period)
    <3> SUFFICES ASSUME now' < until
                 PROVE  /\ CalendarDue(dev, until) /\ at < dev.updated + Second
                        /\ dev.a.divider = "running" => ~dev.held /\ (dev.a.period # 0 => at < dev.periodic + dev.a.period)
      OBVIOUS
    <3>1. CalendarDue(dev, until) /\ CalendarSettled
      BY <1>1, <1>4, <1>6 DEF PromiseHolds
    <3>2. dev.periodic \in Nat /\ dev.a.period \in 0 .. Second /\ Second \in Nat /\ until \in Nat
      BY <2>1, CalendarFields, SecondAssumption DEF RegisterA, Typed
    <3> QED BY <1>3, <2>1, <3>1, <3>2 DEF CalendarDue, CalendarSettled
  <2>6. now' < until => /\ dev'.c = dev.c /\ dev'.updated >= dev.updated
                        /\ dev.a.divider = "running" /\ dev.a.period # 0 => dev'.periodic = dev.periodic
    <3> SUFFICES ASSUME now' < until
                 PROVE  /\ dev'.c = dev.c /\ dev'.updated >= dev.updated
                        /\ dev.a.divider = "running" /\ dev.a.period # 0 => dev'.periodic = dev.periodic
      OBVIOUS
    <3> DEFINE x == CalendarAdvance(dev, at)
    <3>1. /\ x.c = dev.c /\ x.updated >= dev.updated
          /\ dev.a.divider = "running" /\ dev.a.period # 0 => x.periodic = dev.periodic
      BY <1>3, <2>1, <2>5, CalendarQuiet
    <3> HIDE DEF x
    <3> QED BY <2>2, <3>1 DEF x
  <2>7. now' < until => CalendarIrq(dev') = CalendarIrq(dev)
    BY <2>3, <2>6 DEF CalendarIrq
  <2>8. now' < until => CalendarDue(dev', until)
    <3> SUFFICES ASSUME now' < until PROVE CalendarDue(dev', until)
      OBVIOUS
    <3>1. dev'.updated \in Nat /\ Second \in Nat /\ until \in Nat
      BY <2>3, CalendarFields, SecondAssumption DEF Typed
    <3> QED BY <2>1, <2>3, <2>5, <2>6, <3>1 DEF CalendarDue
  <2> QED BY <1>1, <1>3, <1>6, <2>3, <2>4, <2>7, <2>8 DEF Typed, PromiseHolds, Irq
<1>7. CASE which = "sio"
  <2>1. dev \in SioCounters /\ dev.to <= at
    BY <1>3, <1>7, SioFields DEF Typed
  <2>2. dev' = SioAdvance(dev, at)
    BY <1>2, <1>7 DEF Advance, at
  <2>3. dev' \in SioCounters /\ dev'.to <= at /\ dev'.input = dev'.output
    <3> DEFINE x == SioAdvance(dev, at)
    <3>1. x \in SioCounters /\ x.to <= at /\ x.input = x.output
      BY <1>3, <2>1, SioAdvanceType
    <3> HIDE DEF x
    <3> QED BY <2>2, <3>1 DEF x
  <2>4. now' < until => SioIrq(dev') = SioIrq(dev) /\ SioDue(dev', until)
    <3> SUFFICES ASSUME now' < until PROVE SioIrq(dev') = SioIrq(dev) /\ SioDue(dev', until)
      OBVIOUS
    <3>1. SioDue(dev, until) /\ dev.input = dev.output
      BY <1>1, <1>4, <1>7 DEF PromiseHolds
    <3>2. until \in Nat /\ at < until
      BY <1>3 DEF Typed
    <3> QED BY <1>3, <2>1, <2>2, <3>1, <3>2, SioQuiet
  <2> QED BY <1>1, <1>3, <1>7, <2>3, <2>4 DEF Typed, PromiseHolds, Irq
<1> QED BY <1>1, <1>5, <1>6, <1>7, DeviceFacts DEF Typed

\* An instruction that reaches no device changes none.
LEMMA OtherKeeps ==
  ASSUME Typed, PromiseHolds, Other
  PROVE  Typed' /\ PromiseHolds'
<1>1. /\ which' = which /\ dev' = dev /\ now' = now /\ until' = until /\ left' = left
      /\ phase = "execute" /\ phase' = "advance"
  BY DEF Other
<1>2. Settled
  BY <1>1 DEF Settled
<1> QED BY <1>1, <1>2 DEF Typed, PromiseHolds, Settled, CalendarSettled

\* A reset silences the timers, and so needs no new promise.
LEMMA ResetKeeps ==
  ASSUME Typed, PromiseHolds, ResetDevices
  PROVE  Typed' /\ PromiseHolds' /\ ~Irq(which, dev')
<1>1. /\ which' = which /\ dev' = TimerReset /\ now' = now /\ until' = until /\ left' = left - 1
      /\ left > 0 /\ phase' = "advance" /\ which = "timer"
  BY DEF ResetDevices
<1>2. Behind(dev', now')
  BY <1>1, TimerResetType DEF Behind, Typed
<1>3. dev' \in Ptms /\ \A i \in Timers : ~dev'.timer[i].control.irq
  BY <1>1, TimerResetType
<1> QED BY <1>1, <1>2, <1>3 DEF Typed, PromiseHolds, Irq, TimerIrq

\* The ring controller's counter promises nothing.
LEMMA PitKeeps ==
  ASSUME Typed, PromiseHolds, PitWrite \/ PitCount
  PROVE  Typed' /\ PromiseHolds' /\ which = "pit" /\ (now' = now \/ now' > now)
<1>1. /\ which' = which /\ which = "pit" /\ until' = until /\ phase' = phase
      /\ left' \in Nat /\ now' \in Nat /\ (now' = now \/ now' > now)
  BY DEF PitWrite, PitCount, Typed
<1> QED BY <1>1 DEF Typed, PromiseHolds

\* Every step keeps both.
LEMMA StepKeeps == Typed /\ PromiseHolds /\ [Next]_vars => Typed' /\ PromiseHolds'
<1> SUFFICES ASSUME Typed, PromiseHolds, [Next]_vars PROVE Typed' /\ PromiseHolds'
  OBVIOUS
<1>1. CASE Sample
  BY <1>1, SampleKeeps
<1>2. CASE Access
  BY <1>2, AccessKeeps
<1>3. CASE Other
  BY <1>3, OtherKeeps
<1>4. CASE ResetDevices
  BY <1>4, ResetKeeps
<1>5. CASE Advanced
  BY <1>5, AdvancedKeeps
<1>6. CASE PitWrite \/ PitCount
  BY <1>6, PitKeeps
<1>7. CASE UNCHANGED vars
  BY <1>7 DEF vars, Typed, PromiseHolds, Behind, Settled, CalendarSettled
<1> QED BY <1>1, <1>2, <1>3, <1>4, <1>5, <1>6, <1>7 DEF Next

\* So both hold for ever.
LEMMA TypedAlways == Spec => [](Typed /\ PromiseHolds)
<1>1. Init => Typed /\ PromiseHolds
  BY TypedInit
<1> QED BY <1>1, StepKeeps, PTL DEF Spec

\* However often the time is looked at, a device is where it would be.
LEMMA CutFromTyped == Typed => CutInvisible
<1> SUFFICES ASSUME Typed, which \in {"timer", "calendar"}, NEW a \in 1 .. MaxStep,
                    which = "calendar" => ~dev.held
             PROVE  \A once \in {Advance(which, dev, now + a)} :
                      Advance(which, once, now + a + 1) = Advance(which, dev, now + a + 1)
  BY DEF CutInvisible
<1> DEFINE s == now + a
           t == now + a + 1
<1>1. s \in Nat /\ t \in Nat /\ now < s /\ s < t /\ now \in Nat
  BY DeviceFacts DEF Typed
<1> HIDE DEF s, t
<1>2. Advance(which, Advance(which, dev, s), t) = Advance(which, dev, t)
  <2>1. CASE which = "timer"
    <3>1. dev \in Ptms /\ Behind(dev, s)
      BY <1>1, <2>1 DEF Typed, Behind, Ptms
    <3>2. BoardAdvanceTimer(BoardAdvanceTimer(dev, s), t) = BoardAdvanceTimer(dev, t)
      BY <1>1, <3>1, TimerCut
    <3> QED BY <2>1, <3>2 DEF Advance
  <2>2. CASE which = "calendar"
    <3>1. dev \in Calendars /\ ~dev.held /\ dev.updated < s
      BY <1>1, <2>2, CalendarFields DEF Typed
    <3>2. CalendarAdvance(CalendarAdvance(dev, s), t) = CalendarAdvance(dev, t)
      BY <1>1, <3>1, CalendarCut
    <3> QED BY <2>2, <3>2 DEF Advance
  <2> QED BY <2>1, <2>2
<1> QED BY <1>2 DEF s, t

\* Advancing the timers or the calendar in two steps leaves them exactly as one step does,
\* from every state that any mix of writes, resets and advances leads to, but for a divider
\* about to be let go (ap_timer_advance, ap_mc146818_advance: the remainders are carried).
THEOREM CutsAreInvisible == Spec => []CutInvisible
BY TypedAlways, CutFromTyped, PTL

\* A step of the machine is one the board allows: while the promise stands, the line does too.
LEMMA StepIsBoard ==
  ASSUME Typed, PromiseHolds, [Next]_vars
  PROVE  [Board!Next]_<<Irq(which, dev), now, until>>
<1>0. Irq(which, dev) \in BOOLEAN /\ Irq(which', dev') \in BOOLEAN
  BY DEF Irq, TimerIrq, CalendarIrq, SioIrq
<1>1. CASE Sample
  <2>1. /\ which' = which /\ dev' = dev /\ now' = now
        /\ until' = until \/ now >= until
    BY <1>1 DEF Sample
  <2>2. until' \in Nat
    BY <1>1, SampleKeeps
  <2>3. Irq(which', dev') = Irq(which, dev)
    BY <2>1
  <2>4. CASE until' = until
    BY <2>1, <2>3, <2>4
  <2>5. CASE now >= until
    BY <2>1, <2>2, <2>3, <2>5 DEF Board!Next, Board!Sample
  <2> QED BY <2>1, <2>4, <2>5
<1>2. CASE Access
  BY <1>0, <1>2 DEF Access, Board!Next, Board!Touch
<1>3. CASE Other
  BY <1>3 DEF Other
<1>4. CASE ResetDevices
  <2>1. ~Irq(which, dev') /\ which' = which /\ now' = now /\ until' = until
    BY <1>4, ResetKeeps DEF ResetDevices
  <2>2. Irq(which', dev') = FALSE
    BY <1>0, <2>1
  <2> QED BY <2>1, <2>2 DEF Board!Next, Board!Reset
<1>5. CASE Advanced
  <2>1. /\ now' > now /\ (now' < until => Irq(which, dev') = Irq(which, dev)) /\ now' \in Nat
    BY <1>5, AdvancedKeeps DEF Typed
  <2>2. which' = which /\ until' = until
    BY <1>5 DEF Advanced
  <2>3. now' < until => Irq(which', dev') = Irq(which, dev)
    BY <2>1, <2>2
  <2> QED BY <1>0, <2>1, <2>2, <2>3 DEF Board!Next, Board!Pass
<1>6. CASE PitWrite
  <2>1. which' = which /\ now' = now /\ until' = until /\ which = "pit"
    BY <1>6 DEF PitWrite
  <2>2. Irq(which', dev') = Irq(which, dev)
    BY <2>1 DEF Irq
  <2> QED BY <2>1, <2>2
<1>7. CASE PitCount
  <2>1. which' = which /\ now' = now + 1 /\ until' = until /\ which = "pit" /\ now \in Nat
    BY <1>7 DEF PitCount, Typed
  <2>2. Irq(which', dev') = Irq(which, dev) /\ now' \in Nat /\ now' > now
    BY <2>1 DEF Irq
  <2> QED BY <1>0, <2>1, <2>2 DEF Board!Next, Board!Pass
<1>8. CASE UNCHANGED vars
  BY <1>8 DEF vars
<1> QED BY <1>1, <1>2, <1>3, <1>4, <1>5, <1>6, <1>7, <1>8 DEF Next

\* The board may skip its sampling: the timers, the calendar and the serial chip's
\* counter do not interrupt, nor cease to, before the instant they promised, whatever is
\* written, reset and advanced meanwhile (ap_board_sample_interrupts and the devices'
\* next_change).  What the serial chip's receivers and transmitters do it does not promise.
THEOREM PromiseIsKept == Spec => PromiseKept
<1>1. Init => Board!Init
  <2> SUFFICES ASSUME Init PROVE Board!Init
    OBVIOUS
  <2>1. now = 0 /\ until = 0 /\ Irq(which, dev) \in BOOLEAN
    BY DEF Init, Irq, TimerIrq, CalendarIrq, SioIrq
  <2> QED BY <2>1 DEF Board!Init
<1>2. Typed /\ PromiseHolds /\ [Next]_vars => [Board!Next]_<<Irq(which, dev), now, until>>
  BY StepIsBoard
<1> QED BY <1>1, <1>2, TypedAlways, PTL DEF Spec, PromiseKept, Board!Spec

-----------------------------------------------------------------------------
(* The date through an advance.                                            *)

\* Calendars with one date and one mode.
SameDate(r, s) == /\ s.date = r.date /\ s.b = r.b /\ s.shifted = r.shifted
                  /\ s.cycles = r.cycles

\* An advance counts seconds, and does nothing else to the date.  The seconds that it
\* counts have passed, but for one at a release of the divider.
Slack(r) == IF r.held \/ r.a.divider = "reset" THEN Second ELSE 0

\* The date after an advance is some seconds later, as many as the time allows.
LEMMA AdvanceDate ==
  ASSUME NEW r \in Calendars, NEW at \in Nat, r.updated < at
  PROVE  \E s \in Calendars, n \in Nat :
           /\ SameDate(r, s) /\ SameDate(Dated(s, n), CalendarAdvance(r, at))
           /\ r.updated + Second * n + Slack(CalendarAdvance(r, at))
                <= CalendarAdvance(r, at).updated + Slack(r)
<1>0. r.updated \in Nat /\ r.a.divider \in {"running", "reset"} /\ Second \in Nat \ {0}
  BY CalendarFields, SecondAssumption DEF RegisterA
<1>1. CASE r.a.divider = "reset"
  <2> DEFINE q == [r EXCEPT !.updated = at, !.held = TRUE]
  <2>1. CalendarAdvance(r, at) = q
    BY <1>0, <1>1 DEF CalendarAdvance
  <2>2. Dated(r, 0) = r
    BY SecondRunTurns DEF Dated
  <2>3. SameDate(r, r) /\ SameDate(r, q) /\ q.updated = at /\ q.a = r.a
    BY DEF SameDate, Calendars
  <2>4. Slack(q) = Second /\ Slack(r) = Second
    BY <1>1, <2>3 DEF Slack
  <2> HIDE DEF q
  <2>5. r.updated + Second * 0 + Slack(q) <= q.updated + Slack(r)
    BY <1>0, <2>3, <2>4
  <2> QED BY <2>1, <2>2, <2>3, <2>5
<1>2. CASE r.a.divider = "running"
  <2> DEFINE v == IF at > Second \div 2 THEN at - Second \div 2 ELSE 0
             s == IF r.held THEN [r EXCEPT !.held = FALSE, !.periodic = at, !.updated = v] ELSE r
  <2>1. v \in Nat /\ v < at /\ r.updated <= v + Second
    <3>1. \A x \in Nat \ {0, 1} : x \div 2 \in Nat /\ x \div 2 > 0 /\ x \div 2 <= x
      OBVIOUS
    <3>2. Second \div 2 \in Nat /\ Second \div 2 > 0 /\ Second \div 2 <= Second
      BY <3>1, SecondAssumption
    <3>3. at > 0
      BY <1>0
    <3> QED BY <1>0, <3>2, <3>3
  <2>2. CalendarAdvance(r, at) = IF at <= s.updated THEN s ELSE Ticks(Seconds(s, at), at)
    BY <1>2 DEF CalendarAdvance, Released
  <2> HIDE DEF v
  <2>3. s \in Calendars /\ s.a = r.a /\ s.b = r.b /\ ~s.held /\ s.updated < at /\ SameDate(r, s)
        /\ r.updated <= s.updated + Slack(r)
    <3>1. CASE r.held
      <4> DEFINE x == [r EXCEPT !.held = FALSE, !.periodic = at, !.updated = v]
      <4>1. /\ x \in Calendars /\ x.a = r.a /\ x.b = r.b /\ ~x.held /\ x.updated = v
            /\ SameDate(r, x)
        BY <2>1 DEF Calendars, SameDate
      <4>2. s = x /\ Slack(r) = Second
        BY <3>1 DEF Slack
      <4> HIDE DEF x, s
      <4> QED BY <2>1, <4>1, <4>2
    <3>2. CASE ~r.held
      <4>1. Slack(r) = 0 /\ s = r
        BY <1>2, <3>2 DEF Slack
      <4> QED BY <1>0, <3>2, <4>1 DEF SameDate
    <3> QED BY <3>1, <3>2
  <2> HIDE DEF s
  <2>4. s.a.divider = "running" /\ s.updated \in Nat
    BY <1>2, <2>3, CalendarFields
  <2> DEFINE n == Periods(s.updated, at, Second)
             w == Whole(s.updated, at, Second)
             x == Dated(s, n)
             p == TickTo(s, s.periodic, at)
             t == TickKept(s, s.tick)
             e == TickFlag(s, s.periodic, at)
             q == Aside(x, w, p, t, e)
  <2>5. CalendarAdvance(s, at) = q
    BY <2>3, <2>4, AdvanceIs
  <2>6. CalendarAdvance(s, at) = CalendarAdvance(r, at)
    <3>1. ~(at <= s.updated)
      BY <2>3, CalendarFields
    <3> QED BY <2>2, <2>3, <2>4, <3>1 DEF CalendarAdvance
  <2>7. n \in Nat /\ w \in Nat /\ w = s.updated + Second * n
    BY <2>3, CalendarFields, SecondAssumption, WholePeriods
  <2> HIDE DEF n, w, p, t, e
  <2>8. x \in Calendars /\ x.a = r.a /\ ~x.held
    <3>1. x \in Calendars /\ x.a = s.a /\ x.held = s.held
      BY <2>3, <2>7, DatedType
    <3> QED BY <2>3, <3>1
  <2> HIDE DEF x
  <2>9. SameDate(x, q) /\ q.updated = w /\ q.a = r.a /\ q.held = x.held
    BY <2>8 DEF Aside, Calendars, SameDate
  <2>10. Slack(q) = 0
    BY <1>2, <2>8, <2>9 DEF Slack
  <2> HIDE DEF q
  <2>11. r.updated + Second * n + Slack(q) <= q.updated + Slack(r)
    <3>1. Second * n \in Nat /\ Slack(r) \in Nat
      BY <1>0, <2>7 DEF Slack
    <3> DEFINE z == Second * n
    <3> HIDE DEF z
    <3>2. r.updated + z <= (s.updated + z) + Slack(r)
      BY <1>0, <2>3, <2>4, <3>1 DEF z
    <3> QED BY <1>0, <2>7, <2>9, <2>10, <3>1, <3>2 DEF z
  <2>12. CalendarAdvance(r, at) = q
    BY <2>5, <2>6
  <2> HIDE DEF q
  <2> QED BY <2>3, <2>7, <2>9, <2>11, <2>12 DEF x
<1> QED BY <1>0, <1>1, <1>2

-----------------------------------------------------------------------------
(* Reading a date and writing it back.                                     *)

\* What is written in a format reads back in it, in decimal and in binary.
LEMMA FormatsInvert ==
  ASSUME NEW b, NEW v \in 0 .. 99
  PROVE  ToFormat(b, v) \in Nat /\ FromFormat(b, ToFormat(b, v)) = v
<1>1. CASE b.binary
  BY <1>1 DEF ToFormat, FromFormat
<1>2. CASE ~b.binary
  <2> DEFINE q == v \div 10
             r == v % 10
             x == 16 * q + r
  <2>1. q \in Nat /\ r \in 0 .. 9 /\ v = 10 * q + r
    OBVIOUS
  <2> HIDE DEF q, r
  <2>0. x \in 0 .. 255
    BY <2>1
  <2>2. x \in Nat /\ x \div 16 = q /\ x % 16 = r
    BY <2>1
  <2>3. ToFormat(b, v) = (q * 16 + r) % 256
    BY <1>2 DEF ToFormat, q, r
  <2>4. q * 16 + r = x
    BY <2>1
  <2> HIDE DEF x
  <2>5. ToFormat(b, v) = x
    BY <2>0, <2>3, <2>4
  <2>6. FromFormat(b, x) = (x \div 16) * 10 + (x % 16)
    BY <1>2 DEF FromFormat
  <2>7. FromFormat(b, x) = v
    BY <2>1, <2>2, <2>6
  <2> QED BY <2>2, <2>5, <2>7
<1> QED BY <1>1, <1>2

\* Twelve hours and a half of the day are an hour.
LEMMA HoursInvert ==
  ASSUME NEW b, NEW h \in 0 .. 23
  PROVE  HoursFromByte(b, HoursByte(b, h)) = h
<1>1. CASE b.full
  BY <1>1, FormatsInvert DEF HoursByte, HoursFromByte
<1>2. CASE ~b.full
  <2> DEFINE x == IF h % 12 = 0 THEN 12 ELSE h % 12
             f == ToFormat(b, x)
             o == IF h >= 12 THEN 128 ELSE 0
  <2>1. x \in 1 .. 12 /\ (IF x = 12 THEN 0 ELSE x) + (IF h >= 12 THEN 12 ELSE 0) = h
    OBVIOUS
  <2>2. o \in {0, 128} /\ (o = 128 <=> h >= 12)
    OBVIOUS
  <2>3. HoursByte(b, h) = f + o
    BY <1>2 DEF HoursByte
  <2> HIDE DEF x, o
  <2>4. f \in 0 .. 18
    <3>1. CASE b.binary
      BY <2>1, <3>1 DEF ToFormat
    <3>2. CASE ~b.binary
      <4>1. f = ((x \div 10) * 16 + (x % 10)) % 256
        BY <3>2 DEF ToFormat
      <4>2. \A z \in 1 .. 12 : ((z \div 10) * 16 + (z % 10)) % 256 \in 0 .. 18
        OBVIOUS
      <4> QED BY <2>1, <4>1, <4>2
    <3> QED BY <3>1, <3>2
  <2>5. FromFormat(b, f) = x
    BY <2>1, FormatsInvert
  <2> HIDE DEF f
  <2> DEFINE v == f + o
  <2>6. v % 128 = f /\ (v >= 128 <=> h >= 12)
    BY <2>2, <2>4
  <2> HIDE DEF v
  <2>7. HoursFromByte(b, v) = (IF x = 12 THEN 0 ELSE x) + (IF v >= 128 THEN 12 ELSE 0)
    BY <1>2, <2>5, <2>6 DEF HoursFromByte
  <2>8. HoursFromByte(b, v) = h
    BY <2>1, <2>6, <2>7
  <2> QED BY <2>3, <2>8 DEF v
<1> QED BY <1>1, <1>2

\* And so does the whole date, of a day of 24 hours.
LEMMA ReadsBack ==
  ASSUME NEW r \in Calendars, Legible(r.date)
  PROVE  WriteDate(r, ReadDate(r)).date = r.date
<1> DEFINE d == r.date
           b == r.b
           w == [hour |-> HoursFromByte(b, HoursByte(b, d.hour)),
                 minute |-> FromFormat(b, ToFormat(b, d.minute)),
                 second |-> FromFormat(b, ToFormat(b, d.second)),
                 weekday |-> FromFormat(b, ToFormat(b, d.weekday)),
                 day |-> FromFormat(b, ToFormat(b, d.day)),
                 month |-> FromFormat(b, ToFormat(b, d.month)),
                 year |-> (d.year \div 100) * 100 + FromFormat(b, ToFormat(b, d.year % 100))]
<1>1. d \in Dates
  BY CalendarFields
<1>2. d.hour \in 0 .. 23 /\ d.minute \in 0 .. 99 /\ d.second \in 0 .. 99
      /\ d.weekday \in 0 .. 99 /\ d.day \in 0 .. 99 /\ d.month \in 0 .. 99 /\ d.year \in Nat
  BY <1>1 DEF Dates, Legible
<1>3. WriteDate(r, ReadDate(r)).date = w
  BY DEF WriteDate, DateFrom, ReadDate, Calendars
<1>4. d.year % 100 \in 0 .. 99 /\ (d.year \div 100) * 100 + (d.year % 100) = d.year
  <2>1. \A y \in Nat : y % 100 \in 0 .. 99 /\ (y \div 100) * 100 + (y % 100) = y
    OBVIOUS
  <2> QED BY <1>2, <2>1
<1>5. HoursFromByte(b, HoursByte(b, d.hour)) = d.hour
  BY <1>2, HoursInvert
<1> HIDE DEF b
<1>6. w = [hour |-> d.hour, minute |-> d.minute, second |-> d.second, weekday |-> d.weekday,
           day |-> d.day, month |-> d.month, year |-> d.year]
  BY <1>2, <1>4, <1>5, FormatsInvert
<1>7. [hour |-> d.hour, minute |-> d.minute, second |-> d.second, weekday |-> d.weekday,
       day |-> d.day, month |-> d.month, year |-> d.year] = d
  BY <1>1 DEF Dates
<1> QED BY <1>3, <1>6, <1>7

\* The carries leave nothing that two digits cannot show.
LEMMA CarriedLegible ==
  ASSUME NEW d \in Dates, Legible(d)
  PROVE  Legible(Carried(d))
<1> DEFINE s == [d EXCEPT !.second = @ + 1]
           n == IF s.second >= Sixty THEN [s EXCEPT !.second = 0, !.minute = @ + 1] ELSE s
           h == IF n.minute >= Sixty THEN [n EXCEPT !.minute = 0, !.hour = @ + 1] ELSE n
           y == IF h.hour >= 24
                THEN [h EXCEPT !.hour = 0, !.day = @ + 1, !.weekday = (@ % 7) + 1] ELSE h
           m == IF y.day > DaysInMonth(y.year, y.month)
                THEN [y EXCEPT !.day = 1, !.month = @ + 1] ELSE y
           z == IF m.month > 12 THEN [m EXCEPT !.month = 1, !.year = @ + 1] ELSE m
           F == {"year", "month", "day", "weekday", "hour", "minute", "second"}
<1>0. /\ Sixty \in 1 .. 60 /\ DOMAIN d = F
      /\ d.hour \in 0 .. 23 /\ d.minute \in 0 .. 99 /\ d.second \in 0 .. 99
      /\ d.weekday \in 0 .. 99 /\ d.day \in 0 .. 99 /\ d.month \in 0 .. 99
  BY SixtyAssumption DEF Dates, Legible
<1>1. /\ DOMAIN s = F /\ s.hour \in 0 .. 23 /\ s.minute \in 0 .. 99 /\ s.second \in 0 .. 100
      /\ s.weekday \in 0 .. 99 /\ s.day \in 0 .. 99 /\ s.month \in 0 .. 99
  BY <1>0
<1> HIDE DEF s
<1>2. /\ DOMAIN n = F /\ n.hour \in 0 .. 23 /\ n.minute \in 0 .. 100 /\ n.second \in 0 .. 99
      /\ n.weekday \in 0 .. 99 /\ n.day \in 0 .. 99 /\ n.month \in 0 .. 99
  <2>1. CASE s.second >= Sixty
    <3>1. n = [s EXCEPT !.second = 0, !.minute = @ + 1]
      BY <2>1
    <3> HIDE DEF n
    <3> QED BY <1>1, <3>1
  <2>2. CASE ~(s.second >= Sixty)
    <3>1. n = s
      BY <2>2
    <3> HIDE DEF n
    <3> QED BY <1>0, <1>1, <2>2, <3>1
  <2> QED BY <2>1, <2>2
<1> HIDE DEF n
<1>3. /\ DOMAIN h = F /\ h.hour \in 0 .. 24 /\ h.minute \in 0 .. 99 /\ h.second \in 0 .. 99
      /\ h.weekday \in 0 .. 99 /\ h.day \in 0 .. 99 /\ h.month \in 0 .. 99
  <2>1. CASE n.minute >= Sixty
    <3>1. h = [n EXCEPT !.minute = 0, !.hour = @ + 1]
      BY <2>1
    <3> HIDE DEF h
    <3> QED BY <1>2, <3>1
  <2>2. CASE ~(n.minute >= Sixty)
    <3>1. h = n
      BY <2>2
    <3> HIDE DEF h
    <3> QED BY <1>0, <1>2, <2>2, <3>1
  <2> QED BY <2>1, <2>2
<1> HIDE DEF h
<1>4. /\ DOMAIN y = F /\ y.hour \in 0 .. 23 /\ y.minute \in 0 .. 99 /\ y.second \in 0 .. 99
      /\ y.weekday \in 0 .. 99 /\ y.day \in 0 .. 100 /\ y.month \in 0 .. 99
  <2>1. CASE h.hour >= 24
    <3>1. y = [h EXCEPT !.hour = 0, !.day = @ + 1, !.weekday = (@ % 7) + 1]
      BY <2>1
    <3> HIDE DEF y
    <3>2. h.weekday % 7 \in 0 .. 6
      BY <1>3
    <3> QED BY <1>3, <3>1, <3>2
  <2>2. CASE ~(h.hour >= 24)
    <3>1. y = h
      BY <2>2
    <3> HIDE DEF y
    <3> QED BY <1>3, <2>2, <3>1
  <2> QED BY <2>1, <2>2
<1> HIDE DEF y
<1>5. /\ DOMAIN m = F /\ m.hour \in 0 .. 23 /\ m.minute \in 0 .. 99 /\ m.second \in 0 .. 99
      /\ m.weekday \in 0 .. 99 /\ m.day \in 0 .. 99 /\ m.month \in 0 .. 100
  <2>0. DaysInMonth(y.year, y.month) \in 28 .. 31
    BY DEF DaysInMonth
  <2>1. CASE y.day > DaysInMonth(y.year, y.month)
    <3>1. m = [y EXCEPT !.day = 1, !.month = @ + 1]
      BY <2>1
    <3> HIDE DEF m
    <3> QED BY <1>4, <3>1
  <2>2. CASE ~(y.day > DaysInMonth(y.year, y.month))
    <3>1. m = y
      BY <2>2
    <3> HIDE DEF m
    <3> QED BY <1>4, <2>0, <2>2, <3>1
  <2> QED BY <2>1, <2>2
<1> HIDE DEF m
<1>6. /\ z.hour \in 0 .. 23 /\ z.minute \in 0 .. 99 /\ z.second \in 0 .. 99
      /\ z.weekday \in 0 .. 99 /\ z.day \in 0 .. 99 /\ z.month \in 0 .. 99
  <2>1. CASE m.month > 12
    <3>1. z = [m EXCEPT !.month = 1, !.year = @ + 1]
      BY <2>1
    <3> HIDE DEF z
    <3> QED BY <1>5, <3>1
  <2>2. CASE ~(m.month > 12)
    <3>1. z = m
      BY <2>2
    <3> HIDE DEF z
    <3> QED BY <1>5, <2>2, <3>1
  <2> QED BY <2>1, <2>2
<1>7. Carried(d) = z
  BY DEF Carried, z, m, y, h, n, s
<1> HIDE DEF z
<1> QED BY <1>6, <1>7 DEF Legible

\* Nor does an update, the shifts of daylight saving included.
LEMMA UpdateLegible ==
  ASSUME NEW r \in Calendars, Legible(r.date)
  PROVE  Legible(UpdateCycle(r).date)
<1> DEFINE c == Carried(r.date)
           s == [r EXCEPT !.date = c]
<1>1. UpdateCycle(r).date = DaylightSaving(s).date
  BY UpdateIs, CalendarFields
<1>2. c \in Dates /\ Legible(c)
  BY CalendarFields, CarriedLegible, CarriedType
<1> HIDE DEF c
<1>3. s \in Calendars /\ s.date = c
  BY <1>2 DEF Calendars
<1> HIDE DEF s
<1>4. DaylightSaving(s).date \in {c, [c EXCEPT !.hour = 3], [c EXCEPT !.hour = 1]}
  BY <1>2, <1>3 DEF DaylightSaving, Calendars, Dates
<1>5. Legible([c EXCEPT !.hour = 3]) /\ Legible([c EXCEPT !.hour = 1])
  BY <1>2 DEF Legible, Dates
<1> QED BY <1>1, <1>2, <1>4, <1>5

\* So does an advance.
LEMMA AdvanceLegible ==
  ASSUME NEW r \in Calendars, NEW at \in Nat, r.updated < at, Legible(r.date)
  PROVE  Legible(CalendarAdvance(r, at).date)
<1>1. PICK s \in Calendars, n \in Nat :
        SameDate(r, s) /\ SameDate(Dated(s, n), CalendarAdvance(r, at))
  BY AdvanceDate
<1> DEFINE g == SecondRun(s)
           T == {k \in Nat : Legible(g[k].date)}
<1>2. 0 \in T
  BY <1>1, SecondRunTurns DEF SameDate
<1>3. ASSUME NEW k \in Nat, k \in T PROVE k + 1 \in T
  <2>1. g[k] \in Calendars /\ g[k + 1] = UpdateCycle(g[k]) /\ Legible(g[k].date)
    BY <1>3, SecondRunTurns
  <2> HIDE DEF g
  <2>2. Legible(g[k + 1].date)
    BY <2>1, UpdateLegible
  <2> QED BY <2>2
<1>4. \A k \in Nat : k \in T
  <2> HIDE DEF T
  <2> QED BY <1>2, <1>3, NatSetInduction
<1>5. Legible(Dated(s, n).date)
  BY <1>1, <1>4 DEF Dated, SameDate
<1> QED BY <1>1, <1>5 DEF SameDate

\* The date can be shown, and the format is one the host has chosen.
Shown ==
    which = "calendar" =>
      /\ Legible(dev.date)
      /\ \E b \in SetsB \cup {BatteryB} : dev.b.binary = b.binary /\ dev.b.full = b.full

\* A date is taken by the two bits of the format alone.
LEMMA DateByFormat ==
  ASSUME NEW b, NEW c, NEW d, b.binary = c.binary, b.full = c.full
  PROVE  DateFrom(b, d) = DateFrom(c, d)
BY DEF DateFrom, HoursFromByte, FromFormat

\* The battery's can be shown, ...
LEMMA ShownInit == Init => Shown
<1> SUFFICES ASSUME Init, which = "calendar"
             PROVE  /\ Legible(dev.date)
                    /\ \E b \in SetsB \cup {BatteryB} : dev.b.binary = b.binary /\ dev.b.full = b.full
  BY DEF Shown
<1>1. PICK s \in StartDates : dev = CalendarReset(s)
  BY DEF Init
<1>2. Legible(s)
  BY WrittenAssumption
<1>3. dev.date = s /\ dev.b = BatteryB
  BY <1>1 DEF CalendarReset
<1> QED BY <1>2, <1>3

\* ... and whatever is written, in whichever format, does.
LEMMA ShownStep ==
  ASSUME Typed, Shown, [Next]_vars
  PROVE  Shown'
<1> SUFFICES ASSUME which' = "calendar"
             PROVE  /\ Legible(dev'.date)
                    /\ \E b \in SetsB \cup {BatteryB} : dev'.b.binary = b.binary /\ dev'.b.full = b.full
  BY DEF Shown
<1>0. which' = which /\ which = "calendar"
  BY DEF Next, Sample, Access, Other, ResetDevices, Advanced, PitWrite, PitCount, vars
<1>1. PICK b \in SetsB \cup {BatteryB} : dev.b.binary = b.binary /\ dev.b.full = b.full
  BY <1>0 DEF Shown
<1>2. Legible(dev.date) /\ dev \in Calendars
  BY <1>0 DEF Shown, Typed
<1>3. CASE Access
  <2> DEFINE r == dev
             q == dev'
  <2>1. /\ RatesA \in SUBSET RegisterA /\ SetsB \in SUBSET RegisterB
        /\ Alarms \in SUBSET ClockTimes /\ WrittenDates \in SUBSET DateRegisters
        /\ r \in Calendars /\ q \in CalendarAccess(r, RatesA, SetsB, Alarms, WrittenDates)
    BY <1>0, <1>2, <1>3, AccessesOf, WrittenFacts
  <2> HIDE DEF r, q
  <2>2. OneWritten(r, q, SetsB, WrittenDates)
    BY <2>1, CalendarAccessType
  <2>3. /\ Legible(r.date) /\ r.b.binary = b.binary /\ r.b.full = b.full
    BY <1>1, <1>2 DEF r
  <2>4. /\ Legible(q.date)
        /\ \E c \in SetsB \cup {BatteryB} : q.b.binary = c.binary /\ q.b.full = c.full
    <3>1. CASE q.date = r.date /\ q.b = r.b
      BY <2>3, <3>1
    <3>2. CASE q.date = r.date /\ \E c \in SetsB : \E s \in SUBSET Flags : q.b = [c EXCEPT !.enabled = s]
      <4>1. PICK c \in SetsB : \E s \in SUBSET Flags : q.b = [c EXCEPT !.enabled = s]
        BY <3>2
      <4>2. c \in RegisterB
        BY <2>1
      <4>3. q.b.binary = c.binary /\ q.b.full = c.full
        BY <4>1, <4>2 DEF RegisterB
      <4> QED BY <2>3, <3>2, <4>3
    <3>3. CASE q.b = r.b /\ \E d \in WrittenDates : q.date = WriteDate(r, d).date
      <4>1. PICK d \in WrittenDates : q.date = WriteDate(r, d).date
        BY <3>3
      <4>2. DateFrom(r.b, d) = DateFrom(b, d)
        BY <2>3, DateByFormat
      <4>3. Legible(DateFrom(r.b, d))
        BY <4>2, WrittenAssumption
      <4>4. Legible(WriteDate(r, d).date)
        BY <2>1, <4>3 DEF WriteDate, DateFrom, Calendars, Legible
      <4> QED BY <2>3, <3>3, <4>1, <4>4
    <3> QED BY <2>2, <3>1, <3>2, <3>3 DEF OneWritten
  <2> QED BY <2>4 DEF q
<1>4. CASE Advanced
  <2>1. PICK s \in 1 .. MaxStep : now' = now + s /\ dev' = Advance(which, dev, now + s)
    BY <1>4 DEF Advanced
  <2> DEFINE at == now + s
             x == CalendarAdvance(dev, at)
  <2>2. at \in Nat /\ dev.updated < at
    BY <1>0, <1>2, DeviceFacts, CalendarFields DEF Typed
  <2>3. dev' = x
    BY <1>0, <2>1 DEF Advance
  <2> HIDE DEF at
  <2>4. x \in Calendars /\ x.b = dev.b
    BY <1>2, <2>2, CalendarAdvanceType
  <2>5. Legible(x.date)
    BY <1>2, <2>2, AdvanceLegible
  <2> HIDE DEF x
  <2> QED BY <1>1, <2>3, <2>4, <2>5
<1>5. CASE UNCHANGED vars \/ Sample \/ Other
  <2>1. dev' = dev
    BY <1>5 DEF vars, Sample, Other
  <2> QED BY <1>1, <1>2, <2>1
<1>6. ~ResetDevices /\ ~PitWrite /\ ~PitCount
  BY <1>0 DEF ResetDevices, PitWrite, PitCount
<1> QED BY <1>3, <1>4, <1>5, <1>6 DEF Next

\* What the date registers read, written back, leaves the date as it was, in every format
\* that software sets and after any seconds (to_format, hours_byte and hours_from_byte),
\* if what was written could be shown by the registers in the format of then.
THEOREM DatesReadBack == Spec => []ReadBack
<1>1. Typed /\ Shown => ReadBack
  BY ReadsBack DEF Typed, Shown, ReadBack
<1>2. Typed /\ Shown /\ [Next]_vars => Shown'
  BY ShownStep
<1> QED BY <1>1, <1>2, ShownInit, TypedAlways, PTL DEF Spec

-----------------------------------------------------------------------------
(* The ring controller's counter.                                          *)

\* What is left of the count, of which zero is the largest.
Remains(c) == IF c.counter = 0 THEN Word ELSE c.counter

\* The clock k of the wave of n: where it stands in its period, ...
At(n, k) == (k - 1) % n

\* ... and what the counter holds there.
DrawnOnce(c, n, k) ==
    /\ c.expired <=> k >= n + 1
    /\ ~c.expired => Remains(c) = n - (k - 1)
    /\ c.mode = 0 => c.out = c.expired
    /\ c.mode = 4 => c.out = (k # n + 1)
DrawnRate(c, n, k) == Remains(c) = n - At(n, k) /\ c.out = (Remains(c) # 1)
DrawnEven(c, n, k) ==
    LET p == At(n, k) IN
    /\ c.out => 2 * p < n /\ Remains(c) = n - 2 * p
    /\ ~c.out => 2 * p >= n /\ Remains(c) = 2 * n - 2 * p
DrawnOdd(c, n, k) ==
    LET p == At(n, k) IN
    /\ c.out => 2 * p < n + 1 /\ c.counter = n - 1 - 2 * p
    /\ ~c.out => 2 * p >= n + 1 /\ c.counter = 2 * n - 2 * p
Drawn(c, n, k) ==
    /\ c.mode \in {0, 4} => DrawnOnce(c, n, k)
    /\ c.mode = 2 => DrawnRate(c, n, k)
    /\ c.mode = 3 /\ ~Odd(c) => DrawnEven(c, n, k)
    /\ c.mode = 3 /\ Odd(c) => DrawnOdd(c, n, k)

\* A counter that waits for a count, or has been given one of n and k clocks since.
Resting(c) ==
    /\ c.mode \in {1, 5} => ~c.load /\ ~c.counting
    /\ c.mode = 0 /\ c.load => ~c.out
CountOf(c) == IF c.latch = 0 THEN Word ELSE c.latch
Given(c, n, k) ==
    /\ n = CountOf(c)
    /\ c.load => ~c.counting
    /\ ~c.counting => k = 0
    /\ c.counting => k >= 1 /\ Drawn(c, n, k)
Counter ==
    which = "pit" =>
      /\ dev \in PitCounters /\ Resting(dev)
      /\ origin.n \in Nat /\ origin.k \in Nat /\ origin = [n |-> origin.n, k |-> origin.k]
      /\ origin.n >= 2 => Given(dev, origin.n, origin.k)

\* A period's clocks follow one another.
LEMMA Around ==
  ASSUME NEW n \in Nat \ {0}, NEW k \in Nat \ {0}
  PROVE  /\ At(n, k) \in 0 .. n - 1
         /\ At(n, k + 1) = IF At(n, k) = n - 1 THEN 0 ELSE At(n, k) + 1
<1> DEFINE p == (k - 1) % n
           q == (k - 1) \div n
<1>1. p \in 0 .. n - 1 /\ q \in Int /\ k - 1 = n * q + p
  <2> DEFINE x == k - 1
  <2>1. x \in Int
    OBVIOUS
  <2> HIDE DEF x
  <2>2. x \div n \in Int /\ x % n \in 0 .. n - 1 /\ x = n * (x \div n) + (x % n)
    BY <2>1, Division
  <2> QED BY <2>2 DEF x
<1>2. At(n, k) = p /\ At(n, k + 1) = k % n
  BY DEF At
<1>3. CASE p = n - 1
  <2>1. k = n * (q + 1) + 0 /\ q + 1 \in Int /\ 0 \in 0 .. n - 1
    BY <1>1, <1>3
  <2>2. (n * (q + 1) + 0) % n = 0
    <3> HIDE DEF p, q
    <3> QED BY <2>1, OneQuotient
  <2> QED BY <1>1, <1>2, <1>3, <2>1, <2>2
<1>4. CASE p # n - 1
  <2>1. k = n * q + (p + 1) /\ p + 1 \in 0 .. n - 1
    BY <1>1, <1>4
  <2>2. (n * q + (p + 1)) % n = p + 1
    <3> HIDE DEF p, q
    <3> QED BY <1>1, <2>1, OneQuotient
  <2> QED BY <1>1, <1>2, <1>4, <2>1, <2>2
<1> QED BY <1>3, <1>4

\* What a counter's operations make of its fields.
LEMMA TransferIs ==
  ASSUME NEW c \in PitCounters
  PROVE  /\ Transfer(c) \in PitCounters
         /\ Transfer(c).counter = c.latch /\ Transfer(c).latch = c.latch
         /\ Transfer(c).mode = c.mode /\ Transfer(c).out = c.out
         /\ Transfer(c).counting /\ ~Transfer(c).load /\ ~Transfer(c).expired
BY DEF Transfer, PitCounters

\* Counting down takes from what remains.
LEMMA DownIs ==
  ASSUME NEW c \in PitCounters, NEW n \in {1, 2}
  PROVE  /\ Down(c, n) \in PitCounters /\ Down(c, n) = [c EXCEPT !.counter = Down(c, n).counter]
         /\ Down(c, n).counter \in 0 .. Word - 1
         /\ Remains(c) >= n => Down(c, n).counter = Remains(c) - n
<1> DEFINE x == c.counter
           y == (x - n + Word) % Word
<1>1. x \in 0 .. Word - 1 /\ Word \in Nat /\ Word >= 4
  BY WordFacts DEF PitCounters
<1>2. y \in 0 .. Word - 1
  BY <1>1
<1>3. Down(c, n) = [c EXCEPT !.counter = y]
  BY DEF Down
<1>4. CASE x >= n
  <2>1. x - n + Word = Word * 1 + (x - n) /\ x - n \in 0 .. Word - 1
    BY <1>1, <1>4
  <2>2. (Word * 1 + (x - n)) % Word = x - n
    <3> HIDE DEF x
    <3> QED BY <1>1, <2>1, OneQuotient
  <2>3. Remains(c) = x
    BY <1>1, <1>4 DEF Remains
  <2>4. y = Remains(c) - n
    BY <2>1, <2>2, <2>3
  <2> QED BY <1>2, <1>3, <2>4 DEF PitCounters
<1>5. CASE x < n
  <2>1. x - n + Word = Word * 0 + (x - n + Word) /\ x - n + Word \in 0 .. Word - 1
    BY <1>1, <1>5
  <2>2. (Word * 0 + (x - n + Word)) % Word = x - n + Word
    <3> HIDE DEF x
    <3> DEFINE z == x - n + Word
    <3>1. z \in 0 .. Word - 1 /\ Word \in Nat \ {0} /\ 0 \in Int
      BY <1>1, <2>1
    <3> HIDE DEF z
    <3>2. (Word * 0 + z) % Word = z
      BY <3>1, OneQuotient
    <3> QED BY <3>2 DEF z
  <2>3. Remains(c) >= n => Remains(c) = Word /\ x = 0
    BY <1>1, <1>5 DEF Remains
  <2>4. Remains(c) >= n => y = Remains(c) - n
    BY <1>1, <2>1, <2>2, <2>3
  <2> QED BY <1>2, <1>3, <2>4 DEF PitCounters
<1> QED BY <1>1, <1>4, <1>5

\* A square wave's odd count is loaded one short.
LEMMA LoadSquareIs ==
  ASSUME NEW c \in PitCounters
  PROVE  /\ LoadSquare(c) \in PitCounters
         /\ LoadSquare(c).counter = IF Odd(c) THEN c.latch - 1 ELSE c.latch
         /\ LoadSquare(c).latch = c.latch /\ LoadSquare(c).mode = c.mode
         /\ LoadSquare(c).counting /\ ~LoadSquare(c).load
<1> DEFINE t == Transfer(c)
<1>1. /\ t \in PitCounters /\ t.counter = c.latch /\ t.latch = c.latch
      /\ t.mode = c.mode /\ t.counting /\ ~t.load
  BY TransferIs
<1> HIDE DEF t
<1>2. LoadSquare(c) = IF Odd(c) THEN Down(t, 1) ELSE t
  BY DEF LoadSquare, t
<1>3. CASE Odd(c)
  <2>1. c.latch # 0
    BY <1>3 DEF Odd
  <2>2. Remains(t) = c.latch /\ Remains(t) >= 1
    BY <1>1, <2>1 DEF Remains, PitCounters
  <2> DEFINE d == Down(t, 1)
  <2>3. d \in PitCounters /\ d = [t EXCEPT !.counter = d.counter] /\ d.counter = c.latch - 1
    BY <1>1, <2>2, DownIs
  <2> HIDE DEF d
  <2>4. d.latch = t.latch /\ d.mode = t.mode /\ d.counting = t.counting /\ d.load = t.load
    BY <1>1, <2>3 DEF PitCounters
  <2> QED BY <1>1, <1>2, <1>3, <2>3, <2>4 DEF d
<1> QED BY <1>1, <1>2, <1>3

\* What a clock leaves of a counter.
KeepsMode(c, d) ==
    d \in PitCounters /\ d.mode = c.mode /\ d.latch = c.latch /\ ~d.load /\ d.counting = c.counting

\* Whatever is left of it, a counter holds as much.
LEMMA RemainsIs ==
  ASSUME NEW c \in PitCounters
  PROVE  /\ Remains(c) \in 1 .. Word /\ c.counter \in 0 .. Word - 1
         /\ c.counter = (IF Remains(c) = Word THEN 0 ELSE Remains(c))
         /\ CountOf(c) \in 1 .. Word /\ c.latch = (IF CountOf(c) = Word THEN 0 ELSE CountOf(c))
         /\ (Odd(c) <=> CountOf(c) % 2 = 1)
BY WordFacts DEF Remains, CountOf, Odd, PitCounters

\* Mode 2: low for the last clock of each period.
LEMMA RateDraws ==
  ASSUME NEW c \in PitCounters, c.mode = 2, ~c.load, c.counting, NEW k \in Nat \ {0},
         CountOf(c) >= 2, DrawnRate(c, CountOf(c), k)
  PROVE  DrawnRate(PitClock(c), CountOf(c), k + 1)
<1> DEFINE n == CountOf(c)
           d == Down(c, 1)
           t == Transfer(c)
           e == PitClock(c)
<1>1. /\ Remains(c) \in 1 .. Word /\ c.counter = (IF Remains(c) = Word THEN 0 ELSE Remains(c))
      /\ n \in 1 .. Word /\ c.latch = (IF n = Word THEN 0 ELSE n) /\ Word \in Nat /\ Word >= 4
  BY RemainsIs, WordFacts
<1>2. /\ At(n, k) \in 0 .. n - 1
      /\ At(n, k + 1) = IF At(n, k) = n - 1 THEN 0 ELSE At(n, k) + 1
  BY <1>1, Around
<1>3. Remains(c) = n - At(n, k) /\ c.out = (Remains(c) # 1)
  BY DEF DrawnRate
<1>4. e = RateGenerator(c)
  BY DEF PitClock
<1>5. CASE Remains(c) = 1
  <2>1. c.counter = 1
    BY <1>1, <1>5
  <2>2. e = [t EXCEPT !.out = TRUE]
    BY <1>4, <2>1 DEF RateGenerator
  <2>3. e.counter = c.latch /\ e.out = TRUE
    <3>1. t \in PitCounters /\ t.counter = c.latch
      BY TransferIs
    <3> HIDE DEF t
    <3> QED BY <2>2, <3>1 DEF PitCounters
  <2>4. Remains(e) = n
    BY <1>1, <2>3 DEF Remains
  <2>5. At(n, k + 1) = 0
    BY <1>1, <1>2, <1>3, <1>5
  <2>6. Remains(e) = n - At(n, k + 1) /\ Remains(e) # 1
    BY <1>1, <2>4, <2>5
  <2>7. e.out = (Remains(e) # 1)
    BY <2>3, <2>6
  <2> HIDE DEF e, n
  <2> QED BY <2>6, <2>7 DEF DrawnRate, n, e
<1>6. CASE Remains(c) # 1
  <2>1. c.counter # 1
    BY <1>1, <1>6
  <2>2. e = [d EXCEPT !.out = @ /\ d.counter # 1]
    BY <1>4, <2>1 DEF RateGenerator
  <2>3. d.counter = Remains(c) - 1 /\ d \in PitCounters /\ d = [c EXCEPT !.counter = d.counter]
    BY <1>1, DownIs
  <2>4. e.counter = Remains(c) - 1 /\ e.out = (e.counter # 1)
    <3>1. c.out = TRUE
      BY <1>3, <1>6
    <3> HIDE DEF d
    <3>2. d.out = TRUE
      BY <2>3, <3>1 DEF PitCounters
    <3>3. e.counter = d.counter /\ e.out = (d.counter # 1)
      BY <2>2, <2>3, <3>2 DEF PitCounters
    <3> QED BY <2>3, <3>3
  <2>5. Remains(e) = Remains(c) - 1
    BY <1>1, <1>6, <2>4 DEF Remains
  <2>6. At(n, k + 1) = At(n, k) + 1
    BY <1>1, <1>2, <1>3, <1>6
  <2>7. Remains(e) = e.counter
    BY <1>1, <1>6, <2>4, <2>5
  <2> HIDE DEF e, n
  <2> QED BY <1>1, <1>2, <1>3, <2>4, <2>5, <2>6, <2>7 DEF DrawnRate, n, e
<1> QED BY <1>5, <1>6

\* Modes 0 and 4: the pin moves as the count expires, and a strobe lasts a clock.
LEMMA OnceDraws ==
  ASSUME NEW c \in PitCounters, c.mode \in {0, 4}, ~c.load, c.counting, NEW k \in Nat \ {0},
         CountOf(c) >= 2, DrawnOnce(c, CountOf(c), k)
  PROVE  DrawnOnce(PitClock(c), CountOf(c), k + 1)
<1> DEFINE n == CountOf(c)
           p == IF c.mode = 4 THEN [c EXCEPT !.out = TRUE] ELSE c
           d == Down(p, 1)
           e == PitClock(c)
<1>1. /\ Remains(c) \in 1 .. Word /\ c.counter = (IF Remains(c) = Word THEN 0 ELSE Remains(c))
      /\ n \in 1 .. Word /\ Word \in Nat /\ Word >= 4
  BY RemainsIs, WordFacts
<1>2. /\ c.expired \in BOOLEAN /\ c.expired <=> k >= n + 1
      /\ ~c.expired => Remains(c) = n - (k - 1)
      /\ c.mode = 0 => c.out = c.expired
  BY DEF DrawnOnce, PitCounters
<1>3. /\ p \in PitCounters /\ Remains(p) = Remains(c) /\ p.expired = c.expired
      /\ p.mode = c.mode /\ ~p.load /\ p.counting
      /\ p.out = IF c.mode = 4 THEN TRUE ELSE c.out
  BY DEF PitCounters, Remains
<1>4. e = Expiring(p, p.mode = 0)
  BY DEF PitClock, PitCounters
<1> HIDE DEF p, e
<1>5. d \in PitCounters /\ d = [p EXCEPT !.counter = d.counter] /\ d.counter = Remains(c) - 1
  BY <1>1, <1>3, DownIs
<1>6. e = IF d.counter = 0 /\ ~d.expired THEN [d EXCEPT !.expired = TRUE, !.out = (p.mode = 0)] ELSE d
  BY <1>4 DEF Expiring
<1> HIDE DEF d
<1>7. d.mode = c.mode /\ d.expired = c.expired /\ d.out = p.out
  BY <1>3, <1>5 DEF PitCounters
<1>8. CASE c.expired
  <2>1. e = d
    BY <1>6, <1>7, <1>8
  <2>2. k + 1 >= n + 1 /\ k + 1 # n + 1
    BY <1>1, <1>2, <1>8
  <2>3. c.mode = 0 => e.out = e.expired
    BY <2>1, <1>2, <1>3, <1>7, <1>8
  <2>4. c.mode = 4 => e.out = TRUE
    BY <2>1, <1>3, <1>7
  <2>5. e.expired /\ e.mode = c.mode
    BY <2>1, <1>7, <1>8
  <2> HIDE DEF n
  <2> QED BY <2>2, <2>3, <2>4, <2>5 DEF DrawnOnce, n, e
<1>9. CASE ~c.expired /\ d.counter # 0
  <2>1. e = d
    BY <1>6, <1>9
  <2>2. Remains(c) = n - (k - 1) /\ Remains(c) # 1
    BY <1>1, <1>2, <1>5, <1>9
  <2>3. ~ (k + 1 >= n + 1) /\ k + 1 # n + 1
    BY <1>1, <2>2
  <2>4. Remains(e) = n - ((k + 1) - 1)
    BY <1>1, <1>5, <1>9, <2>1, <2>2 DEF Remains
  <2>5. ~e.expired /\ e.mode = c.mode
    BY <2>1, <1>7, <1>9
  <2>7. c.mode = 0 => e.out = e.expired
    BY <2>1, <1>2, <1>3, <1>7
  <2>6. c.mode = 4 => e.out = TRUE
    BY <2>1, <1>3, <1>7
  <2> HIDE DEF n
  <2> QED BY <2>3, <2>4, <2>5, <2>6, <2>7 DEF DrawnOnce, n, e
<1>10. CASE ~c.expired /\ d.counter = 0
  <2>1. e = [d EXCEPT !.expired = TRUE, !.out = (p.mode = 0)]
    BY <1>6, <1>7, <1>10
  <2>2. k = n
    BY <1>1, <1>2, <1>5, <1>10
  <2>3. e.expired = TRUE /\ e.out = (c.mode = 0) /\ e.mode = c.mode
    BY <2>1, <1>3, <1>5, <1>7 DEF PitCounters
  <2> HIDE DEF n
  <2>4. k + 1 >= n + 1 /\ k + 1 = n + 1
    BY <2>2
  <2>5. c.mode = 0 => e.out = e.expired
    <3>1. c.mode = 0 => e.out = TRUE
      BY <2>3
    <3> QED BY <2>3, <3>1
  <2>6. c.mode = 4 => e.out = FALSE
    <3>1. c.mode = 4 => c.mode # 0
      OBVIOUS
    <3>2. c.mode # 0 => (c.mode = 0) = FALSE
      OBVIOUS
    <3> QED BY <2>3, <3>1, <3>2
  <2>7. e.out \in BOOLEAN
    BY <2>3, <2>5, <2>6
  <2>8. e.mode = 4 => e.out = (k + 1 # n + 1)
    BY <2>3, <2>4, <2>6, <2>7
  <2> QED BY <2>3, <2>4, <2>5, <2>8 DEF DrawnOnce, n, e
<1> QED BY <1>8, <1>9, <1>10 DEF PitCounters

\* Mode 3, by the fields: a count of two, a turn of the pin, or a load.
LEMMA SquareIs ==
  ASSUME NEW c \in PitCounters, c.mode = 3, ~c.load, c.counting
  PROVE  /\ Odd(c) /\ c.out /\ c.counter = 0 =>
              PitClock(c).counter = c.latch - 1 /\ PitClock(c).out = FALSE
         /\ Remains(c) = 2 /\ (~Odd(c) \/ ~c.out) =>
              /\ PitClock(c).counter = (IF Odd(c) THEN c.latch - 1 ELSE c.latch)
              /\ PitClock(c).out = ~c.out
         /\ ( /\ Remains(c) >= 2 /\ ~(Odd(c) /\ c.out /\ c.counter = 0)
              /\ ~(Remains(c) = 2 /\ (~Odd(c) \/ ~c.out)) )
              => PitClock(c).counter = Remains(c) - 2 /\ PitClock(c).out = c.out
<1> DEFINE d == Down(c, 2)
           e == PitClock(c)
<1>1. e = SquareWave(c)
  BY DEF PitClock
<1>2. d \in PitCounters /\ d = [c EXCEPT !.counter = d.counter] /\ d.counter \in 0 .. Word - 1
      /\ (Remains(c) >= 2 => d.counter = Remains(c) - 2)
  BY DownIs
<1>3. ASSUME Odd(c), c.out, c.counter = 0
      PROVE  e.counter = c.latch - 1 /\ e.out = FALSE
  <2> DEFINE l == LoadSquare(c)
  <2>1. l \in PitCounters /\ l.counter = c.latch - 1
    BY <1>3, LoadSquareIs
  <2> HIDE DEF l
  <2>2. e = [l EXCEPT !.out = FALSE]
    BY <1>1, <1>3 DEF SquareWave, l
  <2> HIDE DEF e
  <2> QED BY <2>1, <2>2 DEF PitCounters
<1>4. ASSUME Remains(c) = 2, ~Odd(c) \/ ~c.out
      PROVE  /\ e.counter = (IF Odd(c) THEN c.latch - 1 ELSE c.latch)
             /\ e.out = ~c.out
  <2> DEFINE l == LoadSquare(d)
  <2> HIDE DEF d
  <2>0. d.latch = c.latch /\ (Odd(d) <=> Odd(c)) /\ d.counter = 0
    BY <1>2, <1>4 DEF PitCounters, Odd
  <2>1. l \in PitCounters /\ l.counter = (IF Odd(c) THEN c.latch - 1 ELSE c.latch)
    BY <1>2, <2>0, LoadSquareIs
  <2> HIDE DEF l
  <2>3. ~ (Odd(c) /\ c.out /\ c.counter = 0)
    BY <1>4
  <2>2. e = [l EXCEPT !.out = ~c.out]
    BY <1>1, <1>4, <2>0, <2>3 DEF SquareWave, l, d
  <2> HIDE DEF e
  <2> QED BY <2>1, <2>2 DEF PitCounters
<1>5. ASSUME Remains(c) >= 2, ~(Odd(c) /\ c.out /\ c.counter = 0),
             ~(Remains(c) = 2 /\ (~Odd(c) \/ ~c.out))
      PROVE  e.counter = Remains(c) - 2 /\ e.out = c.out
  <2>1. Remains(c) \in Nat
    BY RemainsIs, WordFacts
  <2>2. ~ (d.counter = 0 /\ (~Odd(c) \/ ~c.out))
    <3> HIDE DEF d
    <3> QED BY <1>2, <1>5, <2>1
  <2>3. e = d
    BY <1>1, <1>5, <2>2 DEF SquareWave
  <2> HIDE DEF d, e
  <2> QED BY <1>2, <1>5, <2>3 DEF PitCounters
<1> QED BY <1>3, <1>4, <1>5

\* A word is even, so the largest count is.
LEMMA Halves ==
  ASSUME NEW c \in PitCounters
  PROVE  \E h \in Nat : CountOf(c) = (IF Odd(c) THEN 2 * h + 1 ELSE 2 * h)
<1>1. CountOf(c) \in Nat /\ (Odd(c) <=> CountOf(c) % 2 = 1)
  BY RemainsIs, WordFacts
<1> DEFINE n == CountOf(c)
<1> HIDE DEF n
<1>2. n \in Nat => n \div 2 \in Nat /\ n = IF n % 2 = 1 THEN 2 * (n \div 2) + 1 ELSE 2 * (n \div 2)
  OBVIOUS
<1> QED BY <1>1, <1>2 DEF n

\* A square wave of an even count: high for one half of it.
LEMMA EvenDraws ==
  ASSUME NEW c \in PitCounters, c.mode = 3, ~c.load, c.counting, NEW k \in Nat \ {0},
         CountOf(c) >= 2, ~Odd(c), DrawnEven(c, CountOf(c), k)
  PROVE  DrawnEven(PitClock(c), CountOf(c), k + 1)
<1> DEFINE n == CountOf(c)
           e == PitClock(c)
           p == At(n, k)
           pp == At(n, k + 1)
           r == Remains(c)
<1>1. /\ r \in 1 .. Word /\ c.counter = (IF r = Word THEN 0 ELSE r)
      /\ n \in 1 .. Word /\ c.latch = (IF n = Word THEN 0 ELSE n) /\ Word \in Nat /\ Word >= 4
  BY RemainsIs, WordFacts
<1>2. p \in 0 .. n - 1 /\ pp = IF p = n - 1 THEN 0 ELSE p + 1
  BY <1>1, Around
<1>3. /\ c.out => 2 * p < n /\ r = n - 2 * p
      /\ ~c.out => 2 * p >= n /\ r = 2 * n - 2 * p
  BY DEF DrawnEven
<1>4. PICK h \in Nat : n = 2 * h
  BY Halves
<1>5. /\ r = 2 => e.counter = c.latch /\ e.out = ~c.out
      /\ r >= 2 /\ r # 2 => e.counter = r - 2 /\ e.out = c.out
  BY SquareIs
<1>6. Remains(e) = IF e.counter = 0 THEN Word ELSE e.counter
  BY DEF Remains
<1>7. c.out \in BOOLEAN /\ n >= 2
  BY DEF PitCounters
<1>8. DrawnEven(e, n, k + 1) <=> /\ e.out => 2 * pp < n /\ Remains(e) = n - 2 * pp
                                 /\ ~e.out => 2 * pp >= n /\ Remains(e) = 2 * n - 2 * pp
  BY DEF DrawnEven
<1> SUFFICES DrawnEven(e, n, k + 1)
  OBVIOUS
<1> HIDE DEF e, p, pp, n, r
<1>9. CASE c.out
  <2>1. 2 * p < n /\ r = n - 2 * p /\ r >= 2
    BY <1>1, <1>2, <1>3, <1>4, <1>9
  <2>2. CASE r = 2
    <3>1. e.counter = c.latch /\ ~e.out
      BY <1>5, <1>9, <2>2
    <3>2. Remains(e) = n
      BY <1>1, <1>6, <3>1
    <3>3. 2 * pp = n
      BY <1>1, <1>2, <1>7, <2>1, <2>2
    <3>4. 2 * pp >= n /\ n = 2 * n - 2 * pp
      BY <1>1, <1>2, <3>3
    <3> QED BY <1>8, <3>1, <3>2, <3>4
  <2>3. CASE r # 2
    <3>1. e.counter = r - 2 /\ e.out
      BY <1>5, <1>9, <2>1, <2>3
    <3>2. Remains(e) = r - 2
      BY <1>1, <1>6, <2>1, <2>3, <3>1
    <3>3. 2 * pp < n /\ r - 2 = n - 2 * pp
      BY <1>1, <1>2, <1>4, <2>1, <2>3
    <3> QED BY <1>8, <3>1, <3>2, <3>3
  <2> QED BY <2>2, <2>3
<1>10. CASE ~c.out
  <2>1. 2 * p >= n /\ r = 2 * n - 2 * p /\ r >= 2
    BY <1>1, <1>2, <1>3, <1>10
  <2>2. CASE r = 2
    <3>1. e.counter = c.latch /\ e.out
      BY <1>5, <1>10, <2>2
    <3>2. Remains(e) = n
      BY <1>1, <1>6, <3>1
    <3>3. pp = 0
      BY <1>1, <1>2, <2>1, <2>2
    <3>4. 2 * pp < n /\ n = n - 2 * pp
      BY <1>1, <3>3
    <3> QED BY <1>8, <3>1, <3>2, <3>4
  <2>3. CASE r # 2
    <3>1. e.counter = r - 2 /\ ~e.out
      BY <1>5, <1>10, <2>1, <2>3
    <3>2. Remains(e) = r - 2
      BY <1>1, <1>6, <2>1, <2>3, <3>1
    <3>3. 2 * pp >= n /\ r - 2 = 2 * n - 2 * pp
      BY <1>1, <1>2, <2>1, <2>3
    <3> QED BY <1>8, <3>1, <3>2, <3>3
  <2> QED BY <2>2, <2>3
<1> QED BY <1>9, <1>10

\* And of an odd one: high for one clock more.
LEMMA OddDraws ==
  ASSUME NEW c \in PitCounters, c.mode = 3, ~c.load, c.counting, NEW k \in Nat \ {0},
         CountOf(c) >= 2, Odd(c), DrawnOdd(c, CountOf(c), k)
  PROVE  DrawnOdd(PitClock(c), CountOf(c), k + 1)
<1> DEFINE n == CountOf(c)
           e == PitClock(c)
           p == At(n, k)
           pp == At(n, k + 1)
           x == c.counter
<1>1. /\ x \in 0 .. Word - 1 /\ Remains(c) = (IF x = 0 THEN Word ELSE x)
      /\ n \in 1 .. Word /\ c.latch = (IF n = Word THEN 0 ELSE n) /\ Word \in Nat /\ Word >= 4
      /\ Word % 2 = 0
  BY RemainsIs, WordFacts DEF Remains
<1>2. p \in 0 .. n - 1 /\ pp = IF p = n - 1 THEN 0 ELSE p + 1
  BY <1>1, Around
<1>3. /\ c.out => 2 * p < n + 1 /\ x = n - 1 - 2 * p
      /\ ~c.out => 2 * p >= n + 1 /\ x = 2 * n - 2 * p
  BY DEF DrawnOdd
<1>4. PICK h \in Nat : n = 2 * h + 1
  BY Halves
<1>5. /\ c.out /\ x = 0 => e.counter = c.latch - 1 /\ e.out = FALSE
      /\ x = 2 /\ ~c.out => e.counter = c.latch - 1 /\ e.out = ~c.out
      /\ x >= 2 /\ ~(x = 2 /\ ~c.out) => e.counter = x - 2 /\ e.out = c.out
  <2>1. x >= 2 => Remains(c) = x /\ Remains(c) >= 2 /\ x # 0
    BY <1>1
  <2>2. x = 2 => Remains(c) = 2
    BY <1>1
  <2>3. Odd(c) /\ c.out /\ x = 0 => e.counter = c.latch - 1 /\ e.out = FALSE
    BY SquareIs
  <2>4. Remains(c) = 2 /\ (~Odd(c) \/ ~c.out) =>
          e.counter = (IF Odd(c) THEN c.latch - 1 ELSE c.latch) /\ e.out = ~c.out
    BY SquareIs
  <2>5. Remains(c) >= 2 /\ ~(Odd(c) /\ c.out /\ x = 0) /\ ~(Remains(c) = 2 /\ (~Odd(c) \/ ~c.out))
          => e.counter = Remains(c) - 2 /\ e.out = c.out
    BY SquareIs
  <2> HIDE DEF e, x
  <2>6. x >= 2 /\ ~(x = 2 /\ ~c.out) => e.counter = x - 2 /\ e.out = c.out
    BY <2>1, <2>5
  <2>7. x = 2 /\ ~c.out => e.counter = c.latch - 1 /\ e.out = ~c.out
    BY <2>2, <2>4
  <2> QED BY <2>3, <2>6, <2>7
<1>6. c.latch = n
  BY <1>1, <1>4
<1>7. c.out \in BOOLEAN /\ n >= 2
  BY DEF PitCounters
<1>8. DrawnOdd(e, n, k + 1) <=> /\ e.out => 2 * pp < n + 1 /\ e.counter = n - 1 - 2 * pp
                                /\ ~e.out => 2 * pp >= n + 1 /\ e.counter = 2 * n - 2 * pp
  BY DEF DrawnOdd
<1> SUFFICES DrawnOdd(e, n, k + 1)
  OBVIOUS
<1> HIDE DEF e, p, pp, n, x
<1>9. CASE c.out
  <2>1. 2 * p < n + 1 /\ x = n - 1 - 2 * p
    BY <1>3, <1>9
  <2>2. CASE x = 0
    <3>1. e.counter = n - 1 /\ ~e.out
      BY <1>5, <1>6, <1>9, <2>2
    <3>2. 2 * pp = n + 1
      BY <1>1, <1>2, <1>7, <2>1, <2>2
    <3>3. 2 * pp >= n + 1 /\ n - 1 = 2 * n - 2 * pp
      BY <1>1, <1>2, <3>2
    <3> QED BY <1>8, <3>1, <3>3
  <2>3. CASE x # 0
    <3>0. x >= 2
      BY <1>1, <1>2, <1>4, <2>1, <2>3
    <3>1. e.counter = x - 2 /\ e.out
      BY <1>5, <1>9, <3>0
    <3>2. 2 * pp < n + 1 /\ x - 2 = n - 1 - 2 * pp
      BY <1>1, <1>2, <1>4, <2>1, <3>0
    <3> QED BY <1>8, <3>1, <3>2
  <2> QED BY <2>2, <2>3
<1>10. CASE ~c.out
  <2>1. 2 * p >= n + 1 /\ x = 2 * n - 2 * p /\ x >= 2
    BY <1>1, <1>2, <1>3, <1>10
  <2>2. CASE x = 2
    <3>1. e.counter = n - 1 /\ e.out
      BY <1>5, <1>6, <1>10, <2>2
    <3>2. pp = 0
      BY <1>1, <1>2, <2>1, <2>2
    <3>3. 2 * pp < n + 1 /\ n - 1 = n - 1 - 2 * pp
      BY <1>1, <3>2
    <3> QED BY <1>8, <3>1, <3>3
  <2>3. CASE x # 2
    <3>1. e.counter = x - 2 /\ ~e.out
      BY <1>5, <1>10, <2>1, <2>3
    <3>2. 2 * pp >= n + 1 /\ x - 2 = 2 * n - 2 * pp
      BY <1>1, <1>2, <2>1, <2>3
    <3> QED BY <1>8, <3>1, <3>2
  <2> QED BY <2>2, <2>3
<1> QED BY <1>9, <1>10

\* A clock leaves a counter a counter, of its mode and its latch, that has loaded.
Clocked(c, d) ==
    /\ d \in PitCounters /\ d.mode = c.mode /\ d.latch = c.latch /\ d.load = FALSE
    /\ d.counting = (c.load \/ c.counting)

\* So does each mode: those that count once, ...
LEMMA ExpiringKeeps ==
  ASSUME NEW c \in PitCounters, NEW level \in BOOLEAN
  PROVE  LET e == Expiring(c, level)
         IN  e \in PitCounters /\ e.mode = c.mode /\ e.latch = c.latch /\ e.load = c.load
               /\ e.counting = c.counting
<1> DEFINE d == Down(c, 1)
<1>1. d \in PitCounters /\ d = [c EXCEPT !.counter = d.counter]
  BY DownIs
<1>2. Expiring(c, level) = IF d.counter = 0 /\ ~d.expired
                           THEN [d EXCEPT !.expired = TRUE, !.out = level] ELSE d
  BY DEF Expiring
<1> HIDE DEF d
<1>3. d.mode = c.mode /\ d.latch = c.latch /\ d.load = c.load /\ d.counting = c.counting
  BY <1>1 DEF PitCounters
<1>4. [d EXCEPT !.expired = TRUE, !.out = level] \in PitCounters
  BY <1>1 DEF PitCounters
<1> QED BY <1>1, <1>2, <1>3, <1>4 DEF PitCounters

\* ... the rate generator, ...
LEMMA RateKeeps ==
  ASSUME NEW c \in PitCounters, ~c.load, c.counting
  PROVE  Clocked(c, RateGenerator(c))
<1> DEFINE d == Down(c, 1)
           t == Transfer(c)
<1>1. d \in PitCounters /\ d = [c EXCEPT !.counter = d.counter]
  BY DownIs
<1>2. t \in PitCounters /\ t.mode = c.mode /\ t.latch = c.latch /\ ~t.load /\ t.counting
  BY TransferIs
<1>3. RateGenerator(c) = IF c.counter = 1 THEN [t EXCEPT !.out = TRUE]
                         ELSE [d EXCEPT !.out = @ /\ d.counter # 1]
  BY DEF RateGenerator
<1> HIDE DEF d, t
<1>4. d.mode = c.mode /\ d.latch = c.latch /\ d.load = c.load /\ d.counting = c.counting
  BY <1>1 DEF PitCounters
<1>5. Clocked(c, [t EXCEPT !.out = TRUE])
  BY <1>2 DEF Clocked, PitCounters
<1>6. \A b \in BOOLEAN : Clocked(c, [d EXCEPT !.out = b])
  BY <1>1, <1>4 DEF Clocked, PitCounters
<1>7. [d EXCEPT !.out = @ /\ d.counter # 1] = [d EXCEPT !.out = d.out /\ d.counter # 1]
  OBVIOUS
<1>8. (d.out /\ d.counter # 1) \in BOOLEAN
  BY <1>1 DEF PitCounters
<1> QED BY <1>3, <1>5, <1>6, <1>7, <1>8

\* ... and the square wave.
LEMMA SquareKeeps ==
  ASSUME NEW c \in PitCounters, ~c.load, c.counting
  PROVE  Clocked(c, SquareWave(c))
<1> DEFINE d == Down(c, 2)
           l == LoadSquare(c)
           m == LoadSquare(d)
<1>1. d \in PitCounters /\ d = [c EXCEPT !.counter = d.counter]
  BY DownIs
<1>2. l \in PitCounters /\ l.mode = c.mode /\ l.latch = c.latch /\ ~l.load /\ l.counting
  BY LoadSquareIs
<1>3. m \in PitCounters /\ m.mode = d.mode /\ m.latch = d.latch /\ ~m.load /\ m.counting
  <2> HIDE DEF d
  <2> QED BY <1>1, LoadSquareIs
<1>4. \/ SquareWave(c) = [l EXCEPT !.out = FALSE]
      \/ SquareWave(c) = [m EXCEPT !.out = ~c.out]
      \/ SquareWave(c) = d
  BY DEF SquareWave
<1> HIDE DEF d, l, m
<1>5. d.mode = c.mode /\ d.latch = c.latch /\ d.load = c.load /\ d.counting = c.counting
  BY <1>1 DEF PitCounters
<1>6. Clocked(c, [l EXCEPT !.out = FALSE])
  BY <1>2 DEF Clocked, PitCounters
<1>7. \A b \in BOOLEAN : Clocked(c, [m EXCEPT !.out = b])
  BY <1>3, <1>5 DEF Clocked, PitCounters
<1>8. Clocked(c, d)
  BY <1>1, <1>5 DEF Clocked, PitCounters
<1>9. (~c.out) \in BOOLEAN
  OBVIOUS
<1> QED BY <1>4, <1>6, <1>7, <1>8, <1>9

\* A clock does, in whatever mode.
LEMMA PitClockKeeps ==
  ASSUME NEW c \in PitCounters, Resting(c)
  PROVE  Clocked(c, PitClock(c))
<1> DEFINE p == IF c.mode \in {4, 5} THEN [c EXCEPT !.out = TRUE] ELSE c
<1>1. /\ p \in PitCounters /\ p.mode = c.mode /\ p.latch = c.latch /\ p.load = c.load
      /\ p.counting = c.counting
  BY DEF PitCounters
<1>2. PitClock(c) =
        CASE p.load /\ p.mode = 3       -> [LoadSquare(p) EXCEPT !.out = TRUE]
          [] p.load /\ p.mode = 2       -> [Transfer(p) EXCEPT !.out = TRUE]
          [] p.load /\ p.mode \in {0, 4} -> Transfer(p)
          [] ~p.load /\ ~p.counting     -> p
          [] ~p.load /\ p.counting /\ p.mode = 2 -> RateGenerator(p)
          [] ~p.load /\ p.counting /\ p.mode = 3 -> SquareWave(p)
          [] OTHER                      -> Expiring(p, p.mode = 0)
  BY DEF PitClock
<1> HIDE DEF p
<1>3. ASSUME NEW d, Clocked(p, d) PROVE Clocked(c, d)
  BY <1>1, <1>3 DEF Clocked
<1>4. p.load \in BOOLEAN /\ p.counting \in BOOLEAN /\ p.mode \in 0 .. 5
  BY <1>1 DEF PitCounters, PitModes
<1>5. CASE p.load
  <2>1. p.mode \in {0, 2, 3, 4}
    BY <1>1, <1>4, <1>5 DEF Resting
  <2> DEFINE t == Transfer(p)
             l == LoadSquare(p)
  <2>2. /\ t \in PitCounters /\ t.mode = p.mode /\ t.latch = p.latch /\ t.counting /\ ~t.load
        /\ l \in PitCounters /\ l.mode = p.mode /\ l.latch = p.latch /\ l.counting /\ ~l.load
    BY <1>1, TransferIs, LoadSquareIs
  <2>3. \/ PitClock(c) = [l EXCEPT !.out = TRUE]
        \/ PitClock(c) = [t EXCEPT !.out = TRUE]
        \/ PitClock(c) = t
    BY <1>2, <1>5, <2>1
  <2> HIDE DEF t, l
  <2>4. Clocked(p, [l EXCEPT !.out = TRUE])
    BY <1>5, <2>2 DEF Clocked, PitCounters
  <2>5. Clocked(p, [t EXCEPT !.out = TRUE]) /\ Clocked(p, t)
    BY <1>5, <2>2 DEF Clocked, PitCounters
  <2> QED BY <1>3, <2>3, <2>4, <2>5
<1>6. CASE ~p.load /\ ~p.counting
  <2>1. PitClock(c) = p
    BY <1>2, <1>6
  <2> QED BY <1>1, <1>3, <1>6, <2>1 DEF Clocked, PitCounters
<1>7. CASE ~p.load /\ p.counting
  <2>1. CASE p.mode = 2
    <3>1. PitClock(c) = RateGenerator(p)
      BY <1>2, <1>7, <2>1
    <3> QED BY <1>1, <1>3, <1>7, <3>1, RateKeeps
  <2>2. CASE p.mode = 3
    <3>1. PitClock(c) = SquareWave(p)
      BY <1>2, <1>7, <2>2
    <3> QED BY <1>1, <1>3, <1>7, <3>1, SquareKeeps
  <2>3. CASE p.mode \notin {2, 3}
    <3> DEFINE level == p.mode = 0
               e == Expiring(p, level)
    <3>1. PitClock(c) = e
      BY <1>2, <1>7, <2>3
    <3>2. level \in BOOLEAN
      OBVIOUS
    <3> HIDE DEF level
    <3>3. e \in PitCounters /\ e.mode = p.mode /\ e.latch = p.latch /\ e.load = p.load
            /\ e.counting = p.counting
      BY <1>1, <3>2, ExpiringKeeps
    <3> HIDE DEF e
    <3>4. Clocked(p, e)
      BY <1>4, <1>7, <3>3 DEF Clocked
    <3> QED BY <1>3, <3>1, <3>4
  <2> QED BY <2>1, <2>2, <2>3
<1> QED BY <1>4, <1>5, <1>6, <1>7

\* A write leaves a counter a counter, and counts no sooner.
Rewritten(c, d) ==
    d \in PitCounters /\ d.mode = c.mode /\ Resting(d) /\ (d.counting => c.counting)

\* A whole count leaves the counter waiting, or counting as it did, ...
LEMMA CountWrittenKeeps ==
  ASSUME NEW c \in PitCounters, Resting(c)
  PROVE  Rewritten(c, CountWritten(c))
<1> DEFINE q == [c EXCEPT !.null = TRUE]
           b == q.load \/ ~c.counting
<1>1. /\ q \in PitCounters /\ q.mode = c.mode /\ q.load = c.load /\ q.counting = c.counting
      /\ q.out = c.out /\ b \in BOOLEAN
  BY DEF PitCounters
<1>2. c.mode \in 0 .. 5
  BY DEF PitCounters, PitModes
<1>3. CountWritten(c) =
        CASE c.mode = 0               -> [q EXCEPT !.out = FALSE, !.load = TRUE]
          [] c.mode = 4               -> [q EXCEPT !.load = TRUE]
          [] c.mode \in {2, 3}        -> [q EXCEPT !.load = b]
          [] OTHER                    -> q
  BY DEF CountWritten
<1> HIDE DEF q, b
<1>4. CASE c.mode = 0
  <2> DEFINE d == CountWritten(c)
  <2>1. d = [q EXCEPT !.out = FALSE, !.load = TRUE]
    BY <1>3, <1>4
  <2> HIDE DEF d
  <2>2. d \in PitCounters /\ d.mode = 0 /\ d.out = FALSE /\ d.counting = c.counting
    BY <1>1, <1>4, <2>1 DEF PitCounters
  <2>3. Resting(d)
    BY <2>2 DEF Resting
  <2> QED BY <1>4, <2>2, <2>3 DEF Rewritten, d
<1>5. CASE c.mode = 4
  <2> DEFINE d == CountWritten(c)
  <2>1. d = [q EXCEPT !.load = TRUE]
    BY <1>3, <1>5
  <2> HIDE DEF d
  <2>2. d \in PitCounters /\ d.mode = 4 /\ d.counting = c.counting
    BY <1>1, <1>5, <2>1 DEF PitCounters
  <2>3. Resting(d)
    BY <2>2 DEF Resting
  <2> QED BY <1>5, <2>2, <2>3 DEF Rewritten, d
<1>6. CASE c.mode \in {2, 3}
  <2>1. CountWritten(c) = [q EXCEPT !.load = b]
    BY <1>3, <1>6
  <2> QED BY <1>1, <1>6, <2>1 DEF Rewritten, Resting, PitCounters
<1>7. CASE c.mode \in {1, 5}
  <2>1. CountWritten(c) = q
    BY <1>3, <1>7
  <2> QED BY <1>1, <1>7, <2>1 DEF Rewritten, Resting
<1> QED BY <1>2, <1>4, <1>5, <1>6, <1>7

\* ... and its first byte stops mode 0.
LEMMA FirstByteKeeps ==
  ASSUME NEW c \in PitCounters, Resting(c)
  PROVE  Rewritten(c, FirstByteWritten(c))
BY DEF FirstByteWritten, Rewritten, Resting, PitCounters

\* What is put into the latch changes nothing else.
LEMMA WriteByteKeeps ==
  ASSUME NEW c \in PitCounters, Resting(c), NEW v \in 0 .. Byte - 1
  PROVE  Rewritten(c, WriteByte(c, v))
<1> DEFINE x == (c.latch \div Byte) * Byte + v
           y == v * Byte + (c.latch % Byte)
           low == [c EXCEPT !.latch = x]
           high == [c EXCEPT !.latch = y]
           second == [low EXCEPT !.second = TRUE]
           third == [high EXCEPT !.second = FALSE]
<1>1. x \in 0 .. Word - 1 /\ y \in 0 .. Word - 1
  <2>1. c.latch \in 0 .. Word - 1
    BY DEF PitCounters
  <2>2. c.latch % Byte \in 0 .. Byte - 1 /\ c.latch \div Byte \in 0 .. Byte - 1
    BY <2>1, BytesOf
  <2> QED BY <2>2, WordOf
<1>2. WriteByte(c, v) =
        CASE c.rw = "lsb"  -> CountWritten(low)
          [] c.rw = "msb"  -> CountWritten(high)
          [] c.rw = "both" /\ ~c.second -> FirstByteWritten(second)
          [] c.rw = "both" /\ c.second -> CountWritten(third)
  BY DEF WriteByte
<1> HIDE DEF x, y
<1> DEFINE Same(d) == d \in PitCounters /\ d.mode = c.mode /\ Resting(d) /\ d.counting = c.counting
<1>3. \A s \in BOOLEAN : Same([low EXCEPT !.second = s]) /\ Same([high EXCEPT !.second = s])
  BY <1>1 DEF Resting, PitCounters
<1>4. Same(low) /\ Same(high) /\ Same(second) /\ Same(third)
  <2>1. Same(low) /\ Same(high)
    BY <1>1 DEF Resting, PitCounters
  <2> HIDE DEF low, high, Same
  <2> QED BY <1>3, <2>1
<1> HIDE DEF low, high, second, third
<1>5. ASSUME NEW d, Same(d)
      PROVE  Rewritten(c, CountWritten(d)) /\ Rewritten(c, FirstByteWritten(d))
  <2>1. Rewritten(d, CountWritten(d)) /\ Rewritten(d, FirstByteWritten(d))
    BY <1>5, CountWrittenKeeps, FirstByteKeeps
  <2> QED BY <1>5, <2>1 DEF Rewritten
<1>6. c.rw \in {"lsb", "msb", "both"} /\ c.second \in BOOLEAN
  BY DEF PitCounters
<1> HIDE DEF Same
<1>7. \/ WriteByte(c, v) = CountWritten(low) \/ WriteByte(c, v) = CountWritten(high)
      \/ WriteByte(c, v) = FirstByteWritten(second) \/ WriteByte(c, v) = CountWritten(third)
  BY <1>2, <1>6
<1> QED BY <1>4, <1>5, <1>7

\* The clock that loads the count draws the first of the wave.
LEMMA LoadDraws ==
  ASSUME NEW c \in PitCounters, c.load, Resting(c), CountOf(c) >= 2
  PROVE  Drawn(PitClock(c), CountOf(c), 1)
<1> DEFINE n == CountOf(c)
           p == IF c.mode \in {4, 5} THEN [c EXCEPT !.out = TRUE] ELSE c
           e == PitClock(c)
<1>1. n \in 1 .. Word /\ c.latch = (IF n = Word THEN 0 ELSE n) /\ Word \in Nat /\ Word >= 4
      /\ (Odd(c) <=> n % 2 = 1) /\ Word % 2 = 0 /\ n >= 2
  BY RemainsIs, WordFacts
<1>2. At(n, 1) = 0
  BY <1>1 DEF At
<1>3. /\ p \in PitCounters /\ p.mode = c.mode /\ p.latch = c.latch /\ p.load /\ (Odd(p) <=> Odd(c))
      /\ p.out = IF c.mode \in {4, 5} THEN TRUE ELSE c.out
  BY DEF PitCounters, Odd
<1>4. c.mode \in {0, 2, 3, 4} /\ (c.mode = 0 => c.out = FALSE)
  BY DEF Resting, PitCounters, PitModes
<1>5. Clocked(c, e)
  BY PitClockKeeps
<1>6. PitClock(c) =
        CASE p.load /\ p.mode = 3       -> [LoadSquare(p) EXCEPT !.out = TRUE]
          [] p.load /\ p.mode = 2       -> [Transfer(p) EXCEPT !.out = TRUE]
          [] p.load /\ p.mode \in {0, 4} -> Transfer(p)
          [] ~p.load /\ ~p.counting     -> p
          [] ~p.load /\ p.counting /\ p.mode = 2 -> RateGenerator(p)
          [] ~p.load /\ p.counting /\ p.mode = 3 -> SquareWave(p)
          [] OTHER                      -> Expiring(p, p.mode = 0)
  BY DEF PitClock
<1> DEFINE t == Transfer(p)
           l == LoadSquare(p)
<1>7. /\ t \in PitCounters /\ t.counter = c.latch /\ t.out = p.out /\ ~t.expired
      /\ l \in PitCounters /\ l.counter = IF Odd(c) THEN c.latch - 1 ELSE c.latch
  <2> HIDE DEF p
  <2> QED BY <1>3, TransferIs, LoadSquareIs
<1>8. e.mode = c.mode /\ (Odd(e) <=> Odd(c))
  BY <1>5 DEF Clocked, Odd
<1>9. Remains(e) = IF e.counter = 0 THEN Word ELSE e.counter
  BY DEF Remains
<1> HIDE DEF p, t, l
<1>10. CASE c.mode = 3
  <2>1. e = [l EXCEPT !.out = TRUE]
    BY <1>3, <1>6, <1>10 DEF l
  <2>2. e.counter = (IF Odd(c) THEN c.latch - 1 ELSE c.latch) /\ e.out = TRUE
    BY <1>7, <2>1 DEF PitCounters
  <2>3. ~Odd(c) => Remains(e) = n
    BY <1>1, <1>9, <2>2
  <2>4. Odd(c) => e.counter = n - 1
    BY <1>1, <2>2
  <2> HIDE DEF n, e
  <2>5. ~Odd(c) => DrawnEven(e, n, 1)
    BY <1>1, <1>2, <2>2, <2>3 DEF DrawnEven
  <2>6. Odd(c) => DrawnOdd(e, n, 1)
    BY <1>1, <1>2, <2>2, <2>4 DEF DrawnOdd
  <2> QED BY <1>8, <1>10, <2>5, <2>6 DEF Drawn, n, e
<1>11. CASE c.mode = 2
  <2>1. e = [t EXCEPT !.out = TRUE]
    BY <1>3, <1>6, <1>11 DEF t
  <2>2. e.counter = c.latch /\ e.out = TRUE
    BY <1>7, <2>1 DEF PitCounters
  <2>3. Remains(e) = n /\ Remains(e) # 1
    BY <1>1, <1>9, <2>2
  <2>4. n = n - At(n, 1)
    BY <1>1, <1>2
  <2>5. e.out = (Remains(e) # 1)
    BY <2>2, <2>3
  <2> HIDE DEF n, e
  <2>6. DrawnRate(e, n, 1)
    BY <2>3, <2>4, <2>5 DEF DrawnRate
  <2> QED BY <1>8, <1>11, <2>6 DEF Drawn, n, e
<1>12. CASE c.mode \in {0, 4}
  <2>1. e = t
    BY <1>3, <1>6, <1>12 DEF t
  <2>2. e.counter = c.latch /\ e.expired = FALSE
    BY <1>7, <2>1 DEF PitCounters
  <2>3. Remains(e) = n
    BY <1>1, <1>9, <2>2
  <2>4. c.mode = 0 => e.out = FALSE
    BY <1>3, <1>4, <1>7, <2>1
  <2>5. c.mode = 4 => e.out = TRUE
    BY <1>3, <1>7, <2>1
  <2> HIDE DEF n, e
  <2>6. ~(1 >= n + 1) /\ n = n - (1 - 1) /\ 1 # n + 1
    BY <1>1
  <2>7. DrawnOnce(e, n, 1)
    BY <1>8, <2>2, <2>3, <2>4, <2>5, <2>6 DEF DrawnOnce
  <2> QED BY <1>8, <1>12, <2>7 DEF Drawn, n, e
<1> QED BY <1>4, <1>10, <1>11, <1>12

\* A counter given its mode waits for a count.
LEMMA CounterInit == Init => Counter
<1> SUFFICES ASSUME Init, which = "pit" PROVE Counter
  BY DEF Counter
<1>1. PICK m \in PitModes, rw \in {"lsb", "msb", "both"} : dev = WriteMode(m, rw, 0)
  BY DEF Init
<1>2. origin = [n |-> 0, k |-> 0]
  BY DEF Init
<1>3. 0 \in 0 .. Word - 1 /\ (m # 0) \in BOOLEAN
  BY WordFacts
<1>4. dev \in PitCounters /\ dev.load = FALSE /\ dev.counting = FALSE
  <2> DEFINE b == m # 0
  <2>1. b \in BOOLEAN
    OBVIOUS
  <2>2. dev = [mode |-> m, rw |-> rw, counter |-> 0, latch |-> 0, out |-> b,
               null |-> TRUE, counting |-> FALSE, load |-> FALSE, expired |-> FALSE,
               second |-> FALSE]
    BY <1>1 DEF WriteMode
  <2> HIDE DEF b
  <2> QED BY <1>3, <2>1, <2>2 DEF PitCounters
<1>5. Resting(dev)
  BY <1>4 DEF Resting
<1>6. origin.n = 0 /\ origin.k = 0 /\ ~ (origin.n >= 2)
  BY <1>2
<1> QED BY <1>2, <1>4, <1>5, <1>6 DEF Counter

\* A count given to a counter at rest starts a wave, and another ends it.
LEMMA WriteDraws ==
  ASSUME Counter, PitWrite
  PROVE  Counter'
<1>1. /\ which = "pit" /\ which' = which /\ dev \in PitCounters /\ Resting(dev)
  BY DEF PitWrite, Counter
<1>2. PICK v \in 0 .. Byte - 1 :
         /\ dev' = WriteByte(dev, v)
         /\ origin' = IF ~dev.counting /\ ~dev.load
                      THEN [n |-> IF dev'.latch = 0 THEN Word ELSE dev'.latch, k |-> 0]
                      ELSE [n |-> 0, k |-> 0]
  BY DEF PitWrite
<1>3. Rewritten(dev, dev')
  <2> DEFINE d == dev
             e == dev'
  <2>1. e = WriteByte(d, v) /\ d \in PitCounters /\ Resting(d)
    BY <1>1, <1>2
  <2> HIDE DEF d, e
  <2>2. Rewritten(d, e)
    BY <2>1, WriteByteKeeps
  <2> QED BY <2>2 DEF d, e
<1>4. dev' \in PitCounters /\ Resting(dev') /\ (dev'.counting => dev.counting)
  BY <1>3 DEF Rewritten
<1>5. CASE ~dev.counting /\ ~dev.load
  <2>1. origin' = [n |-> CountOf(dev'), k |-> 0]
    BY <1>2, <1>5 DEF CountOf
  <2>2. CountOf(dev') \in Nat
    <3> DEFINE e == dev'
    <3>1. e \in PitCounters
      BY <1>4
    <3> HIDE DEF e
    <3>2. CountOf(e) \in Nat
      BY <3>1, RemainsIs, WordFacts
    <3> QED BY <3>2 DEF e
  <2>3. origin'.n = CountOf(dev') /\ origin'.k = 0 /\ ~dev'.counting
    BY <1>4, <1>5, <2>1
  <2>4. Given(dev', origin'.n, origin'.k)
    BY <2>3 DEF Given
  <2> QED BY <1>4, <2>1, <2>2, <2>3, <2>4 DEF Counter
<1>6. CASE dev.counting \/ dev.load
  <2>1. origin' = [n |-> 0, k |-> 0]
    BY <1>2, <1>6
  <2>2. origin'.n = 0 /\ origin'.k = 0 /\ ~ (origin'.n >= 2)
    BY <2>1
  <2> QED BY <1>4, <2>1, <2>2 DEF Counter
<1> QED BY <1>5, <1>6

\* The wave goes on.
LEMMA GivenClocked ==
  ASSUME NEW c \in PitCounters, Resting(c), NEW n \in Nat, NEW k \in Nat, n >= 2, Given(c, n, k)
  PROVE  Given(PitClock(c), n, IF c.load \/ c.counting THEN k + 1 ELSE k)
<1> DEFINE e == PitClock(c)
<1>1. Clocked(c, e)
  BY PitClockKeeps
<1>2. n = CountOf(c) /\ n = CountOf(e)
  BY <1>1 DEF Given, CountOf, Clocked
<1>3. /\ e.load = FALSE /\ e.counting = (c.load \/ c.counting) /\ e.mode = c.mode
      /\ (Odd(e) <=> Odd(c))
  BY <1>1 DEF Clocked, Odd
<1>4. CASE c.load
  <2>1. k = 0 /\ k + 1 = 1
    BY <1>4 DEF Given
  <2>2. Drawn(e, n, 1)
    BY <1>2, <1>4, LoadDraws
  <2> HIDE DEF e
  <2>3. ~e.load /\ 1 >= 1
    BY <1>3
  <2>4. Given(e, n, 1)
    <3>1. e.counting
      BY <1>3, <1>4
    <3> QED BY <1>2, <2>2, <2>3, <3>1 DEF Given
  <2>5. (IF c.load \/ c.counting THEN k + 1 ELSE k) = 1
    BY <1>4, <2>1
  <2> QED BY <2>4, <2>5 DEF e
<1>5. CASE ~c.load /\ c.counting
  <2>1. k \in Nat \ {0} /\ Drawn(c, n, k)
    BY <1>5 DEF Given
  <2>2. c.mode \in {0, 4} => DrawnOnce(e, n, k + 1)
    BY <1>2, <1>5, <2>1, OnceDraws DEF Drawn
  <2>3. c.mode = 2 => DrawnRate(e, n, k + 1)
    BY <1>2, <1>5, <2>1, RateDraws DEF Drawn
  <2>4. c.mode = 3 /\ ~Odd(c) => DrawnEven(e, n, k + 1)
    BY <1>2, <1>5, <2>1, EvenDraws DEF Drawn
  <2>5. c.mode = 3 /\ Odd(c) => DrawnOdd(e, n, k + 1)
    BY <1>2, <1>5, <2>1, OddDraws DEF Drawn
  <2> HIDE DEF e
  <2>6. Drawn(e, n, k + 1)
    BY <1>3, <2>2, <2>3, <2>4, <2>5 DEF Drawn
  <2>7. k + 1 >= 1
    OBVIOUS
  <2> QED BY <1>2, <1>3, <1>5, <2>6, <2>7 DEF Given, e
<1>6. CASE ~c.load /\ ~c.counting
  <2>1. k = 0 /\ ~e.counting
    BY <1>3, <1>6 DEF Given
  <2> HIDE DEF e
  <2> QED BY <1>2, <1>3, <1>6, <2>1 DEF Given, e
<1> QED BY <1>4, <1>5, <1>6

\* A clock draws it on.
LEMMA CountDraws ==
  ASSUME Counter, PitCount
  PROVE  Counter'
<1> DEFINE c == dev
           e == dev'
           n == origin.n
           k == origin.k
<1>1. /\ which = "pit" /\ which' = which /\ c \in PitCounters /\ Resting(c)
      /\ n \in Nat /\ k \in Nat /\ origin = [n |-> n, k |-> k]
      /\ n >= 2 => Given(c, n, k)
  BY DEF PitCount, Counter
<1>2. e = PitClock(c) /\ origin' = IF c.load \/ c.counting THEN [origin EXCEPT !.k = @ + 1] ELSE origin
  BY DEF PitCount
<1> DEFINE kk == IF c.load \/ c.counting THEN k + 1 ELSE k
<1>3. origin' = [n |-> n, k |-> kk] /\ kk \in Nat
  BY <1>1, <1>2
<1> HIDE DEF c, e, n, k
<1>4. Clocked(c, e)
  BY <1>1, <1>2, PitClockKeeps
<1>5. e \in PitCounters /\ Resting(e)
  <2>1. e \in PitCounters /\ e.mode = c.mode /\ e.load = FALSE /\ e.counting = (c.load \/ c.counting)
    BY <1>4 DEF Clocked
  <2> QED BY <1>1, <2>1 DEF Resting
<1>6. n >= 2 => Given(e, n, kk)
  BY <1>1, <1>2, GivenClocked
<1> HIDE DEF kk
<1>7. origin'.n = n /\ origin'.k = kk
  BY <1>3
<1> QED BY <1>1, <1>3, <1>5, <1>6, <1>7 DEF Counter, e

\* Every step keeps the counter drawing its wave.
LEMMA CounterStep == Counter /\ [Next]_vars => Counter'
<1> SUFFICES ASSUME Counter, [Next]_vars PROVE Counter'
  OBVIOUS
<1>1. CASE PitWrite
  BY <1>1, WriteDraws
<1>2. CASE PitCount
  BY <1>2, CountDraws
<1>3. CASE Sample \/ Access \/ Other \/ ResetDevices \/ Advanced
  <2>1. which' # "pit"
    BY <1>3 DEF Sample, Access, Other, ResetDevices, Advanced
  <2> QED BY <2>1 DEF Counter
<1>4. CASE UNCHANGED vars
  <2>1. which' = which /\ dev' = dev /\ origin' = origin
    BY <1>4 DEF vars
  <2> QED BY <2>1 DEF Counter
<1> QED BY <1>1, <1>2, <1>3, <1>4 DEF Next

\* What is left of a count tells the pin.
LEMMA DrawnWave ==
  ASSUME NEW c \in PitCounters, Resting(c), NEW n \in Nat, NEW k \in Nat, n >= 2, Given(c, n, k),
         c.counting
  PROVE  c.out = Wave(c.mode, n, k)
<1>1. /\ k \in Nat \ {0} /\ k # 0 /\ Drawn(c, n, k) /\ n = CountOf(c)
      /\ c.out \in BOOLEAN /\ c.expired \in BOOLEAN
  BY DEF Given, PitCounters
<1>2. c.mode \in {0, 2, 3, 4}
  BY DEF Resting, PitCounters, PitModes
<1>3. At(n, k) \in 0 .. n - 1 /\ At(n, k) = (k - 1) % n
  BY <1>1, Around DEF At
<1>4. CASE c.mode = 0
  <2>1. c.out = c.expired /\ (c.expired <=> k >= n + 1)
    BY <1>1, <1>4 DEF Drawn, DrawnOnce
  <2>2. Wave(c.mode, n, k) = (k >= n + 1)
    BY <1>4 DEF Wave
  <2> QED BY <1>1, <2>1, <2>2
<1>5. CASE c.mode = 4
  <2>1. c.out = (k # n + 1)
    BY <1>1, <1>5 DEF Drawn, DrawnOnce
  <2>2. Wave(c.mode, n, k) = (k # n + 1)
    BY <1>5 DEF Wave
  <2> QED BY <2>1, <2>2
<1>6. CASE c.mode = 2
  <2>1. Remains(c) = n - At(n, k) /\ c.out = (Remains(c) # 1)
    BY <1>1, <1>6 DEF Drawn, DrawnRate
  <2>2. Wave(c.mode, n, k) = (k = 0 \/ (k - 1) % n # n - 1)
    BY <1>6 DEF Wave
  <2>3. (Remains(c) # 1) <=> (k = 0 \/ (k - 1) % n # n - 1)
    BY <1>1, <1>3, <2>1
  <2> QED BY <2>1, <2>2, <2>3
<1>7. CASE c.mode = 3
  <2>1. Wave(c.mode, n, k) = (k = 0 \/ (k - 1) % n < (n + 1) \div 2)
    BY <1>7 DEF Wave
  <2>2. PICK h \in Nat : n = (IF Odd(c) THEN 2 * h + 1 ELSE 2 * h)
    BY <1>1, Halves
  <2> DEFINE p == At(n, k)
  <2>3. (n + 1) \div 2 = IF Odd(c) THEN h + 1 ELSE h
    BY <2>2
  <2>4. c.out <=> p < (n + 1) \div 2
    <3>1. CASE Odd(c)
      <4>1. /\ c.out => 2 * p < n + 1
            /\ ~c.out => 2 * p >= n + 1
        BY <1>1, <1>7, <3>1 DEF Drawn, DrawnOdd
      <4> HIDE DEF p
      <4>2. p \in Int /\ n = 2 * h + 1 /\ (n + 1) \div 2 = h + 1
        BY <1>3, <2>2, <2>3, <3>1 DEF p
      <4>3. 2 * p < n + 1 => p < h + 1
        BY <4>2
      <4>4. 2 * p >= n + 1 => ~(p < h + 1)
        BY <4>2
      <4> QED BY <1>1, <4>1, <4>2, <4>3, <4>4
    <3>2. CASE ~Odd(c)
      <4>1. /\ c.out => 2 * p < n
            /\ ~c.out => 2 * p >= n
        BY <1>1, <1>7, <3>2 DEF Drawn, DrawnEven
      <4> HIDE DEF p
      <4>2. p \in Int /\ n = 2 * h /\ (n + 1) \div 2 = h
        BY <1>3, <2>2, <2>3, <3>2 DEF p
      <4>3. 2 * p < n => p < h
        BY <4>2
      <4>4. 2 * p >= n => ~(p < h)
        BY <4>2
      <4> QED BY <1>1, <4>1, <4>2, <4>3, <4>4
    <3> QED BY <3>1, <3>2
  <2>5. c.out <=> (k = 0 \/ (k - 1) % n < (n + 1) \div 2)
    BY <1>1, <1>3, <2>4
  <2> QED BY <1>1, <2>1, <2>5
<1> QED BY <1>2, <1>4, <1>5, <1>6, <1>7

\* And so the pin is the wave.
LEMMA WaveFromCounter == Counter => WaveRight
<1> SUFFICES ASSUME Counter, which = "pit", origin.n >= 2, dev.counting
             PROVE  dev.out = Wave(dev.mode, origin.n, origin.k)
  BY DEF WaveRight
<1>1. /\ dev \in PitCounters /\ Resting(dev) /\ origin.n \in Nat /\ origin.k \in Nat
      /\ Given(dev, origin.n, origin.k)
  BY DEF Counter
<1> QED BY <1>1, DrawnWave

\* From the write of a count to a counter at rest on, whatever is written and counted after
\* it, the pin is the wave that the data sheet draws for its mode and for that count
\* (clock_counter of ap_i8254.c), for every count and every length of the registers.
THEOREM WavesAreRight == Spec => []WaveRight
<1>1. Init => Counter
  BY CounterInit
<1>2. Counter /\ [Next]_vars => Counter'
  BY CounterStep
<1>3. Counter => WaveRight
  BY WaveFromCounter
<1> QED BY <1>1, <1>2, <1>3, PTL DEF Spec
=============================================================================
