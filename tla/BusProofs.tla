----------------------------- MODULE BusProofs ------------------------------
(***************************************************************************)
(* Proofs about Bus, for any instruction mix, any devices and any          *)
(* constants: the processor's drivers are off while a device is master, a  *)
(* held lock keeps every device from becoming one, a channel that has      *)
(* reached its count moves nothing more, and a channel that is selected is *)
(* served within Latency clocks.                                           *)
(***************************************************************************)
EXTENDS Bus, TLAPS, SequenceTheorems, WellFoundedInduction

\* A device that is master has had its acknowledge in the synchroniser since
\* the clock it took the bus on: what keeps the arbitration unit out of state 0.
Owns(x) == x.master # Processor => /\ x.bgack /\ x.ackLast
                                   /\ x.state # 0
                                   /\ x.state = 4 => x.a

Locked(x) == x.master = Processor /\ x.rmc # "none"

IInv == /\ ProcessorTypeOK
        /\ Owns(arbiter)
        /\ rmw = "held" => Locked(arbiter) /\ ran = NoRun

-----------------------------------------------------------------------------
\* The least of a set of lines is one of them.
LEMMA LeastIsIn ==
    ASSUME NEW S \in SUBSET Nat, S # {}
    PROVE  Min(S) \in S
<1>1. IsWellFoundedOn(OpToRel(<, Nat), Nat)
  BY NatLessThanWellFounded
<1>2. PICK m \in S : \A y \in S : ~(<<y, m>> \in OpToRel(<, Nat))
  BY <1>1, WFMin
<1>3. ASSUME NEW y \in S
      PROVE  m <= y
  <2>1. m \in Nat /\ y \in Nat
    BY <1>3
  <2>2. ~(y < m)
    BY <1>2, <1>3, <2>1 DEF OpToRel
  <2> QED BY <2>1, <2>2
<1> QED BY <1>3 DEF Min

\* Whoever is asking is a line or nobody.
LEMMA HighestType ==
    ASSUME NEW x \in Arbiters
    PROVE  HighestRequester(x) \in Lines \cup {Processor}
<1>1. x.request \in SUBSET Nat /\ x.request \subseteq Lines
  BY RequestersAssumption DEF Arbiters, Lines
<1> QED BY <1>1, LeastIsIn DEF HighestRequester

\* Driving RMC or a request line leaves the handover alone.
LEMMA DriveKeeps ==
    ASSUME NEW x \in Arbiters, Owns(x), NEW phase \in Phases, NEW on \in BOOLEAN
    PROVE  /\ SetRmc(x, phase) \in Arbiters /\ Owns(SetRmc(x, phase))
           /\ SetRmc(x, phase).master = x.master /\ SetRmc(x, phase).rmc = phase
           /\ SetLine(x, DmaLine, on) \in Arbiters /\ Owns(SetLine(x, DmaLine, on))
           /\ SetLine(x, DmaLine, on).master = x.master
           /\ SetLine(x, DmaLine, on).rmc = x.rmc
<1>1. DmaLine \in Lines
  BY RequestersAssumption DEF DmaLine, Lines
<1>2. /\ SetRmc(x, phase) \in Arbiters /\ Owns(SetRmc(x, phase))
      /\ SetRmc(x, phase).master = x.master /\ SetRmc(x, phase).rmc = phase
  BY DEF SetRmc, Arbiters, Owns
<1>3. /\ SetLine(x, DmaLine, on) \in Arbiters /\ Owns(SetLine(x, DmaLine, on))
      /\ SetLine(x, DmaLine, on).master = x.master
      /\ SetLine(x, DmaLine, on).rmc = x.rmc
  BY <1>1 DEF SetLine, Arbiters, Owns
<1> QED BY <1>2, <1>3

\* One tick of the arbiter: a new master is acknowledged at once, and none is
\* admitted while RMC is asserted.
LEMMA TickKeeps ==
    ASSUME NEW x \in Arbiters, Owns(x)
    PROVE  /\ ArbiterTick(x) \in Arbiters /\ Owns(ArbiterTick(x))
           /\ ArbiterTick(x).rmc = x.rmc
           /\ Locked(x) => ArbiterTick(x).master = Processor
<1> DEFINE y == HandOver(x)
<1>1. HighestRequester(x) \in Lines \cup {Processor} /\ Processor \notin Lines
  BY HighestType DEF Lines, Processor
<1>2. /\ y \in Arbiters
      /\ y.rmc = x.rmc /\ y.state = x.state /\ y.a = x.a /\ y.ackLast = x.ackLast
      /\ Locked(x) => y.master = Processor
      /\ y.master # Processor => /\ y.bgack
                                 /\ \/ x.state \in {1, 2}
                                    \/ x.ackLast /\ x.state # 0 /\ (x.state = 4 => x.a)
  <2>1. CASE x.master = Processor /\ BusGrant(x) /\ HighestRequester(x) # Processor
    BY <1>1, <2>1 DEF HandOver, Arbiters, Locked, BusGrant
  <2>2. CASE x.master = Processor /\ ~(BusGrant(x) /\ HighestRequester(x) # Processor)
    BY <1>1, <2>2 DEF HandOver, Arbiters, Locked
  <2>3. CASE x.master # Processor
    BY <1>1, <2>3 DEF HandOver, Arbiters, Locked, Owns
  <2> QED BY <2>1, <2>2, <2>3
<1>3. y.state \in 0 .. 4
  BY <1>2 DEF Arbiters
<1>4. NextState(y) \in 0 .. 4
  BY <1>3 DEF NextState
<1>5. y.master # Processor => NextState(y) # 0 /\ (NextState(y) = 4 => y.ackLast)
  BY <1>2, <1>3 DEF NextState
<1>6. /\ ArbTick(y) \in Arbiters
      /\ ArbTick(y).master = y.master /\ ArbTick(y).rmc = y.rmc
      /\ ArbTick(y).bgack = y.bgack /\ ArbTick(y).ackLast = y.bgack
      /\ ArbTick(y).a = y.ackLast /\ ArbTick(y).state = NextState(y)
  BY <1>2, <1>4 DEF ArbTick, Arbiters
<1>7. Owns(ArbTick(y))
  BY <1>2, <1>5, <1>6 DEF Owns
<1> QED BY <1>2, <1>6, <1>7 DEF ArbiterTick

\* One clock of the board: what a tick does to the handover whatever the
\* devices, the controllers and refresh do, and that a locked bus moves nothing.
LEMMA BusTickKeeps ==
    ASSUME NEW x \in Arbiters, Owns(x), BusTick(x)
    PROVE  /\ arbiter' \in Arbiters /\ Owns(arbiter')
           /\ Locked(x) => Locked(arbiter') /\ ran' = NoRun
<1> DEFINE on    == Selected # NoChannel
           y     == SetLine(x, DmaLine, on)
           asked == ArbiterTick(y)
<1>1. PICK phase \in Phases : TRUE
  BY DEF Phases
<1>2. /\ y \in Arbiters /\ Owns(y) /\ y.master = x.master /\ y.rmc = x.rmc
  <2>1. on \in BOOLEAN
    OBVIOUS
  <2> HIDE DEF on
  <2> QED BY <1>1, <2>1, DriveKeeps
<1>3. /\ asked \in Arbiters /\ Owns(asked) /\ asked.rmc = x.rmc
      /\ Locked(x) => asked.master = Processor
  <2> HIDE DEF y
  <2>1. Locked(x) => Locked(y)
    BY <1>2 DEF Locked
  <2> QED BY <1>2, <2>1, TickKeeps
<1>4. CASE PolledTick(x)
  <2>1. arbiter' = SetLine(asked, DmaLine, FALSE)
    BY <1>4 DEF PolledTick, MasterTick
  <2>2. Locked(x) => ran' = NoRun
    BY <1>3, <1>4 DEF PolledTick, DmaLine, Processor
  <2> HIDE DEF asked
  <2>3. /\ arbiter' \in Arbiters /\ Owns(arbiter')
        /\ arbiter'.master = asked.master /\ arbiter'.rmc = asked.rmc
    BY <1>1, <1>3, <2>1, DriveKeeps
  <2> QED BY <1>3, <2>2, <2>3 DEF Locked
<1>5. CASE QuietTick(x)
  <2> DEFINE z == ArbiterTick(x)
  <2>1. z \in Arbiters /\ Owns(z) /\ z.rmc = x.rmc
        /\ (Locked(x) => z.master = Processor)
    BY TickKeeps
  <2>2. arbiter' = SetLine(z, DmaLine, FALSE) /\ ran' = NoRun
    BY <1>5 DEF QuietTick, MasterTick
  <2> HIDE DEF z
  <2>3. /\ arbiter' \in Arbiters /\ Owns(arbiter')
        /\ arbiter'.master = z.master /\ arbiter'.rmc = z.rmc
    BY <1>1, <2>1, <2>2, DriveKeeps
  <2> QED BY <2>1, <2>2, <2>3 DEF Locked
<1> QED BY <1>4, <1>5 DEF BusTick

-----------------------------------------------------------------------------
\* An instruction is a sequence of steps.
LEMMA ProgramsType == Programs \subseteq Seq(Steps)
<1> DEFINE S == Seq(Steps)
<1>1. /\ Fill \in Steps
      /\ \A e \in Stores \cup {Ram} : Store(e) \in Steps
      /\ \A p \in Phases : Acquire(p) \in Steps /\ Clock(p) \in Steps
      /\ Owed \in Steps /\ End \in Steps
  BY DEF Fill, Store, Ram, Acquire, Clock, Owed, End, Steps
<1>2. \A s, t \in S : s \o t \in S
  BY ConcatProperties
<1>3. /\ \A a \in Steps : <<a>> \in S
      /\ \A a, b \in Steps : <<a, b>> \in S
  OBVIOUS
<1>4. \A p \in Phases : Cycle(p) \in S
  <2> SUFFICES ASSUME NEW p \in Phases PROVE Cycle(p) \in S
    OBVIOUS
  <2>1. [k \in 1 .. CycleTicks |-> Clock(p)] \in S
    BY <1>1, BusAssumption
  <2> QED BY <1>1, <1>2, <1>3, <2>1 DEF Cycle
<1> HIDE DEF S
<1>5. \A p \in Phases : Read(p) \in S /\ Search(p) \in S
  BY <1>1, <1>2, <1>3, <1>4 DEF Read, Search, Phases
<1>6. \A p \in Phases, e \in Stores \cup {Ram} : Write(p, e) \in S
  BY <1>1, <1>2, <1>3, <1>4 DEF Write
<1>7. Finish \in S
  BY <1>1, <1>3 DEF Finish
<1>8. Load \in S /\ SearchLoad \in S
  BY <1>2, <1>5, <1>7 DEF Load, SearchLoad, Phases
<1>9. \A e \in Stores : Poke(e) \in S
  BY <1>2, <1>6, <1>7 DEF Poke, Phases
<1>10. Tas \in S /\ SearchTas \in S /\ TasSearch \in S
  BY <1>2, <1>5, <1>6, <1>7 DEF Tas, SearchTas, TasSearch, Phases
<1> QED BY <1>8, <1>9, <1>10 DEF Programs, S

\* What the head of the instruction in execution is, and what is left after it.
LEMMA HeadType ==
    ASSUME todo \in Seq(Steps), todo # <<>>
    PROVE  /\ Tail(todo) \in Seq(Steps)
           /\ Head(todo).do \in {"acquire", "clock"} => Head(todo).rmc \in Phases
           /\ Head(todo).do = "store" => Head(todo).what \in Stores \cup {Ram}
<1>1. Head(todo) \in Steps /\ Tail(todo) \in Seq(Steps)
  BY HeadTailProperties
<1> QED BY <1>1 DEF Steps, Ram

-----------------------------------------------------------------------------
(* The steps.                                                              *)

\* A board out of reset, with nothing in execution.
LEMMA InitIInv == Init => IInv
<1> SUFFICES ASSUME Init PROVE IInv
  OBVIOUS
<1>1. arbiter \in Arbiters /\ Owns(arbiter)
  BY DEF Init, ArbiterReset, Arbiters, Phases, Owns
<1>2. todo \in Seq(Steps) /\ stalled \in 0 .. StallLimit
  BY EmptySeq, BusAssumption DEF Init
<1> QED BY <1>1, <1>2 DEF Init, IInv, ProcessorTypeOK

\* The steps that leave the bus alone.
LEMMA QuietStep ==
    ASSUME IInv, ran' = NoRun, arbiter' = arbiter, todo' \in Seq(Steps),
           stalled' = stalled, rmw' = rmw
    PROVE  IInv'
BY DEF IInv, ProcessorTypeOK, Owns, Locked

\* The steps that run the machine for a clock with RMC at a phase.
LEMMA TickStep ==
    ASSUME IInv, NEW phase \in Phases,
           BusTick(SetRmc(arbiter, phase)),
           todo' \in Seq(Steps), stalled' \in 0 .. StallLimit,
           rmw' = IF phase = "none" THEN "out" ELSE rmw
    PROVE  IInv'
<1> DEFINE x == SetRmc(arbiter, phase)
<1>1. /\ x \in Arbiters /\ Owns(x)
      /\ x.master = arbiter.master /\ x.rmc = phase
  BY DriveKeeps DEF IInv, ProcessorTypeOK
<1>2. /\ arbiter' \in Arbiters /\ Owns(arbiter')
      /\ Locked(x) => Locked(arbiter') /\ ran' = NoRun
  <2> HIDE DEF x
  <2>1. BusTick(x)
    BY DEF x
  <2> QED BY <1>1, <2>1, BusTickKeeps
<1>3. rmw' = "held" => Locked(x)
  BY <1>1 DEF IInv, Locked
<1> QED BY <1>2, <1>3 DEF IInv, ProcessorTypeOK, Owns, Locked

\* An instruction begins.
LEMMA IssueKeeps == ASSUME IInv, NEW p \in Programs, Issue(p) PROVE IInv'
BY ProgramsType, QuietStep DEF Issue, Quiet, IInv, ProcessorTypeOK

\* A read fetches its data.
LEMMA FillKeeps == IInv /\ DoFill => IInv'
BY HeadType, QuietStep DEF DoFill, Next1, Quiet, IInv, ProcessorTypeOK

\* A write reaches memory or a device.
LEMMA StoreKeeps == IInv /\ DoStore => IInv'
BY HeadType, QuietStep DEF DoStore, Next1, Quiet, IInv, ProcessorTypeOK

\* The tape has a byte.
LEMMA TapeKeeps == IInv /\ TapeByte => IInv'
BY QuietStep DEF TapeByte, Quiet, cpu, IInv, ProcessorTypeOK

\* A clock of waiting for the bus.
LEMMA StallKeeps == IInv /\ Stall => IInv'
<1> SUFFICES ASSUME IInv, Stall PROVE IInv'
  OBVIOUS
<1>1. Head(todo).rmc \in Phases
  BY HeadType DEF Stall, Next1, IInv, ProcessorTypeOK
<1>2. stalled' \in 0 .. StallLimit /\ todo' \in Seq(Steps)
  BY BusAssumption DEF Stall, IInv, ProcessorTypeOK
<1> QED BY <1>1, <1>2, TickStep DEF Stall

\* A clock of the processor's own cycle.
LEMMA ClockKeeps == IInv /\ DoClock => IInv'
<1> SUFFICES ASSUME IInv, DoClock PROVE IInv'
  OBVIOUS
<1>1. Head(todo).rmc \in Phases /\ Tail(todo) \in Seq(Steps)
  BY HeadType DEF DoClock, Next1, IInv, ProcessorTypeOK
<1>2. stalled' \in 0 .. StallLimit /\ todo' \in Seq(Steps)
  BY <1>1 DEF DoClock, IInv, ProcessorTypeOK
<1> QED BY <1>1, <1>2, TickStep DEF DoClock

\* The return of machine_bus_acquire: a hold begins only on a bus the
\* processor has, and goes on only with RMC still asserted.
LEMMA TakeKeeps == IInv /\ Take => IInv'
<1> SUFFICES ASSUME IInv, Take PROVE IInv'
  OBVIOUS
<1> DEFINE phase == Head(todo).rmc
           x     == SetRmc(arbiter, phase)
<1>1. phase \in Phases /\ Tail(todo) \in Seq(Steps)
  BY HeadType DEF Take, Next1, IInv, ProcessorTypeOK
<1>2. /\ x \in Arbiters /\ Owns(x)
      /\ x.master = arbiter.master /\ x.rmc = phase
  BY <1>1, DriveKeeps DEF IInv, ProcessorTypeOK
<1>3. /\ arbiter' = x /\ todo' = Tail(todo) /\ stalled' = 0
      /\ rmw' = HoldAfter(phase) /\ ran' = NoRun
  BY DEF Take, Quiet
<1>4. rmw' = "held" => Locked(x)
  BY <1>2, <1>3 DEF HoldAfter, Locked
<1>5. rmw' \in {"out", "held", "broken"}
  BY <1>3 DEF HoldAfter
<1>6. stalled' \in 0 .. StallLimit
  BY <1>3, BusAssumption
<1> QED BY <1>1, <1>2, <1>3, <1>4, <1>5, <1>6 DEF IInv, ProcessorTypeOK, Owns, Locked

\* The clocks owed, with RMC as the last cycle left it.
LEMMA OwedKeeps == IInv /\ DoOwed => IInv'
<1> SUFFICES ASSUME IInv, DoOwed PROVE IInv'
  OBVIOUS
<1>1. Tail(todo) \in Seq(Steps)
  BY HeadType DEF DoOwed, Next1, IInv, ProcessorTypeOK
<1>2. /\ arbiter' \in Arbiters /\ Owns(arbiter')
      /\ Locked(arbiter) => Locked(arbiter') /\ ran' = NoRun
  BY BusTickKeeps DEF DoOwed, IInv, ProcessorTypeOK
<1> QED BY <1>1, <1>2 DEF DoOwed, IInv, ProcessorTypeOK, Owns, Locked

\* The instruction ends and RMC with it.
LEMMA EndKeeps == IInv /\ DoEnd => IInv'
<1> SUFFICES ASSUME IInv, DoEnd PROVE IInv'
  OBVIOUS
<1>1. Tail(todo) \in Seq(Steps)
  BY HeadType DEF DoEnd, Next1, IInv, ProcessorTypeOK
<1>2. arbiter' \in Arbiters /\ Owns(arbiter')
  BY DriveKeeps DEF DoEnd, Phases, IInv, ProcessorTypeOK
<1> QED BY <1>1, <1>2 DEF DoEnd, Quiet, IInv, ProcessorTypeOK, Owns, Locked

\* Every step keeps the inductive invariant.
LEMMA NextKeeps == IInv /\ [Next]_vars => IInv'
<1> SUFFICES ASSUME IInv, [Next]_vars PROVE IInv'
  OBVIOUS
<1>1. CASE \E p \in Programs : Issue(p)
  BY <1>1, IssueKeeps
<1>2. CASE Execute
  BY <1>2, FillKeeps, StoreKeeps, StallKeeps, TakeKeeps, ClockKeeps, OwedKeeps,
     EndKeeps DEF Execute
<1>3. CASE TapeByte
  BY <1>3, TapeKeeps
<1>4. CASE UNCHANGED vars
  BY <1>4 DEF vars, cpu, IInv, ProcessorTypeOK, Owns, Locked
<1> QED BY <1>1, <1>2, <1>3, <1>4 DEF Next

\* The inductive invariant holds throughout.
LEMMA SpecIInv == Spec => []IInv
<1> QED BY InitIInv, NextKeeps, PTL DEF Spec

-----------------------------------------------------------------------------
(* The theorems.                                                           *)

\* While a device is master of the bus (ap_arbiter.c) the processor's
\* arbitration unit (ap_m68030_arb.c) keeps its drivers off, for every
\* instruction mix, every number of lines and every timing.
THEOREM DriversStayOff == Spec => []DriversOff
<1>1. IInv => DriversOff
  BY DEF IInv, Owns, DriversOff, ThreeState
<1> QED BY <1>1, SpecIInv, PTL

\* Once machine_bus_acquire has returned with the bus and RMC asserted, no
\* device becomes master and no channel transfers until RMC is negated.
THEOREM LockStaysHeld == Spec => []LockHeld
<1>1. IInv => LockHeld
  BY DEF IInv, Locked, LockHeld
<1> QED BY <1>1, SpecIInv, PTL

-----------------------------------------------------------------------------
(* The controllers: their types, and what is over stays over.              *)

\* e is d after steps that neither unmask a channel nor request one, nor program one.
Tighter(d, e) ==
    /\ e \in Controllers
    /\ \A c \in Channels : /\ e.ch[c].mode = d.ch[c].mode
                           /\ e.ch[c].transfer = d.ch[c].transfer
                           /\ e.ch[c].auto = d.ch[c].auto
    /\ d.mask \subseteq e.mask /\ e.request \subseteq d.request

\* A byte's worth of a word, and the word after it.
LEMMA Words ==
    /\ 0 \in Word
    /\ \A w \in Word : (w - 1) % (Byte * Byte) \in Word
    /\ \A w \in Word, v \in 0 .. Byte - 1 : /\ (v * Byte) + (w % Byte) \in Word
                                            /\ (w \div Byte) * Byte + v \in Word
<1> DEFINE B == Byte * Byte
<1>1. B \in Nat /\ B > 0 /\ Byte \in Nat /\ Byte > 0
  BY ByteAssumption
<1>2. Word = 0 .. B - 1
  BY DEF Word
<1>3. \A v, r \in 0 .. Byte - 1 : (v * Byte) + r \in 0 .. B - 1
  <2> SUFFICES ASSUME NEW v \in 0 .. Byte - 1, NEW r \in 0 .. Byte - 1
               PROVE  (v * Byte) + r \in 0 .. B - 1
    OBVIOUS
  <2>1. v * Byte \in Nat
    BY <1>1
  <2>2. v * Byte <= (Byte - 1) * Byte
    BY <1>1
  <2>3. (Byte - 1) * Byte = B - Byte
    BY <1>1
  <2> QED BY <1>1, <2>1, <2>2, <2>3
<1>4. \A w \in 0 .. B - 1 : w % Byte \in 0 .. Byte - 1 /\ w \div Byte \in 0 .. Byte - 1
  <2> SUFFICES ASSUME NEW w \in 0 .. B - 1
               PROVE  w % Byte \in 0 .. Byte - 1 /\ w \div Byte \in 0 .. Byte - 1
    OBVIOUS
  <2>1. w % Byte \in 0 .. Byte - 1 /\ w \div Byte \in Int
        /\ w = Byte * (w \div Byte) + (w % Byte)
    BY <1>1
  <2>2. w \div Byte >= 0
    BY <1>1, <2>1
  <2>3. w \div Byte < Byte
    <3> SUFFICES ASSUME w \div Byte >= Byte PROVE FALSE
      BY <1>1, <2>1
    <3>1. Byte * (w \div Byte) >= Byte * Byte
      BY <1>1, <2>1
    <3> QED BY <1>1, <2>1, <3>1
  <2> QED BY <1>1, <2>1, <2>2, <2>3
<1> HIDE DEF B
<1>5. \A w \in Word : (w - 1) % B \in 0 .. B - 1
  BY <1>1, <1>2
<1>6. 0 \in 0 .. B - 1
  BY <1>1
<1> QED BY <1>2, <1>3, <1>4, <1>5, <1>6 DEF B

\* The request pins.
LEMMA PinKeeps ==
    ASSUME NEW d \in Controllers, NEW c \in Channels, NEW on
    PROVE  Tighter(d, SetRequestPin(d, c, on))
<1> QED BY DEF Tighter, SetRequestPin, Controllers

\* The registers the driver writes.
LEMMA WrittenType ==
    ASSUME NEW d \in Controllers, NEW c \in Channels, NEW on \in BOOLEAN
    PROVE  /\ WriteMask(d, c, on) \in Controllers /\ WriteRequest(d, c, on) \in Controllers
           /\ WriteMask(d, c, on).ch = d.ch /\ WriteRequest(d, c, on).ch = d.ch
           /\ WriteMask(d, c, on).request = d.request /\ WriteRequest(d, c, on).mask = d.mask
           /\ on  => /\ WriteMask(d, c, on).mask = d.mask \cup {c}
                     /\ WriteRequest(d, c, on).request = d.request \cup {c}
           /\ ~on => /\ WriteMask(d, c, on).mask = d.mask \ {c}
                     /\ WriteRequest(d, c, on).request = d.request \ {c}
<1> QED BY DEF WriteMask, WriteRequest, Controllers

\* A channel that is selected is one, and asks.
LEMMA PendingIsAsking ==
    ASSUME NEW d \in Controllers, ServicePending(d) # NoChannel
    PROVE  ServicePending(d) \in Channels /\ ServicePending(d) \in Asking(d)
<1>1. Asking(d) \in SUBSET Nat /\ Asking(d) \subseteq Channels
  BY DEF Asking, Controllers, Channels
<1> QED BY <1>1, LeastIsIn DEF ServicePending

\* A count changed.
LEMMA CountSet ==
    ASSUME NEW d \in Controllers, NEW c \in Channels, NEW n \in Word
    PROVE  LET e == [d EXCEPT !.ch[c].count = n]
           IN  /\ Tighter(d, e) /\ e.mask = d.mask /\ e.request = d.request
               /\ e.ch[c].auto = d.ch[c].auto /\ e.ch[c].base \in Word
<1> QED BY DEF Tighter, Controllers, ChannelState

\* One unit counted.
LEMMA CountedKeeps ==
    ASSUME NEW d \in Controllers, NEW c \in Channels
    PROVE  /\ Tighter(d, Counted(d, c))
           /\ Expires(d, c) /\ ~d.ch[c].auto
                => c \in Counted(d, c).mask /\ c \notin Counted(d, c).request
<1> DEFINE n == (d.ch[c].count - 1) % (Byte * Byte)
           down == [d EXCEPT !.ch[c].count = n]
<1>1. n \in Word
  BY Words DEF Controllers, ChannelState
<1> HIDE DEF n
<1>2. Tighter(d, down) /\ down.mask = d.mask /\ down.request = d.request
      /\ down.ch[c].auto = d.ch[c].auto /\ down.ch[c].base \in Word
  BY <1>1, CountSet
<1>3. Counted(d, c) = IF Expires(d, c) THEN TerminalCount(down, c) ELSE down
  BY DEF Counted, n
<1> HIDE DEF down
<1>4. down \in Controllers
  BY <1>2 DEF Tighter
<1>5. Tighter(down, TerminalCount(down, c))
      /\ (~down.ch[c].auto => c \in TerminalCount(down, c).mask
                              /\ c \notin TerminalCount(down, c).request)
  <2> DEFINE on == [down EXCEPT !.request = @ \ {c}]
  <2>1. on \in Controllers /\ on.ch = down.ch /\ on.mask = down.mask
        /\ on.request = down.request \ {c}
    BY <1>4 DEF Controllers
  <2> HIDE DEF on
  <2>2. CASE down.ch[c].auto
    <3>1. TerminalCount(down, c) = [on EXCEPT !.ch[c].count = down.ch[c].base]
      BY <2>2 DEF TerminalCount, on
    <3> DEFINE m == down.ch[c].base
               e == [on EXCEPT !.ch[c].count = m]
    <3>2. m \in Word
      BY <1>2
    <3> HIDE DEF m
    <3>3. Tighter(on, e) /\ e.mask = on.mask /\ e.request = on.request
      BY <2>1, <3>2, CountSet
    <3>4. TerminalCount(down, c) = e
      BY <3>1 DEF m
    <3> HIDE DEF e
    <3>5. Tighter(down, e)
      BY <2>1, <3>3 DEF Tighter
    <3> QED BY <2>2, <3>4, <3>5
  <2>3. CASE ~down.ch[c].auto
    <3>1. TerminalCount(down, c) = [on EXCEPT !.mask = @ \cup {c}]
      BY <2>3 DEF TerminalCount, on
    <3> QED BY <2>1, <2>3, <3>1 DEF Tighter, Controllers
  <2> QED BY <2>2, <2>3
<1> QED BY <1>2, <1>3, <1>4, <1>5 DEF Tighter

\* The cascade's channel alone is programmed for cascade, none for an illegal transfer.
Modal(d) == \A u \in Units, c \in Channels :
              /\ d[u].ch[c].transfer # "illegal"
              /\ d[u].ch[c].mode = "cascade" <=> u = 1 /\ c = 0

\* A channel that is over is masked, and not requested.
Over(d, F) == \A p \in F : p[2] \in d[p[1]].mask /\ p[2] \notin d[p[1]].request

KInv == /\ dma \in [Units -> Controllers] /\ Modal(dma)
        /\ finished \subseteq Units \X Channels /\ Over(dma, finished)

\* The controllers with their pins driven.
Pinned == [u \in Units |-> IF u = 0 THEN Pinned0 ELSE Pinned1]

\* Controllers that were only tightened are still programmed, and what is over is over.
LEMMA TighterKeeps ==
    ASSUME NEW d, NEW e \in [Units -> Controllers], \A u \in Units : Tighter(d[u], e[u]),
           Modal(d), NEW F \in SUBSET (Units \X Channels), Over(d, F)
    PROVE  Modal(e) /\ Over(e, F)
<1>1. Modal(e)
  BY DEF Tighter, Modal
<1>2. ASSUME NEW p \in F PROVE p[2] \in e[p[1]].mask /\ p[2] \notin e[p[1]].request
  <2>1. p[1] \in Units
    OBVIOUS
  <2>2. Tighter(d[p[1]], e[p[1]])
    BY <2>1
  <2> QED BY <2>2 DEF Tighter, Over
<1> QED BY <1>1, <1>2 DEF Over

\* Driving the pins only tightens.
LEMMA PinnedKeeps ==
    ASSUME KInv
    PROVE  Pinned \in [Units -> Controllers] /\ \A u \in Units : Tighter(dma[u], Pinned[u])
<1>1. dma[0] \in Controllers /\ dma[1] \in Controllers
  BY DEF KInv, Units
<1>2. \A c, d, e : Tighter(c, d) /\ Tighter(d, e) => Tighter(c, e)
  BY DEF Tighter
<1>3. \A d \in Controllers, c \in Channels : \A on :
         /\ Tighter(d, SetRequestPin(d, c, on))
         /\ SetRequestPin(d, c, on) \in Controllers
  BY PinKeeps DEF Tighter
<1>4. 0 \in Channels /\ 1 \in Channels /\ 2 \in Channels /\ 3 \in Channels
  BY DEF Channels
<1>5. Tighter(dma[0], Pinned0) /\ Pinned0 \in Controllers
  BY <1>1, <1>2, <1>3, <1>4 DEF Pinned0
<1>6. Tighter(dma[1], Pinned1) /\ Pinned1 \in Controllers
  BY <1>1, <1>2, <1>3, <1>4 DEF Pinned1
<1> QED BY <1>5, <1>6 DEF Pinned, Units

\* A transfer is a channel's that asks, and is not over.
LEMMA TransferKeeps ==
    ASSUME KInv, Transfer(Pinned)
    PROVE  KInv' /\ (ran' # NoRun => ran' \notin finished)
<1> DEFINE u == RunningUnit
           c == ServicePending(Pinned[u])
           e == [Pinned EXCEPT ![u] = Counted(@, c)]
<1>1. u \in Units
  BY DEF RunningUnit, Units, CascadeUnit
<1>2. /\ Pinned \in [Units -> Controllers] /\ \A v \in Units : Tighter(dma[v], Pinned[v])
      /\ Modal(dma) /\ finished \in SUBSET (Units \X Channels) /\ Over(dma, finished)
  BY PinnedKeeps DEF KInv
<1>3. Modal(Pinned) /\ Over(Pinned, finished)
  BY <1>2, TighterKeeps
<1>4. CASE Runs(Pinned[u])
  <2>1. /\ dma' = e /\ ran' = <<u, c>>
        /\ finished' = IF Expires(Pinned[u], c) /\ ~Pinned[u].ch[c].auto
                       THEN finished \cup {<<u, c>>} ELSE finished
    BY <1>4 DEF Transfer
  <2>2. Pinned[u] \in Controllers /\ c # NoChannel
    BY <1>1, <1>2, <1>4 DEF Runs
  <2>3. c \in Channels /\ c \in Asking(Pinned[u])
    BY <2>2, PendingIsAsking
  <2> DEFINE k == Counted(Pinned[u], c)
  <2>4. /\ Tighter(Pinned[u], k)
        /\ Expires(Pinned[u], c) /\ ~Pinned[u].ch[c].auto => c \in k.mask /\ c \notin k.request
    BY <2>2, <2>3, CountedKeeps
  <2> HIDE DEF k, u, c
  <2>5. e = [v \in Units |-> IF v = u THEN k ELSE Pinned[v]]
    BY <1>2 DEF k
  <2>6. e \in [Units -> Controllers] /\ \A v \in Units : Tighter(dma[v], e[v])
    BY <1>1, <1>2, <2>4, <2>5 DEF Tighter
  <2> HIDE DEF e
  <2>7. Modal(e) /\ Over(e, finished)
    BY <1>2, <2>6, TighterKeeps
  <2>8. Over(e, finished') /\ finished' \subseteq Units \X Channels
    <3>1. e[u] = k
      BY <1>1, <2>5
    <3>2. CASE Expires(Pinned[u], c) /\ ~Pinned[u].ch[c].auto
      <4>1. finished' = finished \cup {<<u, c>>}
        BY <2>1, <3>2
      <4>2. c \in e[u].mask /\ c \notin e[u].request
        BY <2>4, <3>1, <3>2
      <4> QED BY <1>1, <1>2, <2>3, <2>7, <4>1, <4>2 DEF Over
    <3>3. CASE ~(Expires(Pinned[u], c) /\ ~Pinned[u].ch[c].auto)
      BY <1>2, <2>1, <2>7, <3>3
    <3> QED BY <3>2, <3>3
  <2>9. <<u, c>> \notin finished
    <3> SUFFICES ASSUME <<u, c>> \in finished PROVE FALSE
      OBVIOUS
    <3>1. c \in Pinned[u].mask /\ c \notin Pinned[u].request
      BY <1>3 DEF Over
    <3> QED BY <2>3, <3>1 DEF Asking
  <2>10. KInv'
    BY <2>1, <2>6, <2>7, <2>8 DEF KInv, Modal, Over
  <2> QED BY <2>1, <2>9, <2>10
<1>5. CASE ~Runs(Pinned[u])
  <2>1. dma' = Pinned /\ ran' = NoRun /\ finished' = finished
    BY <1>5 DEF Transfer
  <2> QED BY <1>2, <1>3, <2>1 DEF KInv, Modal, Over
<1> QED BY <1>4, <1>5

\* One clock of the board.
LEMMA TickControls ==
    ASSUME KInv, NEW x, BusTick(x)
    PROVE  KInv' /\ (ran' # NoRun => ran' \notin finished)
<1>1. CASE QuietTick(x)
  BY <1>1 DEF QuietTick, KInv, Modal, Over
<1>2. CASE PolledTick(x)
  <2> DEFINE asked == ArbiterTick(SetLine(x, DmaLine, Selected # NoChannel))
  <2>1. CASE asked.master = DmaLine /\ ticksLeft = 0
    <3>1. Transfer(Pinned)
      BY <1>2, <2>1 DEF PolledTick, Pinned
    <3> QED BY <3>1, TransferKeeps
  <2>2. CASE ~(asked.master = DmaLine /\ ticksLeft = 0)
    <3>1. dma' = Pinned /\ ran' = NoRun /\ finished' = finished
      BY <1>2, <2>2 DEF PolledTick, Pinned, devices
    <3>2. /\ Pinned \in [Units -> Controllers] /\ \A v \in Units : Tighter(dma[v], Pinned[v])
          /\ Modal(dma) /\ finished \in SUBSET (Units \X Channels) /\ Over(dma, finished)
      BY PinnedKeeps DEF KInv
    <3>3. Modal(Pinned) /\ Over(Pinned, finished)
      BY <3>2, TighterKeeps
    <3> QED BY <3>1, <3>2, <3>3 DEF KInv, Modal, Over
  <2> QED BY <2>1, <2>2
<1> QED BY <1>1, <1>2 DEF BusTick

\* The driver's write to a controller or a command: unmasking or requesting a channel
\* is what lets one that is over move again.
LEMMA StoreControls ==
    ASSUME KInv, NEW e \in Stores \cup {Ram}, Stored(e)
    PROVE  KInv'
<1>1. CASE e.to \notin {"mask", "request"}
  BY <1>1 DEF Stored, KInv, Modal, Over
<1>2. CASE e.to \in {"mask", "request"}
  <2> DEFINE u == e.unit
             c == e.ch
             k == IF e.to = "mask" THEN WriteMask(dma[u], c, e.on) ELSE WriteRequest(dma[u], c, e.on)
             d == [dma EXCEPT ![u] = k]
             F == IF e.on = (e.to = "request") THEN finished \ {<<u, c>>} ELSE finished
  <2>1. u \in Units /\ c \in Channels /\ e.on \in BOOLEAN
    BY <1>2, StoresAssumption DEF Ram
  <2>2. dma' = d /\ finished' = F
    BY <1>2 DEF Stored
  <2>3. dma[u] \in Controllers /\ dma \in [Units -> Controllers] /\ finished \subseteq Units \X Channels
    BY <2>1 DEF KInv
  <2>4. /\ k \in Controllers /\ k.ch = dma[u].ch
        /\ \A j \in Channels : \/ j = c /\ F = finished \ {<<u, c>>}
                               \/ /\ j \in dma[u].mask => j \in k.mask
                                  /\ j \in k.request => j \in dma[u].request
    <3>1. CASE e.to = "mask"
      <4>1. k = WriteMask(dma[u], c, e.on) /\ (~e.on => F = finished \ {<<u, c>>})
        BY <2>1, <3>1
      <4> HIDE DEF k, F
      <4> QED BY <2>1, <2>3, <4>1, WrittenType, SMTT(30)
    <3>2. CASE e.to = "request"
      <4>1. k = WriteRequest(dma[u], c, e.on) /\ (e.on => F = finished \ {<<u, c>>})
        BY <2>1, <3>2
      <4> HIDE DEF k, F
      <4> QED BY <2>1, <2>3, <4>1, WrittenType, SMTT(30)
    <3> QED BY <1>2, <3>1, <3>2
  <2> HIDE DEF k
  <2>5. d = [v \in Units |-> IF v = u THEN k ELSE dma[v]]
    BY <2>3
  <2>6. F \subseteq finished
    OBVIOUS
  <2> HIDE DEF d, F, u, c
  <2>7. d \in [Units -> Controllers] /\ d[u] = k /\ \A v \in Units : v # u => d[v] = dma[v]
    BY <2>1, <2>3, <2>4, <2>5
  <2>8. Modal(d)
    BY <2>1, <2>4, <2>7 DEF KInv, Modal
  <2>9. ASSUME NEW p \in F PROVE p[2] \in d[p[1]].mask /\ p[2] \notin d[p[1]].request
    <3>1. /\ p \in finished /\ p[1] \in Units /\ p[2] \in Channels /\ p = <<p[1], p[2]>>
          /\ p[2] \in dma[p[1]].mask /\ p[2] \notin dma[p[1]].request
      BY <2>3, <2>6 DEF KInv, Over
    <3>2. CASE p[1] # u
      BY <2>7, <3>1, <3>2
    <3>3. CASE p[1] = u
      <4>1. ~(p[2] = c /\ F = finished \ {<<u, c>>})
        BY <2>9, <3>1, <3>3
      <4> QED BY <2>4, <2>7, <3>1, <3>3, <4>1
    <3> QED BY <3>2, <3>3
  <2> QED BY <2>2, <2>3, <2>6, <2>7, <2>8, <2>9 DEF KInv, Modal, Over
<1> QED BY <1>1, <1>2

\* What programming a channel does to a controller.
Programs1(d, e, c) == /\ e \in Controllers
                      /\ \A j \in Channels \ {c} : /\ e.ch[j].mode = d.ch[j].mode
                                                   /\ e.ch[j].transfer = d.ch[j].transfer

\* A mode register.
LEMMA ModeWritten ==
    ASSUME NEW d \in Controllers, NEW c \in Channels, NEW mode \in Modes,
           NEW t \in Transfers, NEW auto \in BOOLEAN
    PROVE  /\ Programs1(d, WriteMode(d, c, mode, t, auto), c)
           /\ WriteMode(d, c, mode, t, auto).ch[c].mode = mode
           /\ WriteMode(d, c, mode, t, auto).ch[c].transfer = t
<1> DEFINE s == [d.ch[c] EXCEPT !.mode = mode, !.transfer = t, !.auto = auto]
           e == [d EXCEPT !.ch = [@ EXCEPT ![c] = s]]
<1>1. d.ch \in [Channels -> ChannelState] /\ d.ch[c] \in ChannelState
  BY DEF Controllers
<1>2. s \in ChannelState /\ s.mode = mode /\ s.transfer = t
  BY <1>1 DEF ChannelState
<1>3. WriteMode(d, c, mode, t, auto) = e
  BY <1>1 DEF WriteMode, Controllers, ChannelState
<1> HIDE DEF s
<1>4. e \in Controllers /\ e.ch[c] = s /\ \A j \in Channels \ {c} : e.ch[j] = d.ch[j]
  BY <1>1, <1>2 DEF Controllers
<1> HIDE DEF e
<1> QED BY <1>2, <1>3, <1>4 DEF Programs1

\* Half a word count.
LEMMA CountWritten ==
    ASSUME NEW d \in Controllers, NEW c \in Channels, NEW v \in 0 .. Byte - 1
    PROVE  /\ Programs1(d, WriteCount(d, c, v), c)
           /\ WriteCount(d, c, v).ch[c].mode = d.ch[c].mode
           /\ WriteCount(d, c, v).ch[c].transfer = d.ch[c].transfer
<1> DEFINE base == d.ch[c].base
           new == IF d.high THEN (v * Byte) + (base % Byte) ELSE (base \div Byte) * Byte + v
           s == [d.ch[c] EXCEPT !.base = new, !.count = new]
           e == [d EXCEPT !.ch = [@ EXCEPT ![c] = s], !.high = ~@]
<1>1. d.ch \in [Channels -> ChannelState] /\ d.ch[c] \in ChannelState
  BY DEF Controllers
<1>2. new \in Word
  <2>1. base \in Word
    BY <1>1 DEF ChannelState
  <2> HIDE DEF base
  <2>2. (v * Byte) + (base % Byte) \in Word /\ (base \div Byte) * Byte + v \in Word
    BY <2>1, Words
  <2> QED BY <2>2
<1>3. WriteCount(d, c, v) = [d EXCEPT !.ch[c].base = new, !.ch[c].count = new, !.high = ~@]
  BY DEF WriteCount
<1> HIDE DEF new
<1>4. s \in ChannelState /\ s.mode = d.ch[c].mode /\ s.transfer = d.ch[c].transfer
  BY <1>1, <1>2 DEF ChannelState
<1>5. WriteCount(d, c, v) = e
  BY <1>1, <1>3 DEF Controllers, ChannelState
<1> HIDE DEF s
<1>6. e \in Controllers /\ e.ch[c] = s /\ \A j \in Channels \ {c} : e.ch[j] = d.ch[j]
  BY <1>1, <1>4 DEF Controllers
<1> HIDE DEF e
<1> QED BY <1>4, <1>5, <1>6 DEF Programs1

\* A channel programmed by the driver.
LEMMA LoadedType ==
    ASSUME NEW d \in Controllers, NEW c \in Channels, NEW mode \in Modes
    PROVE  /\ Programs1(d, Loaded(d, c, mode), c)
           /\ Loaded(d, c, mode).ch[c].mode = mode
           /\ Loaded(d, c, mode).ch[c].transfer = "write"
<1> DEFINE a == WriteMode(d, c, mode, "write", Autoinit)
           b == WriteCount(a, c, Count[1])
<1>1. Count[1] \in 0 .. Byte - 1 /\ Count[2] \in 0 .. Byte - 1 /\ Autoinit \in BOOLEAN
  BY BusAssumption
<1>2. "write" \in Transfers
  BY DEF Transfers
<1>3. Programs1(d, a, c) /\ a.ch[c].mode = mode /\ a.ch[c].transfer = "write"
  BY <1>1, <1>2, ModeWritten
<1>4. Loaded(d, c, mode) = WriteCount(b, c, Count[2])
  BY DEF Loaded
<1> HIDE DEF a
<1>5. Programs1(a, b, c) /\ b.ch[c].mode = mode /\ b.ch[c].transfer = "write"
  BY <1>1, <1>3, CountWritten DEF Programs1
<1> HIDE DEF b
<1>6. /\ Programs1(b, WriteCount(b, c, Count[2]), c)
      /\ WriteCount(b, c, Count[2]).ch[c].mode = mode
      /\ WriteCount(b, c, Count[2]).ch[c].transfer = "write"
  BY <1>1, <1>5, CountWritten DEF Programs1
<1> QED BY <1>3, <1>4, <1>5, <1>6 DEF Programs1

\* The driver's programming.
LEMMA InitKInv == Init => KInv
<1> SUFFICES ASSUME Init PROVE KInv
  OBVIOUS
<1> DEFINE R == DmaReset
           a == Loaded(R, 1, "demand")
           b == Loaded(a, 2, "block")
           c == Loaded(R, 3, "demand")
           no == FALSE
           e == WriteMode(c, 0, "cascade", "verify", no)
<1>1. R \in Controllers /\ \A j \in Channels : R.ch[j].mode = "demand" /\ R.ch[j].transfer = "verify"
  BY Words DEF DmaReset, Controllers, ChannelState, Channels, Modes, Transfers
<1>2. /\ 0 \in Channels /\ 1 \in Channels /\ 2 \in Channels /\ 3 \in Channels
      /\ "demand" \in Modes /\ "block" \in Modes /\ "cascade" \in Modes /\ "verify" \in Transfers
  BY DEF Channels, Modes, Transfers
<1>n. no \in BOOLEAN
  OBVIOUS
<1> HIDE DEF R, no
<1>3. Programs1(R, a, 1) /\ a.ch[1].mode = "demand" /\ a.ch[1].transfer = "write"
  BY <1>1, <1>2, LoadedType
<1>4. Programs1(R, c, 3) /\ c.ch[3].mode = "demand" /\ c.ch[3].transfer = "write"
  BY <1>1, <1>2, LoadedType
<1> HIDE DEF a, c
<1>5. Programs1(a, b, 2) /\ b.ch[2].mode = "block" /\ b.ch[2].transfer = "write"
  BY <1>2, <1>3, LoadedType DEF Programs1
<1>6. Programs1(c, e, 0) /\ e.ch[0].mode = "cascade" /\ e.ch[0].transfer = "verify"
  BY <1>2, <1>4, <1>n, ModeWritten DEF Programs1
<1>7. dma[0] = WriteMask(b, 1, no) /\ dma[1] = WriteMask(e, 0, no)
  BY DEF Init, Programmed, Units, a, b, c, e, R, no
<1>8. dma = [u \in Units |-> dma[u]] /\ finished = {}
  BY DEF Init
<1> HIDE DEF b, e
<1>9. /\ dma[0] \in Controllers /\ dma[0].ch = b.ch
      /\ dma[1] \in Controllers /\ dma[1].ch = e.ch
  BY <1>2, <1>5, <1>6, <1>7, <1>n, WrittenType DEF Programs1
<1>10. \A j \in Channels : /\ b.ch[j].mode # "cascade" /\ b.ch[j].transfer # "illegal"
                           /\ e.ch[j].mode = "cascade" <=> j = 0
                           /\ e.ch[j].transfer # "illegal"
  BY <1>1, <1>2, <1>3, <1>4, <1>5, <1>6 DEF Programs1, Channels
<1>11. Modal(dma)
  BY <1>9, <1>10 DEF Modal, Units
<1>12. dma \in [Units -> Controllers]
  BY <1>8, <1>9 DEF Units
<1> QED BY <1>8, <1>11, <1>12 DEF KInv, Over

-----------------------------------------------------------------------------
\* Every step keeps the controllers well programmed, and only a clock moves a channel:
\* one that is not over.
LEMMA StepControls ==
    ASSUME IInv, KInv, Next
    PROVE  KInv' /\ (ran' # NoRun => ran' \notin finished)
<1>1. ASSUME dma' = dma, finished' = finished, ran' = NoRun
      PROVE  KInv' /\ (ran' # NoRun => ran' \notin finished)
  BY <1>1 DEF KInv, Modal, Over
<1>2. CASE \E p \in Programs : Issue(p)
  BY <1>1, <1>2 DEF Issue, Quiet
<1>3. CASE DoFill
  BY <1>1, <1>3 DEF DoFill, Quiet
<1>4. CASE DoStore
  <2>1. Head(todo).what \in Stores \cup {Ram} /\ Stored(Head(todo).what) /\ ran' = NoRun
    BY <1>4, HeadType DEF DoStore, Next1, Quiet, IInv, ProcessorTypeOK
  <2>2. KInv'
    BY <2>1, StoreControls
  <2> QED BY <2>1, <2>2
<1>5. CASE Stall
  BY <1>5, TickControls DEF Stall
<1>6. CASE Take
  BY <1>1, <1>6 DEF Take, Quiet
<1>7. CASE DoClock
  BY <1>7, TickControls DEF DoClock
<1>8. CASE DoOwed
  BY <1>8, TickControls DEF DoOwed
<1>9. CASE DoEnd
  BY <1>1, <1>9 DEF DoEnd, Quiet
<1>10. CASE TapeByte
  BY <1>1, <1>10 DEF TapeByte, Quiet
<1> QED BY <1>2, <1>3, <1>4, <1>5, <1>6, <1>7, <1>8, <1>9, <1>10 DEF Next, Execute

\* Both invariants hold throughout.
LEMMA SpecKInv == Spec => [](IInv /\ KInv)
<1>1. KInv /\ UNCHANGED vars => KInv'
  BY DEF KInv, Modal, Over, vars
<1>2. IInv /\ KInv /\ [Next]_vars => KInv'
  BY <1>1, StepControls
<1> QED BY <1>2, InitKInv, SpecIInv, PTL DEF Spec

\* Every register of the two controllers keeps its width, and every channel the modes
\* the driver wrote: the cascade's alone is in cascade mode.
THEOREM ControllersTyped == Spec => [](dma \in [Units -> Controllers] /\ Modal(dma))
<1>1. KInv => dma \in [Units -> Controllers] /\ Modal(dma)
  BY DEF KInv
<1> QED BY <1>1, SpecKInv, PTL

\* A one-shot channel that has reached its count (ap_i8237.c masks it and drops its
\* request) moves nothing more until software unmasks it or requests it, whatever its
\* device asks, whatever the count and however often the registers are written.
THEOREM CountsAreFinal == Spec => StopsAtCount
<1>1. IInv /\ KInv /\ [Next]_vars => [ran' # NoRun => ran' \notin finished]_vars
  BY StepControls
<1> QED BY <1>1, SpecKInv, PTL DEF Spec, StopsAtCount

-----------------------------------------------------------------------------
(* The wait of a channel.                                                  *)

\* The clocks a transfer leaves to pay.
Pay == IF TransferTicks > 1 THEN TransferTicks - 1 ELSE 0

\* Between two steps no line is up, the DMA line alone can be master, and BGACK has
\* followed the master through the first stage of its synchroniser.
Handed(x) ==
    /\ x.request = {} /\ x.master \in {Processor, DmaLine}
    /\ x.bgack = (x.master # Processor) /\ x.ackLast = x.bgack
    /\ x.state = 0 => ~x.a

\* The clocks before BG, for a line that is up: one to leave state 4 or to bring the
\* request through the synchroniser, and one to reach state 1.
ToGo(x) == IF x.state \in {1, 2} THEN 0 ELSE IF x.state = 0 /\ x.r THEN 1 ELSE 2

\* A channel that has waited w clocks, with k left to pay of the last transfer, will
\* be served in time.
Waits(x, w, k) ==
    /\ k \in 0 .. Pay /\ w \in Nat
    /\ w > 0 /\ x.master = Processor => /\ x.brLast /\ ~x.a /\ x.state # 3
                                        /\ x.state = 2 => x.r
                                        /\ w + ToGo(x) <= 3
    /\ w > 0 /\ x.master # Processor => w + k <= 3 + Pay

WInv == Handed(arbiter) /\ Waits(arbiter, waited, ticksLeft)

\* A channel that is selected is one that moves: the cascade's channel is asked for
\* only while a channel of unit 0 is, and none is programmed for an illegal transfer.
LEMMA SelectedRuns ==
    ASSUME KInv, Selected # NoChannel
    PROVE  Runs(Pinned[RunningUnit])
<1>1. /\ Pinned \in [Units -> Controllers] /\ \A u \in Units : Tighter(dma[u], Pinned[u])
      /\ Modal(dma)
  BY PinnedKeeps DEF KInv
<1>2. Modal(Pinned)
  BY <1>1 DEF Tighter, Modal
<1>3. Pinned[0] = Pinned0 /\ Pinned[1] = Pinned1 /\ Pinned0 \in Controllers /\ Pinned1 \in Controllers
  BY <1>1 DEF Pinned, Units
<1>4. /\ \A c \in Channels : Pinned0.ch[c].mode # "cascade" /\ Pinned0.ch[c].transfer # "illegal"
      /\ \A c \in Channels : /\ Pinned1.ch[c].mode = "cascade" <=> c = 0
                             /\ Pinned1.ch[c].transfer # "illegal"
  BY <1>2, <1>3 DEF Modal, Units
<1>5. Selected \in Channels /\ Selected \in Asking(Pinned1)
  BY <1>3, PendingIsAsking DEF Selected
<1>6. CASE Selected = 0
  <2>1. RunningUnit = 0
    BY <1>4, <1>5, <1>6 DEF RunningUnit
  <2>2. 0 \in Pinned1.dreq
    BY <1>4, <1>5, <1>6 DEF Asking
  <2> DEFINE r == SetRequestPin(dma[1], 3, disk["winchester"] > 0)
  <2>3. Pinned1 = SetRequestPin(r, 0, ServicePending(Pinned0) # NoChannel)
    BY DEF Pinned1
  <2>4. r \in Controllers
    <3>1. dma[1] \in Controllers /\ 3 \in Channels
      BY DEF KInv, Units, Channels
    <3> QED BY <3>1 DEF SetRequestPin, Controllers
  <2> HIDE DEF r
  <2>5. ServicePending(Pinned0) # NoChannel
    <3> SUFFICES ASSUME ServicePending(Pinned0) = NoChannel PROVE FALSE
      OBVIOUS
    <3>1. Pinned1.dreq = r.dreq \ {0}
      BY <2>3, <2>4 DEF SetRequestPin, Controllers
    <3> QED BY <2>2, <3>1
  <2>6. ServicePending(Pinned0) \in Channels
    BY <1>3, <2>5, PendingIsAsking
  <2> QED BY <1>3, <1>4, <2>1, <2>5, <2>6 DEF Runs
<1>7. CASE Selected # 0
  <2>1. RunningUnit = 1
    BY <1>7 DEF RunningUnit, CascadeUnit
  <2> QED BY <1>3, <1>4, <1>5, <1>7, <2>1 DEF Runs, Selected
<1> QED BY <1>6, <1>7

\* What a tick makes of the arbiter with only the DMA line to ask, as implications.
Ticked(x, y, on) ==
    /\ y.rmc = x.rmc /\ y.state = NextState(x)
    /\ y.r = x.brLast /\ y.brLast = on /\ y.a = x.ackLast /\ y.ackLast = y.bgack
    /\ y.request = {}
    /\ x.master = Processor /\ on /\ BusGrant(x) => y.master = DmaLine /\ y.bgack = TRUE
    /\ x.master = Processor /\ ~(on /\ BusGrant(x)) => y.master = Processor /\ y.bgack = x.bgack
    /\ x.master = DmaLine /\ on => y.master = DmaLine /\ y.bgack = x.bgack
    /\ x.master = DmaLine /\ ~on => y.master = Processor /\ y.bgack = FALSE

\* A tick with the DMA line up or down, and lowered after it as ap_master_tick does.
LEMMA AskingTick ==
    ASSUME NEW x \in Arbiters, x.request = {}, x.master \in {Processor, DmaLine}, NEW on \in BOOLEAN
    PROVE  Ticked(x, MasterTick(ArbiterTick(SetLine(x, DmaLine, on))), on)
<1> DEFINE l == SetLine(x, DmaLine, on)
           h == HandOver(l)
           t == ArbTick(h)
           y == MasterTick(t)
<1>1. DmaLine \in Lines /\ DmaLine \in Nat /\ DmaLine # Processor
  BY RequestersAssumption DEF DmaLine, Lines, Processor
<1>2. /\ l \in Arbiters /\ l.master = x.master /\ l.state = x.state /\ l.rmc = x.rmc
      /\ l.brLast = x.brLast /\ l.r = x.r /\ l.bgack = x.bgack /\ l.ackLast = x.ackLast /\ l.a = x.a
      /\ on => l.request = {DmaLine}
      /\ ~on => l.request = {}
  BY <1>1 DEF SetLine, Arbiters
<1>3. /\ on  => HighestRequester(l) = DmaLine
      /\ ~on => HighestRequester(l) = Processor
  <2>1. on => Min({DmaLine}) = DmaLine
    BY <1>1, LeastIsIn
  <2> QED BY <1>2, <2>1 DEF HighestRequester
<1>4. BusGrant(l) <=> BusGrant(x)
  BY <1>2 DEF BusGrant
<1> HIDE DEF l
<1>5. /\ h \in Arbiters /\ h.request = l.request /\ h.state = x.state /\ h.rmc = x.rmc
      /\ h.br = on /\ h.brLast = x.brLast /\ h.r = x.r /\ h.ackLast = x.ackLast /\ h.a = x.a
      /\ x.master = Processor /\ on /\ BusGrant(x) => h.master = DmaLine /\ h.bgack = TRUE
      /\ x.master = Processor /\ ~(on /\ BusGrant(x)) => h.master = Processor /\ h.bgack = x.bgack
      /\ x.master = DmaLine /\ on => h.master = DmaLine /\ h.bgack = x.bgack
      /\ x.master = DmaLine /\ ~on => h.master = Processor /\ h.bgack = FALSE
  <2> DEFINE asked == [l EXCEPT !.br = HighestRequester(l) # Processor]
  <2>1. asked = [l EXCEPT !.br = on]
    BY <1>1, <1>3
  <2>2. /\ asked \in Arbiters /\ asked.request = l.request /\ asked.state = x.state
        /\ asked.rmc = x.rmc /\ asked.br = on /\ asked.brLast = x.brLast /\ asked.r = x.r
        /\ asked.ackLast = x.ackLast /\ asked.a = x.a /\ asked.master = x.master
        /\ asked.bgack = x.bgack
    BY <1>2, <2>1 DEF Arbiters
  <2>3. h = IF l.master = Processor
            THEN IF BusGrant(l) /\ HighestRequester(l) # Processor
                 THEN [asked EXCEPT !.master = HighestRequester(l), !.bgack = TRUE] ELSE asked
            ELSE IF l.master \notin l.request
                 THEN [asked EXCEPT !.master = Processor, !.bgack = FALSE] ELSE asked
    BY DEF HandOver
  <2> HIDE DEF asked, h
  <2>4. CASE x.master = Processor /\ on /\ BusGrant(x)
    <3>1. h = [asked EXCEPT !.master = DmaLine, !.bgack = TRUE]
      BY <1>1, <1>2, <1>3, <1>4, <2>3, <2>4
    <3> QED BY <1>1, <2>2, <2>4, <3>1 DEF Arbiters
  <2>5. CASE x.master = Processor /\ ~(on /\ BusGrant(x))
    <3>1. h = asked
      BY <1>1, <1>2, <1>3, <1>4, <2>3, <2>5
    <3> QED BY <1>1, <2>2, <2>5, <3>1
  <2>6. CASE x.master = DmaLine /\ on
    <3>1. h = asked
      BY <1>1, <1>2, <2>3, <2>6
    <3> QED BY <1>1, <2>2, <2>6, <3>1
  <2>7. CASE x.master = DmaLine /\ ~on
    <3>1. h = [asked EXCEPT !.master = Processor, !.bgack = FALSE]
      BY <1>1, <1>2, <2>3, <2>7
    <3> QED BY <1>1, <2>2, <2>7, <3>1 DEF Arbiters
  <2> QED BY <2>4, <2>5, <2>6, <2>7
<1> HIDE DEF h
<1>6. NextState(h) = NextState(x)
  BY <1>5 DEF NextState, MayGrant
<1>7. /\ t.request = l.request /\ t.master = h.master /\ t.rmc = x.rmc /\ t.state = NextState(x)
      /\ t.r = x.brLast /\ t.brLast = on /\ t.a = x.ackLast /\ t.ackLast = h.bgack /\ t.bgack = h.bgack
  BY <1>5, <1>6 DEF ArbTick, Arbiters
<1>8. y = [t EXCEPT !.request = @ \ {DmaLine}]
  BY DEF MasterTick, SetLine
<1>9. DOMAIN t = DOMAIN x
  BY <1>5 DEF ArbTick, Arbiters
<1>10. /\ y.request = {} /\ y.master = h.master /\ y.rmc = x.rmc /\ y.state = NextState(x)
       /\ y.r = x.brLast /\ y.brLast = on /\ y.a = x.ackLast /\ y.ackLast = h.bgack /\ y.bgack = h.bgack
  <2>1. {DmaLine} \ {DmaLine} = {}
    OBVIOUS
  <2> HIDE DEF t
  <2> QED BY <1>2, <1>7, <1>8, <1>9, <2>1 DEF Arbiters
<1> HIDE DEF y
<1>11. Ticked(x, y, on)
  BY <1>5, <1>10 DEF Ticked
<1> QED BY <1>11 DEF y, t, h, l, ArbiterTick

\* A tick hands on the shape of the arbiter: when nobody has had the bus, no
\* acknowledge is on its way.
LEMMA HandedOn ==
    ASSUME NEW x, NEW y, NEW on, Ticked(x, y, on), Handed(x), Owns(x), x.state \in 0 .. 4
    PROVE  Handed(y)
<1>1. y.master \in {Processor, DmaLine} /\ y.bgack = (y.master # Processor)
  BY DEF Ticked, Handed, DmaLine, Processor
<1>2. y.state = 0 => ~y.a
  <2> SUFFICES ASSUME x.ackLast, NextState(x) = 0 PROVE FALSE
    BY DEF Ticked
  <2>1. x.master # Processor
    BY DEF Handed
  <2>2. x.state # 0 /\ (x.state = 4 => x.a)
    BY <2>1 DEF Owns
  <2> QED BY <2>2 DEF NextState
<1> QED BY <1>1, <1>2 DEF Handed, Ticked

\* The wait of a selected channel grows by a clock only while the bus comes a clock
\* nearer, or a clock of the last transfer is paid.
LEMMA WaitGrows ==
    ASSUME NEW x, NEW y, Ticked(x, y, TRUE), Handed(x), x.state \in 0 .. 4, x.rmc \in Phases,
           NEW w, NEW k, Waits(x, w, k), NEW v, NEW m,
           v = IF x.rmc = "none" THEN w + 1 ELSE w,
           \/ y.master = Processor /\ m = k
           \/ y.master # Processor /\ k # 0 /\ m = k - 1
    PROVE  Waits(y, v, m)
<1>1. /\ Pay \in Nat /\ k \in 0 .. Pay /\ w \in Nat /\ v \in Nat /\ v <= w + 1 /\ w <= v
  BY BusAssumption DEF Waits, Pay
<1>2. m \in 0 .. Pay
  BY <1>1
<1>3. CASE y.master # Processor
  <2>1. m = k - 1
    BY <1>3
  <2>2. CASE w = 0
    BY <1>1, <1>2, <1>3, <2>1, <2>2 DEF Waits
  <2>3. CASE w > 0 /\ x.master # Processor
    <3>1. w + k <= 3 + Pay
      BY <2>3 DEF Waits
    <3> QED BY <1>1, <1>2, <1>3, <2>1, <3>1 DEF Waits
  <2>4. CASE w > 0 /\ x.master = Processor
    <3>1. w <= 3
      BY <1>1, <2>4 DEF Waits, ToGo
    <3> QED BY <1>1, <1>2, <1>3, <2>1, <3>1 DEF Waits
  <2> QED BY <1>1, <2>2, <2>3, <2>4
<1>4. CASE y.master = Processor
  <2>1. x.master = Processor /\ ~BusGrant(x)
    BY <1>4 DEF Ticked, Handed, DmaLine, Processor
  <2>2. /\ y.state = NextState(x) /\ y.r = x.brLast /\ y.brLast /\ ~y.a
    BY <2>1 DEF Ticked, Handed
  <2> SUFFICES ASSUME v > 0
               PROVE  y.state # 3 /\ (y.state = 2 => y.r) /\ v + ToGo(y) <= 3
    BY <1>1, <1>2, <1>4, <2>2 DEF Waits
  <2>3. CASE w = 0
    <3>1. v = 1 /\ x.rmc = "none"
      BY <1>1, <2>3
    <3>2. x.state \in {0, 3, 4}
      BY <2>1, <3>1 DEF BusGrant
    <3>3. y.state \in {0, 1, 4}
      BY <2>2, <3>2 DEF NextState
    <3>4. ToGo(y) \in 0 .. 2
      BY DEF ToGo
    <3> QED BY <3>1, <3>3, <3>4
  <2>4. CASE w > 0
    <3>1. /\ x.brLast /\ ~x.a /\ x.state # 3 /\ (x.state = 2 => x.r) /\ w + ToGo(x) <= 3
      BY <2>1, <2>4 DEF Waits
    <3>2. y.r
      BY <2>2, <3>1
    <3>3. CASE x.rmc = "none"
      <4>1. v = w + 1 /\ x.state \in {0, 4}
        BY <2>1, <3>1, <3>3 DEF BusGrant
      <4>2. CASE x.state = 0 /\ x.r
        <5>1. y.state = 1
          BY <2>2, <3>3, <4>2 DEF NextState, MayGrant
        <5>2. ToGo(x) = 1 /\ ToGo(y) = 0
          BY <4>2, <5>1 DEF ToGo
        <5> QED BY <1>1, <3>1, <4>1, <5>1, <5>2
      <4>3. CASE ~(x.state = 0 /\ x.r)
        <5>1. y.state = 0
          BY <2>2, <3>1, <4>1, <4>3 DEF NextState
        <5>2. ToGo(x) = 2 /\ ToGo(y) = 1
          BY <3>2, <4>1, <4>3, <5>1 DEF ToGo
        <5> QED BY <1>1, <3>1, <4>1, <5>1, <5>2
      <4> QED BY <4>2, <4>3
    <3>4. CASE x.rmc # "none"
      <4>1. v = w
        BY <3>4
      <4>2. CASE x.state \in {1, 2}
        <5>1. y.state = 2
          BY <2>2, <3>1, <4>2 DEF NextState
        <5>2. ToGo(x) = 0 /\ ToGo(y) = 0
          BY <4>2, <5>1 DEF ToGo
        <5> QED BY <3>1, <3>2, <4>1, <5>1, <5>2
      <4>3. CASE x.state \in {0, 4}
        <5>1. y.state \in {0, 1}
          BY <2>2, <3>1, <4>3 DEF NextState
        <5>2. ToGo(x) \in {1, 2} /\ ToGo(y) \in {0, 1}
          BY <3>2, <4>3, <5>1 DEF ToGo
        <5> QED BY <1>1, <3>1, <4>1, <5>1, <5>2
      <4> QED BY <3>1, <4>2, <4>3
    <3> QED BY <3>3, <3>4
  <2> QED BY <1>1, <2>3, <2>4
<1> QED BY <1>3, <1>4

\* One clock of the board, with the arbiter as the processor has driven it.
LEMMA TickWaits ==
    ASSUME KInv, NEW x \in Arbiters, Handed(x), Owns(x), Waits(x, waited, ticksLeft), BusTick(x)
    PROVE  WInv'
<1>1. /\ x.state \in 0 .. 4 /\ x.rmc \in Phases /\ x.request = {}
      /\ x.master \in {Processor, DmaLine}
  BY DEF Arbiters, Handed
<1>2. /\ Pay \in Nat /\ ticksLeft \in 0 .. Pay /\ waited \in Nat
      /\ TicksToPay \in 0 .. Pay
  BY BusAssumption DEF Waits, Pay, TicksToPay
<1>3. CASE QuietTick(x)
  <2> DEFINE no == FALSE
  <2>1. SetLine(x, DmaLine, no) = x
    BY <1>1 DEF SetLine, Arbiters
  <2>2. no \in BOOLEAN
    OBVIOUS
  <2>3. arbiter' = MasterTick(ArbiterTick(SetLine(x, DmaLine, no)))
    BY <1>3, <2>1 DEF QuietTick
  <2> HIDE DEF no
  <2>4. Ticked(x, arbiter', no)
    BY <1>1, <2>2, <2>3, AskingTick
  <2>5. Handed(arbiter')
    BY <1>1, <2>4, HandedOn
  <2>6. waited' = 0 /\ ticksLeft' = ticksLeft
    BY <1>3 DEF QuietTick
  <2>7. Waits(arbiter', waited', ticksLeft')
    BY <1>2, <2>6 DEF Waits
  <2> QED BY <2>5, <2>7 DEF WInv, Handed, Waits, ToGo, Pay
<1>4. CASE PolledTick(x)
  <2> DEFINE on    == Selected # NoChannel
             asked == ArbiterTick(SetLine(x, DmaLine, on))
             y     == MasterTick(asked)
  <2>1. on \in BOOLEAN
    OBVIOUS
  <2>2. arbiter' = y
    BY <1>4 DEF PolledTick
  <2>3. asked.master = y.master
    BY DEF MasterTick, SetLine
  <2>4. Ticked(x, y, on)
    <3> HIDE DEF on
    <3> QED BY <1>1, <2>1, AskingTick
  <2>5. Handed(y)
    <3> HIDE DEF on, y
    <3> QED BY <1>1, <2>4, HandedOn
  <2>6. /\ asked.master = DmaLine /\ ticksLeft = 0 => Transfer(Pinned)
        /\ ~(asked.master = DmaLine /\ ticksLeft = 0) =>
             /\ asked.master = DmaLine => ticksLeft' = ticksLeft - 1
             /\ asked.master # DmaLine => ticksLeft' = ticksLeft
    BY <1>4 DEF PolledTick, Pinned
  <2>7. waited' = IF Selected = NoChannel \/ ran' # NoRun THEN 0
                  ELSE IF x.rmc = "none" THEN waited + 1 ELSE waited
    BY <1>4 DEF PolledTick
  <2> HIDE DEF asked, y
  <2>8. y.master \in {Processor, DmaLine} /\ DmaLine # Processor
    BY <2>5 DEF Handed, DmaLine, Processor
  <2>9. Transfer(Pinned) => ticksLeft' \in 0 .. Pay
    BY <1>2 DEF Transfer
  <2>10. Transfer(Pinned) /\ on => ran' # NoRun
    BY SelectedRuns DEF Transfer, NoRun
  <2>11. ticksLeft' \in 0 .. Pay
    <3>1. CASE asked.master = DmaLine /\ ticksLeft = 0
      BY <2>6, <2>9, <3>1
    <3>2. CASE ~(asked.master = DmaLine /\ ticksLeft = 0)
      BY <1>2, <2>6, <3>2
    <3> QED BY <3>1, <3>2
  <2>12. Waits(y, waited', ticksLeft')
    <3>1. CASE ~on \/ ran' # NoRun
      <4>1. waited' = 0
        BY <2>7, <3>1
      <4> QED BY <2>11, <4>1 DEF Waits
    <3>2. CASE on /\ ran' = NoRun
      <4>1. waited' = IF x.rmc = "none" THEN waited + 1 ELSE waited
        BY <2>7, <3>2
      <4>2. ~(asked.master = DmaLine /\ ticksLeft = 0)
        BY <2>6, <2>10, <3>2
      <4>3. \/ y.master = Processor /\ ticksLeft' = ticksLeft
            \/ y.master # Processor /\ ticksLeft # 0 /\ ticksLeft' = ticksLeft - 1
        BY <2>3, <2>6, <2>8, <4>2
      <4>4. Ticked(x, y, TRUE)
        BY <2>4, <3>2
      <4> HIDE DEF on
      <4> QED BY <1>1, <4>1, <4>3, <4>4, WaitGrows
    <3> QED BY <3>1, <3>2
  <2> QED BY <2>2, <2>5, <2>12 DEF WInv, Handed, Waits, ToGo, Pay
<1> QED BY <1>3, <1>4 DEF BusTick

\* Driving RMC neither hands the bus over nor lengthens a wait.
LEMMA DrivenWaits ==
    ASSUME NEW x \in Arbiters, NEW phase, Handed(x), NEW w, NEW k, Waits(x, w, k)
    PROVE  Handed(SetRmc(x, phase)) /\ Waits(SetRmc(x, phase), w, k)
BY DEF SetRmc, Arbiters, Handed, Waits, ToGo

\* Nothing waits at reset.
LEMMA InitWInv == Init => WInv
<1> SUFFICES ASSUME Init PROVE WInv
  OBVIOUS
<1>1. arbiter = ArbiterReset /\ waited = 0 /\ ticksLeft = 0
  BY DEF Init
<1>2. Handed(ArbiterReset)
  BY DEF ArbiterReset, Handed
<1>3. 0 \in 0 .. Pay
  BY BusAssumption DEF Pay
<1> QED BY <1>1, <1>2, <1>3 DEF WInv, Waits

\* Every step keeps the wait bounded.
LEMMA StepWaits ==
    ASSUME IInv, KInv, WInv, Next
    PROVE  WInv'
<1>1. ASSUME arbiter' = arbiter, Quiet PROVE WInv'
  BY <1>1 DEF Quiet, WInv, Handed, Waits, ToGo, Pay
<1>2. arbiter \in Arbiters /\ Owns(arbiter)
  BY DEF IInv, ProcessorTypeOK
<1>3. ASSUME NEW phase, Quiet, arbiter' = SetRmc(arbiter, phase) PROVE WInv'
  <2>1. Handed(arbiter') /\ Waits(arbiter', waited, ticksLeft)
    BY <1>2, <1>3, DrivenWaits DEF WInv
  <2> QED BY <1>3, <2>1 DEF Quiet, WInv, Handed, Waits, ToGo, Pay
<1>4. ASSUME Head(todo).rmc \in Phases, BusTick(SetRmc(arbiter, Head(todo).rmc)) PROVE WInv'
  <2> DEFINE x == SetRmc(arbiter, Head(todo).rmc)
  <2>1. x \in Arbiters /\ Owns(x)
    BY <1>2, <1>4, DriveKeeps
  <2>2. Handed(x) /\ Waits(x, waited, ticksLeft)
    BY <1>2, DrivenWaits DEF WInv
  <2>3. BusTick(x)
    BY <1>4
  <2> HIDE DEF x
  <2> QED BY <2>1, <2>2, <2>3, TickWaits
<1>5. todo # <<>> /\ Head(todo).do \in {"acquire", "clock"} => Head(todo).rmc \in Phases
  BY HeadType DEF IInv, ProcessorTypeOK
<1>6. CASE \E p \in Programs : Issue(p)
  BY <1>1, <1>6 DEF Issue
<1>7. CASE DoFill
  BY <1>1, <1>7 DEF DoFill
<1>8. CASE DoStore
  BY <1>1, <1>8 DEF DoStore
<1>9. CASE Stall
  BY <1>4, <1>5, <1>9 DEF Stall, Next1
<1>10. CASE Take
  BY <1>3, <1>10 DEF Take
<1>11. CASE DoClock
  BY <1>4, <1>5, <1>11 DEF DoClock, Next1
<1>12. CASE DoOwed
  BY <1>2, <1>12, TickWaits DEF DoOwed, WInv
<1>13. CASE DoEnd
  BY <1>3, <1>13 DEF DoEnd
<1>14. CASE TapeByte
  BY <1>1, <1>14 DEF TapeByte
<1> QED BY <1>6, <1>7, <1>8, <1>9, <1>10, <1>11, <1>12, <1>13, <1>14 DEF Next, Execute

\* A channel that the controllers have selected has its transfer before more than
\* Latency clocks have passed with RMC negated, however the processor's cycles, its
\* locks and the refresh fall and whatever the length of a transfer: the bound is the
\* synchroniser of BR, the state that grants, and the clocks the last transfer owes.
THEOREM ChannelsServedSoon == Spec => []ServedSoon
<1>1. WInv /\ UNCHANGED vars => WInv'
  BY DEF WInv, Handed, Waits, ToGo, Pay, vars
<1>2. IInv /\ KInv /\ WInv /\ [Next]_vars => WInv'
  BY <1>1, StepWaits
<1>3. WInv => ServedSoon
  <2> SUFFICES ASSUME WInv PROVE waited <= Latency
    BY DEF ServedSoon
  <2>1. Pay \in Nat /\ ticksLeft \in 0 .. Pay /\ waited \in Nat /\ Latency = 3 + Pay
    BY BusAssumption DEF WInv, Waits, Pay, Latency
  <2>2. ToGo(arbiter) \in 0 .. 2
    BY DEF ToGo
  <2> QED BY <2>1, <2>2 DEF WInv, Waits
<1> QED BY <1>2, <1>3, InitWInv, SpecKInv, PTL DEF Spec

-----------------------------------------------------------------------------
=============================================================================
