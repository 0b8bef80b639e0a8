---------------------------- MODULE StorageProofs ----------------------------
(***************************************************************************)
(* Proofs about the disk, the diskette, the cartridge tape and the 8 mm    *)
(* tape, for every volume, command set and bound the assumptions allow.    *)
(* Each device has an invariant of its own: what its registers can be      *)
(* together (Sound), and what the medium can differ in from when the       *)
(* command under way began (Did).  Every register access keeps both, and   *)
(* so does time; before the instant a device gave, time does nothing at    *)
(* all.  Sections on the four devices come first, bottom up from the       *)
(* operators of the model, and the machine that drives them last.          *)
(***************************************************************************)
EXTENDS Storage, FiniteSetTheorems, WellFoundedInduction, SequenceTheorems, TLAPS

-----------------------------------------------------------------------------
(* The disk: what every command leaves of the controller's lines.          *)

\* The controller's registers.
DiskFields == {"phase", "st", "mask", "taken", "cmd", "buf", "i", "len", "left", "next",
               "long", "assigning", "ends", "error", "sense", "last", "vol", "writable"}
\* A controller has these, and only these.
IsDisk(d) == d = [x \in DiskFields |-> d[x]]

\* The lines agree with the phase.
Lined(d) ==
    /\ d.st \subseteq Lines
    /\ "dreq" \in d.st => d.phase \in {"in", "out"} /\ "dma" \in d.mask
    /\ "ireq" \in d.st => d.phase = "status" /\ "int" \in d.mask
    /\ "cd" \in d.st <=> d.phase \in {"command", "status"}
    /\ "io" \in d.st <=> d.phase \in {"in", "status"}

\* A command under way has asked for no interrupt, and for no byte but by DMA.
Underway(d) ==
    /\ IsDisk(d)
    /\ d.st \subseteq Lines \ {"ireq"}
    /\ "dreq" \in d.st => "dma" \in d.mask

\* What a command's end leaves as it was.
Beside(e, d) ==
    /\ e.mask = d.mask /\ e.vol = d.vol /\ e.cmd = d.cmd /\ e.writable = d.writable
    /\ e.taken = d.taken /\ e.next = d.next /\ e.long = d.long /\ e.assigning = d.assigning

\* The command e is what d's has come to, with the medium as it was.
Over(e, d) ==
    /\ IsDisk(e) /\ Lined(e) /\ Beside(e, d)
    /\ e.phase \in {"executing", "status"}
    /\ e.phase = "executing" => e.ends \in Nat
    /\ e.left \in {0, d.left}

\* A command ends in its status, with the interrupt if it is not masked, ...
LEMMA CompleteIs ==
  ASSUME NEW d, IsDisk(d)
  PROVE  LET e == Complete(d) IN
         /\ IsDisk(e) /\ e.phase = "status" /\ Beside(e, d) /\ e.ends = d.ends /\ e.left = 0
         /\ e.st = (d.st \ {"dreq"}) \cup {"cd", "io", "req"}
                     \cup (IF "int" \in d.mask THEN {"ireq"} ELSE {})
BY DEF IsDisk, DiskFields, Complete, Beside

\* ... and with lines that agree.
LEMMA CompleteLines ==
  ASSUME NEW d, IsDisk(d), d.st \subseteq Lines, "ireq" \in d.st => "int" \in d.mask
  PROVE  Lined(Complete(d))
<1> DEFINE e == Complete(d)
<1>1. /\ e.phase = "status" /\ e.mask = d.mask
      /\ e.st = (d.st \ {"dreq"}) \cup {"cd", "io", "req"}
                  \cup (IF "int" \in d.mask THEN {"ireq"} ELSE {})
  BY CompleteIs DEF Beside
<1> HIDE DEF e
<1>2. Lined(e)
  BY <1>1 DEF Lined, Lines
<1> QED BY <1>2 DEF e

\* A command with nothing left to do ends at once or takes its time.
LEMMA EndedIs ==
  ASSUME NEW d, Underway(d), NEW t \in Nat, Duration(d) \in Nat
  PROVE  Over(Ended(d, t), d)
<1>1. CASE Duration(d) = 0
  <2> DEFINE e == Complete(d)
  <2>1. IsDisk(e) /\ Lined(e) /\ Beside(e, d) /\ e.phase = "status" /\ e.left = 0
    BY CompleteIs, CompleteLines DEF Underway
  <2>2. Ended(d, t) = e
    BY <1>1 DEF Ended
  <2> HIDE DEF e
  <2> QED BY <2>1, <2>2 DEF Over
<1>2. CASE Duration(d) # 0
  <2> DEFINE n == t + Duration(d)
             e == [d EXCEPT !.phase = "executing", !.ends = n, !.st = {"bsy"}]
  <2>1. Ended(d, t) = e /\ n \in Nat
    BY <1>2 DEF Ended
  <2> HIDE DEF n
  <2>2. IsDisk(e) /\ e.phase = "executing" /\ e.ends = n /\ e.st = {"bsy"} /\ Beside(e, d)
        /\ e.left = d.left
    BY DEF Underway, IsDisk, DiskFields, Beside
  <2> HIDE DEF e
  <2>3. Lined(e)
    BY <2>2 DEF Lined, Lines
  <2> QED BY <2>1, <2>2, <2>3 DEF Over
<1> QED BY <1>1, <1>2

\* That time is a number.
LEMMA DurationNat ==
  ASSUME NEW d, d.cmd.count \in Nat
  PROVE  Duration(d) \in Nat
<1>1. Seek + Spin * d.cmd.count \in Nat /\ Timeout \in Nat
  BY OmtiAssumption
<1> QED BY <1>1 DEF Duration

\* An error noted, and the medium and the lines left alone.
LEMMA FinishIs ==
  ASSUME NEW d, Underway(d), NEW t \in Nat, NEW fault, d.cmd.count \in Nat
  PROVE  Over(Finish(d, t, fault), d)
<1> DEFINE s == <<fault, IF fault = NoFault /\ d.last >= 0 /\ Selected(d) THEN d.last ELSE 0>>
           b == (fault # NoFault)
           x == [d EXCEPT !.error = b, !.sense = s]
<1>1. Finish(d, t, fault) = Ended(x, t)
  BY DEF Finish
<1> HIDE DEF s, b
<1>2. Underway(x) /\ Beside(x, d) /\ x.left = d.left
  BY DEF Underway, IsDisk, DiskFields, Beside
<1> HIDE DEF x
<1>3. Duration(x) \in Nat
  BY <1>2, DurationNat DEF Beside
<1>4. Over(Ended(x, t), x)
  BY <1>2, <1>3, EndedIs
<1> QED BY <1>1, <1>2, <1>4 DEF Over, Beside

\* A command refused has touched nothing.
LEMMA RefuseIs ==
  ASSUME NEW d, Underway(d), NEW t \in Nat, NEW fault, NEW at, d.cmd.count \in Nat
  PROVE  Over(Refuse(d, t, fault, at), d)
<1> DEFINE f == Finish(d, t, fault)
           e == [f EXCEPT !.sense = <<fault, at>>]
<1>1. Over(f, d)
  BY FinishIs
<1>2. Refuse(d, t, fault, at) = e
  BY DEF Refuse
<1> HIDE DEF f
<1>3. /\ IsDisk(e) /\ Beside(e, f) /\ e.phase = f.phase /\ e.st = f.st /\ e.ends = f.ends
      /\ e.left = f.left
  BY <1>1 DEF Over, IsDisk, DiskFields, Beside
<1> HIDE DEF e
<1>4. Lined(e)
  BY <1>1, <1>3 DEF Over, Lined, Beside
<1> QED BY <1>1, <1>2, <1>3, <1>4 DEF Over, Beside

\* The counters of a transfer.
Numbered(d) == d.next \in Int /\ d.left \in Nat /\ d.long \in [at : Int, blocks : Nat]

\* What is different on the medium was to be written, and could be.
Within(e, d) ==
    /\ DOMAIN e.vol = Addr
    /\ \A a \in Addr : e.vol[a] # d.vol[a] => a \in Target(d) /\ d.writable

\* The bytes still to come go where the command said.
Owed(d) ==
    d.phase = "out" =>
      /\ d.assigning => d.cmd.op = "assign" /\ d.writable
      /\ d.long.blocks > 0 => /\ d.cmd.op = "write_long" /\ d.writable
                              /\ d.long.at = d.cmd.lba /\ d.long.blocks = Blocks(d.cmd)
      /\ d.left > 0 => /\ d.cmd.op = "write" /\ d.writable
                       /\ d.cmd.lba <= d.next /\ d.next + d.left = d.cmd.lba + Blocks(d.cmd)

\* The command of d, x so far.
Kin(x, d) ==
    /\ Underway(x) /\ Numbered(x) /\ Within(x, d)
    /\ x.mask = d.mask /\ x.cmd = d.cmd /\ x.writable = d.writable /\ x.taken = d.taken

\* ... and what it may leave.
Performed(e, d) ==
    /\ IsDisk(e) /\ Lined(e) /\ Numbered(e) /\ Within(e, d) /\ Owed(e)
    /\ e.phase \in {"in", "out", "executing", "status"}
    /\ e.phase = "executing" => e.ends \in Nat
    /\ e.mask = d.mask /\ e.cmd = d.cmd /\ e.writable = d.writable /\ e.taken = d.taken

\* What comes to its end is what a command may leave.
LEMMA OverPerforms ==
  ASSUME NEW d, NEW x, NEW e, Kin(x, d), Over(e, x)
  PROVE  Performed(e, d)
<1>1. Owed(e)
  BY DEF Over, Owed
<1>2. Numbered(e)
  BY DEF Over, Beside, Kin, Numbered
<1>3. Within(e, d)
  BY DEF Over, Beside, Kin, Within
<1> QED BY <1>1, <1>2, <1>3 DEF Over, Beside, Kin, Performed

\* A command may finish with a fault or none, ...
LEMMA KinFinish ==
  ASSUME NEW d, NEW x, Kin(x, d), NEW t \in Nat, NEW fault, d.cmd.count \in Nat
  PROVE  Performed(Finish(x, t, fault), d)
<1>1. Underway(x) /\ x.cmd.count \in Nat
  BY DEF Kin
<1> QED BY <1>1, FinishIs, OverPerforms

\* ... be refused, ...
LEMMA KinRefuse ==
  ASSUME NEW d, NEW x, Kin(x, d), NEW t \in Nat, NEW fault, NEW at, d.cmd.count \in Nat
  PROVE  Performed(Refuse(x, t, fault, at), d)
<1>1. Underway(x) /\ x.cmd.count \in Nat
  BY DEF Kin
<1> QED BY <1>1, RefuseIs, OverPerforms

\* ... or end after so many sectors.
LEMMA KinEnding ==
  ASSUME NEW d, NEW x, Kin(x, d), NEW t \in Nat, NEW n, d.cmd.count \in Nat
  PROVE  Performed(Ending(x, t, n), d)
<1>1. Performed(Finish(x, t, NoFault), d) /\ Performed(Refuse(x, t, Overflow, x.cmd.lba), d)
  BY KinFinish, KinRefuse
<1> QED BY <1>1 DEF Ending

\* A data phase raises the lines of its direction.
LEMMA DataPhaseIs ==
  ASSUME NEW d, Underway(d), NEW phase \in {"in", "out"}
  PROVE  LET e == DataPhase(d, phase) IN
         /\ IsDisk(e) /\ Lined(e) /\ Beside(e, d) /\ e.phase = phase /\ e.left = d.left
<1> DEFINE s == (d.st \ {"cd", "io"}) \cup {"req"} \cup (IF phase = "in" THEN {"io"} ELSE {})
                  \cup (IF "dma" \in d.mask THEN {"dreq"} ELSE {})
           e == [d EXCEPT !.phase = phase, !.i = 0, !.st = s]
<1>1. DataPhase(d, phase) = e
  BY DEF DataPhase, Underway, IsDisk, DiskFields
<1>2. /\ s \subseteq Lines \ {"ireq"} /\ "cd" \notin s /\ ("io" \in s <=> phase = "in")
      /\ "dreq" \in s => "dma" \in d.mask
  BY DEF Lines, Underway
<1> HIDE DEF s
<1>3. /\ IsDisk(e) /\ Beside(e, d) /\ e.phase = phase /\ e.st = s /\ e.left = d.left
  BY DEF Underway, IsDisk, DiskFields, Beside
<1> HIDE DEF e
<1>4. Lined(e)
  BY <1>2, <1>3 DEF Lined, Beside
<1> QED BY <1>1, <1>3, <1>4

\* A transfer into the host, or out of it if nothing is owed to the medium.
LEMMA KinTransfer ==
  ASSUME NEW d, NEW x, Kin(x, d), NEW n, NEW phase \in {"in", "out"},
         phase = "out" => Owed([x EXCEPT !.phase = "out", !.left = 0])
  PROVE  Performed(Transfer(x, n, phase), d)
<1> DEFINE f == DataPhase(x, phase)
           e == [f EXCEPT !.len = n, !.left = 0]
<1>1. IsDisk(f) /\ Lined(f) /\ Beside(f, x) /\ f.phase = phase
  BY DataPhaseIs DEF Kin
<1>2. Transfer(x, n, phase) = e
  BY DEF Transfer
<1> HIDE DEF f
<1>3. /\ IsDisk(e) /\ Beside(e, f) /\ e.phase = f.phase /\ e.st = f.st /\ e.left = 0
  BY <1>1 DEF IsDisk, DiskFields, Beside
<1> HIDE DEF e
<1>4. Lined(e)
  BY <1>1, <1>3 DEF Lined, Beside
<1>5. Numbered(e) /\ Within(e, d)
  BY <1>1, <1>3 DEF Kin, Numbered, Beside, Within
<1>6. Owed(e)
  <2>1. CASE phase = "in"
    BY <2>1, <1>1, <1>3 DEF Owed
  <2>2. CASE phase = "out"
    <3> DEFINE y == [x EXCEPT !.phase = "out", !.left = 0]
    <3>1. /\ y.phase = "out" /\ y.left = 0 /\ y.cmd = x.cmd /\ y.writable = x.writable
          /\ y.assigning = x.assigning /\ y.long = x.long /\ y.next = x.next
      BY DEF Kin, Underway, IsDisk, DiskFields
    <3>2. Owed(y)
      BY <2>2
    <3> HIDE DEF y
    <3> QED BY <3>1, <3>2, <1>1, <1>3, <2>2 DEF Owed, Beside
  <2> QED BY <2>1, <2>2
<1>7. /\ e.phase \in {"in", "out", "executing", "status"} /\ e.phase # "executing"
      /\ e.mask = d.mask /\ e.cmd = d.cmd /\ e.writable = d.writable /\ e.taken = d.taken
  BY <1>1, <1>3 DEF Kin, Beside
<1> QED BY <1>2, <1>3, <1>4, <1>5, <1>6, <1>7 DEF Performed

-----------------------------------------------------------------------------
(* The disk: what a command writes.                                        *)

\* A set of naturals that is not empty has a least element.
LEMMA Least ==
  ASSUME NEW T \in SUBSET Nat, T # {}
  PROVE  \E x \in T : \A y \in T : x <= y
<1> DEFINE R == {ss \in Nat \X Nat : ss[1] < ss[2]}
<1>1. IsWellFoundedOn(R, Nat)
  BY NatLessThanWellFounded DEF OpToRel
<1>2. \E x \in T : \A y \in T : ~ (<<y, x>> \in R)
  <2> HIDE DEF R
  <2> QED BY <1>1, WFMin
<1>3. PICK x \in T : \A y \in T : ~ (<<y, x>> \in R)
  BY <1>2
<1>4. ASSUME NEW y \in T PROVE x <= y
  <2>1. <<y, x>> \in Nat \X Nat /\ ~ (<<y, x>> \in R)
    BY <1>3
  <2> QED BY <2>1
<1> QED BY <1>4

\* Induction: a set that holds zero and with a number its successor holds all.
LEMMA NatSetInduction ==
  ASSUME NEW S, 0 \in S, \A n \in Nat : n \in S => n + 1 \in S
  PROVE  \A n \in Nat : n \in S
<1> SUFFICES ASSUME Nat \ S # {} PROVE FALSE
  OBVIOUS
<1>1. PICK x \in Nat \ S : \A y \in Nat \ S : x <= y
  BY Least
<1>2. x # 0 /\ x - 1 \in Nat
  BY <1>1
<1>3. x - 1 \in S
  BY <1>1, <1>2
<1>4. (x - 1) + 1 \in S
  BY <1>2, <1>3
<1> QED BY <1>1, <1>4

\* One more sector of a copy.
CopyOne(d, v, k) == [v EXCEPT ![d.cmd.to + k - 1].data = v[d.cmd.lba + k - 1].data]

\* A copy, sector by sector.
IsCopy(d, n, f) == f = [k \in 0 .. n |-> IF k = 0 THEN d.vol ELSE CopyOne(d, f[k - 1], k)]

\* A copy has a value for every number of sectors.
LEMMA CopyRuns ==
  ASSUME NEW d, NEW n \in Nat
  PROVE  \E f : IsCopy(d, n, f)
<1> DEFINE S == {m \in Nat : \E f : IsCopy(d, m, f)}
<1>1. 0 \in S
  <2> DEFINE f == [k \in 0 .. 0 |-> d.vol]
  <2>1. f = [k \in 0 .. 0 |-> IF k = 0 THEN d.vol ELSE CopyOne(d, f[k - 1], k)]
    OBVIOUS
  <2> QED BY <2>1 DEF IsCopy
<1>2. ASSUME NEW m \in Nat, m \in S PROVE m + 1 \in S
  <2>1. PICK f : IsCopy(d, m, f)
    BY <1>2
  <2> DEFINE x == CopyOne(d, f[m], m + 1)
             g == [k \in 0 .. m + 1 |-> IF k = m + 1 THEN x ELSE f[k]]
  <2>2. ASSUME NEW k \in 0 .. m + 1
        PROVE  g[k] = IF k = 0 THEN d.vol ELSE CopyOne(d, g[k - 1], k)
    <3>1. CASE k = m + 1
      <4>1. g[k] = x /\ k - 1 = m /\ g[m] = f[m] /\ k # 0
        BY <3>1
      <4> HIDE DEF g
      <4> QED BY <3>1, <4>1
    <3>2. CASE k # m + 1
      <4>1. k \in 0 .. m /\ g[k] = f[k] /\ (k # 0 => k - 1 \in 0 .. m /\ g[k - 1] = f[k - 1])
        BY <3>2
      <4>2. f[k] = IF k = 0 THEN d.vol ELSE CopyOne(d, f[k - 1], k)
        BY <2>1, <4>1 DEF IsCopy
      <4> HIDE DEF g
      <4> QED BY <4>1, <4>2
    <3> QED BY <3>1, <3>2
  <2>3. IsCopy(d, m + 1, g)
    <3>1. g = [k \in 0 .. m + 1 |-> g[k]]
      OBVIOUS
    <3> HIDE DEF g
    <3> QED BY <2>2, <3>1 DEF IsCopy
  <2> HIDE DEF g
  <2>4. m + 1 \in Nat /\ \E h : IsCopy(d, m + 1, h)
    BY <2>3
  <2> QED BY <2>4
<1>3. \A k \in Nat : k \in S
  <2> HIDE DEF S
  <2> QED BY <1>1, <1>2, NatSetInduction
<1> QED BY <1>3

\* A copy writes where it was to.
LEMMA CopiedIs ==
  ASSUME NEW d, DOMAIN d.vol = Addr, NEW n \in Nat, d.cmd.to \in Int
  PROVE  /\ DOMAIN Copied(d, n) = Addr
         /\ \A a \in Addr : a \notin d.cmd.to .. d.cmd.to + n - 1 => Copied(d, n)[a] = d.vol[a]
<1> DEFINE F == CHOOSE f : IsCopy(d, n, f)
<1>1. Copied(d, n) = F[n]
  BY DEF Copied, IsCopy, CopyOne
<1>2. IsCopy(d, n, F)
  BY CopyRuns
<1> HIDE DEF F
<1> DEFINE P(k) == k <= n =>
             /\ DOMAIN F[k] = Addr
             /\ \A a \in Addr : a \notin d.cmd.to .. d.cmd.to + k - 1 => F[k][a] = d.vol[a]
           S == {k \in Nat : P(k)}
<1>3. F[0] = d.vol
  BY <1>2 DEF IsCopy
<1>4. 0 \in S
  BY <1>3
<1>5. ASSUME NEW k \in Nat, k \in S PROVE k + 1 \in S
  <2> SUFFICES ASSUME k + 1 <= n PROVE P(k + 1)
    OBVIOUS
  <2>0. k <= n /\ k + 1 \in 0 .. n /\ k + 1 # 0 /\ (k + 1) - 1 = k
    OBVIOUS
  <2>1. F[k + 1] = CopyOne(d, F[k], k + 1)
    BY <1>2, <2>0 DEF IsCopy
  <2> DEFINE v == F[k]
             y == F[k + 1]
             c == d.cmd.to + (k + 1) - 1
             w == v[d.cmd.lba + (k + 1) - 1].data
  <2>2. P(k)
    BY <1>5
  <2>3. y = [v EXCEPT ![c].data = w]
    BY <2>1 DEF CopyOne
  <2>4. /\ DOMAIN v = Addr
        /\ \A a \in Addr : a \notin d.cmd.to .. d.cmd.to + k - 1 => v[a] = d.vol[a]
    BY <2>0, <2>2
  <2> HIDE DEF v, y, w, P, S
  <2>5. DOMAIN y = Addr /\ \A a \in Addr : a # c => y[a] = v[a]
    BY <2>3, <2>4
  <2>6. \A a \in Addr : a \notin d.cmd.to .. d.cmd.to + (k + 1) - 1
                          => a # c /\ a \notin d.cmd.to .. d.cmd.to + k - 1
    BY DEF Addr
  <2>7. \A a \in Addr : a \notin d.cmd.to .. d.cmd.to + (k + 1) - 1 => y[a] = d.vol[a]
    BY <2>4, <2>5, <2>6
  <2> QED BY <2>5, <2>7 DEF P, y
<1>6. \A k \in Nat : k \in S
  <2> HIDE DEF S
  <2> QED BY <1>4, <1>5, NatSetInduction
<1>7. P(n)
  BY <1>6
<1> QED BY <1>1, <1>7

\* So does a format, ...
LEMMA FormattedIs ==
  ASSUME NEW d, IsDisk(d), NEW sectors, NEW bytes, NEW flag
  PROVE  LET e == Formatted(d, sectors, bytes, flag) IN
         /\ IsDisk(e) /\ Beside([e EXCEPT !.vol = d.vol], d) /\ e.st = d.st /\ e.left = d.left
         /\ DOMAIN e.vol = Addr
         /\ \A a \in Addr : a \notin sectors => e.vol[a] = d.vol[a]
<1> DEFINE v == [a \in Addr |-> IF a \in sectors
                                THEN [d.vol[a] EXCEPT !.data = bytes, !.flag = flag]
                                ELSE d.vol[a]]
           e == [d EXCEPT !.vol = v]
<1>1. Formatted(d, sectors, bytes, flag) = e
  BY DEF Formatted
<1>2. DOMAIN v = Addr /\ \A a \in Addr : a \notin sectors => v[a] = d.vol[a]
  OBVIOUS
<1> HIDE DEF v
<1>3. IsDisk(e) /\ e.vol = v /\ e.st = d.st /\ e.left = d.left
      /\ Beside([e EXCEPT !.vol = d.vol], d)
  BY DEF IsDisk, DiskFields, Beside
<1> HIDE DEF e
<1> QED BY <1>1, <1>2, <1>3

\* ... and a run of sectors.
LEMMA SpreadIs ==
  ASSUME NEW vol, NEW at, NEW n, NEW width, NEW bytes
  PROVE  /\ DOMAIN Spread(vol, at, n, width, bytes) = Addr
         /\ \A a \in Addr : a \notin at .. at + n - 1 =>
              Spread(vol, at, n, width, bytes)[a] = vol[a]
BY DEF Spread

\* A command that left the medium alone is still the command, ...
LEMMA KinOf ==
  ASSUME NEW d, Underway(d), DOMAIN d.vol = Addr,
         NEW x, IsDisk(x), x.st = d.st, x.mask = d.mask, x.cmd = d.cmd, x.taken = d.taken,
         x.writable = d.writable, x.vol = d.vol, Numbered(x)
  PROVE  Kin(x, d)
BY DEF Kin, Underway, Within

\* ... and so is one that wrote its target, on a medium that can be written.
LEMMA KinWrites ==
  ASSUME NEW d, Underway(d), d.writable,
         NEW x, IsDisk(x), x.st = d.st, x.mask = d.mask, x.cmd = d.cmd, x.taken = d.taken,
         x.writable = d.writable, Numbered(x),
         DOMAIN x.vol = Addr, \A a \in Addr : a \notin Target(d) => x.vol[a] = d.vol[a]
  PROVE  Kin(x, d)
BY DEF Kin, Underway, Within

\* A command that is not refused may write, and is addressed to the disk.
LEMMA NoFaultIs ==
  ASSUME NEW d, Fault(d) = NoFault
  PROVE  /\ "write" \in Needs[d.cmd.op] => d.writable
         /\ "addr" \in Needs[d.cmd.op] => d.cmd.lba \in Addr
<1> HIDE DEF Needs, Addr
<1> QED BY DEF Fault, NoFault, NotReady, Protected, BadTrack, BadInterleave, Alternate, Invalid,
               Illegal, Function

\* A count of zero stands for a number of blocks too.
LEMMA BlocksFacts ==
  ASSUME NEW c, c.count \in Nat
  PROVE  Blocks(c) \in Nat \ {0}
BY OmtiAssumption DEF Blocks

\* Addresses are numbers below the capacity.
LEMMA SpaceFacts == Total \in Nat \ {0} /\ \A a \in Addr : a \in Nat /\ a < Total
<1>1. Sectors \in Nat \ {0} /\ Tracks \in Nat \ {0}
  BY OmtiAssumption
<1>2. Sectors * Tracks \in Nat \ {0}
  BY <1>1
<1> QED BY <1>2 DEF Total, Addr

\* A command gets no further than it was to.
LEMMA ReachedFacts ==
  ASSUME NEW d, d.cmd.count \in Nat, NEW from \in Addr
  PROVE  Reached(d, from) \in Nat /\ Reached(d, from) <= Blocks(d.cmd)
<1>1. Blocks(d.cmd) \in Nat \ {0}
  BY BlocksFacts
<1>2. from \in Nat /\ from < Total /\ Total \in Nat
  BY SpaceFacts
<1> HIDE DEF Blocks, Total
<1> QED BY <1>1, <1>2 DEF Reached, Lowest

\* Data the controller answers with.
LEMMA AnswerIs ==
  ASSUME NEW d, Underway(d), Numbered(d), DOMAIN d.vol = Addr, NEW bytes
  PROVE  Performed(Answer(d, bytes), d)
<1> DEFINE b == Put(d.buf, 0, bytes)
           x == [d EXCEPT !.buf = b]
<1>1. Answer(d, bytes) = Transfer(x, Len(bytes), "in")
  BY DEF Answer, Underway, IsDisk, DiskFields
<1> HIDE DEF b
<1>2. IsDisk(x) /\ x.st = d.st /\ x.mask = d.mask /\ x.cmd = d.cmd /\ x.taken = d.taken
      /\ x.writable = d.writable /\ x.vol = d.vol /\ x.next = d.next /\ x.left = d.left
      /\ x.long = d.long
  BY DEF Underway, IsDisk, DiskFields
<1> HIDE DEF x
<1>3. Kin(x, d)
  BY <1>2, KinOf DEF Numbered
<1> QED BY <1>1, <1>3, KinTransfer

\* The next sector for the host, if there is one.
LEMMA FeedIs ==
  ASSUME NEW d, NEW x, Kin(x, d), NEW t \in Nat, d.cmd.count \in Nat
  PROVE  Performed(Feed(x, t), d)
<1>1. CASE x.left = 0
  BY <1>1, KinFinish DEF Feed
<1>2. CASE x.left # 0 /\ x.next \notin Addr
  BY <1>2, KinRefuse DEF Feed
<1>3. CASE x.left # 0 /\ x.next \in Addr
  <2> DEFINE f == DataPhase(x, "in")
             b == Put(x.buf, 0, x.vol[x.next].data)
             k == x.next + 1
             m == x.left - 1
             e == [f EXCEPT !.buf = b, !.last = x.next, !.next = k, !.left = m, !.len = 2]
  <2>1. Feed(x, t) = e
    BY <1>3 DEF Feed
  <2>2. IsDisk(f) /\ Lined(f) /\ Beside(f, x) /\ f.phase = "in"
    BY DataPhaseIs DEF Kin
  <2>3. k \in Int /\ m \in Nat
    BY <1>3 DEF Kin, Numbered
  <2> HIDE DEF f, b, k, m
  <2>4. /\ IsDisk(e) /\ e.phase = f.phase /\ e.st = f.st /\ e.mask = f.mask /\ e.vol = f.vol
        /\ e.cmd = f.cmd /\ e.writable = f.writable /\ e.taken = f.taken /\ e.next = k
        /\ e.left = m /\ e.long = f.long
    BY <2>2 DEF IsDisk, DiskFields
  <2> HIDE DEF e
  <2>5. Lined(e) /\ Owed(e)
    BY <2>2, <2>4 DEF Lined, Owed
  <2>6. Numbered(e) /\ Within(e, d)
    BY <2>2, <2>3, <2>4 DEF Kin, Numbered, Beside, Within
  <2> QED BY <2>1, <2>2, <2>4, <2>5, <2>6 DEF Performed, Kin, Beside
<1> QED BY <1>1, <1>2, <1>3

\* A command that can start.
Starting(d) ==
    /\ Underway(d) /\ Numbered(d) /\ DOMAIN d.vol = Addr
    /\ d.cmd \in CommandBlocks /\ d.long.blocks = 0 /\ d.assigning = FALSE

\* What a command block holds.
LEMMA StartingFacts ==
  ASSUME NEW d, Starting(d)
  PROVE  /\ d.cmd.op \in Ops /\ d.cmd.lba \in Nat /\ d.cmd.count \in Nat /\ d.cmd.to \in Nat
         /\ Blocks(d.cmd) \in Nat \ {0} /\ Kin(d, d)
<1>1. d.cmd.op \in Ops /\ d.cmd.lba \in Nat /\ d.cmd.count \in Nat /\ d.cmd.to \in Nat
  BY DEF Starting, CommandBlocks
<1>2. Kin(d, d)
  BY KinOf DEF Starting, Underway
<1> QED BY <1>1, <1>2, BlocksFacts

\* The commands that answer from the controller, ...
LEMMA PerformAnswers ==
  ASSUME NEW d, Starting(d), NEW t \in Nat,
         d.cmd.op \in {"sense", "configuration", "read_id", "ecc_length", "defects"}
  PROVE  Performed(Perform(d, t), d)
<1>1. /\ d.cmd.op = "sense" => Perform(d, t) = Answer(d, d.sense)
      /\ d.cmd.op = "configuration" => Perform(d, t) = Answer(d, <<Tracks - 1, Sectors - 1>>)
      /\ d.cmd.op = "read_id" => Perform(d, t) = Answer(d, <<d.cmd.lba>>)
      /\ d.cmd.op = "ecc_length" => Perform(d, t) = Answer(d, <<0>>)
      /\ d.cmd.op = "defects" => Perform(d, t) = Answer(d, <<0>>)
  BY DEF Perform
<1>2. \A bytes : Performed(Answer(d, bytes), d)
  BY AnswerIs DEF Starting
<1> QED BY <1>1, <1>2

\* ... that fill or read its buffer, ...
LEMMA PerformBuffer ==
  ASSUME NEW d, Starting(d), NEW t \in Nat, d.cmd.op \in {"read_buffer", "write_buffer"}
  PROVE  Performed(Perform(d, t), d)
<1>1. Kin(d, d)
  BY StartingFacts
<1>2. /\ d.cmd.op = "read_buffer" => Perform(d, t) = Transfer(d, 2 * Blocks(d.cmd), "in")
      /\ d.cmd.op = "write_buffer" => Perform(d, t) = Transfer(d, 2 * Blocks(d.cmd), "out")
  BY DEF Perform
<1> DEFINE y == [d EXCEPT !.phase = "out", !.left = 0]
<1>3. y.left = 0 /\ y.assigning = d.assigning /\ y.long = d.long
  BY DEF Starting, Underway, IsDisk, DiskFields
<1>4. Owed(y)
  <2> HIDE DEF y
  <2> QED BY <1>3 DEF Starting, Owed
<1> QED BY <1>1, <1>2, <1>4, KinTransfer

\* ... READ, ...
LEMMA PerformRead ==
  ASSUME NEW d, Starting(d), NEW t \in Nat, d.cmd.op = "read"
  PROVE  Performed(Perform(d, t), d)
<1> DEFINE b == Blocks(d.cmd)
           l == d.cmd.lba
           x == [d EXCEPT !.next = l, !.left = b]
<1>1. Perform(d, t) = Feed(x, t)
  BY DEF Perform
<1>2. b \in Nat /\ l \in Nat /\ d.cmd.count \in Nat
  BY StartingFacts
<1> HIDE DEF b, l
<1>3. IsDisk(x) /\ x.st = d.st /\ x.mask = d.mask /\ x.cmd = d.cmd /\ x.taken = d.taken
      /\ x.writable = d.writable /\ x.vol = d.vol /\ x.next = l /\ x.left = b /\ x.long = d.long
  BY DEF Starting, Underway, IsDisk, DiskFields
<1> HIDE DEF x
<1>4. Numbered(x)
  BY <1>2, <1>3 DEF Numbered, Starting
<1>5. Kin(x, d)
  BY <1>3, <1>4, KinOf DEF Starting
<1> QED BY <1>1, <1>2, <1>5, FeedIs

\* ... WRITE, which owes the medium what it was asked, ...
LEMMA PerformWrite ==
  ASSUME NEW d, Starting(d), NEW t \in Nat, d.cmd.op = "write", d.writable
  PROVE  Performed(Perform(d, t), d)
<1> DEFINE b == Blocks(d.cmd)
           l == d.cmd.lba
           f == DataPhase(d, "out")
           e == [f EXCEPT !.next = l, !.left = b]
<1>1. Perform(d, t) = e
  BY DEF Perform
<1>2. b \in Nat /\ l \in Nat
  BY StartingFacts
<1>3. IsDisk(f) /\ Lined(f) /\ Beside(f, d) /\ f.phase = "out"
  BY DataPhaseIs DEF Starting
<1> HIDE DEF f
<1>4. /\ IsDisk(e) /\ e.phase = f.phase /\ e.st = f.st /\ e.mask = f.mask /\ e.vol = f.vol
      /\ e.cmd = f.cmd /\ e.writable = f.writable /\ e.taken = f.taken /\ e.next = l
      /\ e.left = b /\ e.long = f.long /\ e.assigning = f.assigning
  <2> HIDE DEF b, l
  <2> QED BY <1>3 DEF IsDisk, DiskFields
<1> HIDE DEF e
<1>5. Lined(e)
  BY <1>3, <1>4 DEF Lined
<1>6. Owed(e)
  <2>1. /\ e.assigning = FALSE /\ e.long.blocks = 0 /\ e.cmd.op = "write" /\ e.writable
        /\ e.cmd.lba <= e.next /\ e.next + e.left = e.cmd.lba + Blocks(e.cmd)
    BY <1>2, <1>3, <1>4 DEF Beside, Starting
  <2> QED BY <2>1 DEF Owed
<1>7. Numbered(e) /\ Within(e, d)
  <2> HIDE DEF b, l
  <2> QED BY <1>2, <1>3, <1>4 DEF Numbered, Within, Beside, Starting
<1> QED BY <1>1, <1>3, <1>4, <1>5, <1>6, <1>7 DEF Performed, Beside

\* ... WRITE LONG, ...
LEMMA PerformWriteLong ==
  ASSUME NEW d, Starting(d), NEW t \in Nat, d.cmd.op = "write_long", d.writable
  PROVE  Performed(Perform(d, t), d)
<1> DEFINE g == [at |-> d.cmd.lba, blocks |-> Blocks(d.cmd)]
           x == [d EXCEPT !.long = g]
           y == [x EXCEPT !.phase = "out", !.left = 0]
<1>1. Perform(d, t) = Transfer(x, 3 * Blocks(d.cmd), "out")
  BY DEF Perform
<1>2. g.at = d.cmd.lba /\ g.blocks = Blocks(d.cmd) /\ g \in [at : Int, blocks : Nat]
  BY StartingFacts
<1> HIDE DEF g
<1>3. IsDisk(x) /\ x.st = d.st /\ x.mask = d.mask /\ x.cmd = d.cmd /\ x.taken = d.taken
      /\ x.writable = d.writable /\ x.vol = d.vol /\ x.next = d.next /\ x.left = d.left
      /\ x.long = g /\ x.assigning = d.assigning
  BY DEF Starting, Underway, IsDisk, DiskFields
<1> HIDE DEF x
<1>4. Kin(x, d)
  <2>1. Numbered(x)
    BY <1>2, <1>3 DEF Numbered, Starting
  <2> QED BY <1>3, <2>1, KinOf DEF Starting
<1>5. /\ y.left = 0 /\ y.assigning = x.assigning /\ y.long = g /\ y.cmd = x.cmd
      /\ y.writable = x.writable
  BY <1>3 DEF IsDisk, DiskFields
<1>6. Owed(y)
  <2> HIDE DEF y
  <2> QED BY <1>2, <1>3, <1>5 DEF Starting, Owed
<1> QED BY <1>1, <1>4, <1>6, KinTransfer

\* ... and the assignment of alternates.
LEMMA PerformAssign ==
  ASSUME NEW d, Starting(d), NEW t \in Nat, d.cmd.op = "assign", d.writable
  PROVE  Performed(Perform(d, t), d)
<1> DEFINE x == [d EXCEPT !.assigning = TRUE]
           y == [x EXCEPT !.phase = "out", !.left = 0]
<1>1. Perform(d, t) = Transfer(x, 1, "out")
  BY DEF Perform
<1>3. IsDisk(x) /\ x.st = d.st /\ x.mask = d.mask /\ x.cmd = d.cmd /\ x.taken = d.taken
      /\ x.writable = d.writable /\ x.vol = d.vol /\ x.next = d.next /\ x.left = d.left
      /\ x.long = d.long
  BY DEF Starting, Underway, IsDisk, DiskFields
<1> HIDE DEF x
<1>4. Kin(x, d)
  <2>1. Numbered(x)
    BY <1>3 DEF Numbered, Starting
  <2> QED BY <1>3, <2>1, KinOf DEF Starting
<1>5. /\ y.left = 0 /\ y.long = d.long /\ y.cmd = d.cmd /\ y.writable = d.writable
  BY <1>3 DEF IsDisk, DiskFields
<1>6. Owed(y)
  <2> HIDE DEF y
  <2> QED BY <1>5 DEF Starting, Owed
<1> QED BY <1>1, <1>4, <1>6, KinTransfer

\* The medium and the host left alone, whatever the buffer holds.
LEMMA BufferOnly ==
  ASSUME NEW d, Starting(d), NEW b, NEW l
  PROVE  Kin([d EXCEPT !.last = l, !.buf = b], d)
<1> DEFINE x == [d EXCEPT !.last = l, !.buf = b]
<1>1. IsDisk(x) /\ x.st = d.st /\ x.mask = d.mask /\ x.cmd = d.cmd /\ x.taken = d.taken
      /\ x.writable = d.writable /\ x.vol = d.vol /\ x.next = d.next /\ x.left = d.left
      /\ x.long = d.long
  BY DEF Starting, Underway, IsDisk, DiskFields
<1> HIDE DEF x
<1>2. Numbered(x)
  BY <1>1 DEF Numbered, Starting
<1>3. Kin(x, d)
  BY <1>1, <1>2, KinOf DEF Starting
<1> QED BY <1>3 DEF x

\* The commands that look at the medium, ...
LEMMA PerformLooks ==
  ASSUME NEW d, Starting(d), NEW t \in Nat,
         d.cmd.op \in {"verify", "read_to_buffer", "check_track", "diagnose_drive"}
  PROVE  Performed(Perform(d, t), d)
<1> DEFINE c == d.cmd
           n == Reached(d, c.lba)
           l1 == Lowest(c.lba + Blocks(c) - 1, Total)
           b1 == Put(d.buf, 0, d.vol[c.lba + n - 1].data)
           l2 == c.lba + n - 1
           b2 == Put(d.buf, 0, Gathered(d.vol, c.lba, n, 2))
           l3 == (c.lba \div Sectors + 1) * Sectors - 1
           b3 == Put(d.buf, 0, d.vol[l3].data)
           l4 == (Tracks - 1) * Sectors + 1
           b4 == Put(d.buf, 0, d.vol[l4].data)
           X(l, b) == [d EXCEPT !.last = l, !.buf = b]
<1>0. ASSUME NEW l PROVE [d EXCEPT !.last = l].buf = d.buf /\ [d EXCEPT !.last = l].vol = d.vol
  BY DEF Starting, Underway, IsDisk, DiskFields
<1>1. /\ c.op = "verify" => Perform(d, t) = Ending(X(l1, b1), t, n)
      /\ c.op = "read_to_buffer" => Perform(d, t) = Ending(X(l2, b2), t, n)
      /\ c.op = "check_track" => Perform(d, t) = Finish(X(l3, b3), t, NoFault)
      /\ c.op = "diagnose_drive" => Perform(d, t) = Finish(X(l4, b4), t, NoFault)
  <2>1. ASSUME c.op = "read_to_buffer"
        PROVE  Perform(d, t) = Ending(X(l2, b2), t, n)
    <3>1. Perform(d, t) =
           Ending([[d EXCEPT !.last = l2] EXCEPT !.buf = Put(@, 0, Gathered(d.vol, c.lba, n, 2))],
                  t, n)
      BY <2>1 DEF Perform
    <3>2. [[d EXCEPT !.last = l2] EXCEPT !.buf = Put(@, 0, Gathered(d.vol, c.lba, n, 2))]
            = X(l2, b2)
      <4> HIDE DEF l2
      <4> QED BY <1>0 DEF Starting, Underway, IsDisk, DiskFields
    <3> QED BY <3>1, <3>2
  <2>2. ASSUME c.op = "verify"
        PROVE  Perform(d, t) = Ending(X(l1, b1), t, n)
    BY <2>2 DEF Perform, Starting, Underway, IsDisk, DiskFields
  <2>3. ASSUME c.op = "check_track"
        PROVE  Perform(d, t) = Finish(X(l3, b3), t, NoFault)
    BY <2>3 DEF Perform, Starting, Underway, IsDisk, DiskFields
  <2>4. ASSUME c.op = "diagnose_drive"
        PROVE  Perform(d, t) = Finish(X(l4, b4), t, NoFault)
    BY <2>4 DEF Perform, Starting, Underway, IsDisk, DiskFields
  <2> QED BY <2>1, <2>2, <2>3, <2>4
<1>2. \A l, b : Kin(X(l, b), d)
  BY BufferOnly
<1>3. d.cmd.count \in Nat
  BY StartingFacts
<1> HIDE DEF n, l1, l2, l3, l4, b1, b2, b3, b4, X
<1>4. \A l, b, m : Performed(Ending(X(l, b), t, m), d) /\ Performed(Finish(X(l, b), t, NoFault), d)
  BY <1>2, <1>3, KinEnding, KinFinish
<1> QED BY <1>1, <1>4

\* ... and READ LONG, leave it alone.
LEMMA PerformReadLong ==
  ASSUME NEW d, Starting(d), NEW t \in Nat, d.cmd.op = "read_long"
  PROVE  Performed(Perform(d, t), d)
<1> DEFINE c == d.cmd
           n == Reached(d, c.lba)
           l == Lowest(c.lba + Blocks(c) - 1, Total)
           b == Put(Put(d.buf, 0, [k \in 1 .. 3 * Blocks(c) |-> 0]), 0,
                    Gathered(d.vol, c.lba, n, 3))
           x == [d EXCEPT !.last = l, !.buf = b]
<1>1. Perform(d, t) = IF n = Blocks(c) THEN Transfer(x, 3 * n, "in") ELSE Ending(x, t, n)
  BY DEF Perform, Starting, Underway, IsDisk, DiskFields
<1>2. Kin(x, d)
  BY BufferOnly
<1>3. d.cmd.count \in Nat
  BY StartingFacts
<1> HIDE DEF x, n
<1> QED BY <1>1, <1>2, <1>3, KinTransfer, KinEnding

\* A command that writes to the medium before it ends.
LEMMA MediumOnly ==
  ASSUME NEW d, Starting(d), d.writable, NEW v, NEW b, NEW l, DOMAIN v = Addr,
         \A a \in Addr : a \notin Target(d) => v[a] = d.vol[a]
  PROVE  Kin([d EXCEPT !.vol = v, !.last = l, !.buf = b], d)
<1> DEFINE x == [d EXCEPT !.vol = v, !.last = l, !.buf = b]
<1>1. IsDisk(x) /\ x.st = d.st /\ x.mask = d.mask /\ x.cmd = d.cmd /\ x.taken = d.taken
      /\ x.writable = d.writable /\ x.vol = v /\ x.next = d.next /\ x.left = d.left
      /\ x.long = d.long
  BY DEF Starting, Underway, IsDisk, DiskFields
<1> HIDE DEF x
<1>2. Numbered(x)
  BY <1>1 DEF Numbered, Starting
<1>3. Kin(x, d)
  BY <1>1, <1>2, KinWrites DEF Starting
<1> QED BY <1>3 DEF x

\* WRITE FROM BUFFER writes its blocks, ...
LEMMA PerformWriteFromBuffer ==
  ASSUME NEW d, Starting(d), NEW t \in Nat, d.cmd.op = "write_from_buffer", d.writable,
         d.cmd.lba \in Addr
  PROVE  Performed(Perform(d, t), d)
<1> DEFINE c == d.cmd
           n == Reached(d, c.lba)
           v == Spread(d.vol, c.lba, n, 2, d.buf)
           x == [d EXCEPT !.vol = v]
           y == [d EXCEPT !.vol = v, !.last = d.last, !.buf = d.buf]
<1>1. Perform(d, t) = Ending(x, t, n)
  BY DEF Perform, Starting, Underway, IsDisk, DiskFields
<1>2. x = y
  <2> HIDE DEF v
  <2> QED BY DEF Starting, Underway, IsDisk, DiskFields
<1>3. n \in Nat /\ n <= Blocks(c) /\ c.lba \in Nat /\ c.count \in Nat /\ Blocks(c) \in Nat
  BY StartingFacts, ReachedFacts
<1>4. DOMAIN v = Addr /\ \A a \in Addr : a \notin c.lba .. c.lba + n - 1 => v[a] = d.vol[a]
  BY SpreadIs
<1>5. Target(d) = c.lba .. c.lba + Blocks(c) - 1
  BY DEF Target
<1> HIDE DEF n, v
<1>6. \A a \in Addr : a \notin Target(d) => v[a] = d.vol[a]
  BY <1>3, <1>4, <1>5, SpaceFacts
<1>7. Kin(y, d)
  BY <1>4, <1>6, MediumOnly
<1> HIDE DEF x, y
<1> QED BY <1>1, <1>2, <1>3, <1>7, KinEnding

\* ... COPY where it was to, ...
LEMMA PerformCopy ==
  ASSUME NEW d, Starting(d), NEW t \in Nat, d.cmd.op = "copy", d.writable, d.cmd.lba \in Addr
  PROVE  Performed(Perform(d, t), d)
<1> DEFINE c == d.cmd
           n == Reached(d, c.lba)
           m == Lowest(n, Reached(d, c.to))
           r == Lowest(c.lba + m, c.lba + n - 1)
           v == Copied(d, m)
           l == Lowest(c.lba + m, c.lba + Blocks(c) - 1)
           b == Put(d.buf, 0, v[r].data)
           x == [d EXCEPT !.vol = v, !.last = l, !.buf = b]
<1>0. Kin(d, d) /\ c.count \in Nat /\ c.to \in Nat /\ Blocks(c) \in Nat
  BY StartingFacts
<1>1. CASE c.to \notin Addr
  <2>1. Perform(d, t) = Refuse(d, t, Illegal, c.to)
    BY <1>1 DEF Perform
  <2> QED BY <2>1, <1>0, KinRefuse
<1>2. CASE c.to \in Addr
  <2>1. Perform(d, t) = Ending(x, t, m)
    BY <1>2 DEF Perform, Starting, Underway, IsDisk, DiskFields
  <2>2. m \in Nat /\ m <= Blocks(c)
    <3>1. n \in Nat /\ n <= Blocks(c) /\ Reached(d, c.to) \in Nat
      BY <1>0, <1>2, ReachedFacts
    <3> HIDE DEF n
    <3> QED BY <3>1, <1>0 DEF Lowest
  <2>3. DOMAIN v = Addr /\ \A a \in Addr : a \notin c.to .. c.to + m - 1 => v[a] = d.vol[a]
    <3> HIDE DEF m
    <3> QED BY <1>0, <2>2, CopiedIs DEF Starting
  <2>4. Target(d) = c.to .. c.to + Blocks(c) - 1
    BY DEF Target
  <2> HIDE DEF n, m, r, v, l, b
  <2>5. \A a \in Addr : a \notin Target(d) => v[a] = d.vol[a]
    BY <1>0, <2>2, <2>3, <2>4, SpaceFacts
  <2>6. Kin(x, d)
    BY <2>3, <2>5, MediumOnly
  <2> HIDE DEF x
  <2> QED BY <2>1, <2>6, <1>0, KinEnding
<1> QED BY <1>1, <1>2

\* ... and the formats their tracks.
LEMMA PerformFormat ==
  ASSUME NEW d, Starting(d), NEW t \in Nat, d.writable,
         d.cmd.op \in {"format_drive", "format_track", "format_bad_track"}
  PROVE  Performed(Perform(d, t), d)
<1> DEFINE c == d.cmd
           S == IF c.op = "format_drive"
                THEN {a \in Addr : a \div Sectors >= c.lba \div Sectors} ELSE TrackOf(c.lba)
           flag == IF c.op = "format_bad_track" THEN "bad" ELSE "none"
           e == Formatted(d, S, FormatBytes(d), flag)
<1>1. Perform(d, t) = Finish(e, t, NoFault)
  BY DEF Perform
<1>2. Target(d) = S
  BY DEF Target
<1> HIDE DEF S
<1>3. /\ IsDisk(e) /\ Beside([e EXCEPT !.vol = d.vol], d) /\ e.st = d.st /\ e.left = d.left
      /\ DOMAIN e.vol = Addr
      /\ \A a \in Addr : a \notin S => e.vol[a] = d.vol[a]
  BY FormattedIs DEF Starting, Underway
<1> HIDE DEF e
<1>4. e.mask = d.mask /\ e.cmd = d.cmd /\ e.writable = d.writable /\ e.taken = d.taken
      /\ e.next = d.next /\ e.long = d.long
  BY <1>3 DEF IsDisk, DiskFields, Beside
<1>5. Numbered(e)
  BY <1>3, <1>4 DEF Numbered, Starting
<1>6. Kin(e, d)
  BY <1>2, <1>3, <1>4, <1>5, KinWrites DEF Starting
<1> QED BY <1>1, <1>6, KinFinish, StartingFacts

\* The others move the heads at most.
LEMMA PerformOthers ==
  ASSUME NEW d, Starting(d), NEW t \in Nat,
         d.cmd.op \in {"seek", "recalibrate", "ready", "start_stop", "diagnose", "cartridge",
                       "unknown"}
  PROVE  Performed(Perform(d, t), d)
<1>1. Perform(d, t) = Finish(d, t, NoFault)
  BY DEF Perform
<1> QED BY <1>1, KinFinish, StartingFacts

\* So every command does only what it may.
LEMMA PerformIs ==
  ASSUME NEW d, Starting(d), NEW t \in Nat, Fault(d) = NoFault
  PROVE  Performed(Perform(d, t), d)
<1>1. d.cmd.op \in Ops
  BY StartingFacts
<1>2. /\ d.cmd.op \in {"write", "write_from_buffer", "write_long", "copy", "format_drive",
                       "format_track", "format_bad_track", "assign"} => d.writable
      /\ d.cmd.op \in {"write_from_buffer", "copy"} => d.cmd.lba \in Addr
  <2> DEFINE op == d.cmd.op
  <2>1. /\ "write" \in Needs[op] => d.writable
        /\ "addr" \in Needs[op] => d.cmd.lba \in Addr
    BY NoFaultIs
  <2>2. /\ op \in {"write", "write_from_buffer", "write_long", "copy", "format_drive",
                   "format_track", "format_bad_track", "assign"} => "write" \in Needs[op]
        /\ op \in {"write_from_buffer", "copy"} => "addr" \in Needs[op]
    <3> HIDE DEF op
    <3> QED BY DEF Needs
  <2> QED BY <2>1, <2>2
<1>3. d.cmd.op \in {"read", "write", "verify", "read_id", "read_to_buffer", "write_from_buffer",
                    "read_buffer", "write_buffer", "read_long", "write_long", "copy",
                    "format_drive", "format_track", "format_bad_track", "assign", "check_track",
                    "seek", "recalibrate", "ready", "configuration", "diagnose_drive",
                    "defects", "start_stop", "sense", "ecc_length", "diagnose", "cartridge",
                    "unknown"}
  BY <1>1 DEF Ops, Needs
<1> QED BY <1>2, <1>3, PerformAnswers, PerformBuffer, PerformRead, PerformWrite,
           PerformWriteLong, PerformAssign, PerformLooks, PerformReadLong,
           PerformWriteFromBuffer, PerformCopy, PerformFormat, PerformOthers

\* A command, done or refused.
LEMMA ExecuteIs ==
  ASSUME NEW d, Underway(d), Numbered(d), DOMAIN d.vol = Addr, d.cmd \in CommandBlocks,
         NEW t \in Nat
  PROVE  Performed(Execute(d, t), d)
<1> DEFINE g == [d.long EXCEPT !.blocks = 0]
           e == [d EXCEPT !.long = g, !.assigning = FALSE]
           f == Fault(e)
<1>1. Execute(d, t) = CASE f = NoFault -> Perform(e, t)
                        [] f = Illegal /\ ~TooMany(e.cmd) -> Refuse(e, t, f, e.cmd.lba)
                        [] OTHER -> Finish(e, t, f)
  BY DEF Execute
<1>2. g \in [at : Int, blocks : Nat] /\ g.blocks = 0
  BY DEF Numbered
<1> HIDE DEF g
<1>3. /\ IsDisk(e) /\ e.st = d.st /\ e.mask = d.mask /\ e.cmd = d.cmd /\ e.taken = d.taken
      /\ e.writable = d.writable /\ e.vol = d.vol /\ e.next = d.next /\ e.left = d.left
      /\ e.long = g /\ e.assigning = FALSE
  BY DEF Underway, IsDisk, DiskFields
<1> HIDE DEF e, f
<1>4. Starting(e)
  BY <1>2, <1>3 DEF Starting, Underway, Numbered
<1>5. Kin(e, e) /\ e.cmd.count \in Nat
  BY <1>4, StartingFacts
<1>6. /\ f = NoFault => Performed(Perform(e, t), e)
      /\ Performed(Refuse(e, t, f, e.cmd.lba), e)
      /\ Performed(Finish(e, t, f), e)
  BY <1>4, <1>5, PerformIs, KinFinish, KinRefuse DEF f
<1>7. Performed(Execute(d, t), e)
  <2>1. CASE f = NoFault
    BY <2>1, <1>1, <1>6
  <2>2. CASE f # NoFault /\ f = Illegal /\ ~TooMany(e.cmd)
    BY <2>2, <1>1, <1>6
  <2>3. CASE f # NoFault /\ ~(f = Illegal /\ ~TooMany(e.cmd))
    BY <2>3, <1>1, <1>6
  <2> QED BY <2>1, <2>2, <2>3
<1>8. Target(e) = Target(d)
  BY <1>3 DEF Target
<1> QED BY <1>3, <1>7, <1>8 DEF Performed, Within

\* The last byte of what a transfer takes.
LEMMA TakenIs ==
  ASSUME NEW d, NEW x, Kin(x, d), x.vol = d.vol, DOMAIN d.vol = Addr, Owed(x), x.phase = "out",
         d.cmd.count \in Nat, d.cmd.lba \in Nat, NEW t \in Nat
  PROVE  Performed(Taken(x, t), d)
<1> DEFINE n == Lowest(x.long.blocks, Total - x.long.at)
           alternate == x.buf[1]
           p == [x EXCEPT !.assigning = FALSE]
           q == Formatted(p, TrackOf(alternate), <<Fill, Fill>>, "alternate")
           v == Spread(x.vol, x.long.at, n, 3, x.buf)
           g == [x.long EXCEPT !.blocks = 0]
           y == [x EXCEPT !.vol = v, !.long = g]
<1>1. /\ x.assigning /\ alternate \in Addr => Taken(x, t) = Finish(q, t, NoFault)
      /\ x.assigning /\ alternate \notin Addr => Taken(x, t) = Refuse(p, t, Illegal, alternate)
      /\ ~x.assigning /\ n < x.long.blocks =>
           Taken(x, t) = Refuse(y, t, Overflow, x.long.at + n)
      /\ ~x.assigning /\ ~(n < x.long.blocks) => Taken(x, t) = Finish(y, t, NoFault)
  <2>1. CASE x.assigning /\ alternate \in Addr
    BY <2>1 DEF Taken
  <2>2. CASE x.assigning /\ alternate \notin Addr
    BY <2>2 DEF Taken
  <2>3. CASE ~x.assigning /\ n < x.long.blocks
    BY <2>3 DEF Taken
  <2>4. CASE ~x.assigning /\ ~(n < x.long.blocks)
    BY <2>4 DEF Taken
  <2> QED BY <2>1, <2>2, <2>3, <2>4
<1>2. /\ IsDisk(p) /\ p.st = x.st /\ p.mask = x.mask /\ p.cmd = x.cmd /\ p.taken = x.taken
      /\ p.writable = x.writable /\ p.vol = x.vol /\ p.next = x.next /\ p.left = x.left
      /\ p.long = x.long
  BY DEF Kin, Underway, IsDisk, DiskFields
<1>3. Kin(p, d)
  <2> HIDE DEF p
  <2> QED BY <1>2 DEF Kin, Underway, Numbered, Within
<1>4. ASSUME x.assigning PROVE Kin(q, d)
  <2>1. Target(d) = Addr /\ d.writable
    BY <1>4 DEF Owed, Kin, Target
  <2>2. /\ IsDisk(q) /\ Beside([q EXCEPT !.vol = p.vol], p) /\ q.st = p.st /\ q.left = p.left
        /\ DOMAIN q.vol = Addr
    <3> HIDE DEF p
    <3> QED BY <1>2, FormattedIs
  <2> HIDE DEF p, q
  <2>3. q.mask = x.mask /\ q.cmd = x.cmd /\ q.writable = x.writable /\ q.taken = x.taken
        /\ q.next = x.next /\ q.long = x.long
    BY <1>2, <2>2 DEF IsDisk, DiskFields, Beside
  <2> QED BY <2>1, <2>2, <2>3, <1>2 DEF Kin, Underway, Numbered, Within
<1>5. Kin(y, d)
  <2>1. g \in [at : Int, blocks : Nat]
    BY DEF Kin, Numbered
  <2>2. /\ DOMAIN v = Addr
        /\ \A a \in Addr : a \notin x.long.at .. x.long.at + n - 1 => v[a] = x.vol[a]
    BY SpreadIs
  <2>3. n \in Int /\ n <= x.long.blocks
    BY SpaceFacts DEF Kin, Numbered, Lowest
  <2> HIDE DEF n, v, g
  <2>4. /\ IsDisk(y) /\ y.st = x.st /\ y.mask = x.mask /\ y.cmd = x.cmd /\ y.taken = x.taken
        /\ y.writable = x.writable /\ y.vol = v /\ y.next = x.next /\ y.left = x.left
        /\ y.long = g
    BY DEF Kin, Underway, IsDisk, DiskFields
  <2> HIDE DEF y
  <2>5. Within(y, d)
    <3>1. CASE x.long.blocks > 0
      <4>1. /\ d.cmd.op = "write_long" /\ d.writable /\ x.long.at = d.cmd.lba
            /\ x.long.blocks = Blocks(d.cmd)
        BY <3>1 DEF Owed, Kin
      <4>2. Target(d) = d.cmd.lba .. d.cmd.lba + Blocks(d.cmd) - 1
        BY <4>1 DEF Target
      <4>3. Blocks(d.cmd) \in Nat
        BY BlocksFacts
      <4>4. \A a \in Addr : a \notin Target(d) => a \notin x.long.at .. x.long.at + n - 1
        BY <2>3, <4>1, <4>2, <4>3, SpaceFacts
      <4> QED BY <2>2, <2>4, <4>1, <4>4 DEF Within
    <3>2. CASE ~(x.long.blocks > 0)
      <4>1. x.long.blocks \in Nat /\ x.long.at \in Int
        BY DEF Kin, Numbered
      <4>2. \A a \in Addr : a \notin x.long.at .. x.long.at + n - 1
        BY <3>2, <4>1, <2>3, SpaceFacts
      <4> QED BY <2>2, <2>4, <4>2 DEF Within
    <3> QED BY <3>1, <3>2
  <2>6. Underway(y) /\ Numbered(y)
    BY <2>1, <2>4 DEF Kin, Underway, Numbered
  <2> QED BY <2>4, <2>5, <2>6 DEF Kin
<1> HIDE DEF p, q, y, n, alternate
<1>6. /\ x.assigning => Performed(Finish(q, t, NoFault), d)
      /\ Performed(Refuse(p, t, Illegal, alternate), d)
      /\ Performed(Refuse(y, t, Overflow, x.long.at + n), d)
      /\ Performed(Finish(y, t, NoFault), d)
  BY <1>3, <1>4, <1>5, KinFinish, KinRefuse
<1> QED BY <1>1, <1>6

\* A sector of a WRITE.
LEMMA SectorTakenIs ==
  ASSUME NEW d, NEW x, Kin(x, d), x.vol = d.vol, DOMAIN d.vol = Addr, Owed(x), x.phase = "out",
         "io" \notin x.st, "cd" \notin x.st,
         x.left > 0, d.cmd.count \in Nat, d.cmd.lba \in Nat, NEW t \in Nat
  PROVE  Performed(SectorTaken(x, t), d)
<1> DEFINE w == SubSeq(x.buf, 1, 2)
           v == [x.vol EXCEPT ![x.next].data = w]
           k == x.next + 1
           m == x.left - 1
           e == [x EXCEPT !.vol = v, !.next = k, !.left = m, !.i = 0]
           s == e.st \cup {"req"}
           r == [e EXCEPT !.st = s]
<1>0. /\ d.cmd.op = "write" /\ d.writable /\ d.cmd.lba <= x.next
      /\ x.next + x.left = d.cmd.lba + Blocks(d.cmd)
  BY DEF Owed, Kin
<1>1. /\ x.next \notin Addr => SectorTaken(x, t) = Refuse(x, t, Overflow, x.next)
      /\ x.next \in Addr /\ e.left = 0 => SectorTaken(x, t) = Finish(e, t, NoFault)
      /\ x.next \in Addr /\ e.left # 0 => SectorTaken(x, t) = r
  <2>1. CASE x.next \notin Addr
    BY <2>1 DEF SectorTaken
  <2>2. CASE x.next \in Addr /\ e.left = 0
    BY <2>2 DEF SectorTaken
  <2>3. CASE x.next \in Addr /\ e.left # 0
    BY <2>3 DEF SectorTaken
  <2> QED BY <2>1, <2>2, <2>3
<1>2. /\ k \in Int /\ m \in Nat /\ k + m = x.next + x.left /\ x.next <= k
      /\ Blocks(d.cmd) \in Nat /\ x.next \in Int /\ x.left \in Nat
  BY BlocksFacts DEF Kin, Numbered
<1>3. DOMAIN v = Addr /\ \A a \in Addr : a # x.next => v[a] = d.vol[a]
  OBVIOUS
<1> HIDE DEF v, k, m
<1>4. /\ IsDisk(e) /\ e.st = x.st /\ e.mask = x.mask /\ e.cmd = x.cmd /\ e.taken = x.taken
      /\ e.writable = x.writable /\ e.vol = v /\ e.next = k /\ e.left = m
      /\ e.long = x.long /\ e.phase = x.phase /\ e.assigning = x.assigning
  BY DEF Kin, Underway, IsDisk, DiskFields
<1>5. Kin(e, d)
  <2> HIDE DEF e
  <2>1. Target(d) = d.cmd.lba .. d.cmd.lba + Blocks(d.cmd) - 1
    BY <1>0 DEF Target
  <2>2. x.next \in Target(d)
    BY <1>0, <1>2, <2>1
  <2>3. Within(e, d)
    BY <1>0, <1>3, <1>4, <2>2 DEF Within
  <2> QED BY <1>2, <1>4, <2>3 DEF Kin, Underway, Numbered
<1> HIDE DEF e
<1>6. /\ IsDisk(r) /\ r.st = s /\ r.mask = e.mask /\ r.cmd = e.cmd /\ r.taken = e.taken
      /\ r.writable = e.writable /\ r.vol = e.vol /\ r.next = e.next /\ r.left = e.left
      /\ r.long = e.long /\ r.phase = e.phase /\ r.assigning = e.assigning
  <2> HIDE DEF s
  <2> QED BY <1>4 DEF IsDisk, DiskFields
<1>7. Performed(r, d)
  <2> HIDE DEF r
  <2>1. Lined(r)
    BY <1>4, <1>6 DEF Kin, Underway, Lined, Lines
  <2>2. Owed(r)
    BY <1>0, <1>2, <1>4, <1>6 DEF Owed, Kin
  <2> QED BY <1>4, <1>5, <1>6, <2>1, <2>2 DEF Performed, Kin, Numbered, Within
<1> HIDE DEF r
<1> QED BY <1>1, <1>5, <1>7, KinFinish, KinRefuse

-----------------------------------------------------------------------------
(* The disk: its registers.                                                *)

\* What a disk controller can be.
DiskSound(d) ==
    /\ IsDisk(d) /\ d.phase \in Phases /\ Lined(d) /\ Numbered(d) /\ Owed(d)
    /\ DOMAIN d.vol = Addr
    /\ d.phase \in {"executing", "reset"} => d.ends \in Nat
    /\ d.cmd \in [op : Ops \cup {"none"}, lun : Nat, lba : Nat, count : Nat, to : Nat,
                  control : SUBSET {"convert", "buffer"}]
    /\ d.taken # 0 => d.cmd.op \in Ops

\* What its command has done to a medium that was as it was before.
DiskDid(d, before) ==
    \A a \in Addr : d.vol[a] # before[a] =>
      d.writable /\ (d.phase \in {"in", "out", "executing", "status"} => a \in Target(d))

\* What a command may leave is a sound controller, ...
LEMMA PerformedSound ==
  ASSUME NEW d, NEW e, Performed(e, d), d.taken # 0 => d.cmd.op \in Ops,
         d.cmd \in [op : Ops \cup {"none"}, lun : Nat, lba : Nat, count : Nat, to : Nat,
                    control : SUBSET {"convert", "buffer"}]
  PROVE  DiskSound(e)
BY DEF Performed, DiskSound, Within, Phases

\* ... that has done only what it was asked.
LEMMA PerformedDid ==
  ASSUME NEW d, NEW e, Performed(e, d), NEW before,
         \A a \in Addr : d.vol[a] # before[a] => d.writable /\ a \in Target(d)
  PROVE  DiskDid(e, before)
<1>1. Target(e) = Target(d) /\ e.writable = d.writable
  BY DEF Performed, Target
<1> QED BY <1>1 DEF Performed, Within, DiskDid

\* An access that leaves the medium and the command as they are, and whose lines
\* agree with the phase it goes to.
LEMMA Quiets ==
  ASSUME NEW d, DiskSound(d), NEW e, IsDisk(e), Lined(e), e.phase \in {"reset", "idle", "command"},
         e.phase = "reset" => e.ends \in Nat, e.taken = d.taken \/ e.taken = 0,
         e.vol = d.vol, e.cmd = d.cmd, e.writable = d.writable, e.next = d.next,
         e.left = d.left, e.long = d.long
  PROVE  DiskSound(e) /\ \A before : DiskDid(d, before) => DiskDid(e, before)
<1>1. DiskSound(e)
  <2>1. Numbered(e) /\ Owed(e)
    BY DEF DiskSound, Numbered, Owed
  <2> QED BY <2>1 DEF DiskSound, Phases
<1>2. \A before : DiskDid(d, before) => DiskDid(e, before)
  BY DEF DiskDid
<1> QED BY <1>1, <1>2

\* Selecting the controller, ...
LEMMA SelectSound ==
  ASSUME NEW d, DiskSound(d)
  PROVE  /\ DiskSound(SelectDisk(d))
         /\ \A before : DiskDid(d, before) => DiskDid(SelectDisk(d), before)
<1>1. CASE d.phase # "idle"
  BY <1>1 DEF SelectDisk
<1>2. CASE d.phase = "idle"
  <2> DEFINE e == [d EXCEPT !.phase = "command", !.taken = 0, !.st = {"bsy", "cd", "req"}]
  <2>1. SelectDisk(d) = e
    BY <1>2 DEF SelectDisk
  <2>2. /\ IsDisk(e) /\ e.phase = "command" /\ e.taken = 0 /\ e.st = {"bsy", "cd", "req"}
        /\ e.vol = d.vol /\ e.cmd = d.cmd /\ e.writable = d.writable /\ e.next = d.next
        /\ e.left = d.left /\ e.long = d.long
    BY DEF DiskSound, IsDisk, DiskFields
  <2> HIDE DEF e
  <2>3. Lined(e)
    BY <2>2 DEF Lined, Lines
  <2> QED BY <2>1, <2>2, <2>3, Quiets
<1> QED BY <1>1, <1>2

\* ... resetting it, ...
LEMMA ResetSound ==
  ASSUME NEW d, DiskSound(d), NEW t \in Nat
  PROVE  /\ DiskSound(DiskReset(d, t))
         /\ \A before : DiskDid(d, before) => DiskDid(DiskReset(d, t), before)
<1> DEFINE b == [k \in DOMAIN d.buf |-> 0]
           n == t + ResetTime
           e == [d EXCEPT !.phase = "reset", !.st = {}, !.mask = {}, !.taken = 0, !.i = 0,
                          !.buf = b, !.ends = n]
<1>1. DiskReset(d, t) = e
  BY DEF DiskReset
<1>2. n \in Nat
  BY OmtiAssumption
<1> HIDE DEF b, n
<1>3. /\ IsDisk(e) /\ e.phase = "reset" /\ e.taken = 0 /\ e.st = {} /\ e.ends = n
      /\ e.vol = d.vol /\ e.cmd = d.cmd /\ e.writable = d.writable /\ e.next = d.next
      /\ e.left = d.left /\ e.long = d.long
  BY DEF DiskSound, IsDisk, DiskFields
<1> HIDE DEF e
<1>4. Lined(e)
  BY <1>3 DEF Lined
<1> QED BY <1>1, <1>2, <1>3, <1>4, Quiets

\* ... and writing its mask leave the medium alone.
LEMMA MaskSound ==
  ASSUME NEW d, DiskSound(d), NEW m
  PROVE  /\ DiskSound(WriteMask(d, m))
         /\ \A before : DiskDid(d, before) => DiskDid(WriteMask(d, m), before)
<1> DEFINE s == d.st \ ((IF "int" \in m THEN {} ELSE {"ireq"})
                          \cup (IF "dma" \in m THEN {} ELSE {"dreq"}))
           e == [d EXCEPT !.mask = m, !.st = s]
<1>1. WriteMask(d, m) = e
  BY DEF WriteMask, DiskSound, IsDisk, DiskFields
<1>2. /\ s \subseteq d.st /\ ("cd" \in s <=> "cd" \in d.st) /\ ("io" \in s <=> "io" \in d.st)
      /\ "ireq" \in s => "int" \in m
      /\ "dreq" \in s => "dma" \in m
  OBVIOUS
<1> HIDE DEF s
<1>3. /\ IsDisk(e) /\ e.phase = d.phase /\ e.taken = d.taken /\ e.st = s /\ e.ends = d.ends
      /\ e.vol = d.vol /\ e.cmd = d.cmd /\ e.writable = d.writable /\ e.next = d.next
      /\ e.left = d.left /\ e.long = d.long /\ e.mask = m /\ e.assigning = d.assigning
  BY DEF DiskSound, IsDisk, DiskFields
<1> HIDE DEF e
<1>4. Lined(e)
  BY <1>2, <1>3 DEF DiskSound, Lined
<1>5. Numbered(e) /\ Owed(e)
  BY <1>3 DEF DiskSound, Numbered, Owed
<1>6. DiskSound(e)
  BY <1>3, <1>4, <1>5 DEF DiskSound
<1>7. \A before : DiskDid(d, before) => DiskDid(e, before)
  BY <1>3 DEF DiskDid, Target
<1> QED BY <1>1, <1>6, <1>7

\* A byte of a command.  The last one starts it, on the medium as it is.
LEMMA CommandSound ==
  ASSUME NEW d, DiskSound(d), d.phase \in {"idle", "command"}, NEW t \in Nat,
         NEW c \in CommandBlocks
  PROVE  LET e == TakeCommand(d, t, c) IN
         /\ DiskSound(e)
         /\ e.phase = "command" => \A before : DiskDid(d, before) => DiskDid(e, before)
         /\ e.phase # "command" => DiskDid(e, d.vol)
<1> DEFINE e == TakeCommand(d, t, c)
<1>0. /\ c.op \in Ops /\ c = [op |-> c.op, lun |-> c.lun, lba |-> c.lba, count |-> c.count,
                              to |-> c.to, control |-> c.control]
      /\ c.lun \in Nat /\ c.lba \in Nat /\ c.count \in Nat /\ c.to \in Nat
      /\ c.control \in SUBSET {"convert", "buffer"}
  BY DEF CommandBlocks
<1>1. CASE d.phase = "idle" \/ d.taken = 0
  <2> DEFINE k == [d.cmd EXCEPT !.op = c.op]
             s == (d.st \ (IF d.phase = "idle" THEN {"req"} ELSE {})) \cup {"cd"}
             x == [d EXCEPT !.phase = "command", !.cmd = k, !.taken = 1, !.st = s]
  <2>1. e = x
    BY <1>1 DEF TakeCommand, DiskSound, IsDisk, DiskFields
  <2>2. /\ k \in [op : Ops \cup {"none"}, lun : Nat, lba : Nat, count : Nat, to : Nat,
                  control : SUBSET {"convert", "buffer"}]
        /\ k.op \in Ops
    <3> HIDE DEF Ops
    <3> QED BY <1>0 DEF DiskSound
  <2>3. s \subseteq Lines /\ "cd" \in s /\ "io" \notin s /\ "ireq" \notin s /\ "dreq" \notin s
    BY DEF DiskSound, Lined, Lines
  <2> HIDE DEF k, s
  <2>4. /\ IsDisk(x) /\ x.phase = "command" /\ x.taken = 1 /\ x.st = s /\ x.cmd = k
        /\ x.vol = d.vol /\ x.writable = d.writable /\ x.next = d.next
        /\ x.left = d.left /\ x.long = d.long
    BY DEF DiskSound, IsDisk, DiskFields
  <2> HIDE DEF x
  <2>5. Lined(x) /\ Owed(x) /\ Numbered(x)
    BY <2>3, <2>4 DEF DiskSound, Lined, Owed, Numbered
  <2>6. DiskSound(x)
    BY <2>2, <2>4, <2>5 DEF DiskSound, Phases
  <2>7. \A before : DiskDid(d, before) => DiskDid(x, before)
    BY <2>4 DEF DiskDid
  <2> QED BY <2>1, <2>4, <2>6, <2>7
<1>2. CASE ~(d.phase = "idle" \/ d.taken = 0)
  <2> DEFINE k == [c EXCEPT !.op = d.cmd.op]
             s == d.st \ {"req", "cd"}
             x == [d EXCEPT !.cmd = k, !.taken = 2, !.st = s]
  <2>1. e = Execute(x, t)
    BY <1>2 DEF TakeCommand, DiskSound, IsDisk, DiskFields
  <2>2. k \in CommandBlocks
    <3>1. d.cmd.op \in Ops
      BY <1>2 DEF DiskSound
    <3> HIDE DEF Ops
    <3> QED BY <1>0, <3>1 DEF CommandBlocks
  <2>3. s \subseteq Lines \ {"ireq"} /\ "dreq" \notin s
    BY <1>2 DEF DiskSound, Lined, Lines
  <2> HIDE DEF k, s
  <2>4. /\ IsDisk(x) /\ x.taken = 2 /\ x.st = s /\ x.cmd = k
        /\ x.vol = d.vol /\ x.writable = d.writable /\ x.next = d.next
        /\ x.left = d.left /\ x.long = d.long
    BY DEF DiskSound, IsDisk, DiskFields
  <2> HIDE DEF x
  <2>5. Underway(x) /\ Numbered(x) /\ DOMAIN x.vol = Addr
    BY <2>3, <2>4 DEF DiskSound, Underway, Numbered
  <2>6. Performed(e, x)
    BY <2>1, <2>2, <2>4, <2>5, ExecuteIs
  <2> HIDE DEF e
  <2>7. /\ x.cmd \in [op : Ops \cup {"none"}, lun : Nat, lba : Nat, count : Nat, to : Nat,
                      control : SUBSET {"convert", "buffer"}]
        /\ x.cmd.op \in Ops
    <3> HIDE DEF Ops
    <3> QED BY <2>2, <2>4 DEF CommandBlocks
  <2>8. DiskSound(e)
    BY <2>6, <2>7, PerformedSound
  <2>9. DiskDid(e, d.vol)
    BY <2>4, <2>6, PerformedDid
  <2> QED BY <2>6, <2>8, <2>9 DEF Performed, e
<1> QED BY <1>1, <1>2

\* A phase of a command under way, with its last byte acknowledged.
LEMMA BetweenBytes ==
  ASSUME NEW d, DiskSound(d), d.phase \in {"in", "out"}, NEW x, IsDisk(x),
         x.st = d.st \ {"req"}, x.mask = d.mask, x.cmd = d.cmd, x.taken = d.taken,
         x.writable = d.writable, x.vol = d.vol, x.next = d.next, x.left = d.left,
         x.long = d.long, x.phase = d.phase, x.assigning = d.assigning
  PROVE  /\ Kin(x, d) /\ Owed(x) /\ "cd" \notin x.st /\ ("io" \in x.st <=> x.phase = "in")
         /\ \A s : s = x.st \cup {"req"} => Performed([x EXCEPT !.st = s], d)
<1>1. Underway(x) /\ "cd" \notin x.st /\ ("io" \in x.st <=> x.phase = "in")
  BY DEF DiskSound, Lined, Underway
<1>2. Numbered(x) /\ Owed(x) /\ Within(x, d)
  BY DEF DiskSound, Numbered, Owed, Within
<1>3. Kin(x, d)
  BY <1>1, <1>2 DEF Kin
<1>4. ASSUME NEW s, s = x.st \cup {"req"} PROVE Performed([x EXCEPT !.st = s], d)
  <2> DEFINE r == [x EXCEPT !.st = s]
  <2>1. /\ IsDisk(r) /\ r.st = s /\ r.mask = x.mask /\ r.cmd = x.cmd /\ r.taken = x.taken
        /\ r.writable = x.writable /\ r.vol = x.vol /\ r.next = x.next /\ r.left = x.left
        /\ r.long = x.long /\ r.phase = x.phase /\ r.assigning = x.assigning
    BY DEF IsDisk, DiskFields
  <2> HIDE DEF r
  <2>2. Lined(r)
    BY <1>1, <1>4, <2>1 DEF Lined, Underway, Lines
  <2>3. Numbered(r) /\ Owed(r) /\ Within(r, d)
    BY <1>2, <2>1 DEF Numbered, Owed, Within
  <2>4. Performed(r, d)
    BY <2>1, <2>2, <2>3 DEF Performed
  <2> QED BY <2>4 DEF r
<1> QED BY <1>1, <1>2, <1>3, <1>4

\* A byte from the host.  The last of a sector or of a command writes it.
LEMMA TakeDataSound ==
  ASSUME NEW d, DiskSound(d), d.phase = "out", NEW t \in Nat, NEW v
  PROVE  LET e == TakeData(d, t, v) IN
         /\ DiskSound(e)
         /\ \A before : DiskDid(d, before) => DiskDid(e, before)
<1> DEFINE b == [d.buf EXCEPT ![d.i + 1] = v]
           k == d.i + 1
           s == d.st \ {"req"}
           x == [d EXCEPT !.buf = b, !.i = k, !.st = s]
           u == x.st \cup {"req"}
           e == TakeData(d, t, v)
<1>1. e = IF x.i < (IF d.left = 0 THEN d.len ELSE 2) THEN [x EXCEPT !.st = u]
          ELSE IF d.left = 0 THEN Taken(x, t) ELSE SectorTaken(x, t)
  BY DEF TakeData
<1> HIDE DEF b, k, s, e
<1>2. IsDisk(x) /\ x.st = s /\ x.mask = d.mask /\ x.cmd = d.cmd /\ x.taken = d.taken
      /\ x.writable = d.writable /\ x.vol = d.vol /\ x.next = d.next /\ x.left = d.left
      /\ x.long = d.long /\ x.phase = d.phase /\ x.assigning = d.assigning
  BY DEF DiskSound, IsDisk, DiskFields
<1> HIDE DEF x
<1>3. /\ Kin(x, d) /\ Owed(x) /\ "cd" \notin x.st /\ "io" \notin x.st
      /\ Performed([x EXCEPT !.st = u], d)
  BY <1>2, BetweenBytes DEF s
<1>4. d.cmd.count \in Nat /\ d.cmd.lba \in Nat /\ DOMAIN d.vol = Addr /\ d.left \in Nat
  <2> HIDE DEF Ops
  <2> QED BY DEF DiskSound, Numbered
<1>5. d.left = 0 => Performed(Taken(x, t), d)
  BY <1>2, <1>3, <1>4, TakenIs
<1>6. d.left # 0 => Performed(SectorTaken(x, t), d)
  BY <1>2, <1>3, <1>4, SectorTakenIs
<1>7. Performed(e, d)
  <2> HIDE DEF u
  <2> QED BY <1>1, <1>3, <1>5, <1>6
<1>8. DiskSound(e)
  <2> HIDE DEF Ops
  <2> QED BY <1>7, PerformedSound DEF DiskSound
<1>9. \A before : DiskDid(d, before) => DiskDid(e, before)
  BY <1>7, PerformedDid DEF DiskDid
<1> QED BY <1>8, <1>9 DEF e

\* A byte to the host.  The last brings the next sector or the end.
LEMMA GiveByteSound ==
  ASSUME NEW d, DiskSound(d), d.phase \in {"in", "status"}, NEW t \in Nat
  PROVE  LET e == GiveByte(d, t) IN
         /\ DiskSound(e)
         /\ \A before : DiskDid(d, before) => DiskDid(e, before)
<1> DEFINE k == d.i + 1
           s == d.st \ {"req"}
           x == [d EXCEPT !.i = k, !.st = s]
           u == x.st \cup {"req"}
           more == x.i < d.len
           e == GiveByte(d, t)
<1>0. d.cmd.count \in Nat /\ d.left \in Nat
  <2> HIDE DEF Ops
  <2> QED BY DEF DiskSound, Numbered
<1>1. CASE d.phase = "in"
  <2>1. /\ more => e = [x EXCEPT !.st = u]
        /\ ~more /\ d.left > 0 => e = Feed(x, t)
        /\ ~more /\ d.left = 0 => e = Finish(x, t, NoFault)
    <3>1. CASE more
      BY <1>1, <3>1 DEF GiveByte
    <3>2. CASE ~more /\ d.left > 0
      BY <1>1, <3>2 DEF GiveByte
    <3>3. CASE ~more /\ d.left = 0
      BY <1>1, <3>3 DEF GiveByte
    <3> QED BY <3>1, <3>2, <3>3
  <2> HIDE DEF k, s, e
  <2>2. IsDisk(x) /\ x.st = s /\ x.mask = d.mask /\ x.cmd = d.cmd /\ x.taken = d.taken
        /\ x.writable = d.writable /\ x.vol = d.vol /\ x.next = d.next /\ x.left = d.left
        /\ x.long = d.long /\ x.phase = d.phase /\ x.assigning = d.assigning
    BY DEF DiskSound, IsDisk, DiskFields
  <2> HIDE DEF x
  <2>3. Kin(x, d) /\ Performed([x EXCEPT !.st = u], d)
    BY <1>1, <2>2, BetweenBytes DEF s
  <2>4. Performed(Feed(x, t), d) /\ Performed(Finish(x, t, NoFault), d)
    BY <1>0, <2>3, FeedIs, KinFinish
  <2>5. Performed(e, d)
    <3> HIDE DEF u, more
    <3> QED BY <1>0, <2>1, <2>3, <2>4
  <2>6. DiskSound(e)
    <3> HIDE DEF Ops
    <3> QED BY <2>5, PerformedSound DEF DiskSound
  <2>7. \A before : DiskDid(d, before) => DiskDid(e, before)
    BY <1>1, <2>5, PerformedDid DEF DiskDid
  <2> QED BY <2>6, <2>7 DEF e
<1>2. CASE d.phase = "status"
  <2> DEFINE y == [d EXCEPT !.phase = "idle", !.st = {}]
  <2>1. e = y
    BY <1>2 DEF GiveByte
  <2>2. /\ IsDisk(y) /\ y.phase = "idle" /\ y.taken = d.taken /\ y.st = {}
        /\ y.vol = d.vol /\ y.cmd = d.cmd /\ y.writable = d.writable /\ y.next = d.next
        /\ y.left = d.left /\ y.long = d.long
    BY DEF DiskSound, IsDisk, DiskFields
  <2> HIDE DEF y, e
  <2>3. Lined(y)
    BY <2>2 DEF Lined
  <2>4. DiskSound(y) /\ \A before : DiskDid(d, before) => DiskDid(y, before)
    BY <2>2, <2>3, Quiets
  <2> QED BY <2>1, <2>4 DEF e
<1> QED BY <1>1, <1>2

\* Time ends what is executing, and before then does nothing.
LEMMA AdvanceSound ==
  ASSUME NEW d, DiskSound(d), NEW t \in Nat
  PROVE  LET e == DiskAdvance(d, t) IN
         /\ DiskSound(e)
         /\ \A before : DiskDid(d, before) => DiskDid(e, before)
         /\ t < DiskNextChange(d) => e = d
<1> DEFINE e == DiskAdvance(d, t)
<1>0. t < DiskNextChange(d) => e = d
  BY DEF DiskAdvance, DiskNextChange, DiskSound
<1>1. CASE d.phase = "reset" /\ t >= d.ends
  <2> DEFINE y == [d EXCEPT !.phase = "idle"]
  <2>1. e = y
    BY <1>1 DEF DiskAdvance
  <2>2. /\ IsDisk(y) /\ y.phase = "idle" /\ y.taken = d.taken /\ y.st = d.st
        /\ y.vol = d.vol /\ y.cmd = d.cmd /\ y.writable = d.writable /\ y.next = d.next
        /\ y.left = d.left /\ y.long = d.long
    BY DEF DiskSound, IsDisk, DiskFields
  <2> HIDE DEF y, e
  <2>3. Lined(y)
    BY <1>1, <2>2 DEF Lined, DiskSound
  <2>4. DiskSound(y) /\ \A before : DiskDid(d, before) => DiskDid(y, before)
    BY <2>2, <2>3, Quiets
  <2> QED BY <1>0, <2>1, <2>4 DEF e
<1>2. CASE d.phase = "executing" /\ t >= d.ends
  <2> DEFINE y == Complete(d)
  <2>1. e = y
    BY <1>2 DEF DiskAdvance
  <2>2. IsDisk(y) /\ y.phase = "status" /\ Beside(y, d) /\ y.left = 0 /\ Lined(y)
    BY <1>2, CompleteIs, CompleteLines DEF DiskSound, Lined
  <2> HIDE DEF y, e
  <2>3. Numbered(y) /\ Owed(y)
    BY <2>2 DEF DiskSound, Beside, Numbered, Owed
  <2>4. DiskSound(y)
    BY <2>2, <2>3 DEF DiskSound, Beside, Phases
  <2>5. \A before : DiskDid(d, before) => DiskDid(y, before)
    BY <1>2, <2>2 DEF DiskDid, Beside, Target
  <2> QED BY <1>0, <2>1, <2>4, <2>5 DEF e
<1>3. CASE ~(d.phase = "reset" /\ t >= d.ends) /\ ~(d.phase = "executing" /\ t >= d.ends)
  <2>1. e = d
    BY <1>3 DEF DiskAdvance
  <2> HIDE DEF e
  <2> QED BY <2>1 DEF e
<1> QED BY <1>1, <1>2, <1>3

\* The controller at power on.
LEMMA DiskStartSound ==
  ASSUME NEW w \in BOOLEAN
  PROVE  LET d == DiskStart(w) IN DiskSound(d) /\ DiskDid(d, d.vol)
<1> DEFINE v == Drive
           b == [k \in 1 .. 3 * BufferBlocks |-> 0]
           g == [at |-> 0, blocks |-> 0]
           n == ResetTime
           c == NoCommand
           s == <<NoFault, 0>>
           d == [phase |-> "reset", st |-> {}, mask |-> {}, taken |-> 0, cmd |-> c,
                 buf |-> b, i |-> 0, len |-> 0, left |-> 0,
                 next |-> 0, long |-> g, assigning |-> FALSE,
                 ends |-> n, error |-> FALSE, sense |-> s, last |-> -1,
                 vol |-> v, writable |-> w]
<1>1. DiskStart(w) = d
  BY DEF DiskStart
<1>2. /\ DOMAIN v = Addr /\ n \in Nat /\ g \in [at : Int, blocks : Nat]
      /\ c \in [op : Ops \cup {"none"}, lun : Nat, lba : Nat, count : Nat, to : Nat,
                control : SUBSET {"convert", "buffer"}]
  <2>1. c.op = "none" /\ c = [op |-> "none", lun |-> 0, lba |-> 0, count |-> 1, to |-> 0,
                             control |-> {}]
    BY DEF NoCommand
  <2> HIDE DEF c, Ops
  <2>2. c \in [op : Ops \cup {"none"}, lun : Nat, lba : Nat, count : Nat, to : Nat,
                control : SUBSET {"convert", "buffer"}]
    BY <2>1
  <2>3. DOMAIN v = Addr /\ n \in Nat /\ g \in [at : Int, blocks : Nat]
    BY OmtiAssumption DEF Drive
  <2> QED BY <2>2, <2>3
<1> HIDE DEF v, b, g, n, c, s
<1>3. /\ IsDisk(d) /\ d.phase = "reset" /\ d.st = {} /\ d.taken = 0 /\ d.cmd = c /\ d.left = 0
      /\ d.next = 0 /\ d.long = g /\ d.ends = n /\ d.vol = v
  BY DEF IsDisk, DiskFields
<1> HIDE DEF d
<1>4. Lined(d) /\ Numbered(d) /\ Owed(d)
  BY <1>2, <1>3 DEF Lined, Numbered, Owed
<1>5. DiskSound(d) /\ DiskDid(d, d.vol)
  BY <1>2, <1>3, <1>4 DEF DiskSound, Phases, DiskDid
<1> QED BY <1>1, <1>5

-----------------------------------------------------------------------------
(* The diskette.                                                           *)

\* The controller's registers.
FdcFields == {"phase", "cmd", "len", "ri", "bi", "result", "nd", "ends", "buf", "unit", "reset",
              "running", "lines", "vol", "inserted", "writable"}
\* A diskette controller has these, and only these.
IsFdc(f) == f = [x \in FdcFields |-> f[x]]

\* A cylinder a head can reach in time, and a drive with its head on one.
Near(c) == c \in Nat /\ MaxNow["floppy"] + c * StepTime + Settling < NeverDue
\* What a drive can be: one that seeks gets there.
UnitSound(s) ==
    /\ s \in [at : Nat, done : BOOLEAN, busy : BOOLEAN, fail : BOOLEAN,
              st0 : {"none", "normal", "abrupt", "not_ready"}, end : BOOLEAN, cylinder : Nat]
    /\ Near(s.cylinder)
    /\ s.busy => s.done \/ s.at # NeverDue

\* All the drives.
UnitsSound(units) ==
    units = [u \in Units |-> units[u]] /\ \A u \in Units : UnitSound(units[u])

\* What is different on the diskette was to be written, and could be.
FdcWithin(e, f) ==
    /\ DOMAIN e.vol = OnDisk
    /\ \A a \in OnDisk : e.vol[a] # f.vol[a] =>
         f.writable /\ (f.cmd.op # "format" => a = f.cmd.at)

\* The command of f, x so far.
FdcKin(x, f) ==
    /\ IsFdc(x) /\ UnitsSound(x.unit) /\ FdcWithin(x, f)
    /\ x.cmd = f.cmd /\ x.reset = f.reset /\ x.running = f.running /\ x.lines = f.lines
    /\ x.writable = f.writable /\ x.inserted = f.inserted

\* ... and what it may leave.
FdcPerformed(e, f) ==
    /\ FdcKin(e, f)
    /\ e.phase \in {"idle", "in", "out", "executing", "status"}
    /\ e.phase = "executing" => e.ends \in Nat
    /\ e.phase = "out" /\ e.cmd.op \in Writes => e.writable

\* The times are numbers, and the never-due instant is past them.
LEMMA FdcTimes ==
  /\ Latency + PerSector \in Nat /\ Latency + PerSector * PerTrack \in Nat
  /\ StepTime \in Nat \ {0} /\ Settling \in Nat \ {0} /\ NeverDue \in Nat \ {0}
  /\ PerTrack \in Nat \ {0} /\ FarthestStep \in Nat
BY FdcAssumption

\* A result goes to the host at once or after the command's time, ...
LEMMA ResultIs ==
  ASSUME NEW f, NEW x, FdcKin(x, f), NEW t \in Nat
  PROVE  /\ FdcPerformed(Result(x, t), f)
         /\ Result(x, t).phase \in {"idle", "executing", "status"}
<1>1. CASE FdcDuration(x) = 0 /\ x.len = 0
  <2> DEFINE e == [x EXCEPT !.phase = "idle", !.len = 0, !.ri = 0, !.bi = 0, !.ends = 0]
  <2>1. Result(x, t) = e
    BY <1>1 DEF Result, FdcComplete, Idle, FdcKin, IsFdc, FdcFields
  <2>2. /\ IsFdc(e) /\ e.phase = "idle" /\ e.cmd = x.cmd /\ e.unit = x.unit /\ e.vol = x.vol
        /\ e.reset = x.reset /\ e.running = x.running /\ e.lines = x.lines
        /\ e.writable = x.writable /\ e.inserted = x.inserted
    BY DEF FdcKin, IsFdc, FdcFields
  <2> HIDE DEF e
  <2> QED BY <2>1, <2>2 DEF FdcPerformed, FdcKin, FdcWithin
<1>2. CASE FdcDuration(x) = 0 /\ x.len # 0
  <2> DEFINE e == [x EXCEPT !.phase = "status", !.ri = 0, !.ends = 0]
  <2>1. Result(x, t) = e
    BY <1>2 DEF Result, FdcComplete
  <2>2. /\ IsFdc(e) /\ e.phase = "status" /\ e.cmd = x.cmd /\ e.unit = x.unit /\ e.vol = x.vol
        /\ e.reset = x.reset /\ e.running = x.running /\ e.lines = x.lines
        /\ e.writable = x.writable /\ e.inserted = x.inserted
    BY DEF FdcKin, IsFdc, FdcFields
  <2> HIDE DEF e
  <2> QED BY <2>1, <2>2 DEF FdcPerformed, FdcKin, FdcWithin
<1>3. CASE FdcDuration(x) # 0
  <2> DEFINE n == t + FdcDuration(x)
             e == [x EXCEPT !.phase = "executing", !.ends = n]
  <2>1. Result(x, t) = e
    BY <1>3 DEF Result
  <2>2. n \in Nat
    BY FdcTimes DEF FdcDuration
  <2> HIDE DEF n
  <2>3. /\ IsFdc(e) /\ e.phase = "executing" /\ e.cmd = x.cmd /\ e.unit = x.unit
        /\ e.vol = x.vol /\ e.ends = n
        /\ e.reset = x.reset /\ e.running = x.running /\ e.lines = x.lines
        /\ e.writable = x.writable /\ e.inserted = x.inserted
    BY DEF FdcKin, IsFdc, FdcFields
  <2> HIDE DEF e
  <2> QED BY <2>1, <2>2, <2>3 DEF FdcPerformed, FdcKin, FdcWithin
<1> QED BY <1>1, <1>2, <1>3

\* What does not matter to the rest of the controller.
LEMMA FdcAside ==
  ASSUME NEW f, NEW x, FdcKin(x, f), NEW y, IsFdc(y), y.cmd = x.cmd, y.unit = x.unit,
         y.vol = x.vol, y.reset = x.reset, y.running = x.running, y.lines = x.lines,
         y.writable = x.writable, y.inserted = x.inserted
  PROVE  FdcKin(y, f)
BY DEF FdcKin, FdcWithin

\* ... with the status of a transfer, ...
LEMMA DataResultIs ==
  ASSUME NEW f, NEW x, FdcKin(x, f), NEW t \in Nat, NEW st0, NEW st1, NEW st2
  PROVE  /\ FdcPerformed(DataResult(x, t, st0, st1, st2), f)
         /\ DataResult(x, t, st0, st1, st2).phase \in {"idle", "executing", "status"}
<1> DEFINE r == [st0 |-> st0, st1 |-> st1, st2 |-> st2]
           y == [x EXCEPT !.len = 7, !.result = r]
<1>1. DataResult(x, t, st0, st1, st2) = Result(y, t)
  BY DEF DataResult
<1> HIDE DEF r
<1>2. /\ IsFdc(y) /\ y.cmd = x.cmd /\ y.unit = x.unit /\ y.vol = x.vol
      /\ y.reset = x.reset /\ y.running = x.running /\ y.lines = x.lines
      /\ y.writable = x.writable /\ y.inserted = x.inserted
  BY DEF FdcKin, IsFdc, FdcFields
<1> HIDE DEF y
<1> QED BY <1>1, <1>2, FdcAside, ResultIs

\* ... or with a status byte or two.
LEMMA ShortIs ==
  ASSUME NEW f, NEW x, FdcKin(x, f), NEW t \in Nat, NEW n, NEW st0
  PROVE  /\ FdcPerformed(Short(x, t, n, st0), f)
         /\ Short(x, t, n, st0).phase \in {"idle", "executing", "status"}
<1> DEFINE r == [x.result EXCEPT !.st0 = st0]
           y == [x EXCEPT !.len = n, !.result = r]
<1>1. Short(x, t, n, st0) = Result(y, t)
  BY DEF Short, FdcKin, IsFdc, FdcFields
<1> HIDE DEF r
<1>2. /\ IsFdc(y) /\ y.cmd = x.cmd /\ y.unit = x.unit /\ y.vol = x.vol
      /\ y.reset = x.reset /\ y.running = x.running /\ y.lines = x.lines
      /\ y.writable = x.writable /\ y.inserted = x.inserted
  BY DEF FdcKin, IsFdc, FdcFields
<1> HIDE DEF y
<1> QED BY <1>1, <1>2, FdcAside, ResultIs

\* A head that stands on a cylinder it can reach from goes to another.
LEMMA FewerSteps ==
  ASSUME NEW a \in Nat, NEW b \in Nat, a <= b, NEW s \in Nat
  PROVE  a * s <= b * s
<1>1. b * s = a * s + (b - a) * s
  OBVIOUS
<1>2. (b - a) * s >= 0
  <2>1. b - a \in Nat
    OBVIOUS
  <2> QED BY <2>1
<1>3. a * s \in Int /\ b * s \in Int /\ (b - a) * s \in Int
  OBVIOUS
<1> QED BY <1>1, <1>2, <1>3

\* A cylinder nearer than one that can be reached can be reached.
LEMMA NearerStill ==
  ASSUME NEW b, Near(b), NEW a \in Nat, a <= b
  PROVE  Near(a)
<1> DEFINE x == a * StepTime
           y == b * StepTime
<1>1. x <= y /\ x \in Nat /\ y \in Nat
  <2>1. b \in Nat /\ StepTime \in Nat
    BY FdcTimes DEF Near
  <2>2. x <= y
    BY <2>1, FewerSteps
  <2> QED BY <2>1, <2>2
<1>2. MaxNow["floppy"] + y + Settling < NeverDue
  BY DEF Near
<1>3. MaxNow["floppy"] \in Nat /\ Settling \in Nat /\ NeverDue \in Nat
  BY StorageAssumption, FdcTimes
<1> HIDE DEF x, y
<1>4. MaxNow["floppy"] + x + Settling < NeverDue
  BY <1>1, <1>2, <1>3
<1> QED BY <1>4 DEF Near, x

\* So a seek ends, before the instant that stands for never.
LEMMA SeekArrives ==
  ASSUME NEW from, Near(from), NEW to, Near(to), NEW t \in Nat, t <= MaxNow["floppy"]
  PROVE  /\ SeekTime(from, to) \in Nat
         /\ t + SeekTime(from, to) \in Nat /\ t + SeekTime(from, to) # NeverDue
<1> DEFINE n == IF from > to THEN from - to ELSE to - from
           x == n * StepTime
<1>1. from \in Nat /\ to \in Nat /\ n \in Nat
  BY DEF Near
<1>2. Near(n)
  <2>1. CASE from > to
    BY <1>1, <2>1, NearerStill
  <2>2. CASE ~(from > to)
    BY <1>1, <2>2, NearerStill
  <2> QED BY <2>1, <2>2
<1>3. MaxNow["floppy"] \in Nat /\ Settling \in Nat /\ NeverDue \in Nat \ {0} /\ StepTime \in Nat
  BY StorageAssumption, FdcTimes
<1>4. x \in Nat /\ MaxNow["floppy"] + x + Settling < NeverDue
  BY <1>1, <1>2, <1>3 DEF Near
<1>5. SeekTime(from, to) = IF from = to THEN 0 ELSE x + Settling
  BY DEF SeekTime
<1> HIDE DEF x, n
<1>6. CASE from = to
  BY <1>3, <1>4, <1>5, <1>6
<1>7. CASE from # to
  BY <1>3, <1>4, <1>5, <1>7
<1> QED BY <1>6, <1>7

\* A seek keeps its drive sound, ...
LEMMA BeginSeekIs ==
  ASSUME NEW f, NEW x, FdcKin(x, f), NEW u \in Units, NEW to, Near(to),
         NEW t \in Nat, t <= MaxNow["floppy"], NEW fail \in BOOLEAN
  PROVE  FdcKin(BeginSeek(x, u, to, t, fail), f)
<1> DEFINE s == x.unit[u]
           d == SeekTime(s.cylinder, to)
           n == t + d
           st == IF fail THEN "abrupt" ELSE "normal"
           g == IF fail THEN FALSE ELSE s.fail
           h == s.fail \/ fail
           a == [s EXCEPT !.cylinder = to, !.busy = TRUE, !.done = TRUE, !.end = TRUE,
                          !.st0 = st, !.fail = g]
           b == [s EXCEPT !.cylinder = to, !.busy = TRUE, !.at = n, !.fail = h]
           z == IF d = 0 THEN a ELSE b
           y == [x EXCEPT !.unit[u] = z]
<1>1. UnitSound(s) /\ s \in [at : Nat, done : BOOLEAN, busy : BOOLEAN, fail : BOOLEAN,
                             st0 : {"none", "normal", "abrupt", "not_ready"},
                             end : BOOLEAN, cylinder : Nat]
  BY DEF FdcKin, UnitsSound, UnitSound
<1>2. BeginSeek(x, u, to, t, fail) = y
  BY <1>1 DEF BeginSeek
<1>3. d \in Nat /\ n \in Nat /\ n # NeverDue
  BY <1>1, SeekArrives DEF UnitSound
<1>4. /\ st \in {"none", "normal", "abrupt", "not_ready"}
      /\ g \in BOOLEAN /\ h \in BOOLEAN /\ to \in Nat
  <2>1. st \in {"none", "normal", "abrupt", "not_ready"} /\ to \in Nat
    BY DEF Near
  <2>2. s.fail \in BOOLEAN
    BY <1>1
  <2>3. g \in BOOLEAN /\ h \in BOOLEAN
    <3> HIDE DEF s
    <3>1. CASE s.fail = TRUE
      BY <3>1
    <3>2. CASE s.fail = FALSE
      BY <3>2
    <3> QED BY <2>2, <3>1, <3>2
  <2> QED BY <2>1, <2>3
<1> HIDE DEF d, n, st, g, h
<1>5. UnitSound(a)
  BY <1>1, <1>3, <1>4 DEF UnitSound
<1>6. UnitSound(b)
  <2> HIDE DEF s
  <2>1. /\ b \in [at : Nat, done : BOOLEAN, busy : BOOLEAN, fail : BOOLEAN,
                  st0 : {"none", "normal", "abrupt", "not_ready"},
                  end : BOOLEAN, cylinder : Nat]
        /\ b.cylinder = to /\ b.at = n
    BY <1>1, <1>3, <1>4
  <2> HIDE DEF b
  <2> QED BY <1>3, <2>1 DEF UnitSound
<1> HIDE DEF s, a, b
<1>7. UnitSound(z)
  BY <1>5, <1>6
<1> HIDE DEF z
<1>8. /\ IsFdc(y) /\ y.cmd = x.cmd /\ y.vol = x.vol /\ y.reset = x.reset
      /\ y.running = x.running /\ y.lines = x.lines /\ y.writable = x.writable
      /\ y.inserted = x.inserted /\ y.unit = [x.unit EXCEPT ![u] = z]
  BY DEF FdcKin, IsFdc, FdcFields
<1> HIDE DEF y
<1>9. UnitsSound(y.unit)
  BY <1>7, <1>8 DEF UnitsSound, FdcKin
<1>10. FdcKin(y, f)
  BY <1>8, <1>9 DEF FdcKin, FdcWithin
<1> QED BY <1>2, <1>10

\* ... and so does a recalibration.
LEMMA RecalibrateIs ==
  ASSUME NEW f, NEW x, FdcKin(x, f), NEW u \in Units, NEW t \in Nat, t <= MaxNow["floppy"]
  PROVE  FdcKin(Recalibrate(x, u, t), f)
<1> DEFINE from == x.unit[u].cylinder
<1>1. Near(from) /\ from \in Nat
  BY DEF FdcKin, UnitsSound, UnitSound
<1>2. CASE from <= FarthestStep
  <2>1. Near(0)
    BY <1>1, NearerStill
  <2>2. FdcKin(BeginSeek(x, u, 0, t, FALSE), f)
    BY <2>1, BeginSeekIs
  <2> QED BY <1>2, <2>2 DEF Recalibrate
<1>3. CASE ~(from <= FarthestStep)
  <2>1. from - FarthestStep \in Nat /\ from - FarthestStep <= from
    BY <1>1, <1>3, FdcTimes
  <2>2. Near(from - FarthestStep)
    BY <1>1, <2>1, NearerStill
  <2>3. FdcKin(BeginSeek(x, u, from - FarthestStep, t, TRUE), f)
    BY <2>2, BeginSeekIs
  <2> QED BY <1>3, <2>3 DEF Recalibrate
<1> QED BY <1>2, <1>3

\* SENSE INTERRUPT STATUS takes a drive's end away, or the reset's.
LEMMA SenseInterruptIs ==
  ASSUME NEW f, NEW x, FdcKin(x, f), NEW t \in Nat
  PROVE  FdcPerformed(SenseInterrupt(x, t), f)
<1>1. CASE \A u \in Units : ~x.unit[u].done
  BY <1>1, ShortIs DEF SenseInterrupt
<1>2. CASE ~(\A u \in Units : ~x.unit[u].done)
  <2> DEFINE u == IF x.unit[0].done THEN 0 ELSE 1
             s == x.unit[u]
             z == [s EXCEPT !.done = FALSE, !.busy = FALSE]
             y == [x EXCEPT !.unit[u].done = FALSE, !.unit[u].busy = FALSE]
  <2>1. SenseInterrupt(x, t) = Short(y, t, 2, s.st0)
    BY <1>2 DEF SenseInterrupt
  <2>2. u \in Units
    BY DEF Units
  <2> HIDE DEF u
  <2>3. s \in [at : Nat, done : BOOLEAN, busy : BOOLEAN, fail : BOOLEAN,
               st0 : {"none", "normal", "abrupt", "not_ready"},
               end : BOOLEAN, cylinder : Nat] /\ UnitSound(s)
    BY <2>2 DEF FdcKin, UnitsSound, UnitSound
  <2>4. UnitSound(z)
    BY <2>3 DEF UnitSound
  <2>5. /\ IsFdc(y) /\ y.cmd = x.cmd /\ y.vol = x.vol /\ y.reset = x.reset
        /\ y.running = x.running /\ y.lines = x.lines /\ y.writable = x.writable
        /\ y.inserted = x.inserted /\ y.unit = [x.unit EXCEPT ![u] = z]
    BY <2>2 DEF FdcKin, IsFdc, FdcFields, UnitsSound
  <2> HIDE DEF y, z
  <2>6. UnitsSound(y.unit)
    BY <2>4, <2>5 DEF UnitsSound, FdcKin
  <2>7. FdcKin(y, f)
    BY <2>5, <2>6 DEF FdcKin, FdcWithin
  <2> HIDE DEF s
  <2> QED BY <2>1, <2>7, ShortIs
<1> QED BY <1>1, <1>2

\* A sector for the host to read or compare with, ...
LEMMA LoadIs ==
  ASSUME NEW f, NEW x, FdcKin(x, f), NEW t \in Nat,
         x.cmd.op \in Reads \cup Scans
  PROVE  FdcPerformed(Load(x, t), f)
<1> DEFINE c == x.cmd
           at == IF c.op = "read_track" THEN (c.at \div PerTrack) * PerTrack ELSE c.at
           p == IF c.op \in Scans THEN "out" ELSE "in"
           l == Loaded(x, at, p)
           r == [l.result EXCEPT !.st2 = CASE c.op = "read_deleted" -> {"control_mark"}
                                           [] c.op \in Scans        -> {"scan_hit"}
                                           [] OTHER                 -> @]
           nd == IF c.op = "read_track" THEN at # c.at ELSE l.nd
           b == x.vol[at]
           y == [x EXCEPT !.phase = p, !.buf = b, !.bi = 0, !.result = r, !.nd = nd]
<1>1. CASE c.op = "read_track" /\ (c.mt \/ c.sk)
  BY <1>1, ShortIs DEF Load
<1>2. CASE ~(c.op = "read_track" /\ (c.mt \/ c.sk)) /\ c.op = "read_deleted" /\ c.sk
  BY <1>2, DataResultIs DEF Load
<1>3. CASE /\ ~(c.op = "read_track" /\ (c.mt \/ c.sk)) /\ ~(c.op = "read_deleted" /\ c.sk)
           /\ ~CanLoad(x, at)
  BY <1>3, DataResultIs DEF Load
<1>4. CASE /\ ~(c.op = "read_track" /\ (c.mt \/ c.sk)) /\ ~(c.op = "read_deleted" /\ c.sk)
           /\ CanLoad(x, at)
  <2>1. Load(x, t) = [l EXCEPT !.result = r, !.nd = nd]
    <3>1. Load(x, t) =
            [l EXCEPT !.result.st2 = CASE c.op = "read_deleted" -> {"control_mark"}
                                       [] c.op \in Scans        -> {"scan_hit"}
                                       [] OTHER                 -> @,
                      !.nd = IF c.op = "read_track" THEN at # c.at ELSE @]
      <4> HIDE DEF r, nd
      <4> QED BY <1>4 DEF Load, at, p, l
    <3>2. IsFdc(l)
      BY DEF Loaded, FdcKin, IsFdc, FdcFields
    <3> HIDE DEF l, at, p
    <3> QED BY <3>1, <3>2 DEF IsFdc, FdcFields
  <2>2. [l EXCEPT !.result = r, !.nd = nd] = y
    <3> HIDE DEF r, nd, at, p
    <3> QED BY DEF Loaded, FdcKin, IsFdc, FdcFields
  <2>3. p \in {"in", "out"} /\ (p = "out" => x.cmd.op \notin Writes)
    BY DEF Scans, Writes
  <2> HIDE DEF r, nd, at, p, b
  <2>4. /\ IsFdc(y) /\ y.cmd = x.cmd /\ y.vol = x.vol /\ y.reset = x.reset /\ y.phase = p
        /\ y.running = x.running /\ y.lines = x.lines /\ y.writable = x.writable
        /\ y.inserted = x.inserted /\ y.unit = x.unit
    BY DEF FdcKin, IsFdc, FdcFields
  <2> HIDE DEF y, l, c
  <2>5. FdcKin(y, f)
    BY <2>4, FdcAside
  <2> QED BY <2>1, <2>2, <2>3, <2>4, <2>5 DEF FdcPerformed
<1> QED BY <1>1, <1>2, <1>3, <1>4

\* ... a sector that the host wrote, if it can be, ...
LEMMA StoreIs ==
  ASSUME NEW f, NEW x, FdcKin(x, f), NEW t \in Nat, f.writable \in BOOLEAN
  PROVE  FdcPerformed(Store(x, t), f)
<1>1. CASE ~(x.inserted /\ x.writable)
  BY <1>1, DataResultIs DEF Store
<1>2. CASE x.inserted /\ x.writable /\ x.cmd.at \notin OnDisk
  BY <1>2, DataResultIs DEF Store
<1>3. CASE x.inserted /\ x.writable /\ x.cmd.at \in OnDisk
  <2> DEFINE y == [x EXCEPT !.phase = "out", !.bi = 0]
  <2>1. Store(x, t) = y
    BY <1>3 DEF Store
  <2>2. /\ IsFdc(y) /\ y.cmd = x.cmd /\ y.vol = x.vol /\ y.reset = x.reset /\ y.phase = "out"
        /\ y.running = x.running /\ y.lines = x.lines /\ y.writable = x.writable
        /\ y.inserted = x.inserted /\ y.unit = x.unit
    BY DEF FdcKin, IsFdc, FdcFields
  <2> HIDE DEF y
  <2>3. FdcKin(y, f)
    BY <2>2, FdcAside
  <2> QED BY <1>3, <2>1, <2>2, <2>3 DEF FdcPerformed
<1> QED BY <1>1, <1>2, <1>3

\* ... and a format of a track.
LEMMA FormatIs ==
  ASSUME NEW f, NEW x, FdcKin(x, f), NEW t \in Nat, f.cmd.op = "format"
  PROVE  FdcPerformed(Format(x, t), f)
<1> DEFINE first == x.unit[x.cmd.unit].cylinder * PerTrack
           all == first .. first + PerTrack - 1
           b == <<x.cmd.fill, x.cmd.fill>>
           v == [a \in OnDisk |-> IF a \in all THEN b ELSE x.vol[a]]
           g == [x EXCEPT !.vol = v, !.buf = b]
<1>1. CASE ~(x.inserted /\ x.writable)
  BY <1>1, DataResultIs DEF Format
<1>2. CASE x.inserted /\ x.writable
  <2>1. \/ Format(x, t) = DataResult(g, t, "abrupt", {"no_data"}, {})
        \/ Format(x, t) = DataResult(g, t, "normal", {}, {})
    BY <1>2 DEF Format
  <2>2. DOMAIN v = OnDisk
    OBVIOUS
  <2> HIDE DEF v, b
  <2>3. /\ IsFdc(g) /\ g.cmd = x.cmd /\ g.vol = v /\ g.reset = x.reset
        /\ g.running = x.running /\ g.lines = x.lines /\ g.writable = x.writable
        /\ g.inserted = x.inserted /\ g.unit = x.unit
    BY DEF FdcKin, IsFdc, FdcFields
  <2> HIDE DEF g
  <2>4. FdcWithin(g, f)
    BY <1>2, <2>2, <2>3 DEF FdcWithin, FdcKin
  <2>5. FdcKin(g, f)
    BY <2>3, <2>4 DEF FdcKin
  <2> QED BY <2>1, <2>5, DataResultIs
<1> QED BY <1>1, <1>2

\* fdc_execute: what any command may come to.
LEMMA FdcExecuteIs ==
  ASSUME NEW f, FdcKin(f, f), f.cmd \in FdcBlocks, Near(f.cmd.at \div PerTrack),
         f.writable \in BOOLEAN, NEW t \in Nat, t <= MaxNow["floppy"]
  PROVE  FdcPerformed(FdcExecute(f, t), f)
<1> DEFINE c == f.cmd
           b == ResultBytes(c.op)
           n == [f EXCEPT !.len = b]
           z == IF f.inserted THEN "normal" ELSE "abrupt"
           m == IF f.inserted THEN {} ELSE NotLoaded(f)
           e == FdcExecute(f, t)
<1>0. c.op \in FdcOps /\ c.unit \in Units /\ c.at \in Nat
  <2> HIDE DEF FdcOps, Units
  <2> QED BY DEF FdcBlocks
<1> HIDE DEF b
<1>1. /\ IsFdc(n) /\ n.cmd = f.cmd /\ n.vol = f.vol /\ n.reset = f.reset
      /\ n.running = f.running /\ n.lines = f.lines /\ n.writable = f.writable
      /\ n.inserted = f.inserted /\ n.unit = f.unit
  BY DEF FdcKin, IsFdc, FdcFields
<1>2. CASE SeekPending(f) /\ c.op # "sense_interrupt"
  <2>1. e = Short(n, t, 1, "invalid")
    BY <1>2 DEF FdcExecute, b
  <2> HIDE DEF n, e
  <2>2. FdcKin(n, f)
    BY <1>1, FdcAside
  <2> QED BY <2>1, <2>2, ShortIs DEF e
<1>3. CASE c.op = "sense_interrupt"
  <2>1. e = SenseInterrupt(n, t)
    BY <1>3 DEF FdcExecute, b, Reads, Scans, Writes
  <2> HIDE DEF n, e
  <2>2. FdcKin(n, f)
    BY <1>1, FdcAside
  <2> QED BY <2>1, <2>2, SenseInterruptIs DEF e
<1>4. CASE ~SeekPending(f) /\ c.op # "sense_interrupt"
  <2>1. e = CASE c.op \in Reads \cup Scans -> Load(n, t)
              [] c.op \in Writes -> Store(n, t)
              [] c.op = "format" -> Format(n, t)
              [] c.op = "read_id" -> DataResult(n, t, z, m, {})
              [] c.op = "seek" -> Result(BeginSeek(n, c.unit, c.at \div PerTrack, t, FALSE), t)
              [] c.op = "recalibrate" -> Result(Recalibrate(n, c.unit, t), t)
              [] c.op = "sense_drive" -> Short(n, t, 1, "none")
              [] c.op = "unknown" -> Short(n, t, 1, "invalid")
              [] OTHER -> Result(n, t)
    BY <1>4 DEF FdcExecute, b, Reads, Scans, Writes
  <2> HIDE DEF n, e, z, m
  <2>2. FdcKin(n, f)
    BY <1>1, FdcAside
  <2>3. CASE c.op \in Reads \cup Scans
    <3>1. e = Load(n, t)
      BY <2>1, <2>3 DEF Reads, Scans, Writes
    <3> QED BY <1>1, <2>2, <2>3, <3>1, LoadIs DEF e
  <2>4. CASE c.op \in Writes
    <3>1. e = Store(n, t)
      BY <2>1, <2>4 DEF Reads, Scans, Writes
    <3> QED BY <2>2, <3>1, StoreIs DEF e
  <2>5. CASE c.op = "format"
    <3>1. e = Format(n, t)
      BY <2>1, <2>5 DEF Reads, Scans, Writes
    <3> QED BY <2>2, <2>5, <3>1, FormatIs DEF e
  <2>6. CASE c.op = "read_id"
    <3>1. e = DataResult(n, t, z, m, {})
      BY <2>1, <2>6 DEF Reads, Scans, Writes
    <3> QED BY <2>2, <3>1, DataResultIs DEF e
  <2>7. CASE c.op = "seek"
    <3>1. e = Result(BeginSeek(n, c.unit, c.at \div PerTrack, t, FALSE), t)
      BY <2>1, <2>7 DEF Reads, Scans, Writes
    <3>2. FdcKin(BeginSeek(n, c.unit, c.at \div PerTrack, t, FALSE), f)
      BY <1>0, <2>2, BeginSeekIs
    <3> QED BY <3>1, <3>2, ResultIs DEF e
  <2>8. CASE c.op = "recalibrate"
    <3>1. e = Result(Recalibrate(n, c.unit, t), t)
      BY <2>1, <2>8 DEF Reads, Scans, Writes
    <3>2. FdcKin(Recalibrate(n, c.unit, t), f)
      BY <1>0, <2>2, RecalibrateIs
    <3> QED BY <3>1, <3>2, ResultIs DEF e
  <2>9. CASE c.op \in {"sense_drive", "unknown"}
    <3>1. e = Short(n, t, 1, "none") \/ e = Short(n, t, 1, "invalid")
      BY <2>1, <2>9 DEF Reads, Scans, Writes
    <3> QED BY <2>2, <3>1, ShortIs DEF e
  <2>10. CASE c.op = "specify"
    <3>1. e = Result(n, t)
      BY <2>1, <2>10 DEF Reads, Scans, Writes
    <3> QED BY <2>2, <3>1, ResultIs DEF e
  <2> QED
    BY <1>0, <1>4, <2>3, <2>4, <2>5, <2>6, <2>7, <2>8, <2>9, <2>10 DEF FdcOps
<1> QED BY <1>2, <1>3, <1>4

\* What the diskette's half of the controller can be.
FdcSound(f) ==
    /\ IsFdc(f) /\ UnitsSound(f.unit) /\ DOMAIN f.vol = OnDisk
    /\ f.phase \in {"idle", "command", "in", "out", "executing", "status"}
    /\ f.cmd \in FdcBlocks /\ Near(f.cmd.at \div PerTrack)
    /\ f.reset \in Nat /\ f.running \in BOOLEAN /\ f.lines \in BOOLEAN /\ f.writable \in BOOLEAN
    /\ f.phase = "executing" => f.ends \in Nat
    /\ f.phase = "out" /\ f.cmd.op \in Writes => f.writable

\* What its command has done to a diskette that was as it was before.
FdcDid(f, before) ==
    \A a \in OnDisk : f.vol[a] # before[a] =>
      /\ f.writable
      /\ f.phase \in {"in", "out", "executing", "status"} /\ f.cmd.op # "format" => a = f.cmd.at

\* A controller has begun with its own command.
LEMMA SoundKin ==
  ASSUME NEW f, FdcSound(f)
  PROVE  FdcKin(f, f)
BY DEF FdcSound, FdcKin, FdcWithin

\* What a command may leave is a sound controller, ...
LEMMA FdcPerformedSound ==
  ASSUME NEW f, NEW e, FdcPerformed(e, f), f.cmd \in FdcBlocks, Near(f.cmd.at \div PerTrack),
         f.reset \in Nat, f.running \in BOOLEAN, f.lines \in BOOLEAN, f.writable \in BOOLEAN
  PROVE  FdcSound(e)
BY DEF FdcPerformed, FdcKin, FdcWithin, FdcSound

\* ... that has written only where it was asked.
LEMMA FdcPerformedDid ==
  ASSUME NEW f, NEW e, FdcPerformed(e, f), NEW before,
         \A a \in OnDisk : f.vol[a] # before[a] =>
           f.writable /\ (f.cmd.op # "format" => a = f.cmd.at)
  PROVE  FdcDid(e, before)
BY DEF FdcPerformed, FdcKin, FdcWithin, FdcDid

\* An access that leaves the diskette as it is.
LEMMA FdcQuiets ==
  ASSUME NEW f, FdcSound(f), NEW e, IsFdc(e), UnitsSound(e.unit), e.vol = f.vol,
         e.phase = f.phase \/ e.phase \in {"idle", "command"}, e.phase = f.phase => e.cmd = f.cmd,
         e.cmd \in FdcBlocks, e.cmd.at = f.cmd.at, e.writable = f.writable,
         e.reset \in Nat, e.running \in BOOLEAN, e.lines \in BOOLEAN,
         e.phase = "executing" => e.ends = f.ends
  PROVE  FdcSound(e) /\ \A before : FdcDid(f, before) => FdcDid(e, before)
<1>1. FdcSound(e)
  BY DEF FdcSound
<1>2. \A before : FdcDid(f, before) => FdcDid(e, before)
  BY DEF FdcDid
<1> QED BY <1>1, <1>2

\* A byte of a command.  The last one starts it.
LEMMA FdcCommandSound ==
  ASSUME NEW f, FdcSound(f), f.phase \in {"idle", "command"}, NEW t \in Nat,
         t <= MaxNow["floppy"], NEW c \in FdcBlocks, Near(c.at \div PerTrack)
  PROVE  LET e == FdcCommand(f, t, c) IN
         /\ FdcSound(e)
         /\ e.phase = "command" => \A before : FdcDid(f, before) => FdcDid(e, before)
         /\ e.phase # "command" => FdcDid(e, f.vol)
<1> DEFINE e == FdcCommand(f, t, c)
<1>0. /\ c.op \in FdcOps /\ f.cmd.op \in FdcOps
      /\ c = [x \in {"op", "unit", "at", "sk", "mt", "fill"} |-> c[x]]
      /\ f.cmd = [x \in {"op", "unit", "at", "sk", "mt", "fill"} |-> f.cmd[x]]
  <2> HIDE DEF FdcOps, Units
  <2> QED BY DEF FdcBlocks, FdcSound
<1>1. CASE f.phase = "idle"
  <2> DEFINE k == [f.cmd EXCEPT !.op = c.op]
             g == [f EXCEPT !.phase = "command", !.cmd = k]
  <2>1. e = IF c.op \in {"sense_interrupt", "unknown"} THEN FdcExecute(g, t) ELSE g
    BY <1>1 DEF FdcCommand, FdcSound, IsFdc, FdcFields
  <2>2. k \in FdcBlocks /\ k.at = f.cmd.at
    <3> HIDE DEF FdcOps, Units
    <3> QED BY <1>0 DEF FdcSound, FdcBlocks
  <2> HIDE DEF k
  <2>3. /\ IsFdc(g) /\ g.phase = "command" /\ g.cmd = k /\ g.vol = f.vol /\ g.reset = f.reset
        /\ g.running = f.running /\ g.lines = f.lines /\ g.writable = f.writable
        /\ g.inserted = f.inserted /\ g.unit = f.unit
    BY DEF FdcSound, IsFdc, FdcFields
  <2> HIDE DEF g, e
  <2>4. FdcSound(g) /\ \A before : FdcDid(f, before) => FdcDid(g, before)
    <3>1. UnitsSound(g.unit) /\ g.reset \in Nat /\ g.running \in BOOLEAN /\ g.lines \in BOOLEAN
      BY <2>3 DEF FdcSound
    <3> QED BY <1>1, <2>2, <2>3, <3>1, FdcQuiets
  <2>5. FdcPerformed(FdcExecute(g, t), g)
    <3>1. FdcKin(g, g)
      BY <2>4, SoundKin
    <3> QED BY <2>4, <3>1, FdcExecuteIs DEF FdcSound
  <2>6. FdcSound(FdcExecute(g, t)) /\ FdcDid(FdcExecute(g, t), f.vol)
    <3>1. FdcSound(FdcExecute(g, t))
      BY <2>4, <2>5, FdcPerformedSound DEF FdcSound
    <3>2. FdcDid(FdcExecute(g, t), f.vol)
      BY <2>3, <2>5, FdcPerformedDid
    <3> QED BY <3>1, <3>2
  <2>7. FdcExecute(g, t).phase # "command"
    BY <2>5 DEF FdcPerformed
  <2> QED BY <2>1, <2>3, <2>4, <2>6, <2>7 DEF e
<1>2. CASE f.phase # "idle"
  <2> DEFINE k == [c EXCEPT !.op = f.cmd.op]
             g == [f EXCEPT !.cmd = k]
  <2>1. e = FdcExecute(g, t)
    BY <1>2 DEF FdcCommand
  <2>2. k \in FdcBlocks /\ k.at = c.at
    <3> HIDE DEF FdcOps, Units
    <3> QED BY <1>0 DEF FdcBlocks
  <2> HIDE DEF k
  <2>3. /\ IsFdc(g) /\ g.cmd = k /\ g.vol = f.vol /\ g.reset = f.reset
        /\ g.running = f.running /\ g.lines = f.lines /\ g.writable = f.writable
        /\ g.inserted = f.inserted /\ g.unit = f.unit
    BY DEF FdcSound, IsFdc, FdcFields
  <2> HIDE DEF g, e
  <2>4. FdcKin(g, g)
    BY <2>3 DEF FdcSound, FdcKin, FdcWithin
  <2>5. FdcPerformed(FdcExecute(g, t), g)
    BY <2>2, <2>3, <2>4, FdcExecuteIs DEF FdcSound
  <2>6. FdcSound(FdcExecute(g, t))
    BY <2>2, <2>3, <2>5, FdcPerformedSound DEF FdcSound
  <2>7. FdcDid(FdcExecute(g, t), f.vol)
    BY <2>3, <2>5, FdcPerformedDid
  <2>8. FdcExecute(g, t).phase # "command"
    BY <2>5 DEF FdcPerformed
  <2> QED BY <2>1, <2>6, <2>7, <2>8 DEF e
<1> QED BY <1>1, <1>2

\* A byte from the host.  The last one of a sector stores it.
LEMMA FdcTakeDataSound ==
  ASSUME NEW f, FdcSound(f), f.phase = "out", NEW t \in Nat, NEW v
  PROVE  LET e == FdcTakeData(f, t, v) IN
         /\ FdcSound(e)
         /\ \A before : FdcDid(f, before) => FdcDid(e, before)
<1> DEFINE i == f.bi + 1
           b == [f.buf EXCEPT ![i] = v]
           w == [f EXCEPT !.buf = b, !.bi = i]
           m == IF Matches(f.cmd.op, f.buf[i], v) THEN f.result.st2 ELSE {"scan_not_satisfied"}
           r == [f.result EXCEPT !.st2 = m]
           s == [f EXCEPT !.bi = i, !.result = r]
           o == [w.vol EXCEPT ![f.cmd.at] = w.buf]
           y == [w EXCEPT !.vol = o]
           e == FdcTakeData(f, t, v)
<1>1. e = IF f.cmd.op \in Writes
          THEN IF i < 2 THEN w ELSE DataResult(y, t, "normal", {}, {})
          ELSE IF i < 2 THEN s ELSE DataResult(s, t, "normal", {}, s.result.st2)
  <2>1. w = [f EXCEPT !.buf[i] = v, !.bi = i]
    BY DEF FdcSound, IsFdc, FdcFields
  <2>2. s = [f EXCEPT !.bi = i, !.result.st2 = IF Matches(f.cmd.op, f.buf[i], v) THEN @
                                                ELSE {"scan_not_satisfied"}]
    BY DEF FdcSound, IsFdc, FdcFields
  <2>3. y = [w EXCEPT !.vol[f.cmd.at] = w.buf]
    <3> HIDE DEF w
    <3> QED BY DEF y, o
  <2> HIDE DEF w, s, y
  <2> QED BY <2>1, <2>2, <2>3 DEF FdcTakeData
<1> HIDE DEF b, r, i, m, e
<1>2. /\ IsFdc(w) /\ w.cmd = f.cmd /\ w.vol = f.vol /\ w.reset = f.reset /\ w.phase = f.phase
      /\ w.running = f.running /\ w.lines = f.lines /\ w.writable = f.writable
      /\ w.inserted = f.inserted /\ w.unit = f.unit /\ w.ends = f.ends
  BY DEF FdcSound, IsFdc, FdcFields
<1>3. /\ IsFdc(s) /\ s.cmd = f.cmd /\ s.vol = f.vol /\ s.reset = f.reset /\ s.phase = f.phase
      /\ s.running = f.running /\ s.lines = f.lines /\ s.writable = f.writable
      /\ s.inserted = f.inserted /\ s.unit = f.unit /\ s.ends = f.ends
  BY DEF FdcSound, IsFdc, FdcFields
<1> HIDE DEF w, s
<1>4. /\ FdcSound(w) /\ FdcKin(w, f)
      /\ \A before : FdcDid(f, before) => FdcDid(w, before)
  <2>1. FdcSound(w) /\ \A before : FdcDid(f, before) => FdcDid(w, before)
    BY <1>2 DEF FdcSound, FdcDid
  <2>2. FdcKin(w, f)
    BY <1>2, SoundKin, FdcAside
  <2> QED BY <2>1, <2>2
<1>5. /\ FdcSound(s) /\ FdcKin(s, f)
      /\ \A before : FdcDid(f, before) => FdcDid(s, before)
  <2>1. FdcSound(s) /\ \A before : FdcDid(f, before) => FdcDid(s, before)
    BY <1>3 DEF FdcSound, FdcDid
  <2>2. FdcKin(s, f)
    BY <1>3, SoundKin, FdcAside
  <2> QED BY <2>1, <2>2
<1>6. ASSUME NEW x, FdcPerformed(x, f)
      PROVE  FdcSound(x) /\ \A before : FdcDid(f, before) => FdcDid(x, before)
  <2>1. FdcSound(x)
    BY <1>6, FdcPerformedSound DEF FdcSound
  <2>2. \A before : FdcDid(f, before) => FdcDid(x, before)
    BY <1>6, FdcPerformedDid DEF FdcDid
  <2> QED BY <2>1, <2>2
<1>7. CASE f.cmd.op \in Writes /\ ~(i < 2)
  <2>1. f.writable /\ f.cmd.op # "format"
    BY <1>7 DEF FdcSound, Writes
  <2>2. /\ DOMAIN o = OnDisk /\ \A a \in OnDisk : o[a] # f.vol[a] => a = f.cmd.at
    BY <1>2 DEF FdcSound
  <2> HIDE DEF o
  <2>3. /\ IsFdc(y) /\ y.cmd = f.cmd /\ y.vol = o /\ y.reset = f.reset
        /\ y.running = f.running /\ y.lines = f.lines /\ y.writable = f.writable
        /\ y.inserted = f.inserted /\ y.unit = f.unit
    BY <1>2 DEF IsFdc, FdcFields
  <2> HIDE DEF y
  <2>4. FdcKin(y, f)
    BY <2>1, <2>2, <2>3 DEF FdcSound, FdcKin, FdcWithin
  <2>5. FdcPerformed(DataResult(y, t, "normal", {}, {}), f)
    BY <2>4, DataResultIs
  <2> QED BY <1>1, <1>6, <1>7, <2>5 DEF e
<1>8. CASE f.cmd.op \notin Writes /\ ~(i < 2)
  <2>1. FdcPerformed(DataResult(s, t, "normal", {}, s.result.st2), f)
    BY <1>5, DataResultIs
  <2> QED BY <1>1, <1>6, <1>8, <2>1 DEF e
<1>9. CASE i < 2
  BY <1>1, <1>4, <1>5, <1>9 DEF e
<1> QED BY <1>7, <1>8, <1>9

\* A byte to the host.
LEMMA FdcGiveByteSound ==
  ASSUME NEW f, FdcSound(f), f.phase \in {"in", "status"}, NEW t \in Nat
  PROVE  LET e == FdcGiveByte(f, t) IN
         /\ FdcSound(e)
         /\ \A before : FdcDid(f, before) => FdcDid(e, before)
<1> DEFINE e == FdcGiveByte(f, t)
<1>1. CASE f.phase = "in" /\ f.bi = 0
  <2> DEFINE y == [f EXCEPT !.bi = 1]
  <2>1. e = y
    BY <1>1 DEF FdcGiveByte
  <2>2. /\ IsFdc(y) /\ y.cmd = f.cmd /\ y.vol = f.vol /\ y.reset = f.reset /\ y.phase = f.phase
        /\ y.running = f.running /\ y.lines = f.lines /\ y.writable = f.writable
        /\ y.inserted = f.inserted /\ y.unit = f.unit /\ y.ends = f.ends
    BY DEF FdcSound, IsFdc, FdcFields
  <2> HIDE DEF y, e
  <2>3. FdcSound(y) /\ \A before : FdcDid(f, before) => FdcDid(y, before)
    BY <2>2 DEF FdcSound, FdcDid
  <2> QED BY <2>1, <2>3 DEF e
<1>2. CASE f.phase = "in" /\ f.bi # 0
  <2> DEFINE y == [f EXCEPT !.bi = 2, !.nd = FALSE]
             m == IF f.nd THEN {"no_data"} ELSE {}
             r == f.result.st2
             z == DataResult(y, t, "normal", m, r)
  <2>1. e = z
    BY <1>2 DEF FdcGiveByte
  <2>2. /\ IsFdc(y) /\ y.cmd = f.cmd /\ y.vol = f.vol /\ y.reset = f.reset /\ y.phase = f.phase
        /\ y.running = f.running /\ y.lines = f.lines /\ y.writable = f.writable
        /\ y.inserted = f.inserted /\ y.unit = f.unit /\ y.ends = f.ends
    BY DEF FdcSound, IsFdc, FdcFields
  <2> HIDE DEF y, e, m, r
  <2>3. FdcPerformed(z, f)
    BY <2>2, SoundKin, FdcAside, DataResultIs
  <2> HIDE DEF z
  <2>4. FdcSound(z)
    BY <2>3, FdcPerformedSound DEF FdcSound
  <2>5. \A before : FdcDid(f, before) => FdcDid(z, before)
    BY <1>2, <2>3, FdcPerformedDid DEF FdcDid
  <2> QED BY <2>1, <2>4, <2>5 DEF e
<1>3. CASE f.phase = "status" /\ f.ri + 1 < f.len
  <2> DEFINE n == f.ri + 1
             y == [f EXCEPT !.ri = n]
  <2>1. e = y
    BY <1>3 DEF FdcGiveByte, FdcSound, IsFdc, FdcFields
  <2> HIDE DEF n
  <2>2. /\ IsFdc(y) /\ y.cmd = f.cmd /\ y.vol = f.vol /\ y.reset = f.reset /\ y.phase = f.phase
        /\ y.running = f.running /\ y.lines = f.lines /\ y.writable = f.writable
        /\ y.inserted = f.inserted /\ y.unit = f.unit /\ y.ends = f.ends
    BY DEF FdcSound, IsFdc, FdcFields
  <2> HIDE DEF y, e
  <2>3. FdcSound(y) /\ \A before : FdcDid(f, before) => FdcDid(y, before)
    BY <2>2 DEF FdcSound, FdcDid
  <2> QED BY <2>1, <2>3 DEF e
<1>4. CASE f.phase = "status" /\ ~(f.ri + 1 < f.len)
  <2> DEFINE y == [f EXCEPT !.phase = "idle", !.len = 0, !.ri = 0, !.bi = 0]
  <2>1. e = y
    BY <1>4 DEF FdcGiveByte, Idle
  <2>2. /\ IsFdc(y) /\ y.cmd = f.cmd /\ y.vol = f.vol /\ y.reset = f.reset /\ y.phase = "idle"
        /\ y.running = f.running /\ y.lines = f.lines /\ y.writable = f.writable
        /\ y.inserted = f.inserted /\ y.unit = f.unit /\ y.ends = f.ends
    BY DEF FdcSound, IsFdc, FdcFields
  <2> HIDE DEF y, e
  <2>3. FdcSound(y) /\ \A before : FdcDid(f, before) => FdcDid(y, before)
    BY <2>2 DEF FdcSound, FdcDid
  <2> QED BY <2>1, <2>3 DEF e
<1> QED BY <1>1, <1>2, <1>3, <1>4

\* The motor and reset register.
LEMMA WriteDorSound ==
  ASSUME NEW f, FdcSound(f), NEW t \in Nat, NEW running \in BOOLEAN, NEW lines \in BOOLEAN
  PROVE  LET e == WriteDor(f, t, running, lines) IN
         /\ FdcSound(e)
         /\ \A before : FdcDid(f, before) => FdcDid(e, before)
<1> DEFINE e == WriteDor(f, t, running, lines)
           g == [f EXCEPT !.running = running, !.lines = lines]
<1>1. CASE ~f.running /\ running
  <2> DEFINE n == t + ResetInterrupt
             y == [f EXCEPT !.running = running, !.lines = lines, !.phase = "idle", !.len = 0,
                            !.ri = 0, !.bi = 0, !.reset = n]
  <2>1. e = y
    BY <1>1 DEF WriteDor, Idle
  <2>2. n \in Nat
    BY FdcAssumption
  <2> HIDE DEF n
  <2>3. /\ IsFdc(y) /\ y.cmd = f.cmd /\ y.vol = f.vol /\ y.reset = n /\ y.phase = "idle"
        /\ y.running = running /\ y.lines = lines /\ y.writable = f.writable
        /\ y.inserted = f.inserted /\ y.unit = f.unit /\ y.ends = f.ends
    BY DEF FdcSound, IsFdc, FdcFields
  <2> HIDE DEF y, e
  <2>4. FdcSound(y) /\ \A before : FdcDid(f, before) => FdcDid(y, before)
    BY <2>2, <2>3 DEF FdcSound, FdcDid
  <2> QED BY <2>1, <2>4 DEF e
<1>2. CASE f.running /\ ~running
  <2> DEFINE u == [w \in Units |-> [Ready EXCEPT !.cylinder = f.unit[w].cylinder]]
             y == [f EXCEPT !.running = running, !.lines = lines, !.phase = "idle",
                            !.ends = 0, !.reset = NeverDue, !.unit = u]
  <2>1. e = y
    BY <1>2 DEF WriteDor, Abandon, FdcSound, IsFdc, FdcFields
  <2>2. UnitsSound(u)
    <3>1. ASSUME NEW w \in Units
          PROVE  UnitSound([Ready EXCEPT !.cylinder = f.unit[w].cylinder])
      <4> DEFINE c == f.unit[w].cylinder
      <4>1. Near(c) /\ c \in Nat
        BY DEF FdcSound, UnitsSound, UnitSound
      <4> HIDE DEF c
      <4>2. UnitSound([Ready EXCEPT !.cylinder = c])
        BY <4>1, FdcTimes DEF UnitSound, Ready
      <4> QED BY <4>2 DEF c
    <3> QED BY <3>1 DEF UnitsSound
  <2> HIDE DEF u
  <2>3. /\ IsFdc(y) /\ y.cmd = f.cmd /\ y.vol = f.vol /\ y.reset = NeverDue /\ y.phase = "idle"
        /\ y.running = running /\ y.lines = lines /\ y.writable = f.writable
        /\ y.inserted = f.inserted /\ y.unit = u
    BY DEF FdcSound, IsFdc, FdcFields
  <2> HIDE DEF y, e
  <2>4. FdcSound(y) /\ \A before : FdcDid(f, before) => FdcDid(y, before)
    <3>1. NeverDue \in Nat
      BY FdcTimes
    <3> QED BY <2>2, <2>3, <3>1, FdcQuiets DEF FdcSound
  <2> QED BY <2>1, <2>4 DEF e
<1>3. CASE ~(~f.running /\ running) /\ ~(f.running /\ ~running)
  <2>1. e = g
    BY <1>3 DEF WriteDor
  <2>2. /\ IsFdc(g) /\ g.cmd = f.cmd /\ g.vol = f.vol /\ g.reset = f.reset /\ g.phase = f.phase
        /\ g.running = running /\ g.lines = lines /\ g.writable = f.writable
        /\ g.inserted = f.inserted /\ g.unit = f.unit /\ g.ends = f.ends
    BY DEF FdcSound, IsFdc, FdcFields
  <2> HIDE DEF g, e
  <2>3. FdcSound(g) /\ \A before : FdcDid(f, before) => FdcDid(g, before)
    BY <2>2 DEF FdcSound, FdcDid
  <2> QED BY <2>1, <2>3 DEF e
<1> QED BY <1>1, <1>2, <1>3

\* The earliest of some instants is one of them.
LEMMA EarliestIs ==
  ASSUME NEW S \in SUBSET Nat, S # {}
  PROVE  Earliest(S) \in S /\ \A s \in S : Earliest(S) <= s
<1>1. \E t \in S : \A s \in S : t <= s
  BY Least
<1> QED BY <1>1 DEF Earliest

\* Time ends seeks and what is executing, and before the instant given does nothing.
LEMMA FdcAdvanceSound ==
  ASSUME NEW f, FdcSound(f), NEW t \in Nat
  PROVE  LET e == FdcAdvance(f, t) IN
         /\ FdcSound(e)
         /\ \A before : FdcDid(f, before) => FdcDid(e, before)
         /\ t < FdcNextChange(f) => e = f
<1> DEFINE z == [f.unit[0] EXCEPT !.done = TRUE, !.end = FALSE, !.st0 = "not_ready"]
           ru == [f.unit EXCEPT ![0] = z]
           r == IF t < f.reset THEN f ELSE [f EXCEPT !.reset = NeverDue, !.unit = ru]
           su == [u \in Units |-> IF t < r.unit[u].at THEN r.unit[u] ELSE SeekEnded(r.unit[u])]
           s == [r EXCEPT !.unit = su]
           e == FdcAdvance(f, t)
<1>0. /\ \A u \in Units : /\ UnitSound(f.unit[u])
                          /\ f.unit[u] \in
                                [at : Nat, done : BOOLEAN, busy : BOOLEAN, fail : BOOLEAN,
                                 st0 : {"none", "normal", "abrupt", "not_ready"},
                                 end : BOOLEAN, cylinder : Nat]
      /\ DOMAIN f.unit = Units /\ f.unit = [u \in Units |-> f.unit[u]]
      /\ 0 \in Units
  <2>1. DOMAIN f.unit = Units /\ \A u \in Units : UnitSound(f.unit[u])
    BY DEF FdcSound, UnitsSound
  <2>2. f.unit = [u \in Units |-> f.unit[u]]
    BY DEF FdcSound, UnitsSound
  <2> QED BY <2>1, <2>2 DEF UnitSound, Units
<1>1. e = IF s.phase = "executing" /\ t >= s.ends THEN FdcComplete(s) ELSE s
  <2>1. r = IF t < f.reset THEN f
            ELSE [f EXCEPT !.reset = NeverDue, !.unit[0].done = TRUE, !.unit[0].end = FALSE,
                           !.unit[0].st0 = "not_ready"]
    <3>1. [f EXCEPT !.reset = NeverDue, !.unit = ru]
            = [f EXCEPT !.reset = NeverDue, !.unit[0].done = TRUE, !.unit[0].end = FALSE,
                           !.unit[0].st0 = "not_ready"]
      <4>1. ru = [f.unit EXCEPT ![0].done = TRUE, ![0].end = FALSE, ![0].st0 = "not_ready"]
        <5> DEFINE w == f.unit[0]
        <5>1. z = [w EXCEPT !.done = TRUE, !.end = FALSE, !.st0 = "not_ready"]
          OBVIOUS
        <5> HIDE DEF z
        <5>2. ru = [[[f.unit EXCEPT ![0] = [w EXCEPT !.done = TRUE]]
                       EXCEPT ![0] = [[w EXCEPT !.done = TRUE] EXCEPT !.end = FALSE]]
                       EXCEPT ![0] = [[[w EXCEPT !.done = TRUE] EXCEPT !.end = FALSE]
                                        EXCEPT !.st0 = "not_ready"]]
          BY <1>0, <5>1
        <5> HIDE DEF ru
        <5> QED BY <1>0, <5>2
      <4> HIDE DEF ru
      <4> QED BY <4>1, ZenonT(60) DEF FdcSound, IsFdc, FdcFields
    <3> HIDE DEF ru
    <3> QED BY <3>1
  <2> HIDE DEF r
  <2> QED BY <2>1 DEF FdcAdvance
<1>2. UnitSound(z)
  BY <1>0 DEF UnitSound
<1> HIDE DEF z
<1>3. UnitsSound(ru)
  BY <1>0, <1>2 DEF UnitsSound
<1> HIDE DEF ru
<1>4. /\ IsFdc(r) /\ r.cmd = f.cmd /\ r.vol = f.vol /\ r.phase = f.phase /\ r.reset \in Nat
      /\ r.running = f.running /\ r.lines = f.lines /\ r.writable = f.writable
      /\ r.inserted = f.inserted /\ UnitsSound(r.unit) /\ r.ends = f.ends
      /\ t < f.reset => r = f
  <2>1. CASE t < f.reset
    BY <2>1 DEF FdcSound
  <2>2. CASE ~(t < f.reset)
    BY <1>3, <2>2, FdcTimes DEF FdcSound, IsFdc, FdcFields
  <2> QED BY <2>1, <2>2
<1> HIDE DEF r
<1>5. UnitsSound(su)
  <2>1. ASSUME NEW u \in Units PROVE UnitSound(SeekEnded(r.unit[u]))
    <3> DEFINE w == r.unit[u]
    <3>1. UnitSound(w)
      BY <1>4 DEF UnitsSound
    <3> HIDE DEF w
    <3> DEFINE x == IF w.fail THEN "abrupt" ELSE "normal"
               y == [w EXCEPT !.at = NeverDue, !.done = TRUE, !.end = TRUE, !.fail = FALSE,
                              !.st0 = x]
    <3>2. x \in {"none", "normal", "abrupt", "not_ready"}
      OBVIOUS
    <3>3. SeekEnded(w) = y
      BY DEF SeekEnded
    <3> HIDE DEF x
    <3>4. UnitSound(y)
      BY <3>1, <3>2, FdcTimes DEF UnitSound
    <3> QED BY <3>3, <3>4 DEF w
  <2> QED BY <1>4, <2>1 DEF UnitsSound
<1>6. (\A u \in Units : t < r.unit[u].at) => su = r.unit
  BY <1>4 DEF UnitsSound
<1> HIDE DEF su
<1>7. /\ IsFdc(s) /\ s.cmd = f.cmd /\ s.vol = f.vol /\ s.phase = f.phase /\ s.reset \in Nat
      /\ s.running = f.running /\ s.lines = f.lines /\ s.writable = f.writable
      /\ s.inserted = f.inserted /\ UnitsSound(s.unit) /\ s.ends = f.ends
      /\ su = r.unit => s = r
  BY <1>4, <1>5 DEF IsFdc, FdcFields
<1> HIDE DEF s
<1>8. FdcSound(s) /\ \A before : FdcDid(f, before) => FdcDid(s, before)
  BY <1>7 DEF FdcSound, FdcDid
<1>9. ASSUME s.phase = "executing"
      PROVE  /\ FdcSound(FdcComplete(s))
             /\ \A before : FdcDid(f, before) => FdcDid(FdcComplete(s), before)
  <2>1. CASE s.len = 0
    <3> DEFINE y == [s EXCEPT !.phase = "idle", !.len = 0, !.ri = 0, !.bi = 0, !.ends = 0]
    <3>1. FdcComplete(s) = y
      BY <2>1, <1>7 DEF FdcComplete, Idle, IsFdc, FdcFields
    <3>2. /\ IsFdc(y) /\ y.phase = "idle" /\ y.cmd = s.cmd /\ y.unit = s.unit /\ y.vol = s.vol
          /\ y.reset = s.reset /\ y.running = s.running /\ y.lines = s.lines
          /\ y.writable = s.writable /\ y.inserted = s.inserted
      BY <1>7 DEF IsFdc, FdcFields
    <3> HIDE DEF y
    <3> QED BY <1>8, <3>1, <3>2 DEF FdcSound, FdcDid
  <2>2. CASE s.len # 0
    <3> DEFINE y == [s EXCEPT !.phase = "status", !.ri = 0, !.ends = 0]
    <3>1. FdcComplete(s) = y
      BY <2>2 DEF FdcComplete
    <3>2. /\ IsFdc(y) /\ y.phase = "status" /\ y.cmd = s.cmd /\ y.unit = s.unit /\ y.vol = s.vol
          /\ y.reset = s.reset /\ y.running = s.running /\ y.lines = s.lines
          /\ y.writable = s.writable /\ y.inserted = s.inserted
      BY <1>7 DEF IsFdc, FdcFields
    <3> HIDE DEF y
    <3>3. FdcSound(y)
      BY <1>8, <3>2 DEF FdcSound
    <3>4. \A before : FdcDid(s, before) => FdcDid(y, before)
      BY <1>9, <3>2 DEF FdcDid
    <3>5. \A before : FdcDid(f, before) => FdcDid(s, before)
      BY <1>8
    <3> QED BY <3>1, <3>3, <3>4, <3>5
  <2> QED BY <2>1, <2>2
<1>10. t < FdcNextChange(f) => e = f
  <2> DEFINE S == {f.unit[u].at : u \in Units} \cup {f.reset}
                    \cup (IF f.phase = "executing" THEN {f.ends} ELSE {})
  <2>1. S \in SUBSET Nat /\ f.reset \in S
    BY <1>0 DEF FdcSound
  <2>2. /\ \A u \in Units : f.unit[u].at \in S
        /\ f.phase = "executing" => f.ends \in S
    OBVIOUS
  <2>3. FdcNextChange(f) = Earliest(S)
    BY DEF FdcNextChange
  <2> HIDE DEF S, e
  <2>4. FdcNextChange(f) \in S /\ \A x \in S : FdcNextChange(f) <= x
    BY <2>1, <2>3, EarliestIs
  <2> SUFFICES ASSUME t < FdcNextChange(f) PROVE e = f
    OBVIOUS
  <2>5. \A x \in S : t < x
    <3> DEFINE n == FdcNextChange(f)
    <3>1. n \in Nat /\ t < n /\ \A x \in S : x \in Nat /\ n <= x
      BY <2>1, <2>4
    <3> HIDE DEF n
    <3> QED BY <3>1
  <2>6. r = f
    BY <1>4, <2>1, <2>5
  <2>7. s = f
    BY <1>6, <1>7, <2>2, <2>5, <2>6
  <2>8. ~(s.phase = "executing" /\ t >= s.ends)
    <3>1. f.phase = "executing" => f.ends \in Nat /\ t < f.ends
      BY <2>1, <2>2, <2>5
    <3> QED BY <2>7, <3>1
  <2> QED BY <1>1, <2>7, <2>8
<1>11. FdcSound(e) /\ \A before : FdcDid(f, before) => FdcDid(e, before)
  BY <1>1, <1>8, <1>9
<1> HIDE DEF e
<1> QED BY <1>10, <1>11 DEF e

\* The controller at power on.
LEMMA FdcStartSound ==
  ASSUME NEW i \in BOOLEAN, NEW w \in BOOLEAN
  PROVE  LET f == FdcStart(i, w) IN FdcSound(f) /\ FdcDid(f, f.vol)
<1> DEFINE c == [op |-> "unknown", unit |-> 0, at |-> 0, sk |-> FALSE, mt |-> FALSE, fill |-> 0]
           u == [w1 \in Units |-> Ready]
           v == [a \in OnDisk |-> <<a, a>>]
           r == NoResult
           b == <<0, 0>>
           f == [phase |-> "idle", cmd |-> c, len |-> 0, ri |-> 0, bi |-> 0, result |-> r,
                 nd |-> FALSE, ends |-> 0, buf |-> b, unit |-> u,
                 reset |-> NeverDue, running |-> FALSE, lines |-> FALSE,
                 vol |-> v, inserted |-> i, writable |-> w]
<1>1. FdcStart(i, w) = f
  BY DEF FdcStart
<1>2. Near(0)
  <2>1. /\ MaxNow["floppy"] + 0 * StepTime + Settling < NeverDue
    BY StorageAssumption
  <2> QED BY <2>1 DEF Near
<1>3. UnitsSound(u)
  <2>1. UnitSound(Ready)
    BY <1>2, FdcTimes DEF UnitSound, Ready
  <2> QED BY <2>1 DEF UnitsSound
<1>4. c \in FdcBlocks /\ Near(c.at \div PerTrack)
  <2>1. c \in FdcBlocks
    <3> DEFINE o == "unknown"
    <3>1. o \in FdcOps /\ 0 \in Units
      BY DEF FdcOps, Units
    <3>2. [op |-> o, unit |-> 0, at |-> 0, sk |-> FALSE, mt |-> FALSE, fill |-> 0] \in FdcBlocks
      <4> HIDE DEF FdcOps, Units, o
      <4> QED BY <3>1 DEF FdcBlocks
    <3> QED BY <3>2
  <2>2. 0 \div PerTrack = 0
    BY FdcTimes
  <2> QED BY <1>2, <2>1, <2>2
<1>5. DOMAIN v = OnDisk
  OBVIOUS
<1> HIDE DEF c, u, v, r, b
<1>6. /\ IsFdc(f) /\ f.phase = "idle" /\ f.cmd = c /\ f.unit = u /\ f.vol = v
      /\ f.reset = NeverDue /\ f.running = FALSE /\ f.lines = FALSE /\ f.writable = w
  BY DEF IsFdc, FdcFields
<1> HIDE DEF f
<1>7. FdcSound(f) /\ FdcDid(f, f.vol)
  BY <1>3, <1>4, <1>5, <1>6, FdcTimes DEF FdcSound, FdcDid
<1> QED BY <1>1, <1>7

-----------------------------------------------------------------------------
(* The tape's card.                                                        *)

\* The card's registers.
CardFields == {"ctl", "data", "ready", "exception", "done", "direction", "dma", "entry",
               "readyAt", "arming", "testing", "exceptionAt", "dating", "since", "closeAt",
               "reopenAt"}
\* A card has these, and only these.
IsCard(c) == c = [x \in CardFields |-> c[x]]

\* What a card can be: DONE is up when no DMA is, and it closes before it opens again.
CardSound(c) ==
    /\ IsCard(c)
    /\ c.ready \in BOOLEAN /\ c.exception \in BOOLEAN /\ c.done \in BOOLEAN
    /\ c.dma \in BOOLEAN /\ c.done = ~c.dma
    /\ c.readyAt \in Nat /\ c.exceptionAt \in Nat /\ c.closeAt \in Nat /\ c.reopenAt \in Nat
    /\ c.testing => c.exceptionAt # 0
    /\ c.closeAt # Unset => c.reopenAt # Unset /\ c.closeAt < c.reopenAt

\* READY is up, or something will bring it or an exception.
Live(c) == \/ c.ready \/ c.exception \/ c.arming \/ c.testing
           \/ c.readyAt # Unset \/ c.reopenAt # Unset

\* The times of a tape are numbers, and none reaches the instant that stands for never.
LEMMA CardTimes ==
  /\ Unset \in Nat \ {0} /\ TestTime \in Nat \ {0} /\ CloseTime \in Nat \ {0}
  /\ ReopenTime \in Nat \ {0} /\ ExceptionTime \in Nat /\ DirectionTime \in Nat
  /\ CommandTime \in Nat /\ BlockTime \in Nat /\ MaxNow["tape"] \in Nat
  /\ MaxNow["tape"] < Unset
BY Sc499Assumption, StorageAssumption

\* What is due some time from now is due.
LEMMA NotForEver ==
  ASSUME NEW t \in Nat, t <= MaxNow["tape"],
         NEW n \in {ExceptionTime, DirectionTime, CommandTime, BlockTime, ReopenTime,
                    CloseTime + ReopenTime}
  PROVE  t + n \in Nat /\ t + n # Unset
<1>1. MaxNow["tape"] + n < Unset
  BY StorageAssumption
<1>2. n \in Nat
  BY CardTimes
<1> QED BY <1>1, <1>2, CardTimes

\* One stage of the card's clock: what it leaves alone.
Stage(e, c) ==
    /\ CardSound(e) /\ e.ctl = c.ctl /\ e.dma = c.dma /\ e.data = c.data
    /\ Live(c) => Live(e)

\* The card's clock, stage by stage: the date of the reset, ...
LEMMA DatedIs ==
  ASSUME NEW c, CardSound(c), NEW t \in Nat
  PROVE  /\ Stage(Dated(c, t), c) /\ Dated(c, t).dating \in {FALSE, c.dating}
         /\ ~Dated(c, t).dating
         /\ ~c.dating => Dated(c, t) = c
         /\ Dated(c, t).arming = c.arming
<1>1. CASE c.dating
  <2> DEFINE e == [c EXCEPT !.dating = FALSE, !.since = t]
  <2>1. Dated(c, t) = e
    BY <1>1 DEF Dated
  <2>2. /\ IsCard(e) /\ e.dating = FALSE /\ e.ctl = c.ctl /\ e.data = c.data /\ e.ready = c.ready
        /\ e.exception = c.exception /\ e.done = c.done /\ e.dma = c.dma /\ e.readyAt = c.readyAt
        /\ e.arming = c.arming /\ e.testing = c.testing /\ e.exceptionAt = c.exceptionAt
        /\ e.closeAt = c.closeAt /\ e.reopenAt = c.reopenAt
    BY DEF CardSound, IsCard, CardFields
  <2> HIDE DEF e
  <2> QED BY <1>1, <2>1, <2>2 DEF Stage, CardSound, Live
<1>2. CASE ~c.dating
  BY <1>2 DEF Dated, Stage
<1> QED BY <1>1, <1>2

\* ... the test it starts, ...
LEMMA TestedIs ==
  ASSUME NEW c, CardSound(c), NEW t \in Nat
  PROVE  /\ Stage(Tested(c, t), c) /\ Tested(c, t).dating = c.dating /\ ~Tested(c, t).arming
         /\ ~c.arming /\ ~(c.testing /\ t >= c.exceptionAt) => Tested(c, t) = c
<1>1. CASE c.arming
  <2> DEFINE n == t + TestTime
             e == [c EXCEPT !.arming = FALSE, !.testing = TRUE, !.exceptionAt = n]
  <2>1. Tested(c, t) = e
    BY <1>1 DEF Tested
  <2>2. n \in Nat /\ n # 0
    BY CardTimes
  <2> HIDE DEF n
  <2>3. /\ IsCard(e) /\ e.dating = c.dating /\ e.ctl = c.ctl /\ e.data = c.data
        /\ e.ready = c.ready /\ e.arming = FALSE
        /\ e.exception = c.exception /\ e.done = c.done /\ e.dma = c.dma /\ e.readyAt = c.readyAt
        /\ e.testing = TRUE /\ e.exceptionAt = n
        /\ e.closeAt = c.closeAt /\ e.reopenAt = c.reopenAt
    BY DEF CardSound, IsCard, CardFields
  <2> HIDE DEF e
  <2> QED BY <1>1, <2>1, <2>2, <2>3 DEF Stage, CardSound, Live
<1>2. CASE ~c.arming /\ c.testing /\ t >= c.exceptionAt
  <2> DEFINE e == [c EXCEPT !.testing = FALSE, !.exception = TRUE]
  <2>1. Tested(c, t) = e
    BY <1>2 DEF Tested
  <2>3. /\ IsCard(e) /\ e.dating = c.dating /\ e.ctl = c.ctl /\ e.data = c.data
        /\ e.ready = c.ready /\ e.arming = c.arming
        /\ e.exception = TRUE /\ e.done = c.done /\ e.dma = c.dma /\ e.readyAt = c.readyAt
        /\ e.testing = FALSE /\ e.exceptionAt = c.exceptionAt
        /\ e.closeAt = c.closeAt /\ e.reopenAt = c.reopenAt
    BY DEF CardSound, IsCard, CardFields
  <2> HIDE DEF e
  <2> QED BY <1>2, <2>1, <2>3 DEF Stage, CardSound, Live
<1>3. CASE ~c.arming /\ ~(c.testing /\ t >= c.exceptionAt)
  BY <1>3 DEF Tested, Stage
<1> QED BY <1>1, <1>2, <1>3

\* ... READY, ...
LEMMA CompletedIs ==
  ASSUME NEW c, CardSound(c), NEW t \in Nat
  PROVE  /\ Stage(Completed(c, t), c) /\ Completed(c, t).dating = c.dating
         /\ Completed(c, t).arming = c.arming
         /\ t < c.readyAt => Completed(c, t) = c
<1>1. CASE ~(t < c.readyAt)
  <2> DEFINE s == c.exception /\ c.entry # "exception"
             r == c.ready \/ ~s
             g == c.direction /\ c.entry # "direction"
             e == [c EXCEPT !.exception = s, !.direction = g, !.ready = r, !.readyAt = Unset]
  <2>1. Completed(c, t) = e
    BY <1>1 DEF Completed, CardSound, IsCard, CardFields
  <2>2. s \in BOOLEAN /\ r \in BOOLEAN /\ (s \/ r)
    OBVIOUS
  <2> HIDE DEF s, r, g
  <2>3. /\ IsCard(e) /\ e.dating = c.dating /\ e.ctl = c.ctl /\ e.data = c.data
        /\ e.ready = r /\ e.arming = c.arming
        /\ e.exception = s /\ e.done = c.done /\ e.dma = c.dma /\ e.readyAt = Unset
        /\ e.testing = c.testing /\ e.exceptionAt = c.exceptionAt
        /\ e.closeAt = c.closeAt /\ e.reopenAt = c.reopenAt
    BY DEF CardSound, IsCard, CardFields
  <2> HIDE DEF e
  <2>4. CardSound(e) /\ Live(e)
    BY <2>2, <2>3, CardTimes DEF CardSound, Live
  <2> QED BY <1>1, <2>1, <2>3, <2>4 DEF Stage
<1>2. CASE t < c.readyAt
  BY <1>2 DEF Completed, Stage
<1> QED BY <1>1, <1>2

\* ... the end of a block ...
LEMMA ClosedIs ==
  ASSUME NEW c, CardSound(c), NEW t \in Nat, t < Unset
  PROVE  /\ Stage(Closed(c, t), c) /\ Closed(c, t).dating = c.dating
         /\ Closed(c, t).arming = c.arming
         /\ t < c.closeAt => Closed(c, t) = c
<1>1. CASE ~(t < c.closeAt)
  <2> DEFINE e == [c EXCEPT !.closeAt = Unset, !.ready = FALSE]
  <2>1. Closed(c, t) = e
    BY <1>1 DEF Closed
  <2>2. c.closeAt # Unset
    BY <1>1
  <2>3. /\ IsCard(e) /\ e.dating = c.dating /\ e.ctl = c.ctl /\ e.data = c.data
        /\ e.ready = FALSE /\ e.arming = c.arming
        /\ e.exception = c.exception /\ e.done = c.done /\ e.dma = c.dma /\ e.readyAt = c.readyAt
        /\ e.testing = c.testing /\ e.exceptionAt = c.exceptionAt
        /\ e.closeAt = Unset /\ e.reopenAt = c.reopenAt
    BY DEF CardSound, IsCard, CardFields
  <2> HIDE DEF e
  <2>4. CardSound(e) /\ Live(e)
    BY <2>2, <2>3, CardTimes DEF CardSound, Live
  <2> QED BY <1>1, <2>1, <2>3, <2>4 DEF Stage
<1>2. CASE t < c.closeAt
  BY <1>2 DEF Closed, Stage
<1> QED BY <1>1, <1>2

\* ... and the next one's beginning.
LEMMA ReopenedIs ==
  ASSUME NEW c, CardSound(c), NEW t \in Nat, t < c.closeAt
  PROVE  /\ Stage(Reopened(c, t), c) /\ Reopened(c, t).dating = c.dating
         /\ Reopened(c, t).arming = c.arming
         /\ t < c.reopenAt => Reopened(c, t) = c
<1>1. CASE ~(t < c.reopenAt)
  <2> DEFINE r == c.ready \/ ~c.exception
             e == [c EXCEPT !.reopenAt = Unset, !.ready = r]
  <2>1. Reopened(c, t) = e
    BY <1>1 DEF Reopened, CardSound, IsCard, CardFields
  <2>2. r \in BOOLEAN /\ (c.exception \/ r) /\ c.closeAt = Unset
    BY <1>1 DEF CardSound
  <2> HIDE DEF r
  <2>3. /\ IsCard(e) /\ e.dating = c.dating /\ e.ctl = c.ctl /\ e.data = c.data
        /\ e.ready = r /\ e.arming = c.arming
        /\ e.exception = c.exception /\ e.done = c.done /\ e.dma = c.dma /\ e.readyAt = c.readyAt
        /\ e.testing = c.testing /\ e.exceptionAt = c.exceptionAt
        /\ e.closeAt = c.closeAt /\ e.reopenAt = Unset
    BY DEF CardSound, IsCard, CardFields
  <2> HIDE DEF e
  <2>4. CardSound(e) /\ Live(e)
    BY <2>2, <2>3, CardTimes DEF CardSound, Live
  <2> QED BY <1>1, <2>1, <2>3, <2>4 DEF Stage
<1>2. CASE t < c.reopenAt
  BY <1>2 DEF Reopened, Stage
<1> QED BY <1>1, <1>2

\* ap_sc499_advance: it settles the card, and before the instant it gave it
\* leaves it alone.
LEMMA CardAdvanceIs ==
  ASSUME NEW c, CardSound(c), NEW t \in Nat, t < Unset
  PROVE  LET e == CardAdvance(c, t) IN
         /\ CardSound(e) /\ e.ctl = c.ctl /\ e.dma = c.dma /\ e.data = c.data
         /\ Live(c) => Live(e)
         /\ ~e.arming /\ ~e.dating
         /\ ~c.arming /\ ~c.dating /\ t < CardNextChange(c) => e = c
<1> DEFINE c1 == Dated(c, t)
           c2 == Tested(c1, t)
           c3 == Completed(c2, t)
           c4 == Closed(c3, t)
           c5 == Reopened(c4, t)
           e == CardAdvance(c, t)
<1>1. e = c5
  BY DEF CardAdvance
<1>2. /\ Stage(c1, c) /\ ~c1.dating
      /\ ~c.dating => c1 = c
  BY DatedIs
<1> HIDE DEF c1, e
<1>3. /\ Stage(c2, c1) /\ ~c2.dating /\ ~c2.arming
      /\ ~c1.arming /\ ~(c1.testing /\ t >= c1.exceptionAt) => c2 = c1
  BY <1>2, TestedIs DEF Stage
<1> HIDE DEF c2
<1>4. /\ Stage(c3, c2) /\ ~c3.dating /\ ~c3.arming
      /\ t < c2.readyAt => c3 = c2
  BY <1>3, CompletedIs DEF Stage
<1> HIDE DEF c3
<1>5. /\ Stage(c4, c3) /\ ~c4.dating /\ ~c4.arming
      /\ t < c3.closeAt => c4 = c3
  BY <1>4, ClosedIs DEF Stage
<1>6. t < c4.closeAt
  <2>1. CASE t < c3.closeAt
    BY <2>1, <1>5
  <2>2. CASE ~(t < c3.closeAt)
    <3> DEFINE y == [c3 EXCEPT !.closeAt = Unset, !.ready = FALSE]
    <3>1. c4 = y
      BY <2>2 DEF Closed
    <3>2. y.closeAt = Unset
      BY <1>4 DEF Stage, CardSound, IsCard, CardFields
    <3> QED BY <3>1, <3>2
  <2> QED BY <2>1, <2>2
<1> HIDE DEF c4
<1>7. /\ Stage(c5, c4) /\ ~c5.dating /\ ~c5.arming
      /\ t < c4.reopenAt => c5 = c4
  BY <1>5, <1>6, ReopenedIs DEF Stage
<1> HIDE DEF c5
<1>8. /\ CardSound(c5) /\ c5.ctl = c.ctl /\ c5.dma = c.dma /\ c5.data = c.data
      /\ Live(c) => Live(c5)
      /\ ~c5.arming /\ ~c5.dating
  BY <1>2, <1>3, <1>4, <1>5, <1>7 DEF Stage
<1>9. ASSUME ~c.arming, ~c.dating, t < CardNextChange(c) PROVE c5 = c
  <2> DEFINE x == IF c.exceptionAt = 0 THEN Unset ELSE c.exceptionAt
             S == {c.readyAt, c.closeAt, c.reopenAt, x}
  <2>1. S \in SUBSET Nat /\ S # {}
    BY CardTimes DEF CardSound
  <2>2. CardNextChange(c) = Earliest(S)
    BY DEF CardNextChange, Earliest
  <2>3. c.readyAt \in S /\ c.closeAt \in S /\ c.reopenAt \in S /\ x \in S
    OBVIOUS
  <2> HIDE DEF S
  <2>4. \A s \in S : CardNextChange(c) <= s /\ s \in Nat /\ CardNextChange(c) \in Nat
    BY <2>1, <2>2, EarliestIs, ZenonT(60)
  <2>5. t < c.readyAt /\ t < c.closeAt /\ t < c.reopenAt /\ t < x
    <3> DEFINE n == CardNextChange(c)
    <3>1. t < n
      BY <1>9
    <3>2. \A s \in S : n <= s /\ s \in Nat /\ n \in Nat
      BY <2>4
    <3> HIDE DEF n, x
    <3> QED BY <2>3, <3>1, <3>2
  <2>6. ~(c.testing /\ t >= c.exceptionAt)
    BY <2>5 DEF CardSound
  <2> QED BY <1>2, <1>3, <1>4, <1>5, <1>7, <1>9, <2>5, <2>6
<1> QED BY <1>1, <1>8, <1>9 DEF e

\* What the card's next change is.
LEMMA CardNextChangeIs ==
  ASSUME NEW c, CardSound(c)
  PROVE  CardNextChange(c) \in Nat
<1> DEFINE x == IF c.exceptionAt = 0 THEN Unset ELSE c.exceptionAt
           S == {c.readyAt, c.closeAt, c.reopenAt, x}
<1>1. S \in SUBSET Nat /\ S # {}
  BY CardTimes DEF CardSound
<1>2. CardNextChange(c) = Earliest(S)
  BY DEF CardNextChange, Earliest
<1> HIDE DEF S
<1> QED BY <1>1, <1>2, EarliestIs

\* An exception, ...
LEMMA RaisedIs ==
  ASSUME NEW c, CardSound(c)
  PROVE  LET e == Raised(c) IN
         /\ CardSound(e) /\ e.ctl = c.ctl /\ e.dma = c.dma /\ e.data = c.data /\ e.exception
         /\ Live(e) /\ e.arming = c.arming /\ e.dating = c.dating
<1> DEFINE e == [c EXCEPT !.exception = TRUE, !.ready = FALSE]
<1>1. Raised(c) = e
  BY DEF Raised
<1>2. /\ IsCard(e) /\ e.dating = c.dating /\ e.ctl = c.ctl /\ e.data = c.data
      /\ e.ready = FALSE /\ e.arming = c.arming
      /\ e.exception = TRUE /\ e.done = c.done /\ e.dma = c.dma /\ e.readyAt = c.readyAt
      /\ e.testing = c.testing /\ e.exceptionAt = c.exceptionAt
      /\ e.closeAt = c.closeAt /\ e.reopenAt = c.reopenAt
  BY DEF CardSound, IsCard, CardFields
<1> HIDE DEF e
<1> QED BY <1>1, <1>2 DEF CardSound, Live

\* ... the end of a DMA, ...
LEMMA DmaEndedIs ==
  ASSUME NEW c, CardSound(c)
  PROVE  LET e == DmaEnded(c) IN
         /\ CardSound(e) /\ e.ctl = c.ctl /\ ~e.dma /\ e.data = c.data
         /\ e.exception = c.exception
         /\ Live(c) => Live(e)
         /\ e.arming = c.arming /\ e.dating = c.dating
<1> DEFINE e == [c EXCEPT !.dma = FALSE, !.done = TRUE]
<1>1. DmaEnded(c) = e
  BY DEF DmaEnded
<1>2. /\ IsCard(e) /\ e.dating = c.dating /\ e.ctl = c.ctl /\ e.data = c.data
      /\ e.ready = c.ready /\ e.arming = c.arming
      /\ e.exception = c.exception /\ e.done = TRUE /\ e.dma = FALSE /\ e.readyAt = c.readyAt
      /\ e.testing = c.testing /\ e.exceptionAt = c.exceptionAt
      /\ e.closeAt = c.closeAt /\ e.reopenAt = c.reopenAt
  BY DEF CardSound, IsCard, CardFields
<1> HIDE DEF e
<1> QED BY <1>1, <1>2 DEF CardSound, Live

\* Its direction is nothing else's business.
LEMMA DirectionIs ==
  ASSUME NEW c, CardSound(c), NEW g
  PROVE  LET e == [c EXCEPT !.direction = g] IN
         /\ CardSound(e) /\ e.ctl = c.ctl /\ e.dma = c.dma /\ e.data = c.data
         /\ e.exception = c.exception /\ e.readyAt = c.readyAt
         /\ Live(c) => Live(e)
         /\ e.arming = c.arming /\ e.dating = c.dating
<1> DEFINE e == [c EXCEPT !.direction = g]
<1>2. /\ IsCard(e) /\ e.dating = c.dating /\ e.ctl = c.ctl /\ e.data = c.data
      /\ e.ready = c.ready /\ e.arming = c.arming
      /\ e.exception = c.exception /\ e.done = c.done /\ e.dma = c.dma /\ e.readyAt = c.readyAt
      /\ e.testing = c.testing /\ e.exceptionAt = c.exceptionAt
      /\ e.closeAt = c.closeAt /\ e.reopenAt = c.reopenAt
  BY DEF CardSound, IsCard, CardFields
<1>3. CardSound(e) /\ (Live(c) => Live(e))
  <2> HIDE DEF e
  <2> QED BY <1>2 DEF CardSound, Live
<1> QED BY <1>2, <1>3

\* A command accepted has READY coming, ...
LEMMA AcceptedIs ==
  ASSUME NEW c, CardSound(c), NEW t \in Nat, t <= MaxNow["tape"]
  PROVE  LET e == Accepted(c, t) IN
         /\ CardSound(e) /\ e.ctl = c.ctl /\ e.dma = c.dma /\ e.data = c.data /\ Live(e)
<1> DEFINE y == Entry(c)
           h == Handshake(y)
           n == t + h
           e == [c EXCEPT !.entry = y, !.ready = FALSE, !.readyAt = n, !.closeAt = Unset,
                          !.reopenAt = Unset]
<1>1. Accepted(c, t) = e
  BY DEF Accepted
<1>2. h \in {ExceptionTime, DirectionTime, BlockTime, CommandTime}
  BY DEF Handshake
<1>3. n \in Nat /\ n # Unset
  <2> HIDE DEF h
  <2> QED BY <1>2, NotForEver
<1> HIDE DEF y, h, n
<1>4. /\ IsCard(e) /\ e.dating = c.dating /\ e.ctl = c.ctl /\ e.data = c.data
      /\ e.ready = FALSE /\ e.arming = c.arming
      /\ e.exception = c.exception /\ e.done = c.done /\ e.dma = c.dma /\ e.readyAt = n
      /\ e.testing = c.testing /\ e.exceptionAt = c.exceptionAt
      /\ e.closeAt = Unset /\ e.reopenAt = Unset
  BY DEF CardSound, IsCard, CardFields
<1> HIDE DEF e
<1> QED BY <1>1, <1>3, <1>4, CardTimes DEF CardSound, Live

\* ... and so has the end of a block.
LEMMA BlockBoundaryIs ==
  ASSUME NEW c, CardSound(c), NEW t \in Nat, t <= MaxNow["tape"]
  PROVE  LET e == BlockBoundary(c, t) IN
         /\ CardSound(e) /\ e.ctl = c.ctl /\ e.dma = c.dma /\ e.data = c.data /\ Live(e)
<1> DEFINE n == t + BlockTime
           e == [c EXCEPT !.entry = "block", !.ready = FALSE, !.readyAt = n]
<1>1. BlockBoundary(c, t) = e
  BY DEF BlockBoundary
<1>3. n \in Nat /\ n # Unset
  BY NotForEver
<1> HIDE DEF n
<1>4. /\ IsCard(e) /\ e.dating = c.dating /\ e.ctl = c.ctl /\ e.data = c.data
      /\ e.ready = FALSE /\ e.arming = c.arming
      /\ e.exception = c.exception /\ e.done = c.done /\ e.dma = c.dma /\ e.readyAt = n
      /\ e.testing = c.testing /\ e.exceptionAt = c.exceptionAt
      /\ e.closeAt = c.closeAt /\ e.reopenAt = c.reopenAt
  BY DEF CardSound, IsCard, CardFields
<1> HIDE DEF e
<1> QED BY <1>1, <1>3, <1>4, CardTimes DEF CardSound, Live

\* A byte taken drops READY alone.
LEMMA ByteTakenIs ==
  ASSUME NEW c, CardSound(c)
  PROVE  LET e == ByteTaken(c) IN
         CardSound(e) /\ e.ctl = c.ctl /\ e.dma = c.dma /\ e.data = c.data
<1> DEFINE e == [c EXCEPT !.ready = FALSE, !.closeAt = Unset, !.reopenAt = Unset]
<1>1. ByteTaken(c) = e
  BY DEF ByteTaken
<1>4. /\ IsCard(e) /\ e.dating = c.dating /\ e.ctl = c.ctl /\ e.data = c.data
      /\ e.ready = FALSE /\ e.arming = c.arming
      /\ e.exception = c.exception /\ e.done = c.done /\ e.dma = c.dma /\ e.readyAt = c.readyAt
      /\ e.testing = c.testing /\ e.exceptionAt = c.exceptionAt
      /\ e.closeAt = Unset /\ e.reopenAt = Unset
  BY DEF CardSound, IsCard, CardFields
<1> HIDE DEF e
<1> QED BY <1>1, <1>4, CardTimes DEF CardSound

\* A request released has READY coming.
LEMMA RequestReleasedIs ==
  ASSUME NEW c, CardSound(c), NEW t \in Nat, t <= MaxNow["tape"]
  PROVE  LET e == RequestReleased(c, t) IN
         /\ CardSound(e) /\ e.ctl = c.ctl /\ e.dma = c.dma /\ e.data = c.data /\ Live(e)
<1>1. /\ t + ReopenTime \in Nat /\ t + ReopenTime # Unset
      /\ t + (CloseTime + ReopenTime) \in Nat /\ t + (CloseTime + ReopenTime) # Unset
  BY NotForEver
<1> DEFINE a == IF c.ready THEN t + CloseTime ELSE Unset
           b == IF c.ready THEN t + CloseTime + ReopenTime ELSE t + ReopenTime
           e == [c EXCEPT !.closeAt = a, !.reopenAt = b]
<1>2. RequestReleased(c, t) = e
  BY DEF RequestReleased
<1>3. a \in Nat /\ b \in Nat /\ b # Unset /\ (a # Unset => a < b)
  BY <1>1, CardTimes
<1> HIDE DEF a, b
<1>4. /\ IsCard(e) /\ e.dating = c.dating /\ e.ctl = c.ctl /\ e.data = c.data
      /\ e.ready = c.ready /\ e.arming = c.arming
      /\ e.exception = c.exception /\ e.done = c.done /\ e.dma = c.dma /\ e.readyAt = c.readyAt
      /\ e.testing = c.testing /\ e.exceptionAt = c.exceptionAt
      /\ e.closeAt = a /\ e.reopenAt = b
  BY DEF CardSound, IsCard, CardFields
<1> HIDE DEF e
<1> QED BY <1>2, <1>3, <1>4 DEF CardSound, Live

\* A reset that was wide enough starts the card's test, and one that was not
\* leaves the card as it is.
LEMMA WriteControlIs ==
  ASSUME NEW c, CardSound(c), NEW v, NEW t \in Nat
  PROVE  LET e == WriteControl(c, v, t) IN
         /\ CardSound(e) /\ e.ctl = v
         /\ "reset" \notin v => e.dma = c.dma /\ e.data = c.data
         /\ "reset" \in v => ~e.dma
         /\ "reset" \notin v /\ "reset" \notin c.ctl /\ Live(c) => Live(e)
         /\ "reset" \notin v /\ "reset" \in c.ctl /\ Wide(c, t) => Live(e)
<1>1. CASE "reset" \in v
  <2> DEFINE g == IF "reset" \in c.ctl THEN c.dating ELSE TRUE
             w == IF "reset" \in c.ctl THEN c.since ELSE Unset
             e == [ctl |-> v, data |-> "unknown", ready |-> FALSE, exception |-> FALSE,
                   done |-> TRUE, direction |-> FALSE, dma |-> FALSE, entry |-> "ready",
                   readyAt |-> Unset, arming |-> FALSE, testing |-> FALSE, exceptionAt |-> 0,
                   dating |-> g, since |-> w, closeAt |-> Unset, reopenAt |-> Unset]
  <2>1. WriteControl(c, v, t) = e
    BY <1>1 DEF WriteControl, Hold, CardReset
  <2> HIDE DEF g, w
  <2>2. IsCard(e) /\ CardSound(e) /\ e.ctl = v /\ ~e.dma
    <3>1. IsCard(e)
      BY DEF IsCard, CardFields
    <3> QED BY <3>1, CardTimes DEF CardSound
  <2> QED BY <1>1, <2>1, <2>2
<1>2. CASE "reset" \in c.ctl \ v
  <2> DEFINE x == c.exception /\ ~Wide(c, t)
             a == c.arming \/ Wide(c, t)
             e == [c EXCEPT !.ctl = v, !.dating = FALSE, !.since = Unset, !.exception = x,
                            !.arming = a]
  <2>1. WriteControl(c, v, t) = e
    BY <1>2 DEF WriteControl, CardSound, IsCard, CardFields
  <2>2. x \in BOOLEAN /\ (Wide(c, t) => a)
    OBVIOUS
  <2> HIDE DEF x, a
  <2>4. /\ IsCard(e) /\ e.ctl = v /\ e.data = c.data
        /\ e.ready = c.ready /\ e.arming = a
        /\ e.exception = x /\ e.done = c.done /\ e.dma = c.dma /\ e.readyAt = c.readyAt
        /\ e.testing = c.testing /\ e.exceptionAt = c.exceptionAt
        /\ e.closeAt = c.closeAt /\ e.reopenAt = c.reopenAt
    BY DEF CardSound, IsCard, CardFields
  <2> HIDE DEF e
  <2>5. CardSound(e)
    BY <2>2, <2>4 DEF CardSound
  <2> QED BY <1>2, <2>1, <2>2, <2>4, <2>5 DEF Live
<1>3. CASE "reset" \notin v /\ "reset" \notin c.ctl
  <2> DEFINE e == [c EXCEPT !.ctl = v]
  <2>1. WriteControl(c, v, t) = e
    BY <1>3 DEF WriteControl
  <2>4. /\ IsCard(e) /\ e.ctl = v /\ e.data = c.data
        /\ e.ready = c.ready /\ e.arming = c.arming
        /\ e.exception = c.exception /\ e.done = c.done /\ e.dma = c.dma /\ e.readyAt = c.readyAt
        /\ e.testing = c.testing /\ e.exceptionAt = c.exceptionAt
        /\ e.closeAt = c.closeAt /\ e.reopenAt = c.reopenAt
    BY DEF CardSound, IsCard, CardFields
  <2> HIDE DEF e
  <2>5. CardSound(e) /\ (Live(c) => Live(e))
    BY <2>4 DEF CardSound, Live
  <2> QED BY <1>3, <2>1, <2>4, <2>5
<1> QED BY <1>1, <1>2, <1>3

\* The latch that starts the DMA ...
LEMMA DmaGoIs ==
  ASSUME NEW c, CardSound(c)
  PROVE  LET e == DmaGo(c) IN CardSound(e) /\ e.ctl = c.ctl /\ (Live(c) => Live(e))
<1> DEFINE e == [c EXCEPT !.dma = TRUE, !.done = FALSE]
<1>1. DmaGo(c) = e
  BY DEF DmaGo
<1>2. /\ IsCard(e) /\ e.dating = c.dating /\ e.ctl = c.ctl /\ e.data = c.data
      /\ e.ready = c.ready /\ e.arming = c.arming
      /\ e.exception = c.exception /\ e.done = FALSE /\ e.dma = TRUE /\ e.readyAt = c.readyAt
      /\ e.testing = c.testing /\ e.exceptionAt = c.exceptionAt
      /\ e.closeAt = c.closeAt /\ e.reopenAt = c.reopenAt
  BY DEF CardSound, IsCard, CardFields
<1> HIDE DEF e
<1> QED BY <1>1, <1>2 DEF CardSound, Live

\* ... and the one that clears it leave READY's coming alone.
LEMMA RstDmaIs ==
  ASSUME NEW c, CardSound(c), NEW t
  PROVE  LET e == RstDma(c, t) IN CardSound(e) /\ e.ctl = {} /\ (Live(c) => Live(e))
<1> DEFINE a == c.arming \/ Wide(c, t)
           n == {}
           e == [c EXCEPT !.dma = FALSE, !.ctl = n, !.dating = FALSE, !.since = Unset,
                          !.done = TRUE, !.arming = a]
<1>1. RstDma(c, t) = e
  BY DEF RstDma, CardSound, IsCard, CardFields
<1>0. c.arming => a
  OBVIOUS
<1> HIDE DEF a, n
<1>2. /\ IsCard(e) /\ e.ctl = n /\ e.data = c.data
      /\ e.ready = c.ready /\ e.arming = a
      /\ e.exception = c.exception /\ e.done = TRUE /\ e.dma = FALSE /\ e.readyAt = c.readyAt
      /\ e.testing = c.testing /\ e.exceptionAt = c.exceptionAt
      /\ e.closeAt = c.closeAt /\ e.reopenAt = c.reopenAt
  BY DEF CardSound, IsCard, CardFields
<1> HIDE DEF e
<1> QED BY <1>0, <1>1, <1>2 DEF CardSound, Live, n

-----------------------------------------------------------------------------
(* The tape.                                                               *)

\* The tape's registers.
TapeFields == {"card", "loaded", "writable", "vol", "pos", "selected", "reading", "writing",
               "pending", "latches", "buf", "off", "valid", "status", "soff", "svalid",
               "byteAt", "first", "markSent"}
\* A tape has these, and only these.
IsTape(d) == d = [x \in TapeFields |-> d[x]]

\* What a tape can be.
TapeSound(d) ==
    /\ IsTape(d) /\ CardSound(d.card) /\ d.pos \in Nat /\ d.writable \in BOOLEAN
    /\ Cardinality(DOMAIN d.vol) \in Nat

\* What an operation that is no command leaves: blocks are written in their order,
\* by a drive that writes, to a cartridge that can be written.
TapeKin(e, d) ==
    /\ TapeSound(e)
    /\ e.writable = d.writable /\ e.writing = d.writing /\ e.svalid = d.svalid
    /\ e.card.ctl = d.card.ctl /\ (Live(d.card) => Live(e.card))
    /\ DOMAIN e.vol = DOMAIN d.vol /\ d.pos <= e.pos
    /\ \A a \in DOMAIN d.vol : e.vol[a] # d.vol[a] =>
         d.writable /\ d.writing /\ a \in d.pos .. e.pos - 1

\* Nothing is left for the clock to do at once.
Quiet(d) ==
    /\ ~d.card.dating
    /\ ~(NeedsBlock(d) /\ Exhausted(d) /\ ~(AtMark(d) /\ d.card.dma /\ ~d.markSent))
    /\ ~(d.card.dma /\ ~d.reading /\ ~d.writing /\ ~d.card.exception)

\* Such operations follow one another.
LEMMA TapeKinTrans ==
  ASSUME NEW d, NEW e, NEW f, d.pos \in Nat, TapeKin(e, d), TapeKin(f, e)
  PROVE  TapeKin(f, d)
<1>1. d.pos <= e.pos /\ e.pos <= f.pos /\ e.pos \in Nat /\ f.pos \in Nat
  BY DEF TapeKin, TapeSound
<1>2. ASSUME NEW a \in DOMAIN d.vol, f.vol[a] # d.vol[a]
      PROVE  d.writable /\ d.writing /\ a \in d.pos .. f.pos - 1
  <2>1. CASE e.vol[a] # d.vol[a]
    BY <1>1, <2>1 DEF TapeKin
  <2>2. CASE e.vol[a] = d.vol[a]
    BY <1>1, <1>2, <2>2 DEF TapeKin
  <2> QED BY <2>1, <2>2
<1> QED BY <1>1, <1>2 DEF TapeKin

\* What matters of a step that writes nothing.
LEMMA TapeAside ==
  ASSUME NEW d, TapeSound(d), NEW e, IsTape(e), CardSound(e.card), e.card.ctl = d.card.ctl,
         Live(d.card) => Live(e.card), e.vol = d.vol, e.writable = d.writable,
         e.writing = d.writing, e.svalid = d.svalid, e.pos \in Nat, d.pos <= e.pos
  PROVE  TapeKin(e, d)
BY DEF TapeKin, TapeSound

\* Nothing at all is one.
LEMMA TapeSelf ==
  ASSUME NEW d, TapeSound(d)
  PROVE  TapeKin(d, d)
BY DEF TapeKin, TapeSound

\* A new card in the tape.
LEMMA NewCard ==
  ASSUME NEW d, TapeSound(d), NEW k, CardSound(k)
  PROVE  LET e == [d EXCEPT !.card = k] IN
         /\ IsTape(e) /\ TapeSound(e) /\ e.card = k
         /\ e.vol = d.vol /\ e.pos = d.pos /\ e.writable = d.writable /\ e.writing = d.writing
         /\ e.svalid = d.svalid /\ e.reading = d.reading /\ e.valid = d.valid /\ e.off = d.off
         /\ e.markSent = d.markSent /\ e.selected = d.selected /\ e.loaded = d.loaded
         /\ e.pending = d.pending /\ e.buf = d.buf /\ e.soff = d.soff
         /\ NeedsBlock(e) = NeedsBlock(d) /\ Exhausted(e) = Exhausted(d) /\ AtMark(e) = AtMark(d)
         /\ k.ctl = d.card.ctl /\ (Live(d.card) => Live(k)) => TapeKin(e, d)
<1> DEFINE e == [d EXCEPT !.card = k]
<1>1. /\ IsTape(e) /\ e.card = k
      /\ e.vol = d.vol /\ e.pos = d.pos /\ e.writable = d.writable /\ e.writing = d.writing
      /\ e.svalid = d.svalid /\ e.reading = d.reading /\ e.valid = d.valid /\ e.off = d.off
      /\ e.markSent = d.markSent /\ e.selected = d.selected /\ e.loaded = d.loaded
      /\ e.pending = d.pending /\ e.buf = d.buf /\ e.soff = d.soff
  BY DEF TapeSound, IsTape, TapeFields
<1> HIDE DEF e
<1>2. NeedsBlock(e) = NeedsBlock(d) /\ Exhausted(e) = Exhausted(d) /\ AtMark(e) = AtMark(d)
  BY <1>1 DEF NeedsBlock, Exhausted, AtMark, DriveReady, End
<1>3. TapeSound(e)
  BY <1>1 DEF TapeSound
<1>4. k.ctl = d.card.ctl /\ (Live(d.card) => Live(k)) => TapeKin(e, d)
  BY <1>1, <1>3 DEF TapeKin, TapeSound
<1> QED BY <1>1, <1>2, <1>3, <1>4 DEF e

\* An exception, ...
LEMMA ExceptIs ==
  ASSUME NEW d, TapeSound(d)
  PROVE  LET e == Except(d) IN
         /\ TapeKin(e, d) /\ Live(e.card) /\ e.card.exception /\ e.vol = d.vol /\ e.pos = d.pos
         /\ e.card.dma = d.card.dma /\ e.card.arming = d.card.arming
         /\ e.card.dating = d.card.dating /\ e.reading = d.reading /\ e.card.data = d.card.data
         /\ e.valid = d.valid /\ e.off = d.off /\ e.selected = d.selected
         /\ e.loaded = d.loaded /\ e.markSent = d.markSent
<1> DEFINE k == Raised(d.card)
           e == [d EXCEPT !.card = k]
<1>1. Except(d) = e
  BY DEF Except
<1>2. /\ CardSound(k) /\ k.ctl = d.card.ctl /\ k.dma = d.card.dma /\ k.data = d.card.data
      /\ k.exception /\ Live(k) /\ k.arming = d.card.arming /\ k.dating = d.card.dating
  BY RaisedIs DEF TapeSound
<1> HIDE DEF k
<1>3. /\ e.card = k /\ e.vol = d.vol /\ e.pos = d.pos /\ e.reading = d.reading
      /\ e.valid = d.valid /\ e.off = d.off /\ e.selected = d.selected
      /\ e.loaded = d.loaded /\ e.markSent = d.markSent /\ TapeKin(e, d)
  BY <1>2, NewCard
<1> HIDE DEF e
<1> QED BY <1>1, <1>2, <1>3

\* ... the end of a DMA, ...
LEMMA DmaOverIs ==
  ASSUME NEW d, TapeSound(d)
  PROVE  LET e == DmaOver(d) IN
         /\ TapeKin(e, d) /\ ~e.card.dma /\ e.vol = d.vol /\ e.pos = d.pos
         /\ e.card.arming = d.card.arming /\ e.card.exception = d.card.exception
         /\ e.card.dating = d.card.dating /\ e.reading = d.reading /\ e.card.data = d.card.data
         /\ NeedsBlock(e) = NeedsBlock(d) /\ Exhausted(e) = Exhausted(d) /\ AtMark(e) = AtMark(d)
<1> DEFINE k == DmaEnded(d.card)
           e == [d EXCEPT !.card = k]
<1>1. DmaOver(d) = e
  BY DEF DmaOver
<1>2. /\ CardSound(k) /\ k.ctl = d.card.ctl /\ ~k.dma /\ k.data = d.card.data
      /\ k.exception = d.card.exception
      /\ Live(d.card) => Live(k)
      /\ k.arming = d.card.arming /\ k.dating = d.card.dating
  BY DmaEndedIs DEF TapeSound
<1> HIDE DEF k
<1>3. /\ e.card = k /\ e.vol = d.vol /\ e.pos = d.pos /\ e.reading = d.reading /\ TapeKin(e, d)
      /\ NeedsBlock(e) = NeedsBlock(d) /\ Exhausted(e) = Exhausted(d) /\ AtMark(e) = AtMark(d)
  BY <1>2, NewCard
<1> HIDE DEF e
<1> QED BY <1>1, <1>2, <1>3

\* ... and the end of a read are.
LEMMA EndReadIs ==
  ASSUME NEW d, TapeSound(d)
  PROVE  LET e == EndRead(d) IN
         /\ TapeKin(e, d) /\ ~e.reading /\ e.card = d.card /\ e.vol = d.vol /\ e.valid = d.valid
         /\ e.off = d.off
<1> DEFINE n == d.pos + 1
           l == d.latches \cup {"mark"}
           m == d.latches \cup {"nodata"}
           p == IF AtMark(d) THEN n ELSE d.pos
           q == IF AtMark(d) THEN l ELSE m
           e == [d EXCEPT !.latches = q, !.pos = p, !.reading = FALSE]
<1>1. EndRead(d) = e
  <2>1. CASE AtMark(d)
    BY <2>1 DEF EndRead, TapeSound, IsTape, TapeFields
  <2>2. CASE ~AtMark(d)
    BY <2>2 DEF EndRead, TapeSound, IsTape, TapeFields
  <2> QED BY <2>1, <2>2
<1>2. p \in Nat /\ d.pos <= p
  BY DEF TapeSound
<1> HIDE DEF p, q
<1>3. /\ IsTape(e) /\ e.card = d.card /\ e.reading = FALSE /\ e.vol = d.vol /\ e.pos = p
      /\ e.writable = d.writable /\ e.writing = d.writing /\ e.svalid = d.svalid
      /\ e.valid = d.valid /\ e.off = d.off
  BY DEF TapeSound, IsTape, TapeFields
<1> HIDE DEF e
<1>4. TapeKin(e, d)
  BY <1>2, <1>3, TapeAside DEF TapeSound
<1> QED BY <1>1, <1>3, <1>4

\* A read that is at a mark has nothing more to give.
LEMMA AtMarkExhausts ==
  ASSUME NEW d, AtMark(d)
  PROVE  Exhausted(d) /\ d.reading
BY DEF AtMark, Exhausted

\* ap_tape_advance: the card's clock, and then what the drive and the card settle.
LEMMA TapeAdvanceIs ==
  ASSUME NEW d, TapeSound(d), NEW t \in Nat, t < Unset
  PROVE  LET e == TapeAdvance(d, t) IN
         /\ TapeKin(e, d) /\ e.vol = d.vol /\ e.card.data = d.card.data
         /\ Quiet(e) /\ ~e.card.arming
         /\ Quiet(d) /\ ~d.card.arming /\ t < CardNextChange(d.card) => e = d
<1> DEFINE k == CardAdvance(d.card, t)
           e == [d EXCEPT !.card = k]
           s == [e EXCEPT !.markSent = FALSE]
           r == EndRead(s)
           over == Except(r)
           n == FALSE
           c == [over.card EXCEPT !.direction = n]
           o == [over EXCEPT !.card = c]
           ended == IF ~(NeedsBlock(e) /\ Exhausted(e)) THEN e
                    ELSE IF AtMark(e) THEN o ELSE DmaOver(over)
           y == TapeAdvance(d, t)
<1>1. y = IF NeedsBlock(e) /\ AtMark(e) /\ e.card.dma /\ ~e.markSent THEN e
          ELSE IF ended.card.dma /\ ~ended.reading /\ ~ended.writing /\ ~ended.card.exception
          THEN DmaOver(ended) ELSE ended
  <2>1. IsTape(over) => o = [over EXCEPT !.card.direction = FALSE]
    <3> HIDE DEF over
    <3> QED OBVIOUS
  <2>2. ended = IF ~(NeedsBlock(e) /\ Exhausted(e)) THEN e
                ELSE IF AtMark(e) THEN [over EXCEPT !.card.direction = FALSE] ELSE DmaOver(over)
    <3> HIDE DEF over
    <3> QED OBVIOUS
  <2> HIDE DEF ended
  <2> QED BY <2>2 DEF TapeAdvance
<1>2. /\ CardSound(k) /\ k.ctl = d.card.ctl /\ k.dma = d.card.dma /\ k.data = d.card.data
      /\ Live(d.card) => Live(k)
      /\ ~k.arming /\ ~k.dating
      /\ ~d.card.arming /\ ~d.card.dating /\ t < CardNextChange(d.card) => k = d.card
  BY CardAdvanceIs DEF TapeSound
<1> HIDE DEF k, y
<1>3. /\ TapeSound(e) /\ TapeKin(e, d) /\ e.card = k /\ e.vol = d.vol /\ e.reading = d.reading
      /\ e.markSent = d.markSent
      /\ NeedsBlock(e) = NeedsBlock(d) /\ Exhausted(e) = Exhausted(d) /\ AtMark(e) = AtMark(d)
      /\ e.writing = d.writing
  BY <1>2, NewCard
<1>4. k = d.card => e = d
  BY DEF TapeSound, IsTape, TapeFields
<1> HIDE DEF e
<1>5. TapeKin(s, e) /\ s.card = e.card /\ s.vol = e.vol
  <2>1. /\ IsTape(s) /\ s.card = e.card /\ s.vol = e.vol /\ s.pos = e.pos /\ s.writing = e.writing
        /\ s.writable = e.writable /\ s.svalid = e.svalid
    BY <1>3 DEF TapeSound, IsTape, TapeFields
  <2> HIDE DEF s
  <2> QED BY <1>3, <2>1, TapeAside DEF TapeSound
<1> HIDE DEF s
<1>6. TapeKin(r, s) /\ ~r.reading /\ r.card = s.card /\ r.vol = s.vol
  BY <1>5, EndReadIs DEF TapeKin
<1> HIDE DEF r
<1>7. /\ TapeKin(over, r) /\ over.card.exception /\ over.vol = r.vol /\ ~over.reading
      /\ over.card.arming = r.card.arming /\ over.card.dating = r.card.dating
      /\ over.card.data = r.card.data
  BY <1>6, ExceptIs DEF TapeKin
<1> HIDE DEF over
<1>8. /\ TapeKin(over, e) /\ over.vol = e.vol /\ over.card.exception /\ ~over.reading
      /\ ~over.card.arming /\ ~over.card.dating /\ over.card.data = d.card.data
      /\ TapeSound(over)
  <2>1. TapeKin(r, e)
    BY <1>3, <1>5, <1>6, TapeKinTrans DEF TapeSound
  <2>2. TapeKin(over, e)
    BY <1>3, <1>7, <2>1, TapeKinTrans DEF TapeSound
  <2> QED BY <1>2, <1>3, <1>5, <1>6, <1>7, <2>2 DEF TapeKin
<1>9. ASSUME NEW z, TapeKin(z, e), ~z.card.arming, ~z.card.dating, z.vol = e.vol,
             z.card.data = d.card.data, ~(NeedsBlock(z) /\ Exhausted(z)), z = ended
      PROVE  \/ ~(z.card.dma /\ ~z.reading /\ ~z.writing /\ ~z.card.exception)
                  /\ Quiet(z)
             \/ /\ z.card.dma /\ ~z.reading /\ ~z.writing /\ ~z.card.exception
                /\ TapeKin(DmaOver(z), e) /\ ~DmaOver(z).card.arming /\ DmaOver(z).vol = e.vol
                /\ DmaOver(z).card.data = d.card.data /\ Quiet(DmaOver(z))
  <2>1. CASE ~(z.card.dma /\ ~z.reading /\ ~z.writing /\ ~z.card.exception)
    BY <1>9, <2>1 DEF Quiet
  <2>2. CASE z.card.dma /\ ~z.reading /\ ~z.writing /\ ~z.card.exception
    <3> DEFINE w == DmaOver(z)
    <3>1. /\ TapeKin(w, z) /\ ~w.card.dma /\ w.vol = z.vol
          /\ w.card.arming = z.card.arming /\ w.card.dating = z.card.dating
          /\ w.reading = z.reading /\ w.card.data = z.card.data
          /\ NeedsBlock(w) = NeedsBlock(z) /\ Exhausted(w) = Exhausted(z)
      BY <1>9, DmaOverIs, ZenonT(60) DEF TapeKin
    <3> HIDE DEF w
    <3>2. TapeKin(w, e)
      BY <1>3, <1>9, <3>1, TapeKinTrans DEF TapeSound
    <3>3. Quiet(w)
      BY <1>9, <3>1 DEF Quiet
    <3> QED BY <1>9, <2>2, <3>1, <3>2, <3>3 DEF w
  <2> QED BY <2>1, <2>2
<1>10. CASE NeedsBlock(e) /\ AtMark(e) /\ e.card.dma /\ ~e.markSent
  <2>1. y = e
    BY <1>1, <1>10
  <2>2. Quiet(e)
    BY <1>2, <1>3, <1>10, AtMarkExhausts DEF Quiet
  <2>3. TapeKin(y, d) /\ y.vol = d.vol /\ y.card.data = d.card.data /\ Quiet(y) /\ ~y.card.arming
    BY <1>2, <1>3, <2>1, <2>2
  <2>4. Quiet(d) /\ ~d.card.arming /\ t < CardNextChange(d.card) => y = d
    BY <1>2, <1>4, <2>1 DEF Quiet
  <2> QED BY <2>3, <2>4 DEF y
<1>11. CASE /\ ~(NeedsBlock(e) /\ AtMark(e) /\ e.card.dma /\ ~e.markSent)
            /\ NeedsBlock(e) /\ Exhausted(e)
  <2>1. ~Quiet(d)
    BY <1>2, <1>3, <1>11 DEF Quiet
  <2>2. CASE AtMark(e)
    <3>1. ended = o
      BY <1>11, <2>2
    <3>2. /\ CardSound(c) /\ c.ctl = over.card.ctl /\ c.data = over.card.data
          /\ c.exception = over.card.exception /\ (Live(over.card) => Live(c))
          /\ c.arming = over.card.arming /\ c.dating = over.card.dating
      <4>1. CardSound(over.card)
        BY <1>8 DEF TapeSound
      <4> QED BY <4>1, DirectionIs
    <3> HIDE DEF c, ended
    <3>3. /\ TapeKin(o, over) /\ o.card = c /\ o.vol = over.vol /\ o.reading = over.reading
          /\ Exhausted(o) = Exhausted(over)
      BY <1>8, <3>2, NewCard
    <3> HIDE DEF o
    <3>4. TapeKin(o, e) /\ ~(NeedsBlock(o) /\ Exhausted(o))
      <4>1. TapeKin(o, e)
        BY <1>3, <1>8, <3>3, TapeKinTrans DEF TapeSound
      <4>2. ~Exhausted(o)
        BY <1>8, <3>3 DEF Exhausted
      <4> QED BY <4>1, <4>2
    <3>5. ~(o.card.dma /\ ~o.reading /\ ~o.writing /\ ~o.card.exception) /\ Quiet(o)
      BY <1>8, <1>9, <3>1, <3>2, <3>3, <3>4
    <3>6. y = o
      BY <1>1, <1>11, <3>1, <3>5
    <3>7. TapeKin(o, d)
      BY <1>3, <3>4, TapeKinTrans DEF TapeSound
    <3>8. TapeKin(y, d) /\ y.vol = d.vol /\ y.card.data = d.card.data /\ Quiet(y)
          /\ ~y.card.arming
      BY <1>3, <1>8, <3>2, <3>3, <3>5, <3>6, <3>7
    <3> QED BY <2>1, <3>8 DEF y
  <2>3. CASE ~AtMark(e)
    <3> DEFINE z == DmaOver(over)
    <3>1. ended = z
      BY <1>11, <2>3
    <3> HIDE DEF ended
    <3>2. /\ TapeKin(z, over) /\ z.vol = over.vol /\ z.reading = over.reading /\ ~z.card.dma
          /\ z.card.arming = over.card.arming /\ z.card.dating = over.card.dating
          /\ z.card.data = over.card.data
      BY <1>8, DmaOverIs
    <3> HIDE DEF z
    <3>3. TapeKin(z, e) /\ ~(NeedsBlock(z) /\ Exhausted(z))
      <4>1. TapeKin(z, e)
        BY <1>3, <1>8, <3>2, TapeKinTrans DEF TapeSound
      <4>2. ~Exhausted(z)
        BY <1>8, <3>2 DEF Exhausted
      <4> QED BY <4>1, <4>2
    <3>4. Quiet(z)
      BY <1>8, <1>9, <3>1, <3>2, <3>3
    <3>5. y = z
      BY <1>1, <1>11, <3>1, <3>2
    <3>6. TapeKin(z, d)
      BY <1>3, <3>3, TapeKinTrans DEF TapeSound
    <3>7. TapeKin(y, d) /\ y.vol = d.vol /\ y.card.data = d.card.data /\ Quiet(y)
          /\ ~y.card.arming
      BY <1>3, <1>8, <3>2, <3>4, <3>5, <3>6
    <3> QED BY <2>1, <3>7 DEF y
  <2> QED BY <2>2, <2>3
<1>12. CASE /\ ~(NeedsBlock(e) /\ AtMark(e) /\ e.card.dma /\ ~e.markSent)
            /\ ~(NeedsBlock(e) /\ Exhausted(e))
  <2>1. ended = e
    BY <1>12
  <2> HIDE DEF ended
  <2>2. TapeKin(e, e)
    BY <1>3, TapeSelf
  <2>3. \/ ~(e.card.dma /\ ~e.reading /\ ~e.writing /\ ~e.card.exception) /\ Quiet(e)
        \/ /\ e.card.dma /\ ~e.reading /\ ~e.writing /\ ~e.card.exception
           /\ TapeKin(DmaOver(e), e) /\ ~DmaOver(e).card.arming /\ DmaOver(e).vol = e.vol
           /\ DmaOver(e).card.data = d.card.data /\ Quiet(DmaOver(e))
    BY <1>2, <1>3, <1>9, <1>12, <2>1, <2>2
  <2>4. CASE ~(e.card.dma /\ ~e.reading /\ ~e.writing /\ ~e.card.exception) /\ Quiet(e)
    <3>1. y = e
      BY <1>1, <1>12, <2>1, <2>4
    <3>2. Quiet(d) /\ ~d.card.arming /\ t < CardNextChange(d.card) => y = d
      BY <1>2, <1>4, <3>1 DEF Quiet
    <3> QED BY <1>2, <1>3, <2>4, <3>1, <3>2 DEF y
  <2>5. CASE /\ e.card.dma /\ ~e.reading /\ ~e.writing /\ ~e.card.exception
             /\ TapeKin(DmaOver(e), e) /\ ~DmaOver(e).card.arming /\ DmaOver(e).vol = e.vol
             /\ DmaOver(e).card.data = d.card.data /\ Quiet(DmaOver(e))
    <3> DEFINE w == DmaOver(e)
    <3>1. y = w
      BY <1>1, <1>12, <2>1, <2>5
    <3>2. TapeKin(w, e) /\ ~w.card.arming /\ w.vol = e.vol /\ w.card.data = d.card.data /\ Quiet(w)
      BY <2>5
    <3> HIDE DEF w
    <3>3. TapeKin(w, d)
      BY <1>3, <3>2, TapeKinTrans DEF TapeSound
    <3>4. ~(Quiet(d) /\ ~d.card.arming /\ t < CardNextChange(d.card))
      <4> SUFFICES ASSUME Quiet(d), ~d.card.arming, t < CardNextChange(d.card) PROVE FALSE
        OBVIOUS
      <4>1. e = d
        BY <1>2, <1>4 DEF Quiet
      <4> QED BY <2>5, <4>1 DEF Quiet
    <3> QED BY <1>3, <3>1, <3>2, <3>3, <3>4 DEF y
  <2> QED BY <2>3, <2>4, <2>5
<1> QED BY <1>10, <1>11, <1>12

\* What a command of the tape, or a reset, has done to its cartridge.
TapeDid(d, j) ==
    /\ j.from \in Nat
    /\ j.op = "write" => j.from <= d.pos
    /\ j.op = "mark" => ~d.writing
    /\ \A a \in DOMAIN d.vol : d.vol[a] # j.before[a] =>
         /\ d.writable
         /\ j.op = "write" => a \in j.from .. d.pos - 1
         /\ j.op = "mark" => a = j.from
         /\ j.op \notin {"write", "mark"} => d.writing

\* An operation that is no command leaves a command what it has done.
LEMMA KinDid ==
  ASSUME NEW d, TapeSound(d), NEW e, TapeKin(e, d), NEW j, TapeDid(d, j)
  PROVE  TapeDid(e, j)
<1>1. d.pos <= e.pos /\ e.pos \in Nat /\ d.pos \in Nat /\ j.from \in Nat
  BY DEF TapeKin, TapeSound, TapeDid
<1>2. ASSUME NEW a \in DOMAIN e.vol, e.vol[a] # j.before[a]
      PROVE  /\ e.writable
             /\ j.op = "write" => a \in j.from .. e.pos - 1
             /\ j.op = "mark" => a = j.from
             /\ j.op \notin {"write", "mark"} => e.writing
  <2>1. CASE e.vol[a] # d.vol[a]
    <3>1. d.writable /\ d.writing /\ a \in d.pos .. e.pos - 1 /\ e.writing = d.writing
          /\ e.writable = d.writable
      BY <1>2, <2>1 DEF TapeKin
    <3> QED BY <1>1, <3>1 DEF TapeDid
  <2>2. CASE e.vol[a] = d.vol[a]
    BY <1>1, <1>2, <2>2 DEF TapeKin, TapeDid
  <2> QED BY <2>1, <2>2
<1> QED BY <1>1, <1>2 DEF TapeDid, TapeKin

\* To the next mark the tape only winds.
LEMMA ToMarkIs ==
  ASSUME NEW d, TapeSound(d)
  PROVE  LET e == ToMark(d) IN
         /\ IsTape(e) /\ e.card = d.card /\ e.writable = d.writable /\ e.vol = d.vol
         /\ e.pos \in Nat
<1> DEFINE marks == {b \in d.pos .. End(d) - 1 : d.vol[b] = Mark}
           x == CHOOSE b \in marks : \A m \in marks : b <= m
           p == IF marks = {} THEN (IF d.pos < End(d) THEN End(d) ELSE d.pos) ELSE 1 + x
           l == d.latches \cup (IF marks = {} THEN {"nodata"} ELSE {"mark"})
           e == [d EXCEPT !.reading = FALSE, !.writing = FALSE, !.pos = p, !.latches = l]
<1>1. marks \in SUBSET Nat
  BY DEF TapeSound
<1>2. marks # {} => x \in marks
  <2>1. ASSUME marks # {} PROVE \E b \in marks : \A m \in marks : b <= m
    <3> HIDE DEF marks
    <3> QED BY <1>1, <2>1, Least
  <2> HIDE DEF marks
  <2> QED BY <2>1
<1>3. ToMark(d) = e
  <2> HIDE DEF x
  <2>1. CASE marks = {}
    <3> DEFINE over == [d EXCEPT !.reading = FALSE, !.writing = FALSE]
    <3>1. ToMark(d) = [over EXCEPT !.pos = IF @ < End(d) THEN End(d) ELSE @,
                                   !.latches = @ \cup {"nodata"}]
      <4> HIDE DEF over
      <4> QED BY <2>1 DEF ToMark, over
    <3>2. p = (IF d.pos < End(d) THEN End(d) ELSE d.pos) /\ l = d.latches \cup {"nodata"}
      BY <2>1
    <3> HIDE DEF marks, p, l
    <3> QED BY <3>1, <3>2 DEF TapeSound, IsTape, TapeFields
  <2>2. CASE marks # {}
    <3> DEFINE over == [d EXCEPT !.reading = FALSE, !.writing = FALSE]
    <3>1. ToMark(d) = [over EXCEPT !.pos = 1 + x, !.latches = @ \cup {"mark"}]
      <4> HIDE DEF over
      <4> QED BY <2>2 DEF ToMark, over, x
    <3>2. p = 1 + x /\ l = d.latches \cup {"mark"}
      BY <2>2
    <3> HIDE DEF marks, p, l
    <3> QED BY <3>1, <3>2 DEF TapeSound, IsTape, TapeFields
  <2> QED BY <2>1, <2>2
<1>4. p \in Nat
  <2>1. CASE marks = {}
    BY <2>1 DEF TapeSound, End
  <2>2. CASE marks # {}
    <3>1. x \in Nat
      BY <1>1, <1>2, <2>2
    <3> HIDE DEF x, marks
    <3> QED BY <2>2, <3>1
  <2> QED BY <2>1, <2>2
<1> HIDE DEF p, l
<1>5. IsTape(e) /\ e.card = d.card /\ e.writable = d.writable /\ e.vol = d.vol /\ e.pos = p
  BY DEF TapeSound, IsTape, TapeFields
<1> HIDE DEF e
<1> QED BY <1>3, <1>4, <1>5

\* A command that is not refused: WRITE begins where the tape is, a mark goes there.
LEMMA ObeyedIs ==
  ASSUME NEW d, TapeSound(d), NEW op, ~Refuses(d, op)
  PROVE  LET e == Obeyed(d, op) IN
         /\ IsTape(e) /\ e.card = d.card /\ e.writable = d.writable /\ e.pos \in Nat
         /\ DOMAIN e.vol = DOMAIN d.vol
         /\ op = "write" => e.pos = d.pos
         /\ op # "mark" => e.vol = d.vol
         /\ op = "mark" => /\ ~e.writing /\ d.writable
                           /\ \A a \in DOMAIN d.vol : e.vol[a] # d.vol[a] => a = d.pos
<1> DEFINE y == Obeyed(d, op)
<1>1. CASE op \in {"bot", "retension"}
  <2> DEFINE e == [d EXCEPT !.pos = 0, !.reading = FALSE]
  <2>1. y = e
    BY <1>1 DEF Obeyed
  <2>2. IsTape(e) /\ e.card = d.card /\ e.writable = d.writable /\ e.pos = 0 /\ e.vol = d.vol
    BY DEF TapeSound, IsTape, TapeFields
  <2> HIDE DEF e
  <2> QED BY <1>1, <2>1, <2>2
<1>2. CASE op = "read"
  <2> DEFINE e == [d EXCEPT !.reading = TRUE]
  <2>1. y = e
    BY <1>2 DEF Obeyed
  <2>2. IsTape(e) /\ e.card = d.card /\ e.writable = d.writable /\ e.pos = d.pos /\ e.vol = d.vol
    BY DEF TapeSound, IsTape, TapeFields
  <2> HIDE DEF e
  <2> QED BY <1>2, <2>1, <2>2 DEF TapeSound
<1>3. CASE op = "write"
  <2> DEFINE e == [d EXCEPT !.writing = TRUE, !.reading = FALSE]
  <2>1. y = e
    BY <1>3 DEF Obeyed
  <2>2. IsTape(e) /\ e.card = d.card /\ e.writable = d.writable /\ e.pos = d.pos /\ e.vol = d.vol
    BY DEF TapeSound, IsTape, TapeFields
  <2> HIDE DEF e
  <2> QED BY <1>3, <2>1, <2>2 DEF TapeSound
<1>4. CASE op = "mark"
  <2> DEFINE v == [d.vol EXCEPT ![d.pos] = Mark]
             n == d.pos + 1
             e == [d EXCEPT !.vol = v, !.pos = n, !.reading = FALSE, !.writing = FALSE]
  <2>1. y = e
    BY <1>4 DEF Obeyed, TapeSound, IsTape, TapeFields
  <2>2. /\ DOMAIN v = DOMAIN d.vol /\ n \in Nat
        /\ \A a \in DOMAIN d.vol : v[a] # d.vol[a] => a = d.pos
    BY DEF TapeSound
  <2>3. d.writable
    BY <1>4 DEF Refuses
  <2> HIDE DEF v, n
  <2>4. /\ IsTape(e) /\ e.card = d.card /\ e.writable = d.writable /\ e.pos = n /\ e.vol = v
        /\ e.writing = FALSE
    BY DEF TapeSound, IsTape, TapeFields
  <2> HIDE DEF e
  <2> QED BY <1>4, <2>1, <2>2, <2>3, <2>4
<1>5. CASE op = "read_mark"
  <2>1. y = ToMark(d)
    BY <1>5 DEF Obeyed
  <2> QED BY <1>5, <2>1, ToMarkIs
<1>6. CASE op = "status"
  <2> DEFINE e == [d EXCEPT !.pending = TRUE]
  <2>1. y = e
    BY <1>6 DEF Obeyed
  <2>2. IsTape(e) /\ e.card = d.card /\ e.writable = d.writable /\ e.pos = d.pos /\ e.vol = d.vol
    BY DEF TapeSound, IsTape, TapeFields
  <2> HIDE DEF e
  <2> QED BY <1>6, <2>1, <2>2 DEF TapeSound
<1>7. CASE op \in {"select", "other"}
  <2> DEFINE g == (op = "select")
             e == [d EXCEPT !.selected = g]
  <2>1. y = e
    BY <1>7 DEF Obeyed
  <2> HIDE DEF g
  <2>2. IsTape(e) /\ e.card = d.card /\ e.writable = d.writable /\ e.pos = d.pos /\ e.vol = d.vol
    BY DEF TapeSound, IsTape, TapeFields
  <2> HIDE DEF e
  <2> QED BY <1>7, <2>1, <2>2 DEF TapeSound
<1>8. CASE op \notin {"bot", "retension", "read", "write", "mark", "read_mark", "status",
                      "select", "other"}
  <2>1. y = d
    BY <1>8 DEF Obeyed
  <2> QED BY <1>8, <2>1 DEF TapeSound
<1> QED BY <1>1, <1>2, <1>3, <1>4, <1>5, <1>6, <1>7, <1>8

\* issue_command: refused, it leaves the cartridge as it is; taken, it is the
\* tape's new command.
LEMMA IssueCommandIs ==
  ASSUME NEW d, TapeSound(d), NEW t \in Nat, t <= MaxNow["tape"], NEW op
  PROVE  LET e == IssueCommand(d, t, op) IN
         /\ Refuses(d, op) => TapeKin(e, d) /\ Live(e.card)
         /\ ~Refuses(d, op) =>
              /\ TapeSound(e) /\ e.card.ctl = d.card.ctl /\ Live(e.card)
              /\ TapeDid(e, TapeJob(d, op))
<1>1. CASE Refuses(d, op)
  <2> DEFINE l == d.latches \cup {"illegal"}
             m == IF op \in {"unknown", "other"} THEN l ELSE d.latches
             r == [d EXCEPT !.latches = m]
  <2>1. IssueCommand(d, t, op) = Except(r)
    <3>1. Refused(d, op) = r
      BY DEF Refused, TapeSound, IsTape, TapeFields
    <3> HIDE DEF r
    <3> QED BY <1>1, <3>1 DEF IssueCommand
  <2> HIDE DEF m
  <2>2. /\ IsTape(r) /\ r.card = d.card /\ r.vol = d.vol /\ r.writable = d.writable
        /\ r.writing = d.writing /\ r.svalid = d.svalid /\ r.pos = d.pos
    BY DEF TapeSound, IsTape, TapeFields
  <2> HIDE DEF r
  <2>3. TapeKin(r, d)
    BY <2>2, TapeAside DEF TapeSound
  <2>4. TapeKin(Except(r), r) /\ Live(Except(r).card)
    BY <2>3, ExceptIs DEF TapeKin
  <2>5. TapeKin(Except(r), d)
    BY <2>3, <2>4, TapeKinTrans DEF TapeSound
  <2> QED BY <1>1, <2>1, <2>4, <2>5
<1>2. CASE ~Refuses(d, op)
  <2> DEFINE o == Obeyed(d, op)
             k == Accepted(o.card, t)
             p == o.pending /\ op = "status"
             g == o.first /\ op \notin {"bot", "retension"}
             e == [o EXCEPT !.card = k, !.valid = FALSE, !.off = 0, !.svalid = FALSE,
                            !.soff = 0, !.pending = p, !.first = g]
  <2>1. /\ IsTape(o) /\ o.card = d.card /\ o.writable = d.writable /\ o.pos \in Nat
        /\ DOMAIN o.vol = DOMAIN d.vol
        /\ op = "write" => o.pos = d.pos
        /\ op # "mark" => o.vol = d.vol
        /\ op = "mark" => /\ ~o.writing /\ d.writable
                          /\ \A a \in DOMAIN d.vol : o.vol[a] # d.vol[a] => a = d.pos
    BY <1>2, ObeyedIs
  <2>2. IssueCommand(d, t, op) = e
    <3> HIDE DEF o
    <3>1. IssueCommand(d, t, op) =
            [o EXCEPT !.card = Accepted(@, t), !.valid = FALSE, !.off = 0,
                      !.svalid = FALSE, !.soff = 0, !.pending = @ /\ op = "status",
                      !.first = @ /\ op \notin {"bot", "retension"}]
      BY <1>2 DEF IssueCommand, o
    <3> QED BY <2>1, <3>1 DEF IsTape, TapeFields
  <2> HIDE DEF o, p, g
  <2>3. CardSound(k) /\ k.ctl = d.card.ctl /\ Live(k)
    BY <2>1, AcceptedIs DEF TapeSound
  <2> HIDE DEF k
  <2>4. /\ IsTape(e) /\ e.card = k /\ e.vol = o.vol /\ e.writable = o.writable
        /\ e.writing = o.writing /\ e.pos = o.pos
    BY <2>1 DEF IsTape, TapeFields
  <2> HIDE DEF e
  <2>5. TapeSound(e)
    BY <2>1, <2>3, <2>4 DEF TapeSound
  <2> DEFINE j == TapeJob(d, op)
  <2>6. j.from = d.pos /\ j.op = op /\ j.before = d.vol
    BY DEF TapeJob
  <2> HIDE DEF j
  <2>7. TapeDid(e, j)
    BY <2>1, <2>4, <2>6 DEF TapeDid, TapeSound
  <2> QED BY <1>2, <2>2, <2>3, <2>4, <2>5, <2>7 DEF j
<1> QED BY <1>1, <1>2

\* An access that has nothing to do with the cartridge.
Mild(e, d) ==
    /\ TapeSound(e) /\ e.vol = d.vol /\ e.pos = d.pos /\ e.writable = d.writable
    /\ e.writing = d.writing

\* It leaves what the command has done.
LEMMA MildDid ==
  ASSUME NEW d, NEW e, Mild(e, d), NEW j, TapeDid(d, j)
  PROVE  TapeDid(e, j)
BY DEF Mild, TapeDid

\* accept_byte: the last byte of a block writes it where the tape is, if it can.
LEMMA AcceptByteIs ==
  ASSUME NEW d, TapeSound(d), d.writing, NEW t \in Nat, t <= MaxNow["tape"], NEW v
  PROVE  TapeKin(AcceptByte(d, t, v), d)
<1> DEFINE at == IF d.valid THEN d.off ELSE 0
           n == at + 1
           b == IF at < BlockBytes THEN [d.buf EXCEPT ![n] = v] ELSE d.buf
           e == [d EXCEPT !.valid = TRUE, !.off = n, !.buf = b]
           full == [e EXCEPT !.off = 0, !.valid = FALSE]
           kept == DriveReady(e) /\ e.writable /\ e.pos < End(e)
           w == [full.vol EXCEPT ![e.pos] = e.buf]
           p == full.pos + 1
           put == [full EXCEPT !.vol = w, !.pos = p]
           done == IF kept THEN put ELSE Except(full)
           k == BlockBoundary(done.card, t)
           y == [done EXCEPT !.card = k]
<1>1. AcceptByte(d, t, v) = IF at + 1 < BlockBytes THEN e ELSE y
  <2>1. e = [d EXCEPT !.valid = TRUE, !.off = at + 1,
            !.buf = IF at < BlockBytes THEN [@ EXCEPT ![at + 1] = v] ELSE @]
    BY DEF TapeSound, IsTape, TapeFields
  <2>2. IsTape(full)
    BY DEF TapeSound, IsTape, TapeFields
  <2>3. put = [full EXCEPT !.vol[e.pos] = e.buf, !.pos = @ + 1]
    <3> HIDE DEF full, e
    <3> QED BY <2>2 DEF put, w, p, IsTape, TapeFields
  <2> DEFINE dd == IF kept THEN [full EXCEPT !.vol[e.pos] = e.buf, !.pos = @ + 1]
                   ELSE Except(full)
  <2>4. done = dd
    <3> HIDE DEF put
    <3> QED BY <2>3
  <2>5. AcceptByte(d, t, v) = IF at + 1 < BlockBytes THEN e
                              ELSE [dd EXCEPT !.card = BlockBoundary(@, t)]
    <3> DEFINE ee == [d EXCEPT !.valid = TRUE, !.off = at + 1,
            !.buf = IF at < BlockBytes THEN [@ EXCEPT ![at + 1] = v] ELSE @]
    <3>1. e = ee
      BY <2>1
    <3> HIDE DEF e
    <3> QED BY <3>1 DEF AcceptByte, dd, kept, full, at
  <2> HIDE DEF dd, done
  <2> QED BY <2>4, <2>5
<1> HIDE DEF n, b
<1>2. /\ IsTape(e) /\ e.card = d.card /\ e.vol = d.vol /\ e.pos = d.pos /\ e.writable = d.writable
      /\ e.writing = d.writing /\ e.svalid = d.svalid
  BY DEF TapeSound, IsTape, TapeFields
<1> HIDE DEF e
<1>3. TapeKin(e, d)
  <2> HIDE DEF full, w, p, put, kept, done, k, y
  <2>1. CardSound(e.card) /\ e.card.ctl = d.card.ctl /\ (Live(d.card) => Live(e.card))
        /\ e.pos \in Nat /\ d.pos <= e.pos
    BY <1>2 DEF TapeSound
  <2> QED BY <1>2, <2>1, TapeAside
<1>4. /\ IsTape(full) /\ full.card = d.card /\ full.vol = d.vol /\ full.pos = d.pos
      /\ full.writable = d.writable /\ full.writing = d.writing /\ full.svalid = d.svalid
  BY <1>2 DEF IsTape, TapeFields
<1> HIDE DEF full
<1>5. TapeKin(full, d) /\ TapeSound(full)
  BY <1>4, TapeAside DEF TapeSound, TapeKin
<1>6. kept => TapeKin(put, d)
  <2> SUFFICES ASSUME kept PROVE TapeKin(put, d)
    OBVIOUS
  <2>1. d.writable
    BY <1>2
  <2>2. /\ DOMAIN w = DOMAIN d.vol /\ p \in Nat /\ p = d.pos + 1
        /\ \A a \in DOMAIN d.vol : w[a] # d.vol[a] => a = d.pos
    BY <1>2, <1>4 DEF TapeSound
  <2> HIDE DEF w, p, kept
  <2>3. /\ IsTape(put) /\ put.card = d.card /\ put.vol = w /\ put.pos = p
        /\ put.writable = d.writable /\ put.writing = d.writing /\ put.svalid = d.svalid
    BY <1>4 DEF IsTape, TapeFields
  <2> HIDE DEF put
  <2>4. TapeSound(put)
    BY <2>2, <2>3 DEF TapeSound
  <2>5. \A a \in DOMAIN d.vol : put.vol[a] # d.vol[a] =>
          d.writable /\ d.writing /\ a \in d.pos .. put.pos - 1
    BY <2>1, <2>2, <2>3 DEF TapeSound
  <2> QED BY <2>2, <2>3, <2>4, <2>5 DEF TapeKin, TapeSound
<1>7. TapeKin(Except(full), d)
  <2>1. TapeKin(Except(full), full)
    BY <1>5, ExceptIs
  <2> QED BY <1>5, <2>1, TapeKinTrans DEF TapeSound
<1>8. TapeKin(done, d)
  <2> HIDE DEF kept, put
  <2> QED BY <1>6, <1>7
<1> HIDE DEF done
<1>9. CardSound(k) /\ k.ctl = done.card.ctl /\ Live(k)
  BY <1>8, BlockBoundaryIs DEF TapeKin, TapeSound
<1> HIDE DEF k
<1>10. TapeKin(y, done)
  BY <1>8, <1>9, NewCard DEF TapeKin
<1> HIDE DEF y
<1>11. TapeKin(y, d)
  BY <1>8, <1>10, TapeKinTrans DEF TapeSound
<1> QED BY <1>1, <1>3, <1>11

\* A byte in the data register is a command when the host asks for one, or data.
LEMMA WriteDataIs ==
  ASSUME NEW d, TapeSound(d), NEW t \in Nat, t <= MaxNow["tape"], NEW v
  PROVE  LET e == WriteData(d, t, v) IN
         /\ ~d.svalid /\ "request" \in d.card.ctl => e = IssueCommand(d, t, v)
         /\ ~(~d.svalid /\ "request" \in d.card.ctl) => TapeKin(e, d)
<1>1. CASE ~d.svalid /\ "request" \in d.card.ctl
  BY <1>1 DEF WriteData
<1>2. CASE ~(~d.svalid /\ "request" \in d.card.ctl) /\ d.writing
  BY <1>2, AcceptByteIs DEF WriteData
<1>3. CASE ~(~d.svalid /\ "request" \in d.card.ctl) /\ ~d.writing
  <2> DEFINE c == d.card
             k == [c EXCEPT !.data = v]
             e == [d EXCEPT !.card = k]
  <2>1. WriteData(d, t, v) = e
    BY <1>3 DEF WriteData
  <2>2. CardSound(c)
    BY DEF TapeSound
  <2>3. CardSound(k) /\ k.ctl = c.ctl /\ (Live(c) => Live(k))
    <3> HIDE DEF c
    <3>2. /\ IsCard(k) /\ k.dating = c.dating /\ k.ctl = c.ctl
          /\ k.ready = c.ready /\ k.arming = c.arming
          /\ k.exception = c.exception /\ k.done = c.done /\ k.dma = c.dma
          /\ k.readyAt = c.readyAt
          /\ k.testing = c.testing /\ k.exceptionAt = c.exceptionAt
          /\ k.closeAt = c.closeAt /\ k.reopenAt = c.reopenAt
      BY <2>2 DEF CardSound, IsCard, CardFields
    <3> HIDE DEF k
    <3> QED BY <2>2, <3>2 DEF CardSound, Live
  <2> HIDE DEF k
  <2>4. TapeKin(e, d)
    BY <2>3, NewCard
  <2> QED BY <1>3, <2>1, <2>4
<1> QED BY <1>1, <1>2, <1>3

\* A byte of the status read, ...
LEMMA StatusByteTakenIs ==
  ASSUME NEW d, TapeSound(d)
  PROVE  LET e == StatusByteTaken(d) IN Mild(e, d) /\ e.card.ctl = d.card.ctl
<1> DEFINE n == IF d.soff < StatusBytes THEN d.soff + 1 ELSE d.soff
           k == ByteTaken(d.card)
           e == [d EXCEPT !.soff = n, !.card = k]
<1>1. StatusByteTaken(d) = e
  BY DEF StatusByteTaken, TapeSound, IsTape, TapeFields
<1>2. CardSound(k) /\ k.ctl = d.card.ctl
  BY ByteTakenIs DEF TapeSound
<1> HIDE DEF n, k
<1>3. /\ IsTape(e) /\ e.card = k /\ e.vol = d.vol /\ e.pos = d.pos /\ e.writable = d.writable
      /\ e.writing = d.writing
  BY DEF TapeSound, IsTape, TapeFields
<1> HIDE DEF e
<1> QED BY <1>1, <1>2, <1>3 DEF Mild, TapeSound

\* ... and the request taken back are such accesses.
LEMMA RequestDownIs ==
  ASSUME NEW d, TapeSound(d), NEW t \in Nat, t <= MaxNow["tape"]
  PROVE  LET e == RequestDown(d, t) IN
         Mild(e, d) /\ e.card.ctl = d.card.ctl /\ Live(e.card)
<1> DEFINE n == FALSE
           m == TRUE
           c == [d.card EXCEPT !.direction = n]
           g == [d.card EXCEPT !.direction = m]
           s == Conditions(d)
           a == [d EXCEPT !.svalid = FALSE, !.soff = 0, !.card = c]
           b == [d EXCEPT !.status = s, !.latches = {}, !.pending = FALSE,
                          !.svalid = TRUE, !.soff = 0, !.card = g]
           given == IF d.svalid THEN IF d.soff < StatusBytes THEN d ELSE a
                    ELSE IF d.pending /\ ~Executing(d.card) THEN b ELSE d
           k == RequestReleased(given.card, t)
           e == [given EXCEPT !.card = k]
<1>1. RequestDown(d, t) = e
  <2>1. /\ a = [d EXCEPT !.svalid = FALSE, !.soff = 0, !.card.direction = FALSE]
        /\ b = [d EXCEPT !.status = s, !.latches = {}, !.pending = FALSE,
                          !.svalid = TRUE, !.soff = 0, !.card.direction = TRUE]
    BY DEF TapeSound, IsTape, TapeFields
  <2> HIDE DEF a, b, s
  <2> QED BY <2>1 DEF RequestDown, s
<1>2. /\ CardSound(c) /\ c.ctl = d.card.ctl
      /\ CardSound(g) /\ g.ctl = d.card.ctl
  BY DirectionIs DEF TapeSound
<1> HIDE DEF c, g, s
<1>3. /\ IsTape(a) /\ a.card = c /\ a.vol = d.vol /\ a.pos = d.pos /\ a.writable = d.writable
      /\ a.writing = d.writing
  BY DEF TapeSound, IsTape, TapeFields
<1>4. /\ IsTape(b) /\ b.card = g /\ b.vol = d.vol /\ b.pos = d.pos /\ b.writable = d.writable
      /\ b.writing = d.writing
  BY DEF TapeSound, IsTape, TapeFields
<1> HIDE DEF a, b
<1>5. Mild(given, d) /\ given.card.ctl = d.card.ctl
  <2>1. Mild(a, d) /\ Mild(b, d) /\ Mild(d, d)
    BY <1>2, <1>3, <1>4 DEF Mild, TapeSound
  <2> QED BY <1>2, <1>3, <1>4, <2>1
<1> HIDE DEF given
<1>6. CardSound(k) /\ k.ctl = given.card.ctl /\ Live(k)
  BY <1>5, RequestReleasedIs DEF Mild, TapeSound
<1> HIDE DEF k
<1>7. /\ TapeSound(e) /\ e.card = k /\ e.vol = given.vol /\ e.pos = given.pos
      /\ e.writable = given.writable /\ e.writing = given.writing
  BY <1>5, <1>6, NewCard DEF Mild
<1> HIDE DEF e
<1> QED BY <1>1, <1>5, <1>6, <1>7 DEF Mild

\* A reset: the tape rewinds and writes no more.
LEMMA ResetTapeIs ==
  ASSUME NEW d, TapeSound(d), NEW k, CardSound(k)
  PROVE  LET e == [[DriveReset(d) EXCEPT !.svalid = FALSE, !.soff = 0, !.valid = FALSE,
                                         !.off = 0, !.first = TRUE, !.byteAt = 0]
                     EXCEPT !.card = k]
         IN  TapeSound(e) /\ e.card = k /\ e.vol = d.vol
<1> DEFINE l == {"power"}
           e == [d EXCEPT !.selected = TRUE, !.pos = 0, !.reading = FALSE, !.writing = FALSE,
                          !.pending = FALSE, !.latches = l, !.svalid = FALSE, !.soff = 0,
                          !.valid = FALSE, !.off = 0, !.first = TRUE, !.byteAt = 0, !.card = k]
<1>1. [[DriveReset(d) EXCEPT !.svalid = FALSE, !.soff = 0, !.valid = FALSE,
                             !.off = 0, !.first = TRUE, !.byteAt = 0] EXCEPT !.card = k] = e
  BY DEF DriveReset
<1> HIDE DEF l
<1>2. /\ IsTape(e) /\ e.card = k /\ e.vol = d.vol /\ e.pos = 0 /\ e.writable = d.writable
  BY DEF TapeSound, IsTape, TapeFields
<1> HIDE DEF e
<1>3. TapeSound(e)
  BY <1>2 DEF TapeSound
<1> QED BY <1>1, <1>2, <1>3

\* A write of the control register.
LEMMA WriteCtlIs ==
  ASSUME NEW d, TapeSound(d), NEW t \in Nat, t <= MaxNow["tape"], NEW v,
         ~({"reset", "request"} \subseteq v), ~({"reset", "request"} \subseteq d.card.ctl)
  PROVE  LET e == WriteCtl(d, t, v)
             op == d.card.data
             asks == "request" \in v \ d.card.ctl /\ ~d.svalid
         IN  /\ TapeSound(e) /\ e.card.ctl = v
             /\ ~(asks /\ ~Refuses(d, op)) /\ "reset" \notin v =>
                  \A j : TapeDid(d, j) => TapeDid(e, j)
             /\ asks /\ ~Refuses(d, op) => TapeDid(e, TapeJob(d, op))
             /\ v \cap {"request", "reset"} = {}
                  /\ (\/ "reset" \in d.card.ctl /\ Wide(d.card, t)
                      \/ d.card.ctl \cap {"request", "reset"} = {} /\ Live(d.card)
                      \/ "request" \in d.card.ctl)
                  => Live(e.card)
<1> DEFINE k == WriteControl(d.card, v, t)
           y == WriteCtl(d, t, v)
           op == d.card.data
           asks == "request" \in v \ d.card.ctl /\ ~d.svalid
<1>1. /\ CardSound(k) /\ k.ctl = v
      /\ "reset" \notin v => k.dma = d.card.dma /\ k.data = d.card.data
      /\ "reset" \notin v /\ "reset" \notin d.card.ctl /\ Live(d.card) => Live(k)
      /\ "reset" \notin v /\ "reset" \in d.card.ctl /\ Wide(d.card, t) => Live(k)
  BY WriteControlIs DEF TapeSound
<1>2. CASE "reset" \in v
  <2> DEFINE r == [DriveReset(d) EXCEPT !.svalid = FALSE, !.soff = 0, !.valid = FALSE,
                                        !.off = 0, !.first = TRUE, !.byteAt = 0]
             e == [r EXCEPT !.card = k]
  <2>1. r.card = d.card
    BY DEF DriveReset, TapeSound, IsTape, TapeFields
  <2>2. y = IF "request" \in d.card.ctl \ v THEN RequestDown(e, 0) ELSE e
    <3>1. e = [r EXCEPT !.card = WriteControl(@, v, t)]
      <4> HIDE DEF r
      <4> QED BY <2>1
    <3>2. "request" \notin v
      BY <1>2
    <3> HIDE DEF k
    <3> DEFINE ee == [r EXCEPT !.card = WriteControl(@, v, t)]
    <3>3. y = IF "request" \in d.card.ctl \ v THEN RequestDown(ee, 0) ELSE ee
      BY <1>2, <3>2 DEF WriteCtl
    <3> HIDE DEF e, ee, y
    <3> QED BY <3>1, <3>3 DEF ee
  <2> HIDE DEF k, y
  <2>3. TapeSound(e) /\ e.card = k /\ e.vol = d.vol
    BY <1>1, ResetTapeIs
  <2> HIDE DEF e
  <2>4. Mild(RequestDown(e, 0), e) /\ RequestDown(e, 0).card.ctl = e.card.ctl
    <3>1. 0 \in Nat /\ 0 <= MaxNow["tape"]
      BY CardTimes
    <3> QED BY <2>3, <3>1, RequestDownIs
  <2>5. TapeSound(y) /\ y.card.ctl = v
    BY <1>1, <2>2, <2>3, <2>4 DEF Mild
  <2>6. ~asks
    BY <1>2
  <2> QED BY <1>2, <2>5, <2>6 DEF y
<1>3. CASE "reset" \notin v
  <2> DEFINE e == [d EXCEPT !.card = k]
  <2>1. y = CASE "request" \in v \ d.card.ctl ->
                   IF e.svalid THEN StatusByteTaken(e) ELSE IssueCommand(e, t, e.card.data)
              [] "request" \in d.card.ctl \ v -> RequestDown(e, t)
              [] OTHER -> e
    BY <1>3 DEF WriteCtl
  <2> HIDE DEF k, y
  <2>2. /\ TapeSound(e) /\ e.card = k
        /\ e.vol = d.vol /\ e.pos = d.pos /\ e.writable = d.writable /\ e.writing = d.writing
        /\ e.svalid = d.svalid /\ e.selected = d.selected /\ e.loaded = d.loaded
    BY <1>1, NewCard
  <2> HIDE DEF e
  <2>3. Mild(e, d) /\ \A j : TapeDid(d, j) => TapeDid(e, j)
    <3>1. Mild(e, d)
      BY <2>2 DEF Mild
    <3> QED BY <3>1, MildDid
  <2>4. CASE "request" \in v \ d.card.ctl /\ ~d.svalid
    <3>1. y = IssueCommand(e, t, op)
      BY <1>1, <1>3, <2>1, <2>2, <2>4
    <3>2. Refuses(e, op) = Refuses(d, op)
      BY <2>2 DEF Refuses, DriveReady, End
    <3> HIDE DEF op
    <3>3. /\ Refuses(e, op) => TapeKin(y, e)
          /\ ~Refuses(e, op) => TapeSound(y) /\ y.card.ctl = e.card.ctl
                                /\ TapeDid(y, TapeJob(e, op))
      BY <2>2, <3>1, IssueCommandIs
    <3>4. CASE Refuses(e, op)
      <4>1. TapeSound(y) /\ y.card.ctl = v
        BY <1>1, <2>2, <3>3, <3>4 DEF TapeKin
      <4>2. \A j : TapeDid(e, j) => TapeDid(y, j)
        BY <2>2, <3>3, <3>4, KinDid
      <4> QED BY <2>3, <2>4, <3>2, <3>4, <4>1, <4>2 DEF y, op
    <3>5. CASE ~Refuses(e, op)
      <4>1. TapeSound(y) /\ y.card.ctl = v /\ TapeDid(y, TapeJob(e, op))
        BY <1>1, <2>2, <3>3, <3>5
      <4>2. /\ TapeJob(e, op).before = TapeJob(d, op).before
            /\ TapeJob(e, op).from = TapeJob(d, op).from /\ TapeJob(e, op).op = TapeJob(d, op).op
        BY <2>2 DEF TapeJob
      <4>3. TapeDid(y, TapeJob(d, op))
        BY <4>1, <4>2 DEF TapeDid
      <4> QED BY <2>4, <3>2, <3>5, <4>1, <4>3 DEF y, op
    <3> QED BY <3>4, <3>5
  <2>5. CASE "request" \in v \ d.card.ctl /\ d.svalid
    <3>1. y = StatusByteTaken(e)
      BY <2>1, <2>2, <2>5
    <3>2. Mild(y, e) /\ y.card.ctl = v
      BY <1>1, <2>2, <3>1, StatusByteTakenIs
    <3>3. \A j : TapeDid(e, j) => TapeDid(y, j)
      BY <3>2, MildDid
    <3> QED BY <2>3, <2>5, <3>2, <3>3 DEF Mild, y
  <2>6. CASE "request" \in d.card.ctl \ v
    <3>1. y = RequestDown(e, t)
      BY <2>1, <2>6
    <3>2. Mild(y, e) /\ y.card.ctl = v /\ Live(y.card)
      BY <1>1, <2>2, <3>1, RequestDownIs
    <3>3. \A j : TapeDid(e, j) => TapeDid(y, j)
      BY <3>2, MildDid
    <3> QED BY <2>3, <2>6, <3>2, <3>3 DEF Mild, y
  <2>7. CASE "request" \notin v \ d.card.ctl /\ "request" \notin d.card.ctl \ v
    <3>1. y = e
      BY <2>1, <2>7
    <3>2. /\ v \cap {"request", "reset"} = {}
               /\ (\/ "reset" \in d.card.ctl /\ Wide(d.card, t)
                   \/ d.card.ctl \cap {"request", "reset"} = {} /\ Live(d.card)
                   \/ "request" \in d.card.ctl)
               => Live(k)
      BY <1>1, <1>3, <2>7
    <3> QED BY <1>1, <2>2, <2>3, <2>7, <3>1, <3>2 DEF y
  <2> QED BY <2>4, <2>5, <2>6, <2>7
<1> QED BY <1>2, <1>3

\* A block for the host to read.
LEMMA EnsureBlockIs ==
  ASSUME NEW d, TapeSound(d), NEW t \in Nat, t <= MaxNow["tape"]
  PROVE  TapeKin(EnsureBlock(d, t), d)
<1> DEFINE k == BlockBoundary(d.card, t)
<1>0. CardSound(k) /\ k.ctl = d.card.ctl /\ Live(k)
  BY BlockBoundaryIs DEF TapeSound
<1>1. CASE ~NeedsBlock(d)
  BY <1>1, TapeSelf DEF EnsureBlock
<1>2. CASE NeedsBlock(d) /\ d.first /\ d.valid
  <2> DEFINE e == [d EXCEPT !.first = FALSE, !.off = 0, !.card = k]
  <2>1. EnsureBlock(d, t) = e
    BY <1>2 DEF EnsureBlock
  <2> HIDE DEF k
  <2>2. /\ IsTape(e) /\ e.card = k /\ e.vol = d.vol /\ e.pos = d.pos /\ e.writable = d.writable
        /\ e.writing = d.writing /\ e.svalid = d.svalid
    BY DEF TapeSound, IsTape, TapeFields
  <2> HIDE DEF e
  <2>3. TapeKin(e, d)
    BY <1>0, <2>2, TapeAside DEF TapeSound
  <2> QED BY <2>1, <2>3
<1>3. CASE NeedsBlock(d) /\ ~(d.first /\ d.valid) /\ (Exhausted(d) \/ ~DriveReady(d))
  <2> DEFINE n == FALSE
             e == [d EXCEPT !.valid = n]
  <2>1. \/ EnsureBlock(d, t) = EndRead(e)
        \/ EnsureBlock(d, t) = e
    BY <1>3 DEF EnsureBlock
  <2> HIDE DEF n
  <2>2. /\ IsTape(e) /\ e.card = d.card /\ e.vol = d.vol /\ e.pos = d.pos
        /\ e.writable = d.writable /\ e.writing = d.writing /\ e.svalid = d.svalid
    BY DEF TapeSound, IsTape, TapeFields
  <2> HIDE DEF e
  <2>3. TapeKin(e, d)
    <3>1. CardSound(e.card) /\ e.card.ctl = d.card.ctl /\ (Live(d.card) => Live(e.card))
          /\ e.pos \in Nat /\ d.pos <= e.pos
      BY <2>2 DEF TapeSound
    <3> QED BY <2>2, <3>1, TapeAside
  <2>4. TapeKin(EndRead(e), e)
    BY <2>3, EndReadIs DEF TapeKin
  <2>5. TapeKin(EndRead(e), d)
    BY <2>3, <2>4, TapeKinTrans DEF TapeSound
  <2> QED BY <2>1, <2>3, <2>5
<1>4. CASE NeedsBlock(d) /\ ~(d.first /\ d.valid) /\ ~Exhausted(d) /\ DriveReady(d)
  <2> DEFINE b == d.vol[d.pos]
             n == d.pos + 1
             e == [d EXCEPT !.buf = b, !.pos = n, !.off = 0, !.valid = TRUE, !.card = k]
  <2>1. EnsureBlock(d, t) = e
    BY <1>4 DEF EnsureBlock, TapeSound, IsTape, TapeFields
  <2>0. n \in Nat /\ d.pos <= n
    BY DEF TapeSound
  <2> HIDE DEF k, b, n
  <2>2. /\ IsTape(e) /\ e.card = k /\ e.vol = d.vol /\ e.pos = n /\ e.writable = d.writable
        /\ e.writing = d.writing /\ e.svalid = d.svalid
    BY DEF TapeSound, IsTape, TapeFields
  <2> HIDE DEF e
  <2>3. TapeKin(e, d)
    BY <1>0, <2>0, <2>2, TapeAside DEF TapeSound
  <2> QED BY <2>1, <2>3
<1> QED BY <1>1, <1>2, <1>3, <1>4

\* A DMA cycle.
LEMMA DmaByteIs ==
  ASSUME NEW d, TapeSound(d), NEW t \in Nat, t <= MaxNow["tape"]
  PROVE  TapeKin(DmaByte(d, t).dev, d)
<1> DEFINE at == t + ByteTime
           n == TRUE
<1>1. CASE d.svalid
  BY <1>1, TapeSelf DEF DmaByte
<1>2. CASE ~d.svalid /\ NeedsBlock(d) /\ ~d.markSent /\ d.card.dma /\ AtMark(d)
  <2> DEFINE k == [d.card EXCEPT !.direction = n]
             e == [d EXCEPT !.markSent = TRUE, !.card = k, !.byteAt = at]
  <2>1. DmaByte(d, t).dev = e
    BY <1>2 DEF DmaByte, TapeSound, IsTape, TapeFields
  <2>2. CardSound(k) /\ k.ctl = d.card.ctl /\ (Live(d.card) => Live(k))
    BY DirectionIs DEF TapeSound
  <2> HIDE DEF k, at, n
  <2>3. /\ IsTape(e) /\ e.card = k /\ e.vol = d.vol /\ e.pos = d.pos /\ e.writable = d.writable
        /\ e.writing = d.writing /\ e.svalid = d.svalid
    BY DEF TapeSound, IsTape, TapeFields
  <2> HIDE DEF e
  <2>4. TapeKin(e, d)
    BY <2>2, <2>3, TapeAside DEF TapeSound
  <2> QED BY <2>1, <2>4
<1>3. CASE ~d.svalid /\ ~(NeedsBlock(d) /\ ~d.markSent /\ d.card.dma /\ AtMark(d))
  <2> DEFINE e == EnsureBlock(d, t)
             k == [e.card EXCEPT !.direction = n]
             f == e.off + 1
             g == [e EXCEPT !.off = f, !.card = k, !.byteAt = at]
  <2>1. TapeKin(e, d)
    BY EnsureBlockIs
  <2>2. DmaByte(d, t).dev = IF NeedsBlock(e) THEN DmaOver(Except(e)) ELSE g
    <3>1. IsTape(e)
      BY <2>1 DEF TapeKin, TapeSound
    <3>2. DmaByte(d, t).dev =
            IF NeedsBlock(e) THEN DmaOver(Except(e))
            ELSE [e EXCEPT !.off = @ + 1, !.card.direction = TRUE, !.byteAt = t + ByteTime]
      <4> HIDE DEF e
      <4>1. CASE NeedsBlock(e)
        BY <1>3, <4>1 DEF DmaByte, e
      <4>2. CASE ~NeedsBlock(e)
        BY <1>3, <4>2 DEF DmaByte, e
      <4> QED BY <4>1, <4>2
    <3> HIDE DEF e
    <3>3. g = [e EXCEPT !.off = @ + 1, !.card.direction = TRUE, !.byteAt = t + ByteTime]
      BY <3>1 DEF IsTape, TapeFields
    <3> HIDE DEF g
    <3> QED BY <3>2, <3>3
  <2> HIDE DEF e, f, at, n
  <2>3. TapeKin(DmaOver(Except(e)), d)
    <3> DEFINE x == Except(e)
    <3>1. TapeKin(x, e)
      BY <2>1, ExceptIs DEF TapeKin
    <3> HIDE DEF x
    <3>2. TapeKin(DmaOver(x), x)
      BY <3>1, DmaOverIs DEF TapeKin
    <3>3. TapeKin(x, d)
      BY <2>1, <3>1, TapeKinTrans DEF TapeSound
    <3>4. TapeKin(DmaOver(x), d)
      BY <3>2, <3>3, TapeKinTrans DEF TapeSound
    <3> QED BY <3>4 DEF x
  <2>4. TapeKin(g, d)
    <3>1. CardSound(k) /\ k.ctl = e.card.ctl /\ (Live(e.card) => Live(k))
      BY <2>1, DirectionIs DEF TapeKin, TapeSound
    <3> HIDE DEF k
    <3>2. /\ IsTape(g) /\ g.card = k /\ g.vol = e.vol /\ g.pos = e.pos /\ g.writable = e.writable
          /\ g.writing = e.writing /\ g.svalid = e.svalid
      BY <2>1 DEF TapeKin, TapeSound, IsTape, TapeFields
    <3> HIDE DEF g
    <3>3. TapeKin(g, e)
      BY <2>1, <3>1, <3>2, TapeAside DEF TapeKin, TapeSound
    <3> QED BY <2>1, <3>3, TapeKinTrans DEF TapeSound
  <2> QED BY <2>2, <2>3, <2>4
<1> QED BY <1>1, <1>2, <1>3

\* The tape at power on, with a cartridge or none.
LEMMA TapeStartSound ==
  ASSUME NEW c \in Cartridges \cup {NoCartridge}, c.writable \in BOOLEAN
  PROVE  LET d == TapeStart(c) IN
         /\ TapeSound(d) /\ d.card.ctl = {} /\ Quiet(d) /\ Live(d.card)
         /\ TapeDid(d, TapeJob(d, "reset"))
<1> DEFINE n == {}
           k == PowerOnTest(CardReset)
           l == (c # NoCartridge)
           w == c.writable
           v == [b \in 0 .. Len(c.blocks) - 1 |-> c.blocks[b + 1]]
           s == {"power"}
           m == Mark
           d == [card |-> k, loaded |-> l, writable |-> w, vol |-> v,
                 pos |-> 0, selected |-> TRUE, reading |-> FALSE, writing |-> FALSE,
                 pending |-> FALSE, latches |-> s, buf |-> m, off |-> 0, valid |-> FALSE,
                 status |-> n, soff |-> 0, svalid |-> FALSE,
                 byteAt |-> 0, first |-> TRUE, markSent |-> FALSE]
<1>1. TapeStart(c) = d
  <2> HIDE DEF k
  <2> QED BY DEF TapeStart, k
<1>2. Len(c.blocks) \in Nat
  BY CartridgeAssumption DEF NoCartridge
<1>3. Cardinality(DOMAIN v) \in Nat
  <2>1. DOMAIN v = 0 .. Len(c.blocks) - 1
    OBVIOUS
  <2>2. IsFiniteSet(0 .. Len(c.blocks) - 1)
    BY <1>2, FS_Interval
  <2> QED BY <2>1, <2>2, FS_CardinalityType
<1>4. CardSound(k) /\ k.ctl = n /\ Live(k) /\ ~k.dating /\ ~k.dma
  <2> HIDE DEF l, w, v, s, m, d
  <2> DEFINE z == CardReset
             g == TRUE
             y == [z EXCEPT !.arming = g]
  <2>1. k = y
    BY DEF PowerOnTest
  <2>2. /\ IsCard(z) /\ z.ctl = n /\ z.ready = FALSE /\ z.exception = FALSE /\ z.done = TRUE
        /\ z.dma = FALSE /\ z.readyAt = Unset /\ z.testing = FALSE /\ z.exceptionAt = 0
        /\ z.dating = FALSE /\ z.closeAt = Unset /\ z.reopenAt = Unset
    BY DEF CardReset, IsCard, CardFields
  <2> HIDE DEF z, g, n
  <2>3. /\ IsCard(y) /\ y.ctl = n /\ y.ready = FALSE /\ y.exception = FALSE /\ y.done = TRUE
        /\ y.dma = FALSE /\ y.readyAt = Unset /\ y.testing = FALSE /\ y.exceptionAt = 0
        /\ y.dating = FALSE /\ y.closeAt = Unset /\ y.reopenAt = Unset /\ y.arming = g
    BY <2>2 DEF IsCard, CardFields
  <2> HIDE DEF y, k
  <2>4. y.arming
    BY <2>3 DEF g
  <2>5. CardSound(y)
    <3>1. Unset \in Nat
      BY CardTimes
    <3>2. y.ready \in BOOLEAN /\ y.exception \in BOOLEAN /\ y.done \in BOOLEAN
          /\ y.dma \in BOOLEAN /\ y.done = ~y.dma
      BY <2>3
    <3> QED BY <2>3, <3>1, <3>2 DEF CardSound
  <2> QED BY <2>1, <2>3, <2>4, <2>5 DEF Live
<1> HIDE DEF k, l, v, s, m
<1>5. /\ IsTape(d) /\ d.card = k /\ d.writable = w /\ d.vol = v /\ d.pos = 0
      /\ d.reading = FALSE
  <2> HIDE DEF n, w
  <2> QED BY DEF IsTape, TapeFields
<1> HIDE DEF d
<1>6. TapeSound(d)
  BY <1>3, <1>4, <1>5 DEF TapeSound
<1>7. Quiet(d)
  BY <1>4, <1>5 DEF Quiet, Exhausted
<1>8. TapeDid(d, TapeJob(d, "reset"))
  BY <1>5 DEF TapeDid, TapeJob
<1> QED BY <1>1, <1>4, <1>5, <1>6, <1>7, <1>8

-----------------------------------------------------------------------------
(* The 8 mm tape: what a command does to the records.                      *)

\* The drive's registers.
DriveFields == {"present", "loaded", "writable", "recs", "prevented", "block", "where", "at",
                "sense", "attention", "quiet"}
\* A drive has these, and only these.
IsDrive(d) == d = [x \in DriveFields |-> d[x]]

\* A list of records.
Recorded(recs) == \E S : recs \in Seq(S)

\* A drive that stands among its records.
DriveSound(d) ==
    /\ IsDrive(d) /\ Recorded(d.recs)
    /\ Len(d.recs) <= MaxRecords
    /\ d.at \in 0 .. Len(d.recs)
    /\ d.block \in Nat

\* What does not touch the records.
DriveAside(e, d) ==
    /\ IsDrive(e) /\ e.recs = d.recs /\ e.writable = d.writable
    /\ e.at \in 0 .. Len(d.recs) /\ e.block \in Nat

\* What a command c may do: nothing, or what it was for, from where the tape was.
ExbDid(r, d, c) ==
    /\ DriveSound(r.drive) /\ r.drive.writable = d.writable
    /\ SubSeq(r.drive.recs, 1, d.at) = SubSeq(d.recs, 1, d.at)
    /\ \/ r.drive.recs = d.recs
       \/ /\ c.op \in {"write", "marks", "erase"} /\ d.writable
          /\ r.status = "good" \/ r.drive.where = "peot"
          /\ c.op = "erase" => r.drive.recs = SubSeq(d.recs, 1, d.at)

\* It has a length.
LEMMA RecordedLen ==
  ASSUME NEW s, Recorded(s)
  PROVE  Len(s) \in Nat
<1>1. PICK S : s \in Seq(S)
  BY DEF Recorded
<1> QED BY <1>1, LenProperties

\* A command that does not touch the records has done nothing.
LEMMA AsideDid ==
  ASSUME NEW d, DriveSound(d), NEW c, NEW r, DriveAside(r.drive, d)
  PROVE  ExbDid(r, d, c)
BY DEF DriveSound, DriveAside, ExbDid

\* Nothing at all does not touch them.
LEMMA AsideSelf ==
  ASSUME NEW d, DriveSound(d)
  PROVE  DriveAside(d, d)
BY DEF DriveSound, DriveAside

\* Sense data are beside the records, ...
LEMMA SensedIs ==
  ASSUME NEW e, IsDrive(e), NEW s
  PROVE  LET x == [e EXCEPT !.sense = s] IN
         /\ IsDrive(x) /\ x.recs = e.recs /\ x.writable = e.writable /\ x.at = e.at
         /\ x.block = e.block /\ x.where = e.where
BY DEF IsDrive, DriveFields

\* ... and so is a failure, ...
LEMMA FailIs ==
  ASSUME NEW e, IsDrive(e), NEW bytes, NEW key, NEW flag, NEW info
  PROVE  LET r == FailWith(e, bytes, key, flag, info)
             x == r.drive IN
         /\ r.status = "check"
         /\ IsDrive(x) /\ x.recs = e.recs /\ x.writable = e.writable /\ x.at = e.at
         /\ x.block = e.block /\ x.where = e.where
<1> DEFINE s == [key |-> key, flag |-> flag, info |-> info]
           y == [e EXCEPT !.sense = s]
           r == FailWith(e, bytes, key, flag, info)
<1>1. r.drive = y /\ r.status = "check"
  BY DEF FailWith, Outcome
<1> HIDE DEF s, r
<1>2. /\ IsDrive(y) /\ y.recs = e.recs /\ y.writable = e.writable /\ y.at = e.at
      /\ y.block = e.block /\ y.where = e.where
  BY SensedIs
<1> HIDE DEF y
<1> QED BY <1>1, <1>2 DEF r

\* ... in any of its forms, ...
LEMMA FailAside ==
  ASSUME NEW d, NEW e, DriveAside(e, d), NEW bytes, NEW key, NEW flag, NEW info
  PROVE  DriveAside(FailWith(e, bytes, key, flag, info).drive, d)
<1> DEFINE x == FailWith(e, bytes, key, flag, info).drive
<1>1. /\ IsDrive(x) /\ x.recs = e.recs /\ x.writable = e.writable /\ x.at = e.at
      /\ x.block = e.block
  BY FailIs DEF DriveAside
<1> HIDE DEF x
<1>2. DriveAside(x, d)
  BY <1>1 DEF DriveAside
<1> QED BY <1>2 DEF x

\* ... and every plain outcome.
LEMMA PlainFailAside ==
  ASSUME NEW d, NEW e, DriveAside(e, d)
  PROVE  /\ \A key, flag, info : DriveAside(Fail(e, key, flag, info).drive, d)
         /\ DriveAside(IllegalRequest(e).drive, d) /\ DriveAside(MediumNotReady(e).drive, d)
         /\ DriveAside(DataProtect(e).drive, d) /\ DriveAside(Good(e).drive, d)
         /\ \A bytes : DriveAside(Outcome(e, bytes).drive, d)
<1>1. \A key, flag, info : DriveAside(Fail(e, key, flag, info).drive, d)
  BY FailAside DEF Fail
<1>2. \A bytes : DriveAside(Outcome(e, bytes).drive, d)
  BY DEF Outcome
<1> HIDE DEF DriveAside
<1> QED BY <1>1, <1>2 DEF IllegalRequest, MediumNotReady, DataProtect, Good

\* The tape moved.
LEMMA MovedAside ==
  ASSUME NEW d, NEW e, DriveAside(e, d), NEW at \in 0 .. Len(d.recs), NEW where
  PROVE  DriveAside([e EXCEPT !.at = at, !.where = where], d)
<1> DEFINE x == [e EXCEPT !.at = at, !.where = where]
<1>1. /\ IsDrive(x) /\ x.recs = e.recs /\ x.writable = e.writable /\ x.at = at
      /\ x.block = e.block
  BY DEF DriveAside, IsDrive, DriveFields
<1> HIDE DEF x
<1>2. DriveAside(x, d)
  BY <1>1 DEF DriveAside
<1> QED BY <1>2 DEF x

\* ... or its place noted.
LEMMA WhereAside ==
  ASSUME NEW d, NEW e, DriveAside(e, d), NEW where
  PROVE  DriveAside([e EXCEPT !.where = where], d)
<1> DEFINE x == [e EXCEPT !.where = where]
<1>1. /\ IsDrive(x) /\ x.recs = e.recs /\ x.writable = e.writable /\ x.at = e.at
      /\ x.block = e.block
  BY DEF DriveAside, IsDrive, DriveFields
<1> HIDE DEF x
<1>2. DriveAside(x, d)
  BY <1>1 DEF DriveAside
<1> QED BY <1>2 DEF x

\* A set of naturals up to a bound has a greatest element.
LEMMA Greatest ==
  ASSUME NEW n \in Nat, NEW T \in SUBSET (0 .. n), T # {}
  PROVE  \E x \in T : \A y \in T : y <= x
<1> DEFINE R == {n - x : x \in T}
<1>1. R \in SUBSET Nat /\ R # {}
  <2>1. \A x \in T : n - x \in Nat
    OBVIOUS
  <2> QED BY <2>1
<1>2. PICK m \in R : \A y \in R : m <= y
  <2> HIDE DEF R
  <2> QED BY <1>1, Least
<1>3. PICK x \in T : m = n - x
  BY <1>2
<1>4. ASSUME NEW y \in T PROVE y <= x
  <2>1. m <= n - y
    BY <1>2
  <2> QED BY <2>1, <1>3
<1> QED BY <1>4

\* A set gathered an element at a time has each number of them at some time.
LEMMA Ranked ==
  ASSUME NEW T, IsFiniteSet(T), NEW L \in Nat, NEW u, NEW p,
         u[0] = {}, u[L] = T,
         \A m \in 1 .. L : u[m] = u[m - 1] \cup (T \cap {p[m]}) /\ p[m] \notin u[m - 1],
         \A m \in 0 .. L : u[m] \subseteq T,
         NEW k \in Nat, k # 0, k <= Cardinality(T)
  PROVE  \E m \in 1 .. L : p[m] \in T /\ Cardinality(u[m]) = k
<1> DEFINE S == {m \in Nat : m <= L /\ Cardinality(u[m]) >= k}
<1>1. L \in S
  OBVIOUS
<1>2. PICK m \in S : \A y \in S : m <= y
  <2>1. S \in SUBSET Nat /\ S # {}
    BY <1>1
  <2> HIDE DEF S
  <2> QED BY <2>1, Least
<1>3. m # 0
  BY <1>2, FS_EmptySet
<1>4. m \in 1 .. L /\ m - 1 \in 0 .. L /\ m - 1 \in Nat
  BY <1>2, <1>3
<1>5. m - 1 \notin S
  BY <1>2, <1>4
<1>6. IsFiniteSet(u[m - 1])
  BY <1>4, FS_Subset
<1>7. Cardinality(u[m - 1]) \in Nat
  BY <1>6, FS_CardinalityType
<1>8. Cardinality(u[m - 1]) < k
  BY <1>4, <1>5, <1>7
<1>9. u[m] = u[m - 1] \cup (T \cap {p[m]}) /\ p[m] \notin u[m - 1]
  BY <1>4
<1>10. Cardinality(u[m]) >= k
  BY <1>2
<1>11. p[m] \in T
  <2>1. SUFFICES ASSUME p[m] \notin T PROVE FALSE
    OBVIOUS
  <2>2. u[m] = u[m - 1]
    BY <2>1, <1>9
  <2> QED BY <2>2, <1>7, <1>8, <1>10
<1>12. Cardinality(u[m]) = Cardinality(u[m - 1]) + 1
  <2>1. u[m] = u[m - 1] \cup {p[m]}
    BY <1>9, <1>11
  <2> QED BY <2>1, <1>6, <1>9, FS_AddElement
<1> QED BY <1>4, <1>7, <1>8, <1>10, <1>11, <1>12

\* The k-th of a set of places, from the first or from the last.
LEMMA NthPlace ==
  ASSUME NEW L \in Nat, NEW T \in SUBSET (1 .. L), NEW k \in Nat, k # 0, k <= Cardinality(T)
  PROVE  /\ \E i \in T : Cardinality({j \in T : j <= i}) = k
         /\ \E i \in T : Cardinality({j \in T : j >= i}) = k
<1>1. IsFiniteSet(T)
  <2>1. IsFiniteSet(1 .. L)
    BY FS_Interval
  <2> QED BY <2>1, FS_Subset
<1>2. \E i \in T : Cardinality({j \in T : j <= i}) = k
  <2> DEFINE u == [m \in 0 .. L |-> {j \in T : j <= m}]
             p == [m \in 1 .. L |-> m]
  <2>1. u[0] = {} /\ u[L] = T
    <3>1. u[0] = {j \in T : j <= 0} /\ u[L] = {j \in T : j <= L}
      OBVIOUS
    <3>2. \A j \in T : ~ (j <= 0) /\ j <= L
      OBVIOUS
    <3> HIDE DEF u
    <3> QED BY <3>1, <3>2
  <2>2. ASSUME NEW m \in 1 .. L
        PROVE  u[m] = u[m - 1] \cup (T \cap {p[m]}) /\ p[m] \notin u[m - 1]
    <3>1. u[m] = {j \in T : j <= m} /\ u[m - 1] = {j \in T : j <= m - 1} /\ p[m] = m
      OBVIOUS
    <3> HIDE DEF u, p
    <3>2. \A j \in T : j <= m <=> (j <= m - 1 \/ j = m)
      OBVIOUS
    <3>3. p[m] \notin u[m - 1]
      BY <3>1
    <3>4. \A j : j \in u[m] <=> j \in u[m - 1] \/ j \in (T \cap {p[m]})
      BY <3>1, <3>2
    <3> QED BY <3>3, <3>4
  <2>3. \A m \in 0 .. L : u[m] \subseteq T
    OBVIOUS
  <2>4. \A m \in 1 .. L : p[m] = m /\ u[m] = {j \in T : j <= m}
    OBVIOUS
  <2> HIDE DEF u, p
  <2>5. PICK m \in 1 .. L : p[m] \in T /\ Cardinality(u[m]) = k
    BY <1>1, <2>1, <2>2, <2>3, Ranked
  <2> QED BY <2>4, <2>5
<1>3. \E i \in T : Cardinality({j \in T : j >= i}) = k
  <2> DEFINE u == [m \in 0 .. L |-> {j \in T : j >= L + 1 - m}]
             p == [m \in 1 .. L |-> L + 1 - m]
  <2>1. u[0] = {} /\ u[L] = T
    <3>1. u[0] = {j \in T : j >= L + 1 - 0} /\ u[L] = {j \in T : j >= L + 1 - L}
      OBVIOUS
    <3>2. \A j \in T : ~ (j >= L + 1 - 0) /\ j >= L + 1 - L
      OBVIOUS
    <3> HIDE DEF u
    <3> QED BY <3>1, <3>2
  <2>2. ASSUME NEW m \in 1 .. L
        PROVE  u[m] = u[m - 1] \cup (T \cap {p[m]}) /\ p[m] \notin u[m - 1]
    <3>1. /\ u[m] = {j \in T : j >= L + 1 - m} /\ u[m - 1] = {j \in T : j >= L + 1 - (m - 1)}
          /\ p[m] = L + 1 - m
      OBVIOUS
    <3> HIDE DEF u, p
    <3>2. \A j \in T : j >= L + 1 - m <=> (j >= L + 1 - (m - 1) \/ j = L + 1 - m)
      OBVIOUS
    <3>3. p[m] \notin u[m - 1]
      BY <3>1
    <3>4. \A j : j \in u[m] <=> j \in u[m - 1] \/ j \in (T \cap {p[m]})
      BY <3>1, <3>2
    <3> QED BY <3>3, <3>4
  <2>3. \A m \in 0 .. L : u[m] \subseteq T
    OBVIOUS
  <2>4. \A m \in 1 .. L : p[m] = L + 1 - m /\ u[m] = {j \in T : j >= L + 1 - m}
    OBVIOUS
  <2> HIDE DEF u, p
  <2>5. PICK m \in 1 .. L : p[m] \in T /\ Cardinality(u[m]) = k
    BY <1>1, <2>1, <2>2, <2>3, Ranked
  <2> QED BY <2>4, <2>5
<1> QED BY <1>2, <1>3

\* A READ stops at the end of the records it finds, or at a mark.
LEMMA ReadAside ==
  ASSUME NEW d, DriveSound(d), NEW c, c.count \in Nat
  PROVE  DriveAside(DoRead(d, c).drive, d)
<1> DEFINE asked  == IF c.fixed THEN d.block ELSE c.count
           wanted == IF c.fixed THEN c.count ELSE 1
           whole  == {n \in 0 .. wanted :
                        /\ d.at + n <= Len(d.recs)
                        /\ \A i \in d.at + 1 .. d.at + n :
                             ~IsMark(d.recs[i]) /\ Len(d.recs[i].bytes) = asked}
           done   == CHOOSE n \in whole : \A m \in whole : m <= n
           got    == Flat(SubSeq(d.recs, d.at + 1, d.at + done))
           ahead  == d.at + done
           past   == IF done = 0 THEN d ELSE [d EXCEPT !.at = ahead, !.where = "data"]
           left   == wanted - done
           next   == d.recs[past.at + 1]
           on     == past.at + 1
           beyond == [past EXCEPT !.at = on, !.where = "data"]
           taken  == got \o SubSeq(next.bytes, 1, IF asked < Len(next.bytes) THEN asked
                                                  ELSE Len(next.bytes))
           brief  == Len(next.bytes) < asked
           r      == DoRead(d, c)
<1>1. r =
        IF (c.fixed /\ c.sili) \/ (c.fixed = (d.block = 0)) THEN IllegalRequest(d)
        ELSE IF c.count = 0 THEN Good(d)
        ELSE IF d.where = "written" THEN Fail(d, "illegal_request", "none", wanted)
        ELSE IF left = 0 THEN Outcome(past, got)
        ELSE IF past.at >= Len(d.recs) THEN
               FailWith(past, got, "blank_check",
                        IF past.where = "lbot" THEN "eom" ELSE "none", left)
        ELSE IF IsMark(next) THEN FailWith(beyond, got, "no_sense", "fmk", left)
        ELSE IF c.sili THEN [Outcome(beyond, taken) EXCEPT !.short = brief]
        ELSE FailWith(beyond, taken, "no_sense", "ili", asked - Len(next.bytes))
  BY DEF DoRead
<1>2. d.at \in 0 .. Len(d.recs) /\ Len(d.recs) \in Nat
  BY RecordedLen DEF DriveSound
<1>3. done \in whole
  <2>1. wanted \in Nat /\ 0 \in whole
    BY <1>2
  <2>2. whole \in SUBSET (0 .. wanted) /\ whole # {}
    BY <2>1
  <2> HIDE DEF whole, wanted
  <2>3. \E n \in whole : \A m \in whole : m <= n
    BY <2>1, <2>2, Greatest
  <2> QED BY <2>3
<1>4. done \in Nat /\ d.at + done <= Len(d.recs)
  <2>1. wanted \in Nat
    OBVIOUS
  <2> HIDE DEF done, wanted
  <2> QED BY <1>3, <2>1
<1> HIDE DEF done, whole, wanted, asked, got, left, brief, taken, r
<1>5. ahead \in 0 .. Len(d.recs)
  BY <1>2, <1>4
<1> HIDE DEF ahead
<1>6. DriveAside(past, d)
  <2>1. DriveAside(d, d)
    BY AsideSelf
  <2>2. DriveAside([d EXCEPT !.at = ahead, !.where = "data"], d)
    BY <1>5, <2>1, MovedAside
  <2> QED BY <2>1, <2>2
<1> HIDE DEF past, next
<1>7. past.at < Len(d.recs) => DriveAside(beyond, d)
  <2>1. past.at < Len(d.recs) => on \in 0 .. Len(d.recs)
    BY <1>2, <1>6 DEF DriveAside
  <2> HIDE DEF on
  <2> QED BY <1>6, <2>1, MovedAside
<1>8. past.at >= Len(d.recs) \/ past.at < Len(d.recs)
  BY <1>2, <1>6 DEF DriveAside
<1> HIDE DEF beyond, on
<1>9. /\ DriveAside(IllegalRequest(d).drive, d) /\ DriveAside(Good(d).drive, d)
      /\ DriveAside(Fail(d, "illegal_request", "none", wanted).drive, d)
      /\ DriveAside(Outcome(past, got).drive, d)
      /\ DriveAside(FailWith(past, got, "blank_check",
                        IF past.where = "lbot" THEN "eom" ELSE "none", left).drive, d)
  BY <1>6, AsideSelf, PlainFailAside, FailAside
<1>10. past.at < Len(d.recs) =>
        /\ DriveAside(FailWith(beyond, got, "no_sense", "fmk", left).drive, d)
        /\ DriveAside(FailWith(beyond, taken, "no_sense", "ili", asked - Len(next.bytes)).drive, d)
  BY <1>7, FailAside
<1>11. past.at < Len(d.recs) =>
        DriveAside([Outcome(beyond, taken) EXCEPT !.short = brief].drive, d)
  <2>1. [Outcome(beyond, taken) EXCEPT !.short = brief].drive = beyond
    BY DEF Outcome
  <2> QED BY <1>7, <2>1
<1>12. DriveAside(r.drive, d)
  <2> HIDE DEF DriveAside
  <2> QED BY <1>1, <1>8, <1>9, <1>10, <1>11
<1> QED BY <1>12 DEF r

\* SPACE stops at a record or at either end.
LEMMA SpaceAside ==
  ASSUME NEW d, DriveSound(d), NEW c, c.count \in Int
  PROVE  DriveAside(DoSpace(d, c).drive, d)
<1> DEFINE n      == IF c.count > 0 THEN c.count ELSE -c.count
           here   == IF d.where = "written" THEN [d EXCEPT !.where = "data"] ELSE d
           marks  == {i \in DOMAIN d.recs : IsMark(d.recs[i])}
           ahead  == {i \in marks : i > d.at}
           behind == {i \in marks : i <= d.at}
           Whither(at) == IF at > d.at THEN "data"
                          ELSE IF at < d.at THEN (IF at = 0 THEN "lbot" ELSE "data")
                          ELSE here.where
           Moved2(at) == [here EXCEPT !.at = at, !.where = Whither(at)]
           Up(s, k) == CHOOSE i \in s : Cardinality({j \in s : IF TRUE THEN j <= i ELSE j >= i}) = k
           Down(s, k) ==
             CHOOSE i \in s : Cardinality({j \in s : IF FALSE THEN j <= i ELSE j >= i}) = k
           r == DoSpace(d, c)
<1>1. \A at : Moved2(at) =
        [here EXCEPT !.at = at, !.where = IF at > d.at THEN "data"
                                          ELSE IF at < d.at THEN (IF at = 0 THEN "lbot" ELSE "data")
                                          ELSE @]
  <2>1. IsDrive(here)
    BY DEF DriveSound, IsDrive, DriveFields
  <2> HIDE DEF here
  <2> QED BY <2>1 DEF IsDrive, DriveFields
<1>2. r =
       CASE n = 0 -> Good(d)
          [] c.count > 0 /\ c.marks ->
               IF Cardinality(ahead) >= n THEN Good(Moved2(Up(ahead, n)))
               ELSE Fail([Moved2(Len(d.recs)) EXCEPT !.where = "peot"],
                         "medium_error", "eom", n - Cardinality(ahead))
          [] c.count > 0 /\ ~c.marks ->
               IF ahead # {} /\ Up(ahead, 1) <= d.at + n
               THEN LET m == Up(ahead, 1)
                    IN  Fail(Moved2(m), "no_sense", "fmk", n - (m - 1 - d.at))
               ELSE IF d.at + n <= Len(d.recs) THEN Good(Moved2(d.at + n))
               ELSE Fail(Moved2(Len(d.recs)), "blank_check", "none", n - (Len(d.recs) - d.at))
          [] c.count < 0 /\ c.marks ->
               IF Cardinality(behind) >= n THEN Good(Moved2(Down(behind, n) - 1))
               ELSE Fail([Moved2(0) EXCEPT !.where = "lbot"],
                         "no_sense", "eom", -(n - Cardinality(behind)))
          [] OTHER ->
               IF behind # {} /\ Down(behind, 1) > d.at - n
               THEN LET m == Down(behind, 1)
                    IN  Fail(Moved2(m - 1), "no_sense", "fmk", -(n - (d.at - m)))
               ELSE IF n <= d.at THEN Good(Moved2(d.at - n))
               ELSE Fail([Moved2(0) EXCEPT !.where = "lbot"], "no_sense", "eom", -(n - d.at))
  <2> DEFINE Mv(at) == [here EXCEPT !.at = at, !.where = IF at > d.at THEN "data"
                                          ELSE IF at < d.at THEN (IF at = 0 THEN "lbot" ELSE "data")
                                          ELSE @]
  <2>1. \A at : Moved2(at) = Mv(at)
    BY <1>1
  <2>2. r =
       CASE n = 0 -> Good(d)
          [] c.count > 0 /\ c.marks ->
               IF Cardinality(ahead) >= n THEN Good(Mv(Up(ahead, n)))
               ELSE Fail([Mv(Len(d.recs)) EXCEPT !.where = "peot"],
                         "medium_error", "eom", n - Cardinality(ahead))
          [] c.count > 0 /\ ~c.marks ->
               IF ahead # {} /\ Up(ahead, 1) <= d.at + n
               THEN LET m == Up(ahead, 1)
                    IN  Fail(Mv(m), "no_sense", "fmk", n - (m - 1 - d.at))
               ELSE IF d.at + n <= Len(d.recs) THEN Good(Mv(d.at + n))
               ELSE Fail(Mv(Len(d.recs)), "blank_check", "none", n - (Len(d.recs) - d.at))
          [] c.count < 0 /\ c.marks ->
               IF Cardinality(behind) >= n THEN Good(Mv(Down(behind, n) - 1))
               ELSE Fail([Mv(0) EXCEPT !.where = "lbot"],
                         "no_sense", "eom", -(n - Cardinality(behind)))
          [] OTHER ->
               IF behind # {} /\ Down(behind, 1) > d.at - n
               THEN LET m == Down(behind, 1)
                    IN  Fail(Mv(m - 1), "no_sense", "fmk", -(n - (d.at - m)))
               ELSE IF n <= d.at THEN Good(Mv(d.at - n))
               ELSE Fail([Mv(0) EXCEPT !.where = "lbot"], "no_sense", "eom", -(n - d.at))
    BY DEF DoSpace
  <2> HIDE DEF r, n, ahead, behind, Up, Down, Mv, Moved2, here, marks, Whither
  <2> QED BY <2>1, <2>2
<1>3. /\ d.at \in 0 .. Len(d.recs) /\ Len(d.recs) \in Nat /\ DriveAside(d, d)
      /\ DOMAIN d.recs = 1 .. Len(d.recs)
  <2>1. PICK S : d.recs \in Seq(S)
    BY DEF DriveSound, Recorded
  <2> QED BY <2>1, RecordedLen, AsideSelf, LenProperties DEF DriveSound
<1>4. \A at \in 0 .. Len(d.recs) : DriveAside(Moved2(at), d)
  <2>1. DriveAside(here, d)
    BY <1>3, WhereAside
  <2> HIDE DEF here, Whither
  <2> QED BY <2>1, MovedAside
<1>5. n \in Nat /\ (n = 0 <=> c.count = 0)
  OBVIOUS
<1>6. /\ ahead \in SUBSET (1 .. Len(d.recs)) /\ behind \in SUBSET (1 .. Len(d.recs))
      /\ \A i \in behind : i <= d.at
  BY <1>3
<1>7. /\ \A k \in Nat : k # 0 /\ k <= Cardinality(ahead) => Up(ahead, k) \in ahead
      /\ \A k \in Nat : k # 0 /\ k <= Cardinality(behind) => Down(behind, k) \in behind
  <2>1. ASSUME NEW k \in Nat, k # 0, k <= Cardinality(ahead) PROVE Up(ahead, k) \in ahead
    <3> HIDE DEF ahead
    <3>1. \E i \in ahead : Cardinality({j \in ahead : j <= i}) = k
      BY <1>3, <1>6, <2>1, NthPlace, ZenonT(60)
    <3>2. \A i \in ahead : {j \in ahead : IF TRUE THEN j <= i ELSE j >= i} = {j \in ahead : j <= i}
      OBVIOUS
    <3>3. \E i \in ahead : Cardinality({j \in ahead : IF TRUE THEN j <= i ELSE j >= i}) = k
      BY <3>1, <3>2
    <3> QED BY <3>3
  <2>2. ASSUME NEW k \in Nat, k # 0, k <= Cardinality(behind)
        PROVE  Down(behind, k) \in behind
    <3> HIDE DEF behind
    <3>1. \E i \in behind : Cardinality({j \in behind : j >= i}) = k
      BY <1>3, <1>6, <2>2, NthPlace, ZenonT(60)
    <3>2. \A i \in behind : {j \in behind : IF FALSE THEN j <= i ELSE j >= i}
                              = {j \in behind : j >= i}
      OBVIOUS
    <3>3. \E i \in behind : Cardinality({j \in behind : IF FALSE THEN j <= i ELSE j >= i}) = k
      BY <3>1, <3>2
    <3> QED BY <3>3
  <2> QED BY <2>1, <2>2
<1>8. /\ Cardinality(ahead) \in Nat /\ (ahead # {} => 1 <= Cardinality(ahead))
      /\ Cardinality(behind) \in Nat /\ (behind # {} => 1 <= Cardinality(behind))
  <2> HIDE DEF ahead, behind
  <2>1. IsFiniteSet(1 .. Len(d.recs))
    <3>1. 1 \in Int /\ Len(d.recs) \in Int
      BY <1>3
    <3> QED BY <3>1, FS_Interval
  <2>2. IsFiniteSet(ahead) /\ IsFiniteSet(behind)
    BY <1>6, <2>1, FS_Subset
  <2> QED BY <2>2, FS_CardinalityType, FS_EmptySet
<1> HIDE DEF ahead, behind, marks, here, Moved2, Up, Down, n, Whither
<1>9. \A at \in 0 .. Len(d.recs) : \A key, flag, info :
        /\ DriveAside(Good(Moved2(at)).drive, d)
        /\ DriveAside(Fail(Moved2(at), key, flag, info).drive, d)
        /\ \A where :
              DriveAside(Fail([Moved2(at) EXCEPT !.where = where], key, flag, info).drive, d)
  <2> SUFFICES ASSUME NEW at \in 0 .. Len(d.recs)
               PROVE  /\ DriveAside(Good(Moved2(at)).drive, d)
                      /\ \A key, flag, info : DriveAside(Fail(Moved2(at), key, flag, info).drive, d)
                      /\ \A key, flag, info, where :
                           DriveAside(Fail([Moved2(at) EXCEPT !.where = where],
                                           key, flag, info).drive, d)
    OBVIOUS
  <2> DEFINE x == Moved2(at)
  <2>1. DriveAside(x, d)
    BY <1>4
  <2> HIDE DEF x
  <2>2. DriveAside(Good(x).drive, d)
        /\ \A key, flag, info : DriveAside(Fail(x, key, flag, info).drive, d)
    BY <2>1, PlainFailAside
  <2>3. ASSUME NEW key, NEW flag, NEW info, NEW where
        PROVE  DriveAside(Fail([x EXCEPT !.where = where], key, flag, info).drive, d)
    <3> DEFINE y == [x EXCEPT !.where = where]
    <3>1. DriveAside(y, d)
      BY <2>1, WhereAside
    <3> HIDE DEF y
    <3>2. DriveAside(Fail(y, key, flag, info).drive, d)
      BY <3>1, PlainFailAside
    <3> QED BY <3>2 DEF y
  <2> QED BY <2>2, <2>3 DEF x
<1>10. \A key, flag, info :
        /\ DriveAside(Fail([Moved2(Len(d.recs)) EXCEPT !.where = "peot"], key, flag, info).drive, d)
        /\ DriveAside(Fail(Moved2(Len(d.recs)), key, flag, info).drive, d)
        /\ DriveAside(Fail([Moved2(0) EXCEPT !.where = "lbot"], key, flag, info).drive, d)
  <2> HIDE DEF DriveAside
  <2>1. Len(d.recs) \in 0 .. Len(d.recs) /\ 0 \in 0 .. Len(d.recs)
    BY <1>3
  <2> QED BY <1>9, <2>1
<1> HIDE DEF r, DriveAside
<1>11. CASE n = 0
  <2>0. ~ (c.count > 0) /\ ~ (c.count < 0)
    BY <1>5, <1>11
  <2>1. r = Good(d)
    BY <1>2, <1>11, <2>0
  <2> QED BY <1>3, <2>1, PlainFailAside DEF r
<1>12. CASE c.count > 0 /\ c.marks
  <2>1. r = IF Cardinality(ahead) >= n THEN Good(Moved2(Up(ahead, n)))
            ELSE Fail([Moved2(Len(d.recs)) EXCEPT !.where = "peot"],
                      "medium_error", "eom", n - Cardinality(ahead))
    BY <1>2, <1>5, <1>12
  <2>2. Cardinality(ahead) >= n => Up(ahead, n) \in 0 .. Len(d.recs)
    <3> SUFFICES ASSUME Cardinality(ahead) >= n PROVE Up(ahead, n) \in 0 .. Len(d.recs)
      OBVIOUS
    <3>1. n # 0 /\ n \in Nat /\ n <= Cardinality(ahead)
      BY <1>5, <1>8, <1>12
    <3>2. Up(ahead, n) \in ahead
      BY <1>7, <3>1
    <3>3. \A i \in ahead : i \in 0 .. Len(d.recs)
      BY <1>6
    <3> QED BY <3>2, <3>3
  <2>3. DriveAside(r.drive, d)
    BY <1>9, <1>10, <2>1, <2>2
  <2> QED BY <2>3 DEF r
<1>13. CASE c.count > 0 /\ ~c.marks
  <2> DEFINE m == Up(ahead, 1)
  <2>1. r = IF ahead # {} /\ m <= d.at + n
               THEN Fail(Moved2(m), "no_sense", "fmk", n - (m - 1 - d.at))
               ELSE IF d.at + n <= Len(d.recs) THEN Good(Moved2(d.at + n))
               ELSE Fail(Moved2(Len(d.recs)), "blank_check", "none", n - (Len(d.recs) - d.at))
    BY <1>2, <1>5, <1>13
  <2>2. ahead # {} => m \in 0 .. Len(d.recs)
    <3>1. ahead # {} => m \in ahead
      BY <1>7, <1>8
    <3>2. \A i \in ahead : i \in 0 .. Len(d.recs)
      BY <1>6
    <3> QED BY <3>1, <3>2
  <2>3. d.at + n <= Len(d.recs) => d.at + n \in 0 .. Len(d.recs)
    BY <1>3, <1>5
  <2> HIDE DEF m
  <2>4. DriveAside(r.drive, d)
    BY <1>9, <1>10, <2>1, <2>2, <2>3
  <2> QED BY <2>4 DEF r
<1>14. CASE c.count < 0 /\ c.marks
  <2>1. r = IF Cardinality(behind) >= n THEN Good(Moved2(Down(behind, n) - 1))
            ELSE Fail([Moved2(0) EXCEPT !.where = "lbot"],
                         "no_sense", "eom", -(n - Cardinality(behind)))
    BY <1>2, <1>5, <1>14
  <2>2. Cardinality(behind) >= n => Down(behind, n) - 1 \in 0 .. Len(d.recs)
    <3> SUFFICES ASSUME Cardinality(behind) >= n PROVE Down(behind, n) - 1 \in 0 .. Len(d.recs)
      OBVIOUS
    <3>1. n # 0 /\ n \in Nat /\ n <= Cardinality(behind)
      BY <1>5, <1>8, <1>14
    <3>2. Down(behind, n) \in behind
      BY <1>7, <3>1
    <3>3. \A i \in behind : i - 1 \in 0 .. Len(d.recs)
      BY <1>3, <1>6
    <3> QED BY <3>2, <3>3
  <2>3. DriveAside(r.drive, d)
    BY <1>9, <1>10, <2>1, <2>2
  <2> QED BY <2>3 DEF r
<1>15. CASE c.count < 0 /\ ~c.marks
  <2> DEFINE m == Down(behind, 1)
  <2>1. r = IF behind # {} /\ m > d.at - n
               THEN Fail(Moved2(m - 1), "no_sense", "fmk", -(n - (d.at - m)))
               ELSE IF n <= d.at THEN Good(Moved2(d.at - n))
               ELSE Fail([Moved2(0) EXCEPT !.where = "lbot"], "no_sense", "eom", -(n - d.at))
    BY <1>2, <1>5, <1>15
  <2>2. behind # {} => m - 1 \in 0 .. Len(d.recs)
    <3>1. behind # {} => m \in behind
      BY <1>7, <1>8
    <3>2. \A i \in behind : i - 1 \in 0 .. Len(d.recs)
      BY <1>3, <1>6
    <3> QED BY <3>1, <3>2
  <2>3. n <= d.at => d.at - n \in 0 .. Len(d.recs)
    BY <1>3, <1>5
  <2> HIDE DEF m
  <2>4. DriveAside(r.drive, d)
    BY <1>9, <1>10, <2>1, <2>2, <2>3
  <2> QED BY <2>4 DEF r
<1>16. n = 0 \/ c.count > 0 \/ c.count < 0
  BY <1>5
<1> QED BY <1>11, <1>12, <1>13, <1>14, <1>15, <1>16 DEF r

\* A list made of its elements is a list of records, ...
LEMMA MadeRecorded ==
  ASSUME NEW n \in Nat, NEW s, s = [i \in 1 .. n |-> s[i]]
  PROVE  Recorded(s) /\ Len(s) = n
<1> DEFINE S == {s[i] : i \in 1 .. n}
<1>1. s \in [1 .. n -> S]
  OBVIOUS
<1>2. s \in Seq(S)
  <2> HIDE DEF S
  <2> QED BY <1>1
<1>3. Len(s) = n
  <2>1. DOMAIN s = 1 .. n
    BY <1>1
  <2> HIDE DEF S
  <2> QED BY <1>2, <2>1, LenProperties
<1> QED BY <1>2, <1>3 DEF Recorded

\* ... and two lists are lists over the same records.
LEMMA TwoRecorded ==
  ASSUME NEW s, Recorded(s), NEW t, Recorded(t)
  PROVE  \E S : s \in Seq(S) /\ t \in Seq(S)
<1>1. PICK A : s \in Seq(A)
  BY DEF Recorded
<1>2. PICK B : t \in Seq(B)
  BY DEF Recorded
<1>3. s \in Seq(A \cup B) /\ t \in Seq(A \cup B)
  BY <1>1, <1>2, SeqMonotonic
<1> QED BY <1>3

\* The beginning of a sequence.
LEMMA PrefixIs ==
  ASSUME NEW s, Recorded(s), NEW n \in 0 .. Len(s)
  PROVE  LET p == SubSeq(s, 1, n) IN
         /\ Recorded(p) /\ Len(p) = n
         /\ \A i \in 1 .. n : p[i] = s[i]
<1>1. PICK S : s \in Seq(S)
  BY DEF Recorded
<1>2. Len(s) \in Nat /\ n \in Nat /\ \A i \in 1 .. n : s[i] \in S
  BY <1>1, LenProperties, ElementOfSeq
<1> DEFINE p == SubSeq(s, 1, n)
<1>3. /\ p \in Seq(S)
      /\ Len(p) = IF 1 <= n THEN n - 1 + 1 ELSE 0
      /\ \A i \in 1 .. n - 1 + 1 : p[i] = s[1 + i - 1]
  BY <1>2, SubSeqProperties
<1> HIDE DEF p
<1>4. Len(p) = n /\ \A i \in 1 .. n : p[i] = s[i]
  <2>1. Len(p) = n
    BY <1>2, <1>3
  <2>2. \A i \in 1 .. n : i \in 1 .. n - 1 + 1 /\ 1 + i - 1 = i
    BY <1>2
  <2>3. \A i \in 1 .. n : p[i] = s[i]
    BY <1>3, <2>2
  <2> QED BY <2>1, <2>3
<1>5. Recorded(p)
  BY <1>3 DEF Recorded
<1> QED BY <1>4, <1>5 DEF p

\* Two lists with the same first elements begin the same.
LEMMA SamePrefix ==
  ASSUME NEW s, Recorded(s), NEW t, Recorded(t), NEW n \in 0 .. Len(s), n <= Len(t),
         \A i \in 1 .. n : s[i] = t[i]
  PROVE  SubSeq(s, 1, n) = SubSeq(t, 1, n)
<1> DEFINE p == SubSeq(s, 1, n)
           q == SubSeq(t, 1, n)
<1>1. Len(s) \in Nat /\ Len(t) \in Nat
  BY RecordedLen
<1>2. Recorded(p) /\ Len(p) = n /\ \A i \in 1 .. n : p[i] = s[i]
  BY PrefixIs
<1>3. Recorded(q) /\ Len(q) = n /\ \A i \in 1 .. n : q[i] = t[i]
  <2>1. n \in 0 .. Len(t)
    BY <1>1
  <2> QED BY <2>1, PrefixIs
<1> HIDE DEF p, q
<1>4. PICK S : p \in Seq(S) /\ q \in Seq(S)
  BY <1>2, <1>3, TwoRecorded
<1>5. \A i \in 1 .. Len(p) : p[i] = q[i]
  BY <1>2, <1>3
<1>6. p = q
  BY <1>2, <1>3, <1>4, <1>5, SeqEqual
<1> QED BY <1>6 DEF p, q

\* More records, as many as the medium has room for.
LEMMA AppendedIs ==
  ASSUME NEW e, IsDrive(e), Recorded(e.recs), Len(e.recs) <= MaxRecords, e.block \in Nat,
         NEW more, Recorded(more)
  PROVE  LET x == Appended(e, more) IN
         /\ DriveSound(x) /\ x.writable = e.writable /\ x.where = e.where
         /\ Len(x.recs) >= Len(e.recs)
         /\ \A i \in 1 .. Len(e.recs) : x.recs[i] = e.recs[i]
<1> DEFINE all == e.recs \o more
           n   == IF Len(all) < MaxRecords THEN Len(all) ELSE MaxRecords
           fit == SubSeq(all, 1, n)
           at  == Len(fit)
           x   == [e EXCEPT !.recs = fit, !.at = at]
<1>1. Appended(e, more) = x
  BY DEF Appended
<1>2. PICK S : e.recs \in Seq(S) /\ more \in Seq(S)
  BY TwoRecorded
<1>3. /\ all \in Seq(S) /\ Len(all) = Len(e.recs) + Len(more)
      /\ \A i \in 1 .. Len(e.recs) : all[i] = e.recs[i]
  BY <1>2, ConcatProperties
<1>4. Len(e.recs) \in Nat /\ Len(more) \in Nat
  BY RecordedLen
<1>5. Recorded(all)
  BY <1>3 DEF Recorded
<1>6. MaxRecords \in Nat
  BY ExbAssumption
<1> HIDE DEF all
<1>7. n \in 0 .. Len(all) /\ Len(e.recs) <= n /\ n <= MaxRecords /\ n \in Nat
  BY <1>3, <1>4, <1>6
<1> HIDE DEF n
<1>8. Recorded(fit) /\ Len(fit) = n /\ \A i \in 1 .. n : fit[i] = all[i]
  BY <1>5, <1>7, PrefixIs
<1> HIDE DEF fit
<1>9. at = n
  BY <1>8
<1> HIDE DEF at
<1>10. /\ IsDrive(x) /\ x.recs = fit /\ x.at = at /\ x.writable = e.writable
       /\ x.where = e.where /\ x.block = e.block
  BY DEF IsDrive, DriveFields
<1> HIDE DEF x
<1>11. DriveSound(x)
  BY <1>7, <1>8, <1>9, <1>10 DEF DriveSound
<1>12. \A i \in 1 .. Len(e.recs) : x.recs[i] = e.recs[i]
  <2> SUFFICES ASSUME NEW i \in 1 .. Len(e.recs) PROVE x.recs[i] = e.recs[i]
    OBVIOUS
  <2>1. i \in 1 .. n
    BY <1>4, <1>7
  <2> QED BY <2>1, <1>3, <1>8, <1>10
<1> QED BY <1>1, <1>7, <1>8, <1>10, <1>11, <1>12

\* What follows the tape's place is gone.
LEMMA TruncatedIs ==
  ASSUME NEW d, DriveSound(d)
  PROVE  LET e == Truncated(d) IN
         /\ IsDrive(e) /\ Recorded(e.recs) /\ Len(e.recs) = d.at /\ e.block = d.block
         /\ e.recs = SubSeq(d.recs, 1, d.at)
         /\ e.writable = d.writable /\ e.where = d.where /\ e.at = d.at
         /\ \A i \in 1 .. d.at : e.recs[i] = d.recs[i]
<1> DEFINE s == SubSeq(d.recs, 1, d.at)
           e == [d EXCEPT !.recs = s]
<1>1. Truncated(d) = e
  BY DEF Truncated
<1>2. Recorded(s) /\ Len(s) = d.at /\ \A i \in 1 .. d.at : s[i] = d.recs[i]
  BY PrefixIs DEF DriveSound
<1>3. s = SubSeq(d.recs, 1, d.at)
  OBVIOUS
<1> HIDE DEF s
<1>4. /\ IsDrive(e) /\ e.recs = s /\ e.block = d.block /\ e.writable = d.writable
      /\ e.where = d.where /\ e.at = d.at
  BY DEF DriveSound, IsDrive, DriveFields
<1> HIDE DEF e
<1> QED BY <1>1, <1>2, <1>3, <1>4

\* What is written from a place that keeps what was before it.
LEMMA AddedIs ==
  ASSUME NEW d, DriveSound(d), NEW e, IsDrive(e), Recorded(e.recs), e.block \in Nat,
         e.writable = d.writable, d.at <= Len(e.recs), Len(e.recs) <= MaxRecords,
         \A i \in 1 .. d.at : e.recs[i] = d.recs[i], NEW more, Recorded(more)
  PROVE  LET x == Appended(e, more) IN
         /\ DriveSound(x) /\ x.writable = d.writable
         /\ SubSeq(x.recs, 1, d.at) = SubSeq(d.recs, 1, d.at)
<1> DEFINE x == Appended(e, more)
<1>1. /\ DriveSound(x) /\ x.writable = e.writable
      /\ Len(x.recs) >= Len(e.recs)
      /\ \A i \in 1 .. Len(e.recs) : x.recs[i] = e.recs[i]
  BY AppendedIs
<1> HIDE DEF x
<1>2. /\ Len(e.recs) \in Nat /\ Len(x.recs) \in Nat /\ Len(d.recs) \in Nat
      /\ d.at \in 0 .. Len(d.recs)
  BY <1>1, RecordedLen DEF DriveSound
<1>3. \A i \in 1 .. d.at : x.recs[i] = d.recs[i]
  <2> SUFFICES ASSUME NEW i \in 1 .. d.at PROVE x.recs[i] = d.recs[i]
    OBVIOUS
  <2>1. i \in 1 .. Len(e.recs)
    BY <1>2
  <2> QED BY <2>1, <1>1
<1>4. SubSeq(x.recs, 1, d.at) = SubSeq(d.recs, 1, d.at)
  <2>1. Recorded(x.recs) /\ Recorded(d.recs)
    BY <1>1 DEF DriveSound
  <2>2. d.at \in 0 .. Len(x.recs) /\ d.at <= Len(d.recs)
    BY <1>1, <1>2
  <2> QED BY <1>3, <2>1, <2>2, SamePrefix
<1> QED BY <1>1, <1>4 DEF x

\* What a command comes to is a record.
IsOutcome(r) == r = [x \in {"drive", "status", "bytes", "short"} |-> r[x]]

\* Every outcome is one, ...
LEMMA OutcomesAre ==
  /\ \A e, bytes : IsOutcome(Outcome(e, bytes))
  /\ \A e, bytes, key, flag, info : IsOutcome(FailWith(e, bytes, key, flag, info))
  /\ \A e, bytes, brief : IsOutcome([Outcome(e, bytes) EXCEPT !.short = brief])
  /\ \A e, bytes, status : IsOutcome([Outcome(e, bytes) EXCEPT !.status = status])
<1>1. \A e, bytes : IsOutcome(Outcome(e, bytes))
  BY DEF IsOutcome, Outcome
<1>2. ASSUME NEW e, NEW bytes, NEW s
      PROVE  /\ IsOutcome([Outcome(e, bytes) EXCEPT !.short = s])
             /\ IsOutcome([Outcome(e, bytes) EXCEPT !.status = s])
  BY DEF IsOutcome, Outcome
<1>3. ASSUME NEW e, NEW bytes, NEW key, NEW flag, NEW info
      PROVE  IsOutcome(FailWith(e, bytes, key, flag, info))
  <2> DEFINE y == [e EXCEPT !.sense = [key |-> key, flag |-> flag, info |-> info]]
  <2>1. FailWith(e, bytes, key, flag, info) = [Outcome(y, bytes) EXCEPT !.status = "check"]
    BY DEF FailWith
  <2> HIDE DEF y
  <2>2. IsOutcome([Outcome(y, bytes) EXCEPT !.status = "check"])
    BY <1>2
  <2> HIDE DEF IsOutcome
  <2> QED BY <2>1, <2>2
<1> QED BY <1>1, <1>2, <1>3

\* ... the plain ones included.
LEMMA SimpleOutcomes ==
  /\ \A e : /\ IsOutcome(Good(e)) /\ IsOutcome(IllegalRequest(e)) /\ IsOutcome(MediumNotReady(e))
            /\ IsOutcome(DataProtect(e))
  /\ \A e, left : IsOutcome(VolumeOverflow(e, left))
  /\ \A e, key, flag, info : IsOutcome(Fail(e, key, flag, info))
BY OutcomesAre DEF Good, IllegalRequest, MediumNotReady, DataProtect, VolumeOverflow, Fail

\* A good end leaves the drive as given.
LEMMA GoodIs ==
  ASSUME NEW e
  PROVE  Good(e).drive = e /\ Good(e).status = "good"
BY DEF Good, Outcome

\* A command that wrote.
Put8(r, d) ==
    /\ DriveSound(r.drive) /\ r.drive.writable = d.writable
    /\ SubSeq(r.drive.recs, 1, d.at) = SubSeq(d.recs, 1, d.at)
    /\ r.status = "good" \/ r.drive.where = "peot"

\* It has done what it was for.
LEMMA PutDid ==
  ASSUME NEW d, NEW r, Put8(r, d), NEW c, c.op \in {"write", "marks"}
  PROVE  d.writable => ExbDid(r, d, c)
BY DEF Put8, ExbDid

\* So a command that wrote up to the end, or all of it, ...
LEMMA WrotePut ==
  ASSUME NEW d, DriveSound(d), NEW x, DriveSound(x), x.writable = d.writable,
         SubSeq(x.recs, 1, d.at) = SubSeq(d.recs, 1, d.at),
         NEW left, NEW where
  PROVE  /\ Put8(VolumeOverflow(x, left), d)
         /\ Put8(Good([x EXCEPT !.where = where]), d)
<1>1. ASSUME NEW w
      PROVE  LET y == [x EXCEPT !.where = w] IN
             /\ DriveSound(y) /\ y.writable = x.writable /\ y.recs = x.recs /\ y.where = w
  <2> DEFINE y == [x EXCEPT !.where = w]
  <2>1. /\ IsDrive(y) /\ y.writable = x.writable /\ y.recs = x.recs /\ y.where = w
        /\ y.at = x.at /\ y.block = x.block
    BY DEF DriveSound, IsDrive, DriveFields
  <2> HIDE DEF y
  <2>2. DriveSound(y)
    BY <2>1 DEF DriveSound
  <2> QED BY <2>1, <2>2 DEF y
<1>2. Put8(Good([x EXCEPT !.where = where]), d)
  <2> DEFINE y == [x EXCEPT !.where = where]
             r == Good(y)
  <2>1. /\ DriveSound(y) /\ y.writable = x.writable /\ y.recs = x.recs
    BY <1>1
  <2> HIDE DEF y
  <2>2. r.drive = y /\ r.status = "good"
    BY GoodIs
  <2> HIDE DEF r
  <2>3. Put8(r, d)
    BY <2>1, <2>2 DEF Put8
  <2> QED BY <2>3 DEF r, y
<1>3. Put8(VolumeOverflow(x, left), d)
  <2> DEFINE y == [x EXCEPT !.where = "peot"]
             r == FailWith(y, <<>>, "volume_overflow", "eom", left)
             z == r.drive
  <2>1. VolumeOverflow(x, left) = r
    BY DEF VolumeOverflow, Fail
  <2>2. /\ DriveSound(y) /\ y.writable = x.writable /\ y.recs = x.recs /\ y.where = "peot"
    BY <1>1
  <2> HIDE DEF y
  <2>7. IsDrive(y)
    BY <2>2 DEF DriveSound
  <2>3. /\ IsDrive(z) /\ z.recs = y.recs /\ z.writable = y.writable /\ z.at = y.at
        /\ z.block = y.block /\ z.where = y.where
    BY <2>7, FailIs
  <2> HIDE DEF r
  <2>4. DriveSound(z)
    BY <2>2, <2>3 DEF DriveSound
  <2>5. Put8(r, d)
    BY <2>2, <2>3, <2>4 DEF Put8
  <2> QED BY <2>1, <2>5
<1> QED BY <1>2, <1>3

\* ... and one that was refused, have.
LEMMA RefusedDid ==
  ASSUME NEW d, DriveSound(d), NEW c
  PROVE  /\ ExbDid(IllegalRequest(d), d, c) /\ ExbDid(DataProtect(d), d, c)
         /\ ExbDid(MediumNotReady(d), d, c) /\ ExbDid(Good(d), d, c)
<1>1. DriveAside(d, d)
  BY AsideSelf
<1> HIDE DEF DriveAside
<1> QED BY <1>1, PlainFailAside, AsideDid

\* WRITE, ...
LEMMA WriteDid ==
  ASSUME NEW d, DriveSound(d), NEW c, c.op = "write", c.count \in Nat, NEW bytes
  PROVE  ExbDid(DoWrite(d, c, bytes), d, c) /\ IsOutcome(DoWrite(d, c, bytes))
<1> DEFINE length == IF c.fixed THEN d.block ELSE c.count
           blocks == IF c.fixed THEN c.count ELSE 1
           given  == [i \in 1 .. blocks |->
                        Data([k \in 1 .. length |-> bytes[length * (i - 1) + k]])]
           here   == Truncated(d)
           room   == MaxRecords - Len(here.recs)
           x      == Appended(here, given)
           r      == DoWrite(d, c, bytes)
<1>1. r = IF ~d.writable THEN DataProtect(d)
          ELSE IF c.fixed = (d.block = 0) THEN IllegalRequest(d)
          ELSE IF c.count = 0 THEN Good(d)
          ELSE IF ~WritableHere(d) THEN IllegalRequest(d)
          ELSE IF ~c.fixed /\ length > BlockMax THEN IllegalRequest(d)
          ELSE IF blocks > room THEN VolumeOverflow(x, blocks - room)
          ELSE Good([x EXCEPT !.where = "written"])
  BY DEF DoWrite
<1>2. Recorded(given)
  <2>1. blocks \in Nat
    OBVIOUS
  <2> HIDE DEF blocks, length
  <2>2. given = [i \in 1 .. blocks |-> given[i]]
    OBVIOUS
  <2> HIDE DEF given
  <2> QED BY <2>1, <2>2, MadeRecorded
<1> HIDE DEF given, r
<1>3. /\ DriveSound(x) /\ x.writable = d.writable
      /\ SubSeq(x.recs, 1, d.at) = SubSeq(d.recs, 1, d.at)
  <2>1. /\ IsDrive(here) /\ Recorded(here.recs) /\ Len(here.recs) = d.at /\ here.block = d.block
        /\ here.writable = d.writable /\ \A i \in 1 .. d.at : here.recs[i] = d.recs[i]
    BY TruncatedIs
  <2> HIDE DEF here
  <2>2. /\ here.block \in Nat /\ d.at <= Len(here.recs) /\ Len(here.recs) <= MaxRecords
    <3>1. Len(d.recs) \in Nat /\ d.at \in Nat /\ d.at <= Len(d.recs) /\ Len(d.recs) <= MaxRecords
      BY RecordedLen DEF DriveSound
    <3> QED BY <2>1, <3>1, ExbAssumption DEF DriveSound
  <2> QED BY <1>2, <2>1, <2>2, AddedIs
<1> HIDE DEF x, here, room, blocks, length
<1>4. d.writable =>
        /\ ExbDid(VolumeOverflow(x, blocks - room), d, c)
        /\ ExbDid(Good([x EXCEPT !.where = "written"]), d, c)
  <2> DEFINE v == VolumeOverflow(x, blocks - room)
             g == Good([x EXCEPT !.where = "written"])
  <2>1. Put8(v, d) /\ Put8(g, d)
    BY <1>3, WrotePut
  <2> HIDE DEF v, g
  <2>2. d.writable => ExbDid(v, d, c) /\ ExbDid(g, d, c)
    BY <2>1, PutDid
  <2> QED BY <2>2 DEF v, g
<1>5. ExbDid(IllegalRequest(d), d, c) /\ ExbDid(DataProtect(d), d, c) /\ ExbDid(Good(d), d, c)
  BY RefusedDid
<1> HIDE DEF ExbDid, IsOutcome
<1>6. ExbDid(r, d, c)
  BY <1>1, <1>4, <1>5
<1>7. IsOutcome(r)
  BY <1>1, SimpleOutcomes
<1> QED BY <1>6, <1>7 DEF r

\* ... WRITE FILEMARKS ...
LEMMA MarksDid ==
  ASSUME NEW d, DriveSound(d), NEW c, c.op = "marks", c.count \in Nat
  PROVE  ExbDid(DoMarks(d, c), d, c) /\ IsOutcome(DoMarks(d, c))
<1> DEFINE here  == IF d.where = "written" THEN d ELSE Truncated(d)
           room  == MaxRecords - Len(here.recs)
           marks == [i \in 1 .. c.count |-> IF c.sili THEN ShortMark ELSE LongMark]
           x     == Appended(here, marks)
           w     == IF d.at = 0 THEN "lbot" ELSE "data"
           r     == DoMarks(d, c)
<1>1. r = IF ~d.writable THEN DataProtect(d)
          ELSE IF c.count = 0 THEN Good([d EXCEPT !.where = w])
          ELSE IF ~WritableHere(d) THEN IllegalRequest(d)
          ELSE IF c.count > room THEN VolumeOverflow(x, c.count - room)
          ELSE Good([x EXCEPT !.where = "data"])
  BY DEF DoMarks
<1>2. Recorded(marks)
  <2>1. marks = [i \in 1 .. c.count |-> marks[i]]
    OBVIOUS
  <2> HIDE DEF marks
  <2> QED BY <2>1, MadeRecorded
<1> HIDE DEF marks, r, w
<1>3. /\ DriveSound(x) /\ x.writable = d.writable
      /\ SubSeq(x.recs, 1, d.at) = SubSeq(d.recs, 1, d.at)
  <2>0. Len(d.recs) \in Nat /\ d.at \in Nat /\ d.at <= Len(d.recs) /\ Len(d.recs) <= MaxRecords
    BY RecordedLen DEF DriveSound
  <2>1. CASE d.where = "written"
    <3>1. here = d
      BY <2>1
    <3>2. Appended(d, marks) = x
      BY <3>1
    <3> HIDE DEF here, x
    <3>3. \A i \in 1 .. d.at : d.recs[i] = d.recs[i]
      OBVIOUS
    <3> QED BY <1>2, <2>0, <3>2, AddedIs DEF DriveSound
  <2>2. CASE d.where # "written"
    <3> DEFINE e == Truncated(d)
    <3>1. here = e
      BY <2>2
    <3>2. /\ IsDrive(e) /\ Recorded(e.recs) /\ Len(e.recs) = d.at /\ e.block = d.block
          /\ e.writable = d.writable /\ \A i \in 1 .. d.at : e.recs[i] = d.recs[i]
      BY TruncatedIs
    <3>3. Appended(e, marks) = x
      BY <3>1
    <3> HIDE DEF here, e, x
    <3>4. /\ e.block \in Nat /\ d.at <= Len(e.recs) /\ Len(e.recs) <= MaxRecords
      BY <2>0, <3>2, ExbAssumption DEF DriveSound
    <3> QED BY <1>2, <3>2, <3>3, <3>4, AddedIs
  <2> QED BY <2>1, <2>2
<1> HIDE DEF x, here, room
<1>4. d.writable =>
        /\ ExbDid(VolumeOverflow(x, c.count - room), d, c)
        /\ ExbDid(Good([x EXCEPT !.where = "data"]), d, c)
        /\ ExbDid(Good([d EXCEPT !.where = w]), d, c)
  <2> DEFINE v == VolumeOverflow(x, c.count - room)
             g == Good([x EXCEPT !.where = "data"])
             k == Good([d EXCEPT !.where = w])
  <2>1. Put8(v, d) /\ Put8(g, d)
    BY <1>3, WrotePut
  <2>2. Put8(k, d)
    BY WrotePut
  <2> HIDE DEF v, g, k
  <2>3. d.writable => ExbDid(v, d, c) /\ ExbDid(g, d, c) /\ ExbDid(k, d, c)
    BY <2>1, <2>2, PutDid
  <2> QED BY <2>3 DEF v, g, k
<1>5. ExbDid(IllegalRequest(d), d, c) /\ ExbDid(DataProtect(d), d, c)
  BY RefusedDid
<1> HIDE DEF ExbDid, IsOutcome
<1>6. ExbDid(r, d, c)
  BY <1>1, <1>4, <1>5
<1>7. IsOutcome(r)
  BY <1>1, SimpleOutcomes
<1> QED BY <1>6, <1>7 DEF r

\* ... and ERASE do what they are for, from where the tape was.
LEMMA EraseDid ==
  ASSUME NEW d, DriveSound(d), NEW c, c.op = "erase"
  PROVE  ExbDid(DoErase(d, c), d, c) /\ IsOutcome(DoErase(d, c))
<1> DEFINE e == Truncated(d)
           x == [e EXCEPT !.at = 0, !.where = "lbot"]
           r == DoErase(d, c)
<1>1. r = IF ~d.writable THEN DataProtect(d)
          ELSE IF c.count = 0 THEN Good(d)
          ELSE IF ~WritableHere(d) THEN IllegalRequest(d)
          ELSE Good(x)
  BY DEF DoErase, Rewound
<1>2. /\ IsDrive(e) /\ Recorded(e.recs) /\ Len(e.recs) = d.at /\ e.block = d.block
      /\ e.recs = SubSeq(d.recs, 1, d.at)
      /\ e.writable = d.writable /\ \A i \in 1 .. d.at : e.recs[i] = d.recs[i]
  BY TruncatedIs
<1> HIDE DEF e, r
<1>3. /\ IsDrive(x) /\ x.recs = e.recs /\ x.at = 0 /\ x.block = e.block /\ x.writable = e.writable
  BY <1>2 DEF IsDrive, DriveFields
<1> HIDE DEF x
<1>4. Len(d.recs) \in Nat /\ d.at \in Nat /\ d.at <= Len(d.recs) /\ Len(d.recs) <= MaxRecords
  BY RecordedLen DEF DriveSound
<1>5. DriveSound(x)
  BY <1>2, <1>3, <1>4, ExbAssumption DEF DriveSound
<1>6. SubSeq(x.recs, 1, d.at) = SubSeq(d.recs, 1, d.at)
  <2>1. Recorded(x.recs) /\ Recorded(d.recs) /\ d.at \in 0 .. Len(x.recs) /\ d.at <= Len(d.recs)
    BY <1>2, <1>3, <1>4 DEF DriveSound
  <2>2. \A i \in 1 .. d.at : x.recs[i] = d.recs[i]
    BY <1>2, <1>3
  <2> QED BY <2>1, <2>2, SamePrefix
<1>7. d.writable => ExbDid(Good(x), d, c)
  <2> DEFINE g == Good(x)
  <2>1. g.drive = x /\ g.status = "good"
    BY GoodIs
  <2> HIDE DEF g
  <2>2. d.writable => ExbDid(g, d, c)
    BY <1>2, <1>3, <1>5, <1>6, <2>1 DEF ExbDid
  <2> QED BY <2>2 DEF g
<1>8. ExbDid(IllegalRequest(d), d, c) /\ ExbDid(DataProtect(d), d, c) /\ ExbDid(Good(d), d, c)
  BY RefusedDid
<1> HIDE DEF ExbDid, IsOutcome
<1>9. ExbDid(r, d, c)
  BY <1>1, <1>7, <1>8
<1>10. IsOutcome(r)
  BY <1>1, SimpleOutcomes
<1> QED BY <1>9, <1>10 DEF r

\* A READ has an outcome, ...
LEMMA ReadOutcome ==
  ASSUME NEW d, NEW c
  PROVE  IsOutcome(DoRead(d, c))
<1> DEFINE asked  == IF c.fixed THEN d.block ELSE c.count
           wanted == IF c.fixed THEN c.count ELSE 1
           whole  == {n \in 0 .. wanted :
                        /\ d.at + n <= Len(d.recs)
                        /\ \A i \in d.at + 1 .. d.at + n :
                             ~IsMark(d.recs[i]) /\ Len(d.recs[i].bytes) = asked}
           done   == CHOOSE n \in whole : \A m \in whole : m <= n
           got    == Flat(SubSeq(d.recs, d.at + 1, d.at + done))
           past   == IF done = 0 THEN d ELSE [d EXCEPT !.at = @ + done, !.where = "data"]
           left   == wanted - done
           next   == d.recs[past.at + 1]
           beyond == [past EXCEPT !.at = @ + 1, !.where = "data"]
           taken  == got \o SubSeq(next.bytes, 1, IF asked < Len(next.bytes) THEN asked
                                                  ELSE Len(next.bytes))
           brief  == Len(next.bytes) < asked
           o      == [Outcome(beyond, taken) EXCEPT !.short = brief]
           r      == DoRead(d, c)
<1>1. r =
        IF (c.fixed /\ c.sili) \/ (c.fixed = (d.block = 0)) THEN IllegalRequest(d)
        ELSE IF c.count = 0 THEN Good(d)
        ELSE IF d.where = "written" THEN Fail(d, "illegal_request", "none", wanted)
        ELSE IF left = 0 THEN Outcome(past, got)
        ELSE IF past.at >= Len(d.recs) THEN
               FailWith(past, got, "blank_check",
                        IF past.where = "lbot" THEN "eom" ELSE "none", left)
        ELSE IF IsMark(next) THEN FailWith(beyond, got, "no_sense", "fmk", left)
        ELSE IF c.sili THEN o
        ELSE FailWith(beyond, taken, "no_sense", "ili", asked - Len(next.bytes))
  BY DEF DoRead
<1> HIDE DEF taken, brief, beyond, past, got, r
<1>2. IsOutcome(o)
  BY OutcomesAre
<1> HIDE DEF o, IsOutcome, next, left, done, wanted, asked
<1>3. IsOutcome(r)
  BY <1>1, <1>2, SimpleOutcomes, OutcomesAre
<1> QED BY <1>3 DEF r

\* ... and so has a SPACE.
LEMMA SpaceOutcome ==
  ASSUME NEW d, NEW c
  PROVE  IsOutcome(DoSpace(d, c)) \/ ~ (c.count \in Int)
<1> SUFFICES ASSUME c.count \in Int PROVE IsOutcome(DoSpace(d, c))
  OBVIOUS
<1> DEFINE n      == IF c.count > 0 THEN c.count ELSE -c.count
           here   == IF d.where = "written" THEN [d EXCEPT !.where = "data"] ELSE d
           marks  == {i \in DOMAIN d.recs : IsMark(d.recs[i])}
           ahead  == {i \in marks : i > d.at}
           behind == {i \in marks : i <= d.at}
           Mv(at) == [here EXCEPT !.at = at, !.where = IF at > d.at THEN "data"
                                          ELSE IF at < d.at THEN (IF at = 0 THEN "lbot" ELSE "data")
                                          ELSE @]
           Up(s, k) == CHOOSE i \in s : Cardinality({j \in s : IF TRUE THEN j <= i ELSE j >= i}) = k
           Down(s, k) ==
             CHOOSE i \in s : Cardinality({j \in s : IF FALSE THEN j <= i ELSE j >= i}) = k
           r      == DoSpace(d, c)
<1>1. r =
       CASE n = 0 -> Good(d)
          [] c.count > 0 /\ c.marks ->
               IF Cardinality(ahead) >= n THEN Good(Mv(Up(ahead, n)))
               ELSE Fail([Mv(Len(d.recs)) EXCEPT !.where = "peot"],
                         "medium_error", "eom", n - Cardinality(ahead))
          [] c.count > 0 /\ ~c.marks ->
               IF ahead # {} /\ Up(ahead, 1) <= d.at + n
               THEN LET m == Up(ahead, 1)
                    IN  Fail(Mv(m), "no_sense", "fmk", n - (m - 1 - d.at))
               ELSE IF d.at + n <= Len(d.recs) THEN Good(Mv(d.at + n))
               ELSE Fail(Mv(Len(d.recs)), "blank_check", "none", n - (Len(d.recs) - d.at))
          [] c.count < 0 /\ c.marks ->
               IF Cardinality(behind) >= n THEN Good(Mv(Down(behind, n) - 1))
               ELSE Fail([Mv(0) EXCEPT !.where = "lbot"],
                         "no_sense", "eom", -(n - Cardinality(behind)))
          [] OTHER ->
               IF behind # {} /\ Down(behind, 1) > d.at - n
               THEN LET m == Down(behind, 1)
                    IN  Fail(Mv(m - 1), "no_sense", "fmk", -(n - (d.at - m)))
               ELSE IF n <= d.at THEN Good(Mv(d.at - n))
               ELSE Fail([Mv(0) EXCEPT !.where = "lbot"], "no_sense", "eom", -(n - d.at))
  BY DEF DoSpace
<1>2. n \in Int /\ (n = 0 <=> c.count = 0)
  OBVIOUS
<1> HIDE DEF n, here, marks, ahead, behind, Mv, Up, Down, r, IsOutcome
<1>3. CASE n = 0
  <2>0. ~ (c.count > 0) /\ ~ (c.count < 0)
    BY <1>2, <1>3
  <2>1. r = Good(d)
    BY <1>1, <1>3, <2>0
  <2> QED BY <2>1, SimpleOutcomes DEF r
<1>4. CASE c.count > 0 /\ c.marks
  <2>1. r = IF Cardinality(ahead) >= n THEN Good(Mv(Up(ahead, n)))
            ELSE Fail([Mv(Len(d.recs)) EXCEPT !.where = "peot"],
                         "medium_error", "eom", n - Cardinality(ahead))
    BY <1>1, <1>2, <1>4
  <2> QED BY <2>1, SimpleOutcomes DEF r
<1>5. CASE c.count > 0 /\ ~c.marks
  <2>1. r = IF ahead # {} /\ Up(ahead, 1) <= d.at + n
               THEN LET m == Up(ahead, 1)
                    IN  Fail(Mv(m), "no_sense", "fmk", n - (m - 1 - d.at))
               ELSE IF d.at + n <= Len(d.recs) THEN Good(Mv(d.at + n))
               ELSE Fail(Mv(Len(d.recs)), "blank_check", "none", n - (Len(d.recs) - d.at))
    BY <1>1, <1>2, <1>5
  <2> QED BY <2>1, SimpleOutcomes DEF r
<1>6. CASE c.count < 0 /\ c.marks
  <2>1. r = IF Cardinality(behind) >= n THEN Good(Mv(Down(behind, n) - 1))
            ELSE Fail([Mv(0) EXCEPT !.where = "lbot"],
                         "no_sense", "eom", -(n - Cardinality(behind)))
    BY <1>1, <1>2, <1>6
  <2> QED BY <2>1, SimpleOutcomes DEF r
<1>7. CASE c.count < 0 /\ ~c.marks
  <2>1. r = IF behind # {} /\ Down(behind, 1) > d.at - n
               THEN LET m == Down(behind, 1)
                    IN  Fail(Mv(m - 1), "no_sense", "fmk", -(n - (d.at - m)))
               ELSE IF n <= d.at THEN Good(Mv(d.at - n))
               ELSE Fail([Mv(0) EXCEPT !.where = "lbot"], "no_sense", "eom", -(n - d.at))
    BY <1>1, <1>2, <1>7
  <2> QED BY <2>1, SimpleOutcomes DEF r
<1>8. n = 0 \/ c.count > 0 \/ c.count < 0
  BY <1>2
<1> QED BY <1>3, <1>4, <1>5, <1>6, <1>7, <1>8

\* A good end of a command that did not touch the records.
LEMMA DoneDid ==
  ASSUME NEW d, DriveSound(d), NEW x, DriveAside(x, d), NEW c
  PROVE  ExbDid(Good(x), d, c) /\ IsOutcome(Good(x))
<1> DEFINE g == Good(x)
<1>1. g.drive = x
  BY GoodIs
<1>2. IsOutcome(g)
  BY SimpleOutcomes
<1> HIDE DEF g
<1>3. ExbDid(g, d, c)
  BY <1>1, AsideDid
<1> QED BY <1>2, <1>3 DEF g

\* Loading, unloading and rewinding, ...
LEMMA LoadDid ==
  ASSUME NEW d, DriveSound(d), NEW c
  PROVE  /\ ExbDid(DoLoad(d), d, c) /\ IsOutcome(DoLoad(d))
         /\ ExbDid(DoUnload(d), d, c) /\ IsOutcome(DoUnload(d))
         /\ ExbDid(Good(Rewound(d)), d, c) /\ IsOutcome(Good(Rewound(d)))
<1> DEFINE w == [d EXCEPT !.at = 0, !.where = "lbot"]
           b == d.present /\ d.prevented
           x == [w EXCEPT !.loaded = TRUE]
           y == [d EXCEPT !.loaded = FALSE, !.at = 0, !.where = "data", !.present = b]
<1>1. Len(d.recs) \in Nat
  BY RecordedLen DEF DriveSound
<1>2. DriveAside(w, d)
  <2>1. /\ IsDrive(w) /\ w.recs = d.recs /\ w.writable = d.writable /\ w.at = 0
        /\ w.block = d.block
    BY DEF DriveSound, IsDrive, DriveFields
  <2> HIDE DEF w
  <2> QED BY <1>1, <2>1 DEF DriveAside, DriveSound
<1>3. Rewound(d) = w
  BY DEF Rewound
<1> HIDE DEF w, b
<1>4. DriveAside(x, d)
  <2>1. /\ IsDrive(x) /\ x.recs = w.recs /\ x.writable = w.writable /\ x.at = w.at
        /\ x.block = w.block
    BY <1>2 DEF DriveAside, IsDrive, DriveFields
  <2> HIDE DEF x
  <2> QED BY <1>2, <2>1 DEF DriveAside
<1>5. DriveAside(y, d)
  <2>1. /\ IsDrive(y) /\ y.recs = d.recs /\ y.writable = d.writable /\ y.at = 0
        /\ y.block = d.block
    BY DEF DriveSound, IsDrive, DriveFields
  <2> HIDE DEF y
  <2> QED BY <1>1, <2>1 DEF DriveAside, DriveSound
<1>6. DoLoad(d) = IF d.present THEN Good(x) ELSE MediumNotReady(d)
  BY <1>3 DEF DoLoad
<1>7. DoUnload(d) = Good(y)
  BY DEF DoUnload, b, DriveSound, IsDrive, DriveFields
<1> HIDE DEF x, y
<1>8. /\ ExbDid(Good(x), d, c) /\ IsOutcome(Good(x)) /\ ExbDid(Good(y), d, c)
      /\ IsOutcome(Good(y)) /\ ExbDid(Good(w), d, c) /\ IsOutcome(Good(w))
  BY <1>2, <1>4, <1>5, DoneDid
<1>9. ExbDid(MediumNotReady(d), d, c) /\ IsOutcome(MediumNotReady(d))
  BY RefusedDid, SimpleOutcomes
<1> HIDE DEF ExbDid, IsOutcome
<1> QED BY <1>3, <1>6, <1>7, <1>8, <1>9

\* ... and a diagnosis do not.
LEMMA DiagnoseDid ==
  ASSUME NEW d, DriveSound(d), NEW c
  PROVE  ExbDid(DoDiagnose(d, c), d, c) /\ IsOutcome(DoDiagnose(d, c))
<1>1. /\ ExbDid(IllegalRequest(d), d, c) /\ IsOutcome(IllegalRequest(d))
      /\ ExbDid(DataProtect(d), d, c) /\ IsOutcome(DataProtect(d))
      /\ ExbDid(Good(d), d, c) /\ IsOutcome(Good(d))
  BY RefusedDid, SimpleOutcomes
<1>2. ExbDid(Good(Rewound(d)), d, c) /\ IsOutcome(Good(Rewound(d)))
  BY LoadDid
<1> HIDE DEF ExbDid, IsOutcome
<1> QED BY <1>1, <1>2 DEF DoDiagnose

\* What the driver may put in a command block.
IsCdb(c) == IF c.op = "space" THEN c.count \in Int ELSE c.count \in Nat

\* So every command of a driver does at most what it is for, ...
LEMMA ExecutedDid ==
  ASSUME NEW d, DriveSound(d), NEW c, IsCdb(c), NEW bytes
  PROVE  ExbDid(Executed(d, c, bytes), d, c) /\ IsOutcome(Executed(d, c, bytes))
<1> DEFINE r == Executed(d, c, bytes)
           Fine(x) == ExbDid(x, d, c) /\ IsOutcome(x)
           bl == c.count
           pr == (c.count = 1)
           x  == [d EXCEPT !.block = bl]
           y  == [d EXCEPT !.prevented = pr]
<1>0. r = IF c.op \in NeedsMedium /\ ~d.loaded THEN MediumNotReady(d)
          ELSE CASE c.op = "read"    -> DoRead(d, c)
           [] c.op = "write"   -> DoWrite(d, c, bytes)
           [] c.op = "marks"   -> DoMarks(d, c)
           [] c.op = "space"   -> DoSpace(d, c)
           [] c.op = "rewind"  -> Good(Rewound(d))
           [] c.op = "load"    -> DoLoad(d)
           [] c.op = "unload"  -> DoUnload(d)
           [] c.op = "erase"   -> DoErase(d, c)
           [] c.op = "select"  -> Good(x)
           [] c.op = "prevent" -> Good(y)
           [] c.op \in {"test_tape", "test_no_tape"} -> DoDiagnose(d, c)
           [] c.op = "refused" -> IllegalRequest(d)
           [] OTHER -> Good(d)
  BY DEF Executed
<1>1. Fine(MediumNotReady(d)) /\ Fine(IllegalRequest(d)) /\ Fine(Good(d))
  BY RefusedDid, SimpleOutcomes
<1>2. Fine(DoLoad(d)) /\ Fine(DoUnload(d)) /\ Fine(Good(Rewound(d)))
  BY LoadDid
<1>3. Fine(DoDiagnose(d, c))
  BY DiagnoseDid
<1>4. c.op = "read" => Fine(DoRead(d, c))
  <2>1. c.op = "read" => c.count \in Nat
    BY DEF IsCdb
  <2> QED BY <2>1, ReadAside, ReadOutcome, AsideDid
<1>5. c.op = "space" => Fine(DoSpace(d, c))
  <2>1. c.op = "space" => c.count \in Int
    BY DEF IsCdb
  <2> QED BY <2>1, SpaceAside, SpaceOutcome, AsideDid
<1>6. /\ c.op = "write" => Fine(DoWrite(d, c, bytes))
      /\ c.op = "marks" => Fine(DoMarks(d, c))
      /\ c.op = "erase" => Fine(DoErase(d, c))
  <2>1. c.op \in {"write", "marks"} => c.count \in Nat
    BY DEF IsCdb
  <2> QED BY <2>1, WriteDid, MarksDid, EraseDid
<1>7. c.op = "select" => Fine(Good(x))
  <2>1. c.op = "select" => bl \in Nat
    BY DEF IsCdb
  <2> HIDE DEF bl
  <2>2. /\ IsDrive(x) /\ x.recs = d.recs /\ x.writable = d.writable /\ x.at = d.at
        /\ x.block = bl
    BY DEF DriveSound, IsDrive, DriveFields
  <2> HIDE DEF x
  <2>3. c.op = "select" => DriveAside(x, d)
    BY <2>1, <2>2 DEF DriveAside, DriveSound
  <2> QED BY <2>3, DoneDid
<1>8. Fine(Good(y))
  <2> HIDE DEF pr
  <2>2. /\ IsDrive(y) /\ y.recs = d.recs /\ y.writable = d.writable /\ y.at = d.at
        /\ y.block = d.block
    BY DEF DriveSound, IsDrive, DriveFields
  <2> HIDE DEF y
  <2>3. DriveAside(y, d)
    BY <2>2 DEF DriveAside, DriveSound
  <2> QED BY <2>3, DoneDid
<1> HIDE DEF Fine, x, y, bl, pr, r
<1>9. Fine(r)
  <2>1. CASE c.op \in NeedsMedium /\ ~d.loaded
    BY <1>0, <1>1, <2>1
  <2>2. CASE ~ (c.op \in NeedsMedium /\ ~d.loaded)
    <3>1. r = CASE c.op = "read"    -> DoRead(d, c)
           [] c.op = "write"   -> DoWrite(d, c, bytes)
           [] c.op = "marks"   -> DoMarks(d, c)
           [] c.op = "space"   -> DoSpace(d, c)
           [] c.op = "rewind"  -> Good(Rewound(d))
           [] c.op = "load"    -> DoLoad(d)
           [] c.op = "unload"  -> DoUnload(d)
           [] c.op = "erase"   -> DoErase(d, c)
           [] c.op = "select"  -> Good(x)
           [] c.op = "prevent" -> Good(y)
           [] c.op \in {"test_tape", "test_no_tape"} -> DoDiagnose(d, c)
           [] c.op = "refused" -> IllegalRequest(d)
           [] OTHER -> Good(d)
      BY <1>0, <2>2
    <3> QED BY <1>1, <1>2, <1>3, <1>4, <1>5, <1>6, <1>7, <1>8, <3>1
  <2> QED BY <2>1, <2>2
<1> QED BY <1>9 DEF Fine, r

\* ... whether or not the drive had something to report first.
LEMMA ExbExecuteDid ==
  ASSUME NEW d, DriveSound(d), NEW c, IsCdb(c), NEW bytes
  PROVE  ExbDid(ExbExecute(d, c, bytes), d, c)
<1> DEFINE r == Executed(d, c, bytes)
           x == [d EXCEPT !.attention = FALSE]
           g == [Good(x) EXCEPT !.status = "check"]
           y == [r.drive EXCEPT !.sense = NoSense]
           k == [r EXCEPT !.drive = y]
           o == Outcome(d, <<d.sense>>)
           e == ExbExecute(d, c, bytes)
<1>1. ExbDid(r, d, c) /\ IsOutcome(r)
  BY ExecutedDid
<1>2. e = IF c.op = "bad" THEN IllegalRequest(d)
          ELSE IF c.op = "inquiry" THEN Good(d)
          ELSE IF c.op = "sense" THEN o
          ELSE IF d.attention THEN g
          ELSE IF r.status = "good" THEN k ELSE r
  BY DEF ExbExecute
<1> HIDE DEF r, e
<1>3. ExbDid(IllegalRequest(d), d, c) /\ ExbDid(Good(d), d, c)
  BY RefusedDid
<1>4. ExbDid(o, d, c)
  <2>1. o.drive = d
    BY DEF Outcome
  <2> HIDE DEF o
  <2> QED BY <2>1, AsideSelf, AsideDid
<1>5. ExbDid(g, d, c)
  <2>1. g.drive = x
    BY DEF Good, Outcome
  <2>2. /\ IsDrive(x) /\ x.recs = d.recs /\ x.writable = d.writable /\ x.at = d.at
        /\ x.block = d.block
    BY DEF DriveSound, IsDrive, DriveFields
  <2> HIDE DEF x, g
  <2>3. DriveAside(x, d)
    BY <2>2 DEF DriveAside, DriveSound
  <2> QED BY <2>1, <2>3, AsideDid
<1>6. ExbDid(k, d, c)
  <2>1. k.drive = y /\ k.status = r.status
    BY <1>1 DEF IsOutcome
  <2>2. IsDrive(r.drive)
    BY <1>1 DEF ExbDid, DriveSound
  <2> HIDE DEF k, y
  <2>3. /\ IsDrive(y) /\ y.recs = r.drive.recs /\ y.writable = r.drive.writable
        /\ y.at = r.drive.at /\ y.block = r.drive.block /\ y.where = r.drive.where
    BY <2>2, SensedIs DEF y
  <2>4. DriveSound(y)
    BY <1>1, <2>3 DEF ExbDid, DriveSound
  <2> QED BY <1>1, <2>1, <2>3, <2>4 DEF ExbDid
<1> HIDE DEF ExbDid, o, g, k
<1>7. ExbDid(e, d, c)
  BY <1>1, <1>2, <1>3, <1>4, <1>5, <1>6
<1> QED BY <1>7 DEF e

\* The bus's reset leaves the medium at its beginning.
LEMMA BusResetIs ==
  ASSUME NEW d, DriveSound(d), NEW t
  PROVE  LET e == BusReset(d, t) IN
         DriveSound(e) /\ e.recs = d.recs /\ e.writable = d.writable
<1> DEFINE w == IF d.loaded THEN "lbot" ELSE "data"
           q == t + Silence
           x == [d EXCEPT !.prevented = FALSE, !.block = 1, !.where = w, !.at = 0,
                          !.sense = Attention, !.attention = TRUE]
           e == [x EXCEPT !.quiet = q]
<1>1. BusReset(d, t) = e
  BY DEF BusReset, ExbReset
<1> HIDE DEF w, q
<1>2. IsDrive(x) /\ x.recs = d.recs /\ x.writable = d.writable /\ x.at = 0 /\ x.block = 1
  BY DEF DriveSound, IsDrive, DriveFields
<1> HIDE DEF x
<1>3. IsDrive(e) /\ e.recs = x.recs /\ e.writable = x.writable /\ e.at = x.at /\ e.block = x.block
  BY <1>2 DEF IsDrive, DriveFields
<1> HIDE DEF e
<1>4. Len(d.recs) \in Nat
  BY RecordedLen DEF DriveSound
<1>5. DriveSound(e)
  BY <1>2, <1>3, <1>4 DEF DriveSound
<1> QED BY <1>1, <1>2, <1>3, <1>5

-----------------------------------------------------------------------------
(* The SCSI adapter: its queue of interrupts.                              *)

\* The adapter's registers, mailboxes and drive.
WdFields == {"ready", "rejected", "initialized", "ctl", "inReset", "dating", "since",
             "diagnosing", "diagnoseAt", "busy", "readyAt", "parameters", "seq", "freeAsked",
             "idle", "queue", "awaiting", "interrupt", "shown", "inUse", "posted", "drive",
             "ogmb", "icmb", "last"}
\* An adapter has these, and only these.
IsWd(d) ==
    /\ d = [x \in WdFields |-> d[x]]
    /\ d.ready \in BOOLEAN /\ d.busy \in BOOLEAN /\ d.diagnosing \in BOOLEAN
    /\ d.inReset \in BOOLEAN /\ d.awaiting \in BOOLEAN /\ d.interrupt \in BOOLEAN

\* What the host is told: a mailbox to read, or one that is free again.
Notice == [form : {"icmb", "free"}, box : Nat]
\* The entries of a queue that hold a mailbox.
Naming(q) == {i \in 1 .. Len(q) : q[i].form = "icmb"}

\* The mailboxes held are those an interrupt will free, one each.
Boxed(q, inUse) ==
    /\ inUse = {q[i].box : i \in Naming(q)}
    /\ \A i, j \in Naming(q) : q[i].box = q[j].box => i = j

\* The host is shown the first.
Queued(d) ==
    /\ d.queue \in Seq(Notice)
    /\ d.awaiting <=> d.queue # <<>>
    /\ d.interrupt => d.queue # <<>> /\ d.shown = Head(d.queue)

\* The last command did what it was for, from where the tape was.
Fitting(t, recs) ==
    LET was == t.before.recs
        upTo == IF /\ t.cmd.op \in {"write", "marks", "erase"} /\ t.before.writable
                   /\ t.result.status = "good" \/ t.result.drive.where = "peot"
                THEN t.before.at ELSE Len(was)
    IN  /\ SubSeq(recs, 1, upTo) = SubSeq(was, 1, upTo)
        /\ upTo = Len(was) /\ t.cmd.op \notin {"write", "marks"} => recs = was

\* The mailboxes the host fills: empty, or with a driver's command block.
Boxes(ogmb) ==
    /\ ogmb = [n \in 0 .. Ogmbs - 1 |-> ogmb[n]]
    /\ \A n \in 0 .. Ogmbs - 1 : ogmb[n] = NoBlock \/ IsCdb(ogmb[n].cmd)

\* What an adapter can be.
WdSound(d) ==
    /\ IsWd(d) /\ Queued(d) /\ Boxed(d.queue, d.inUse)
    /\ d.diagnosing => d.queue = <<>>
    /\ d.inReset => ~d.interrupt
    /\ DriveSound(d.drive)
    /\ d.last # <<>> => Fitting(d.last[1], d.drive.recs)
    /\ Boxes(d.ogmb)

\* What no narrow reset has lost: the line stands for the queue, and READY comes.
WdTrue(d) ==
    d.inReset \/ ((d.interrupt <=> d.queue # <<>>) /\ (d.ready \/ d.busy \/ d.diagnosing))

\* What is as it was.
WdAside(e, d) ==
    /\ e.ready = d.ready /\ e.busy = d.busy /\ e.diagnosing = d.diagnosing
    /\ e.inReset = d.inReset /\ e.ctl = d.ctl

\* A command's work on the adapter.
WdKin(e, d) ==
    /\ WdSound(e) /\ WdAside(e, d)
    /\ WdTrue(d) => WdTrue(e)
    /\ e.drive.writable = d.drive.writable
    /\ d.drive.writable \/ e.drive.recs = d.drive.recs

\* No mailbox is held twice.
LEMMA BoxedCounted ==
  ASSUME NEW q, q \in Seq(Notice), NEW inUse, Boxed(q, inUse)
  PROVE  Cardinality(inUse) = Cardinality(Naming(q))
<1> DEFINE N == Naming(q)
           f == [i \in N |-> q[i].box]
<1>1. inUse = {q[i].box : i \in N} /\ \A i, j \in N : q[i].box = q[j].box => i = j
  BY DEF Boxed
<1>2. IsFiniteSet(N)
  <2>1. Len(q) \in Int /\ 1 \in Int
    BY LenProperties
  <2>2. IsFiniteSet(1 .. Len(q))
    BY <2>1, FS_Interval
  <2>3. N \subseteq 1 .. Len(q)
    BY DEF Naming
  <2> HIDE DEF N
  <2> QED BY <2>2, <2>3, FS_Subset
<1> HIDE DEF N
<1>3. f \in Bijection(N, inUse)
  <2>1. f \in [N -> inUse]
    BY <1>1
  <2>2. f \in Injection(N, inUse)
    BY <1>1, <2>1 DEF Injection, IsInjective
  <2>3. f \in Surjection(N, inUse)
    BY <1>1, <2>1 DEF Surjection
  <2> QED BY <2>2, <2>3 DEF Bijection
<1>4. ExistsBijection(N, inUse)
  BY <1>3 DEF ExistsBijection
<1>5. Cardinality(inUse) = Cardinality(N)
  BY <1>2, <1>4, FS_Bijection
<1> QED BY <1>5 DEF N

\* One more entry that names no mailbox, or one not held.
LEMMA BoxedMore ==
  ASSUME NEW q, q \in Seq(Notice), NEW inUse, Boxed(q, inUse), NEW x \in Notice,
         x.form = "icmb" => x.box \notin inUse
  PROVE  Boxed(Append(q, x), IF x.form = "icmb" THEN inUse \cup {x.box} ELSE inUse)
<1> DEFINE p == Append(q, x)
           n == Len(q) + 1
<1>1. /\ p \in Seq(Notice) /\ Len(p) = n /\ Len(q) \in Nat
      /\ \A i \in 1 .. Len(q) : p[i] = q[i]
      /\ p[n] = x
  BY AppendProperties, LenProperties
<1> HIDE DEF p
<1>2. \A i : i \in Naming(p) <=> i \in Naming(q) \/ (i = n /\ x.form = "icmb")
  <2>1. \A i : i \in 1 .. n <=> i \in 1 .. Len(q) \/ i = n
    BY <1>1
  <2>2. \A i \in 1 .. Len(q) : i # n
    BY <1>1
  <2> HIDE DEF n
  <2> QED BY <1>1, <2>1, <2>2 DEF Naming
<1>3. \A i \in Naming(q) : p[i] = q[i] /\ i # n
  BY <1>1 DEF Naming
<1>4. /\ inUse = {q[i].box : i \in Naming(q)}
      /\ \A i, j \in Naming(q) : q[i].box = q[j].box => i = j
  BY DEF Boxed
<1> HIDE DEF n
<1>5. CASE x.form = "icmb"
  <2>1. x.box \notin inUse
    BY <1>5
  <2>2. \A i \in Naming(p) : (i \in Naming(q) /\ p[i].box \in inUse /\ p[i].box = q[i].box)
                             \/ (i = n /\ p[i].box = x.box)
    BY <1>1, <1>2, <1>3, <1>4
  <2>3. n \in Naming(p) /\ p[n].box = x.box
    BY <1>1, <1>2, <1>5
  <2>4. \A i \in Naming(q) : i \in Naming(p) /\ p[i].box = q[i].box
    BY <1>2, <1>3
  <2>5. inUse \cup {x.box} = {p[i].box : i \in Naming(p)}
    BY <1>4, <2>2, <2>3, <2>4
  <2>6. \A i, j \in Naming(p) : p[i].box = p[j].box => i = j
    BY <1>4, <2>1, <2>2
  <2>7. Boxed(p, inUse \cup {x.box})
    BY <2>5, <2>6 DEF Boxed
  <2> QED BY <1>5, <2>7 DEF p
<1>6. CASE x.form # "icmb"
  <2>1. Naming(p) = Naming(q)
    BY <1>2, <1>6
  <2>2. Boxed(p, inUse)
    BY <1>3, <1>4, <2>1 DEF Boxed
  <2> QED BY <1>6, <2>2 DEF p
<1> QED BY <1>5, <1>6

\* The first is taken, and its mailbox is free again.
LEMMA BoxedLess ==
  ASSUME NEW q, q \in Seq(Notice), q # <<>>, NEW inUse, Boxed(q, inUse)
  PROVE  Boxed(Tail(q), IF Head(q).form = "icmb" THEN inUse \ {Head(q).box} ELSE inUse)
<1> DEFINE p == Tail(q)
           x == Head(q)
           u == IF x.form = "icmb" THEN inUse \ {x.box} ELSE inUse
<1>1. /\ p \in Seq(Notice) /\ Len(p) = Len(q) - 1 /\ \A i \in 1 .. Len(p) : p[i] = q[i + 1]
      /\ Len(q) \in Nat /\ Len(q) # 0 /\ x = q[1]
  BY HeadTailProperties, LenProperties, EmptySeq
<1> HIDE DEF p, x
<1>2. /\ inUse = {q[i].box : i \in Naming(q)}
      /\ \A i, j \in Naming(q) : q[i].box = q[j].box => i = j
  BY DEF Boxed
<1>3. \A i : i \in Naming(p) => i + 1 \in Naming(q) /\ p[i] = q[i + 1] /\ i + 1 # 1
  BY <1>1 DEF Naming
<1>4. \A i \in Naming(q) : i # 1 => i - 1 \in Naming(p) /\ p[i - 1] = q[i]
  BY <1>1 DEF Naming
<1>5. 1 \in Naming(q) <=> x.form = "icmb"
  BY <1>1 DEF Naming
<1>6. u = {p[i].box : i \in Naming(p)}
  <2>1. ASSUME NEW b \in u PROVE b \in {p[i].box : i \in Naming(p)}
    <3>1. b \in inUse /\ (x.form = "icmb" => b # x.box)
      OBVIOUS
    <3>2. PICK i \in Naming(q) : b = q[i].box
      BY <1>2, <3>1
    <3>3. i # 1
      BY <1>1, <1>5, <3>1, <3>2
    <3> QED BY <1>4, <3>2, <3>3
  <2>2. ASSUME NEW i \in Naming(p) PROVE p[i].box \in u
    <3>1. i + 1 \in Naming(q) /\ p[i] = q[i + 1] /\ i + 1 # 1
      BY <1>3
    <3>2. p[i].box \in inUse
      BY <1>2, <3>1
    <3>3. x.form = "icmb" => p[i].box # x.box
      BY <1>1, <1>2, <1>5, <3>1
    <3> QED BY <3>2, <3>3
  <2> HIDE DEF u
  <2> QED BY <2>1, <2>2
<1>7. \A i, j \in Naming(p) : p[i].box = p[j].box => i = j
  <2> SUFFICES ASSUME NEW i \in Naming(p), NEW j \in Naming(p), p[i].box = p[j].box
               PROVE  i = j
    OBVIOUS
  <2>1. i + 1 = j + 1
    BY <1>2, <1>3
  <2>2. i \in Int /\ j \in Int
    BY DEF Naming
  <2> QED BY <2>1, <2>2
<1> HIDE DEF u
<1>8. Boxed(p, u)
  BY <1>6, <1>7 DEF Boxed
<1> QED BY <1>8 DEF p, u, x

\* The queue as it was, ...
QueueLike(e, d) ==
    /\ e.queue = d.queue /\ e.awaiting = d.awaiting /\ e.interrupt = d.interrupt
    /\ e.shown = d.shown /\ e.inUse = d.inUse
\* ... and the drive.
DriveLike(e, d) == e.drive = d.drive /\ e.last = d.last /\ e.ogmb = d.ogmb

\* What concerns neither queue nor drive keeps an adapter sound, ...
LEMMA SoundAlike ==
  ASSUME NEW d, WdSound(d), NEW e, IsWd(e), QueueLike(e, d), DriveLike(e, d),
         e.diagnosing => d.diagnosing, e.inReset => d.inReset
  PROVE  WdSound(e)
<1>1. Queued(e) /\ Boxed(e.queue, e.inUse)
  BY DEF WdSound, QueueLike, Queued
<1>2. (e.diagnosing => e.queue = <<>>) /\ (e.inReset => ~e.interrupt)
  BY DEF WdSound, QueueLike
<1>3. DriveSound(e.drive) /\ Boxes(e.ogmb) /\ (e.last # <<>> => Fitting(e.last[1], e.drive.recs))
  BY DEF WdSound, DriveLike
<1> QED BY <1>1, <1>2, <1>3 DEF WdSound

\* ... and is a command's work if the registers stay.
LEMMA KinAlike ==
  ASSUME NEW d, WdSound(d), NEW e, IsWd(e), QueueLike(e, d), DriveLike(e, d), WdAside(e, d)
  PROVE  WdKin(e, d)
<1>1. WdSound(e)
  BY SoundAlike DEF WdAside
<1>2. WdTrue(d) => WdTrue(e)
  BY DEF WdTrue, WdAside, QueueLike
<1> QED BY <1>1, <1>2 DEF WdKin, DriveLike

\* Nothing at all is a command's work, ...
LEMMA KinSelf ==
  ASSUME NEW d, WdSound(d)
  PROVE  WdKin(d, d)
BY DEF WdKin, WdAside

\* ... and so is one work after another.
LEMMA WdKinTrans ==
  ASSUME NEW d, NEW e, NEW g, WdKin(e, d), WdKin(g, e)
  PROVE  WdKin(g, d)
BY DEF WdKin, WdAside

\* An interrupt the queue has room for.
LEMMA PostInterruptIs ==
  ASSUME NEW d, IsWd(d), Queued(d), NEW s \in Notice, Posts(d)
  PROVE  LET e == PostInterrupt(d, s) IN
         /\ IsWd(e) /\ Queued(e) /\ WdAside(e, d) /\ DriveLike(e, d)
         /\ e.queue = Append(d.queue, s) /\ e.queue # <<>> /\ e.inUse = d.inUse
         /\ (d.interrupt <=> d.queue # <<>>) => e.interrupt
         /\ e.posted = d.posted
<1> DEFINE l == Append(d.queue, s)
           q == [d EXCEPT !.queue = l]
           h == Head(l)
           x == [q EXCEPT !.shown = h, !.interrupt = TRUE, !.awaiting = TRUE]
           e == PostInterrupt(d, s)
<1>1. /\ l \in Seq(Notice) /\ l # <<>>
      /\ h = IF d.queue = <<>> THEN s ELSE Head(d.queue)
  BY AppendProperties, HeadTailAppend DEF Queued
<1> HIDE DEF l
<1>2. /\ IsWd(q) /\ q.queue = l /\ WdAside(q, d) /\ DriveLike(q, d) /\ q.inUse = d.inUse
      /\ q.awaiting = d.awaiting /\ q.interrupt = d.interrupt /\ q.shown = d.shown
      /\ q.posted = d.posted
  BY DEF IsWd, WdFields, WdAside, DriveLike
<1>3. Show(q) = x
  BY <1>2 DEF Show
<1>4. e = IF d.awaiting THEN q ELSE x
  <2> HIDE DEF x, q
  <2> QED BY <1>3 DEF PostInterrupt, q, l
<1> HIDE DEF q, h, e
<1>5. /\ IsWd(x) /\ x.queue = l /\ WdAside(x, d) /\ DriveLike(x, d) /\ x.inUse = d.inUse
      /\ x.awaiting = TRUE /\ x.interrupt = TRUE /\ x.shown = h /\ x.posted = d.posted
  BY <1>2 DEF IsWd, WdFields, WdAside, DriveLike
<1> HIDE DEF x
<1>6. CASE d.awaiting
  <2>1. e = q /\ d.queue # <<>>
    BY <1>4, <1>6 DEF Queued
  <2>2. Queued(q)
    <3>1. q.queue \in Seq(Notice) /\ q.queue # <<>>
      BY <1>1, <1>2
    <3>2. q.awaiting
      BY <1>2, <1>6
    <3>3. q.interrupt => q.shown = Head(q.queue)
      BY <1>1, <1>2, <2>1 DEF Queued, h
    <3> QED BY <3>1, <3>2, <3>3 DEF Queued
  <2>3. (d.interrupt <=> d.queue # <<>>) => q.interrupt
    BY <1>2, <2>1
  <2> QED BY <1>1, <1>2, <2>1, <2>2, <2>3 DEF e, l
<1>7. CASE ~d.awaiting
  <2>1. e = x
    BY <1>4, <1>7
  <2>2. Queued(x)
    BY <1>1, <1>5 DEF Queued, h
  <2> QED BY <1>1, <1>5, <2>1, <2>2 DEF e, l
<1> QED BY <1>6, <1>7

\* A mailbox free again.
LEMMA FreedKin ==
  ASSUME NEW d, WdSound(d), ~d.inReset, ~d.diagnosing, NEW n \in Nat
  PROVE  WdKin(PostInterrupt(d, OgmbFree(n)), d)
<1> DEFINE s == OgmbFree(n)
           e == PostInterrupt(d, s)
<1>1. s \in Notice /\ s.form # "icmb"
  BY DEF OgmbFree, Notice
<1>2. CASE ~Posts(d)
  <2>1. e = d
    BY <1>2 DEF PostInterrupt
  <2> QED BY <2>1, KinSelf
<1>3. CASE Posts(d)
  <2> HIDE DEF s
  <2>1. /\ IsWd(e) /\ Queued(e) /\ WdAside(e, d) /\ DriveLike(e, d)
        /\ e.queue = Append(d.queue, s) /\ e.queue # <<>> /\ e.inUse = d.inUse
        /\ (d.interrupt <=> d.queue # <<>>) => e.interrupt
    BY <1>1, <1>3, PostInterruptIs DEF WdSound
  <2> HIDE DEF e
  <2>2. Boxed(e.queue, e.inUse)
    <3>1. d.queue \in Seq(Notice) /\ Boxed(d.queue, d.inUse)
      BY DEF WdSound, Queued
    <3>2. Boxed(Append(d.queue, s), IF s.form = "icmb" THEN d.inUse \cup {s.box} ELSE d.inUse)
      BY <1>1, <3>1, BoxedMore
    <3> QED BY <1>1, <2>1, <3>2
  <2>3. WdSound(e)
    BY <2>1, <2>2 DEF WdSound, WdAside, DriveLike
  <2>4. WdTrue(d) => WdTrue(e)
    BY <2>1 DEF WdTrue, WdAside
  <2>5. WdKin(e, d)
    BY <2>1, <2>3, <2>4 DEF WdKin, DriveLike
  <2> QED BY <2>5 DEF e, s
<1> QED BY <1>2, <1>3

\* A mailbox for the host to read, if one is free.
LEMMA PostIcmbKin ==
  ASSUME NEW d, WdSound(d), ~d.inReset, ~d.diagnosing, NEW code, NEW tag
  PROVE  WdKin(PostIcmb(d, code, tag), d)
<1> DEFINE free == (0 .. Icmbs - 1) \ d.inUse
           m    == CHOOSE b \in free : \A f \in free : b <= f
           mail == [d.icmb EXCEPT ![m] = [code |-> code, tag |-> tag]]
           w    == [d EXCEPT !.icmb = mail]
           s    == Icmb(m)
           p    == PostInterrupt(w, s)
           u    == p.inUse \cup {m}
           h    == Append(p.posted, w.icmb[m])
           x    == [p EXCEPT !.inUse = u, !.posted = h]
           e    == PostIcmb(d, code, tag)
<1>1. e = IF ~Masters(d) \/ free = {} THEN d ELSE IF ~Posts(d) THEN w ELSE x
  <2>1. w = [d EXCEPT !.icmb[m] = [code |-> code, tag |-> tag]]
    BY DEF WdSound, IsWd, WdFields
  <2>2. x = [p EXCEPT !.inUse = @ \cup {m}, !.posted = Append(@, w.icmb[m])]
    OBVIOUS
  <2> DEFINE w2 == [d EXCEPT !.icmb[m] = [code |-> code, tag |-> tag]]
             x2 == [PostInterrupt(w2, Icmb(m))
                      EXCEPT !.inUse = @ \cup {m}, !.posted = Append(@, w2.icmb[m])]
  <2>3. e = IF ~Masters(d) \/ free = {} THEN d ELSE IF ~Posts(d) THEN w2 ELSE x2
    BY DEF PostIcmb
  <2>4. w2 = w /\ x2 = x
    <3>1. w2 = w
      BY <2>1
    <3> HIDE DEF w2
    <3>2. x2 = [PostInterrupt(w, Icmb(m))
                  EXCEPT !.inUse = @ \cup {m}, !.posted = Append(@, w.icmb[m])]
      BY <3>1
    <3> QED BY <2>2, <3>1, <3>2
  <2> HIDE DEF w2, x2, w, x, e, free
  <2> QED BY <2>3, <2>4
<1>2. WdKin(d, d)
  BY KinSelf
<1> HIDE DEF mail
<1>3. IsWd(w) /\ QueueLike(w, d) /\ DriveLike(w, d) /\ WdAside(w, d)
  BY DEF WdSound, IsWd, WdFields, QueueLike, DriveLike, WdAside
<1> HIDE DEF w
<1>4. WdKin(w, d)
  BY <1>3, KinAlike
<1>5. ASSUME free # {}, Posts(d) PROVE WdKin(x, d)
  <2>1. m \in free /\ m \in Nat
    <3>1. free \in SUBSET Nat
      BY WdAssumption
    <3> HIDE DEF free
    <3>2. \E b \in free : \A f \in free : b <= f
      BY <1>5, <3>1, Least
    <3> QED BY <3>1, <3>2
  <2> HIDE DEF m
  <2>2. s \in Notice /\ s.form = "icmb" /\ s.box = m
    BY <2>1 DEF Icmb, Notice
  <2> HIDE DEF s
  <2>3. Posts(w) /\ Queued(w)
    BY <1>3, <1>4, <1>5 DEF Posts, QueueLike, WdKin, WdSound
  <2>4. /\ IsWd(p) /\ Queued(p) /\ WdAside(p, w) /\ DriveLike(p, w)
        /\ p.queue = Append(w.queue, s) /\ p.queue # <<>> /\ p.inUse = w.inUse
        /\ (w.interrupt <=> w.queue # <<>>) => p.interrupt
    BY <1>3, <2>2, <2>3, PostInterruptIs
  <2> HIDE DEF p, h
  <2>5. /\ IsWd(x) /\ x.queue = p.queue /\ x.awaiting = p.awaiting /\ x.interrupt = p.interrupt
        /\ x.shown = p.shown /\ x.inUse = u /\ DriveLike(x, p) /\ WdAside(x, p)
    BY <2>4 DEF IsWd, WdFields, DriveLike, WdAside
  <2> HIDE DEF x
  <2>6. Boxed(x.queue, x.inUse)
    <3>1. d.queue \in Seq(Notice) /\ Boxed(d.queue, d.inUse)
      BY DEF WdSound, Queued
    <3>2. s.box \notin d.inUse
      BY <2>1, <2>2
    <3>3. Boxed(Append(d.queue, s), IF s.form = "icmb" THEN d.inUse \cup {s.box} ELSE d.inUse)
      BY <2>2, <3>1, <3>2, BoxedMore
    <3>4. x.queue = Append(d.queue, s) /\ x.inUse = d.inUse \cup {s.box}
      BY <1>3, <2>2, <2>4, <2>5 DEF QueueLike
    <3> QED BY <2>2, <3>3, <3>4
  <2>7. Queued(x)
    BY <2>4, <2>5 DEF Queued
  <2>8. WdAside(x, d) /\ DriveLike(x, d)
    BY <1>3, <2>4, <2>5 DEF WdAside, DriveLike
  <2>9. WdSound(x)
    BY <2>5, <2>6, <2>7, <2>8 DEF WdSound, WdAside, DriveLike
  <2>10. WdTrue(d) => WdTrue(x)
    <3>1. (d.interrupt <=> d.queue # <<>>) => (x.interrupt /\ x.queue # <<>>)
      BY <1>3, <2>4, <2>5 DEF QueueLike
    <3> QED BY <2>8, <3>1 DEF WdTrue, WdAside
  <2> QED BY <2>8, <2>9, <2>10 DEF WdKin, DriveLike
<1> HIDE DEF x, e, free, WdKin
<1>6. WdKin(e, d)
  BY <1>1, <1>2, <1>4, <1>5
<1> QED BY <1>6 DEF e

\* What a command may do is what its record says it did.
LEMMA FittingIs ==
  ASSUME NEW b, DriveSound(b), NEW c, NEW r, ExbDid(r, b, c), NEW tag
  PROVE  Fitting([tag |-> tag, cmd |-> c, before |-> b, result |-> r], r.drive.recs)
<1> DEFINE t == [tag |-> tag, cmd |-> c, before |-> b, result |-> r]
           w == c.op \in {"write", "marks", "erase"} /\ b.writable
                /\ (r.status = "good" \/ r.drive.where = "peot")
           upTo == IF w THEN b.at ELSE Len(b.recs)
<1>1. t.cmd = c /\ t.before = b /\ t.result = r
  OBVIOUS
<1> HIDE DEF t
<1>2. SubSeq(b.recs, 1, Len(b.recs)) = b.recs
  <2>1. PICK S : b.recs \in Seq(S)
    BY DEF DriveSound, Recorded
  <2> QED BY <2>1, SubSeqFull
<1>3. SubSeq(r.drive.recs, 1, upTo) = SubSeq(b.recs, 1, upTo)
  <2>1. CASE w
    BY <2>1 DEF ExbDid
  <2>2. CASE ~w
    <3>1. r.drive.recs = b.recs
      BY <2>2 DEF ExbDid
    <3> QED BY <3>1
  <2> QED BY <2>1, <2>2
<1>4. upTo = Len(b.recs) /\ c.op \notin {"write", "marks"} => r.drive.recs = b.recs
  <2> SUFFICES ASSUME upTo = Len(b.recs), c.op \notin {"write", "marks"}
               PROVE  r.drive.recs = b.recs
    OBVIOUS
  <2>1. CASE w
    <3>1. c.op = "erase" /\ b.at = Len(b.recs)
      BY <2>1
    <3>2. r.drive.recs = b.recs \/ r.drive.recs = SubSeq(b.recs, 1, b.at)
      BY <3>1 DEF ExbDid
    <3> QED BY <1>2, <3>1, <3>2
  <2>2. CASE ~w
    BY <2>2 DEF ExbDid
  <2> QED BY <2>1, <2>2
<1>5. upTo = IF /\ t.cmd.op \in {"write", "marks", "erase"} /\ t.before.writable
                /\ t.result.status = "good" \/ t.result.drive.where = "peot"
             THEN t.before.at ELSE Len(t.before.recs)
  BY <1>1
<1> HIDE DEF upTo, w
<1>6. Fitting(t, r.drive.recs)
  BY <1>1, <1>3, <1>4, <1>5 DEF Fitting
<1> QED BY <1>6 DEF t

\* A mailbox taken is empty.
LEMMA BoxTakenKin ==
  ASSUME NEW d, WdSound(d), NEW n \in 0 .. Ogmbs - 1
  PROVE  LET e == [d EXCEPT !.ogmb[n] = NoBlock] IN
         WdKin(e, d) /\ e.drive = d.drive
<1> DEFINE o == [d.ogmb EXCEPT ![n] = NoBlock]
           e == [d EXCEPT !.ogmb = o]
<1>1. e = [d EXCEPT !.ogmb[n] = NoBlock]
  BY DEF WdSound, IsWd, WdFields
<1>2. Boxes(o)
  BY DEF WdSound, Boxes
<1> HIDE DEF o
<1>3. /\ IsWd(e) /\ QueueLike(e, d) /\ WdAside(e, d) /\ e.drive = d.drive /\ e.last = d.last
      /\ e.ogmb = o
  BY DEF WdSound, IsWd, WdFields, QueueLike, WdAside
<1> DEFINE f == [e EXCEPT !.ogmb = d.ogmb]
<1>4. Queued(e) /\ Boxed(e.queue, e.inUse)
  BY <1>3 DEF WdSound, QueueLike, Queued
<1>5. WdSound(e)
  BY <1>2, <1>3, <1>4 DEF WdSound, QueueLike, WdAside
<1>6. WdTrue(d) => WdTrue(e)
  BY <1>3 DEF WdTrue, WdAside, QueueLike
<1> HIDE DEF e
<1>7. WdKin(e, d)
  BY <1>3, <1>5, <1>6 DEF WdKin
<1> QED BY <1>1, <1>3, <1>7

\* A block fetched and run.
LEMMA StartOgmbKin ==
  ASSUME NEW d, WdSound(d), ~d.inReset, ~d.diagnosing, NEW n \in Nat, NEW t
  PROVE  WdKin(StartOgmb(d, n, t), d)
<1> DEFINE box   == d.ogmb[n]
           taken == [d EXCEPT !.ogmb[n] = NoBlock]
           asked == [taken EXCEPT !.freeAsked = FALSE]
           freed == IF d.freeAsked THEN PostInterrupt(asked, OgmbFree(n)) ELSE taken
           selected == Selectable(d.drive, box.cmd, t)
           r     == ExbExecute(d.drive, box.cmd, HostBytes(box.tag))
           rd    == r.drive
           l     == [tag |-> box.tag, cmd |-> box.cmd, before |-> d.drive, result |-> r]
           run   == [freed EXCEPT !.drive = rd, !.last = <<l>>]
           ran   == IF ~selected THEN freed ELSE run
           code  == Code(selected, r)
           e     == StartOgmb(d, n, t)
<1>1. e = IF ~Masters(d) \/ n >= Ogmbs THEN d
          ELSE IF box = NoBlock THEN PostIcmb(d, "error", 0)
          ELSE IF box.cmd.op = "icb" THEN PostIcmb(freed, "no_status", box.tag)
          ELSE PostIcmb(ran, code, box.tag)
  BY DEF StartOgmb
<1>2. WdKin(d, d) /\ WdKin(PostIcmb(d, "error", 0), d)
  BY KinSelf, PostIcmbKin
<1>3. CASE n >= Ogmbs
  <2>1. e = d
    BY <1>1, <1>3
  <2> QED BY <1>2, <2>1
<1>4. CASE n < Ogmbs
  <2>1. n \in 0 .. Ogmbs - 1
    BY <1>4, WdAssumption
  <2>2. WdKin(taken, d)
    BY <2>1, BoxTakenKin
  <2> HIDE DEF taken
  <2>3. WdKin(freed, d)
    <3>1. WdKin(asked, taken)
      <4>1. WdSound(taken)
        BY <2>2 DEF WdKin
      <4>2. IsWd(asked) /\ QueueLike(asked, taken) /\ DriveLike(asked, taken)
            /\ WdAside(asked, taken)
        BY <4>1 DEF WdSound, IsWd, WdFields, QueueLike, DriveLike, WdAside
      <4> HIDE DEF asked
      <4> QED BY <4>1, <4>2, KinAlike
    <3> HIDE DEF asked
    <3>2. WdKin(asked, d)
      BY <2>2, <3>1, WdKinTrans
    <3>3. WdSound(asked) /\ ~asked.inReset /\ ~asked.diagnosing
      BY <3>2 DEF WdKin, WdAside
    <3>4. WdKin(PostInterrupt(asked, OgmbFree(n)), asked)
      BY <3>3, FreedKin
    <3>5. WdKin(PostInterrupt(asked, OgmbFree(n)), d)
      BY <3>2, <3>4, WdKinTrans
    <3> QED BY <2>2, <3>5
  <2> HIDE DEF freed
  <2>4. /\ WdSound(freed) /\ ~freed.inReset /\ ~freed.diagnosing
    BY <2>3 DEF WdKin, WdAside
  <2>5. WdKin(PostIcmb(freed, "no_status", box.tag), d)
    <3>1. WdKin(PostIcmb(freed, "no_status", box.tag), freed)
      BY <2>4, PostIcmbKin
    <3> QED BY <2>3, <3>1, WdKinTrans
  <2>6. ASSUME box # NoBlock PROVE WdKin(ran, d)
    <3>1. IsCdb(box.cmd) /\ DriveSound(d.drive)
      BY <2>1, <2>6 DEF WdSound, Boxes
    <3>2. ExbDid(r, d.drive, box.cmd)
      BY <3>1, ExbExecuteDid
    <3>4. Fitting(l, rd.recs)
      BY <3>1, <3>2, FittingIs
    <3>5. /\ DriveSound(rd) /\ rd.writable = d.drive.writable
          /\ d.drive.writable \/ rd.recs = d.drive.recs
      BY <3>2 DEF ExbDid
    <3> HIDE DEF r, rd, l
    <3>6. /\ IsWd(run) /\ QueueLike(run, freed) /\ WdAside(run, freed)
          /\ run.drive = rd /\ run.last = <<l>> /\ run.ogmb = freed.ogmb
      BY <2>4 DEF WdSound, IsWd, WdFields, QueueLike, WdAside
    <3> HIDE DEF run
    <3>7. Queued(run) /\ Boxed(run.queue, run.inUse)
      BY <2>4, <3>6 DEF WdSound, QueueLike, Queued
    <3>8. run.last[1] = l
      BY <3>6
    <3>9. WdSound(run)
      BY <2>4, <3>4, <3>5, <3>6, <3>7, <3>8 DEF WdSound, QueueLike, WdAside
    <3>10. WdTrue(d) => WdTrue(run)
      BY <2>3, <3>6 DEF WdKin, WdTrue, QueueLike, WdAside
    <3>11. WdAside(run, d)
      BY <2>3, <3>6 DEF WdKin, WdAside
    <3>12. WdKin(run, d)
      BY <3>5, <3>6, <3>9, <3>10, <3>11 DEF WdKin
    <3> QED BY <2>3, <3>12
  <2> HIDE DEF ran, code
  <2>7. ASSUME box # NoBlock PROVE WdKin(PostIcmb(ran, code, box.tag), d)
    <3>1. WdKin(ran, d)
      BY <2>6, <2>7
    <3>2. WdSound(ran) /\ ~ran.inReset /\ ~ran.diagnosing
      BY <3>1 DEF WdKin, WdAside
    <3>3. WdKin(PostIcmb(ran, code, box.tag), ran)
      BY <3>2, PostIcmbKin
    <3> QED BY <3>1, <3>3, WdKinTrans
  <2> HIDE DEF WdKin, e, box
  <2>8. WdKin(e, d)
    BY <1>1, <1>2, <1>4, <2>5, <2>7
  <2> QED BY <2>8 DEF e
<1>5. n >= Ogmbs \/ n < Ogmbs
  BY WdAssumption
<1> QED BY <1>3, <1>4, <1>5

\* So is one mailbox of a scan, ...
LEMMA ScanOneKin ==
  ASSUME NEW d, WdSound(d), ~d.inReset, ~d.diagnosing, NEW n \in Nat, NEW t
  PROVE  WdKin(ScanOne(d, n, t), d)
<1>1. WdKin(d, d) /\ WdKin(StartOgmb(d, n, t), d)
  BY KinSelf, StartOgmbKin
<1> QED BY <1>1 DEF ScanOne

\* A scan, mailbox by mailbox.
IsScan(d, n, t, f) == f = [k \in 0 .. n |-> IF k = 0 THEN d ELSE ScanOne(f[k - 1], k - 1, t)]

\* A scan has a value for every number of mailboxes.
LEMMA ScanRuns ==
  ASSUME NEW d, NEW n \in Nat, NEW t
  PROVE  \E f : IsScan(d, n, t, f)
<1> DEFINE S == {m \in Nat : \E f : IsScan(d, m, t, f)}
<1>1. 0 \in S
  <2> DEFINE f == [k \in 0 .. 0 |-> d]
  <2>1. f = [k \in 0 .. 0 |-> IF k = 0 THEN d ELSE ScanOne(f[k - 1], k - 1, t)]
    OBVIOUS
  <2> QED BY <2>1 DEF IsScan
<1>2. ASSUME NEW m \in Nat, m \in S PROVE m + 1 \in S
  <2>1. PICK f : IsScan(d, m, t, f)
    BY <1>2
  <2> DEFINE x == ScanOne(f[m], m, t)
             g == [k \in 0 .. m + 1 |-> IF k = m + 1 THEN x ELSE f[k]]
  <2>2. ASSUME NEW k \in 0 .. m + 1
        PROVE  g[k] = IF k = 0 THEN d ELSE ScanOne(g[k - 1], k - 1, t)
    <3>1. CASE k = m + 1
      <4>1. g[k] = x /\ k - 1 = m /\ g[m] = f[m] /\ k # 0
        BY <3>1
      <4> HIDE DEF g
      <4> QED BY <3>1, <4>1
    <3>2. CASE k # m + 1
      <4>1. k \in 0 .. m /\ g[k] = f[k] /\ (k # 0 => k - 1 \in 0 .. m /\ g[k - 1] = f[k - 1])
        BY <3>2
      <4>2. f[k] = IF k = 0 THEN d ELSE ScanOne(f[k - 1], k - 1, t)
        BY <2>1, <4>1 DEF IsScan
      <4> HIDE DEF g
      <4> QED BY <4>1, <4>2
    <3> QED BY <3>1, <3>2
  <2>3. IsScan(d, m + 1, t, g)
    <3>1. g = [k \in 0 .. m + 1 |-> g[k]]
      OBVIOUS
    <3> HIDE DEF g
    <3> QED BY <2>2, <3>1 DEF IsScan
  <2> HIDE DEF g
  <2>4. m + 1 \in Nat /\ \E h : IsScan(d, m + 1, t, h)
    BY <2>3
  <2> QED BY <2>4
<1>3. \A k \in Nat : k \in S
  <2> HIDE DEF S
  <2> QED BY <1>1, <1>2, NatSetInduction
<1> QED BY <1>3

\* ... and a scan of them all.
LEMMA ScanKin ==
  ASSUME NEW d, WdSound(d), ~d.inReset, ~d.diagnosing, NEW t
  PROVE  WdKin(Scan(d, t), d)
<1> DEFINE F == CHOOSE f : IsScan(d, Ogmbs, t, f)
<1>1. Scan(d, t) = PostIcmb(F[Ogmbs], "scan", 0)
  BY DEF Scan, IsScan
<1>0. Ogmbs \in Nat
  BY WdAssumption
<1>2. IsScan(d, Ogmbs, t, F)
  BY <1>0, ScanRuns
<1> HIDE DEF F
<1> DEFINE S == {k \in Nat : k <= Ogmbs => WdKin(F[k], d)}
<1>3. F[0] = d
  BY <1>0, <1>2 DEF IsScan
<1>4. 0 \in S
  BY <1>3, KinSelf
<1>5. ASSUME NEW k \in Nat, k \in S PROVE k + 1 \in S
  <2> SUFFICES ASSUME k + 1 <= Ogmbs PROVE WdKin(F[k + 1], d)
    OBVIOUS
  <2>0. k <= Ogmbs /\ k + 1 \in 0 .. Ogmbs /\ k + 1 # 0 /\ (k + 1) - 1 = k
    BY <1>0
  <2>1. F[k + 1] = ScanOne(F[k], k, t)
    BY <1>2, <2>0 DEF IsScan
  <2> DEFINE x == F[k]
  <2>2. WdKin(x, d)
    BY <1>5, <2>0
  <2> HIDE DEF x
  <2>3. WdSound(x) /\ ~x.inReset /\ ~x.diagnosing
    BY <2>2 DEF WdKin, WdAside
  <2>4. WdKin(ScanOne(x, k, t), x)
    BY <2>3, ScanOneKin
  <2>5. WdKin(ScanOne(x, k, t), d)
    BY <2>2, <2>4, WdKinTrans
  <2> QED BY <2>1, <2>5 DEF x
<1>6. \A k \in Nat : k \in S
  <2> HIDE DEF S
  <2> QED BY <1>4, <1>5, NatSetInduction
<1> DEFINE y == F[Ogmbs]
<1>7. WdKin(y, d)
  BY <1>0, <1>6
<1> HIDE DEF y, S
<1>8. WdSound(y) /\ ~y.inReset /\ ~y.diagnosing
  BY <1>7 DEF WdKin, WdAside
<1>9. WdKin(PostIcmb(y, "scan", 0), y)
  BY <1>8, PostIcmbKin
<1>10. WdKin(PostIcmb(y, "scan", 0), d)
  BY <1>7, <1>9, WdKinTrans
<1> QED BY <1>1, <1>10 DEF y

\* What a register access leaves.
WdDid(e, d) ==
    /\ WdSound(e)
    /\ WdTrue(d) => WdTrue(e)
    /\ e.drive.writable = d.drive.writable
    /\ d.drive.writable \/ e.drive.recs = d.drive.recs

\* One access after another is one.
LEMMA WdDidTrans ==
  ASSUME NEW d, NEW e, NEW g, WdDid(e, d), WdDid(g, e)
  PROVE  WdDid(g, d)
BY DEF WdDid

\* A command's work is.
LEMMA KinIsDid ==
  ASSUME NEW d, NEW e, WdKin(e, d)
  PROVE  WdDid(e, d)
BY DEF WdKin, WdDid

\* The port is busy after it.
LEMMA TakeDid ==
  ASSUME NEW d, WdSound(d), NEW t, NEW accepted \in BOOLEAN
  PROVE  WdDid(Take(d, t, accepted), d)
<1> DEFINE a == ~accepted
           u == t + PortTime
           e == [d EXCEPT !.rejected = a, !.ready = FALSE, !.busy = TRUE, !.readyAt = u]
<1>1. Take(d, t, accepted) = e
  BY DEF Take
<1> HIDE DEF a, u
<1>2. /\ IsWd(e) /\ QueueLike(e, d) /\ DriveLike(e, d) /\ e.diagnosing = d.diagnosing
      /\ e.inReset = d.inReset /\ e.busy = TRUE
  BY DEF WdSound, IsWd, WdFields, QueueLike, DriveLike
<1> HIDE DEF e
<1>3. WdSound(e)
  BY <1>2, SoundAlike
<1>4. WdTrue(d) => WdTrue(e)
  BY <1>2 DEF WdTrue, QueueLike
<1>5. WdDid(e, d)
  BY <1>2, <1>3, <1>4 DEF WdDid, DriveLike
<1> QED BY <1>1, <1>5

\* A byte of the command register: a scan, a start, or a parameter.
LEMMA WriteCommandDid ==
  ASSUME NEW d, WdSound(d), NEW t, NEW v, v.box \in Nat
  PROVE  WdDid(WriteCommand(d, t, v), d)
<1> DEFINE e == WdCommand(d, t, v)
<1>0. WdKin(d, d)
  BY KinSelf
<1>1. CASE PortClosed(d)
  BY <1>0, <1>1, KinIsDid DEF WriteCommand
<1>2. CASE ~PortClosed(d)
  <2> DEFINE n  == d.parameters - 1
             g  == [d EXCEPT !.parameters = n]
             gi == [g EXCEPT !.initialized = TRUE]
             b  == InitBytes - 1
             i  == [d EXCEPT !.parameters = b, !.seq = v.op]
             f  == [d EXCEPT !.freeAsked = TRUE]
             nidle == ~d.idle
             h  == [d EXCEPT !.idle = nidle]
             x  == CASE v.op \in {"init", "soft_reset"} -> i
                    [] v.op = "on_free"    -> f
                    [] v.op = "hard_reset" -> h
                    [] v.op = "start"      -> StartOgmb(d, v.box, t)
                    [] v.op = "scan"       -> Scan(d, t)
                    [] OTHER               -> d
  <2>1. e = IF d.parameters > 0
            THEN Take(IF g.parameters > 0 \/ d.seq # "init" THEN g ELSE gi, t, TRUE)
            ELSE IF ~Legal(d, v.op) THEN Take(d, t, FALSE) ELSE Take(x, t, TRUE)
    <3>1. h = [d EXCEPT !.idle = ~@]
      BY DEF WdSound, IsWd, WdFields
    <3>2. g = [d EXCEPT !.parameters = @ - 1]
      BY DEF WdSound, IsWd, WdFields
    <3> DEFINE h2 == [d EXCEPT !.idle = ~@]
               g2 == [d EXCEPT !.parameters = @ - 1]
    <3>3. e = IF d.parameters > 0
            THEN Take(IF g2.parameters > 0 \/ d.seq # "init" THEN g2
                      ELSE [g2 EXCEPT !.initialized = TRUE], t, TRUE)
            ELSE IF ~Legal(d, v.op) THEN Take(d, t, FALSE)
            ELSE Take(CASE v.op \in {"init", "soft_reset"} -> i
                    [] v.op = "on_free"    -> f
                    [] v.op = "hard_reset" -> h2
                    [] v.op = "start"      -> StartOgmb(d, v.box, t)
                    [] v.op = "scan"       -> Scan(d, t)
                    [] OTHER               -> d, t, TRUE)
      BY DEF WdCommand
    <3>4. g2 = g /\ h2 = h
      BY <3>1, <3>2
    <3> HIDE DEF g2, h2, g, h, i, f, e
    <3> QED BY <3>3, <3>4
  <2>2. ~d.inReset /\ ~d.diagnosing
    BY <1>2 DEF PortClosed
  <2> HIDE DEF n, b, nidle
  <2>3. WdKin(g, d) /\ WdKin(i, d) /\ WdKin(f, d) /\ WdKin(h, d)
    <3>1. /\ IsWd(g) /\ QueueLike(g, d) /\ DriveLike(g, d) /\ WdAside(g, d)
          /\ IsWd(i) /\ QueueLike(i, d) /\ DriveLike(i, d) /\ WdAside(i, d)
      BY DEF WdSound, IsWd, WdFields, QueueLike, DriveLike, WdAside
    <3>2. /\ IsWd(f) /\ QueueLike(f, d) /\ DriveLike(f, d) /\ WdAside(f, d)
          /\ IsWd(h) /\ QueueLike(h, d) /\ DriveLike(h, d) /\ WdAside(h, d)
      BY DEF WdSound, IsWd, WdFields, QueueLike, DriveLike, WdAside
    <3> HIDE DEF g, i, f, h
    <3> QED BY <3>1, <3>2, KinAlike
  <2>4. WdKin(gi, d)
    <3>1. WdSound(g)
      BY <2>3 DEF WdKin
    <3> HIDE DEF g
    <3>2. IsWd(gi) /\ QueueLike(gi, g) /\ DriveLike(gi, g) /\ WdAside(gi, g)
      BY <3>1 DEF WdSound, IsWd, WdFields, QueueLike, DriveLike, WdAside
    <3> HIDE DEF gi
    <3>3. WdKin(gi, g)
      BY <3>1, <3>2, KinAlike
    <3> QED BY <2>3, <3>3, WdKinTrans
  <2> HIDE DEF g, gi, i, f, h
  <2>5. WdKin(StartOgmb(d, v.box, t), d) /\ WdKin(Scan(d, t), d)
    BY <2>2, StartOgmbKin, ScanKin
  <2>6. WdKin(x, d)
    <3> HIDE DEF WdKin
    <3> QED BY <1>0, <2>3, <2>5
  <2> HIDE DEF x
  <2>7. ASSUME NEW y, WdKin(y, d), NEW a \in BOOLEAN PROVE WdDid(Take(y, t, a), d)
    <3>1. WdSound(y)
      BY <2>7 DEF WdKin
    <3>2. WdDid(Take(y, t, a), y)
      BY <3>1, TakeDid
    <3>3. WdDid(y, d)
      BY <2>7, KinIsDid
    <3> QED BY <3>2, <3>3, WdDidTrans
  <2>8. /\ WdDid(Take(g, t, TRUE), d) /\ WdDid(Take(gi, t, TRUE), d)
        /\ WdDid(Take(x, t, TRUE), d) /\ WdDid(Take(d, t, FALSE), d)
    BY <1>0, <2>3, <2>4, <2>6, <2>7
  <2> HIDE DEF e
  <2>9. WdDid(e, d)
    <3> HIDE DEF WdDid
    <3> QED BY <2>1, <2>8
  <2> QED BY <1>2, <2>9 DEF WriteCommand, e
<1> QED BY <1>1, <1>2

\* Time moves READY and the diagnostics; the line and the controls stay.
LEMMA WdAdvanceDid ==
  ASSUME NEW d, WdSound(d), NEW t
  PROVE  LET e == WdAdvance(d, t) IN
         WdDid(e, d) /\ e.interrupt = d.interrupt /\ e.ctl = d.ctl /\ e.queue = d.queue
<1> DEFINE dd == [d EXCEPT !.dating = FALSE, !.since = t]
           a  == IF d.dating THEN dd ELSE d
           ok == Diagnostic("ok")
           tt == [a EXCEPT !.diagnosing = FALSE, !.shown = ok, !.ready = TRUE]
           b  == IF a.diagnosing /\ t >= a.diagnoseAt THEN tt ELSE a
           bb == [b EXCEPT !.busy = FALSE, !.ready = TRUE]
           e  == WdAdvance(d, t)
<1>1. e = IF d.inReset THEN a ELSE IF b.busy /\ t >= b.readyAt THEN bb ELSE b
  BY DEF WdAdvance
<1>2. IsWd(a) /\ QueueLike(a, d) /\ DriveLike(a, d) /\ WdAside(a, d)
  <2>1. IsWd(dd) /\ QueueLike(dd, d) /\ DriveLike(dd, d) /\ WdAside(dd, d)
    BY DEF WdSound, IsWd, WdFields, QueueLike, DriveLike, WdAside
  <2>2. IsWd(d) /\ QueueLike(d, d) /\ DriveLike(d, d) /\ WdAside(d, d)
    BY DEF WdSound, QueueLike, DriveLike, WdAside
  <2> HIDE DEF dd
  <2> QED BY <2>1, <2>2
<1> HIDE DEF a, e, ok
<1>3. WdKin(a, d)
  BY <1>2, KinAlike
<1>4. /\ WdSound(b) /\ (WdTrue(d) => WdTrue(b)) /\ DriveLike(b, d)
      /\ b.interrupt = d.interrupt /\ b.ctl = d.ctl /\ b.queue = d.queue
  <2>1. CASE a.diagnosing /\ t >= a.diagnoseAt
    <3>1. b = tt
      BY <2>1
    <3>2. /\ IsWd(tt) /\ tt.queue = a.queue /\ tt.awaiting = a.awaiting
          /\ tt.interrupt = a.interrupt /\ tt.inUse = a.inUse /\ DriveLike(tt, a)
          /\ tt.diagnosing = FALSE /\ tt.ready = TRUE /\ tt.inReset = a.inReset
          /\ tt.ctl = a.ctl /\ tt.busy = a.busy
      BY <1>2 DEF IsWd, WdFields, DriveLike
    <3> HIDE DEF tt, b
    <3>3. WdSound(a) /\ a.queue = <<>> /\ ~a.interrupt
      BY <1>3, <2>1 DEF WdKin, WdSound, Queued
    <3>4. Queued(tt)
      BY <3>2, <3>3 DEF WdSound, Queued
    <3>5. WdSound(tt)
      BY <3>2, <3>3, <3>4 DEF WdSound, DriveLike
    <3>6. WdTrue(tt)
      BY <3>2, <3>3 DEF WdTrue
    <3>7. DriveLike(tt, d) /\ tt.interrupt = d.interrupt /\ tt.ctl = d.ctl /\ tt.queue = d.queue
      BY <1>2, <3>2 DEF DriveLike, QueueLike, WdAside
    <3> QED BY <3>1, <3>5, <3>6, <3>7
  <2>2. CASE ~ (a.diagnosing /\ t >= a.diagnoseAt)
    <3>1. b = a
      BY <2>2
    <3> HIDE DEF b
    <3> QED BY <1>2, <1>3, <3>1 DEF WdKin, DriveLike, QueueLike, WdAside
  <2> QED BY <2>1, <2>2
<1> HIDE DEF b
<1>5. b.busy => /\ WdSound(bb) /\ (WdTrue(d) => WdTrue(bb)) /\ DriveLike(bb, d)
                /\ bb.interrupt = d.interrupt /\ bb.ctl = d.ctl /\ bb.queue = d.queue
  <2>1. /\ IsWd(bb) /\ QueueLike(bb, b) /\ DriveLike(bb, b) /\ bb.ready = TRUE
        /\ bb.diagnosing = b.diagnosing /\ bb.inReset = b.inReset /\ bb.ctl = b.ctl
    BY <1>4 DEF WdSound, IsWd, WdFields, QueueLike, DriveLike
  <2> HIDE DEF bb
  <2>2. WdSound(bb)
    BY <1>4, <2>1, SoundAlike
  <2>3. WdTrue(b) => WdTrue(bb)
    BY <2>1 DEF WdTrue, QueueLike
  <2> QED BY <1>4, <2>1, <2>2, <2>3 DEF DriveLike, QueueLike
<1> HIDE DEF bb
<1>6. /\ WdSound(a) /\ (WdTrue(d) => WdTrue(a)) /\ DriveLike(a, d)
      /\ a.interrupt = d.interrupt /\ a.ctl = d.ctl /\ a.queue = d.queue
  BY <1>2, <1>3 DEF WdKin, QueueLike, WdAside
<1>7. /\ WdSound(e) /\ (WdTrue(d) => WdTrue(e)) /\ DriveLike(e, d)
      /\ e.interrupt = d.interrupt /\ e.ctl = d.ctl /\ e.queue = d.queue
  <2>1. e = a \/ e = b \/ (b.busy /\ e = bb)
    BY <1>1
  <2> HIDE DEF WdSound, WdTrue, DriveLike
  <2> QED BY <2>1, <1>4, <1>5, <1>6
<1>8. WdDid(e, d)
  BY <1>7 DEF WdDid, DriveLike
<1> QED BY <1>7, <1>8 DEF e

\* The card as it starts.
LEMMA ClearedIs ==
  ASSUME NEW d, WdSound(d), NEW t, NEW v
  PROVE  LET e == [Cleared(d, t) EXCEPT !.ctl = v] IN
         /\ WdSound(e) /\ WdTrue(e) /\ e.diagnosing /\ e.drive = d.drive
<1> DEFINE f == Fresh(d.drive, t)
           c == [f EXCEPT !.ogmb = d.ogmb, !.icmb = d.icmb, !.last = d.last]
           e == [c EXCEPT !.ctl = v]
<1>1. Cleared(d, t) = c
  BY DEF Cleared
<1>2. /\ IsWd(f) /\ f.queue = <<>> /\ f.awaiting = FALSE /\ f.interrupt = FALSE
      /\ f.inUse = {} /\ f.drive = d.drive /\ f.diagnosing = TRUE /\ f.inReset = FALSE
  BY DEF Fresh, IsWd, WdFields
<1> HIDE DEF f
<1>3. /\ IsWd(c) /\ c.queue = <<>> /\ c.awaiting = FALSE /\ c.interrupt = FALSE
      /\ c.inUse = {} /\ DriveLike(c, d) /\ c.diagnosing = TRUE /\ c.inReset = FALSE
  BY <1>2 DEF IsWd, WdFields, DriveLike
<1> HIDE DEF c
<1>4. /\ IsWd(e) /\ e.queue = <<>> /\ e.awaiting = FALSE /\ e.interrupt = FALSE
      /\ e.inUse = {} /\ DriveLike(e, d) /\ e.diagnosing = TRUE /\ e.inReset = FALSE
  BY <1>3 DEF IsWd, WdFields, DriveLike
<1> HIDE DEF e
<1>5. Queued(e)
  BY <1>4, EmptySeq DEF Queued
<1>6. Boxed(e.queue, e.inUse)
  <2>1. Len(e.queue) = 0
    BY <1>4, EmptySeq
  <2>2. Naming(e.queue) = {}
    BY <2>1 DEF Naming
  <2> QED BY <1>4, <2>2 DEF Boxed
<1>7. WdSound(e)
  BY <1>4, <1>5, <1>6 DEF WdSound, DriveLike
<1>8. WdTrue(e)
  BY <1>4 DEF WdTrue
<1> QED BY <1>1, <1>4, <1>7, <1>8 DEF e, DriveLike

\* The control register: a reset that was wide enough clears the adapter.
LEMMA WdControlDid ==
  ASSUME NEW d, WdSound(d), NEW t, NEW v
  PROVE  LET e == WdControl(d, t, v) IN
         /\ WdSound(e)
         /\ e.drive.writable = d.drive.writable
         /\ d.drive.writable \/ e.drive.recs = d.drive.recs
         /\ IF "reset" \in d.ctl \ v THEN e.diagnosing => WdTrue(e) ELSE WdTrue(d) => WdTrue(e)
<1> DEFINE r == IF "scsi" \in v \ d.ctl THEN BusReset(d.drive, t) ELSE d.drive
           b == [d EXCEPT !.ctl = v, !.drive = r]
           n == [b EXCEPT !.inReset = FALSE, !.dating = FALSE, !.since = Forever]
           w == [Cleared(n, t) EXCEPT !.ctl = v]
           p == [b EXCEPT !.inReset = TRUE, !.dating = TRUE, !.since = Forever, !.ready = FALSE,
                          !.rejected = FALSE, !.interrupt = FALSE, !.busy = FALSE]
           e == WdControl(d, t, v)
<1>1. e = CASE "reset" \in v \ d.ctl -> p
            [] "reset" \in d.ctl \ v ->
                 IF d.since # Forever /\ t - d.since >= ResetMin THEN w ELSE n
            [] OTHER -> b
  <2>1. b = [d EXCEPT !.ctl = v, !.drive = IF "scsi" \in v \ d.ctl THEN BusReset(@, t) ELSE @]
    BY DEF WdSound, IsWd, WdFields
  <2> DEFINE b2 == [d EXCEPT !.ctl = v,
                      !.drive = IF "scsi" \in v \ d.ctl THEN BusReset(@, t) ELSE @]
             n2 == [b2 EXCEPT !.inReset = FALSE, !.dating = FALSE, !.since = Forever]
  <2>2. e = CASE "reset" \in v \ d.ctl ->
               [b2 EXCEPT !.inReset = TRUE, !.dating = TRUE, !.since = Forever, !.ready = FALSE,
                          !.rejected = FALSE, !.interrupt = FALSE, !.busy = FALSE]
            [] "reset" \in d.ctl \ v ->
                 IF d.since # Forever /\ t - d.since >= ResetMin
                 THEN [Cleared(n2, t) EXCEPT !.ctl = v] ELSE n2
            [] OTHER -> b2
    BY DEF WdControl
  <2>3. b2 = b
    BY <2>1
  <2> HIDE DEF b2, b, e
  <2> QED BY <2>2, <2>3
<1>2. DriveSound(r) /\ r.recs = d.drive.recs /\ r.writable = d.drive.writable
  BY BusResetIs DEF WdSound
<1> HIDE DEF r, e
<1>3. /\ IsWd(b) /\ QueueLike(b, d) /\ b.drive = r /\ b.last = d.last /\ b.ogmb = d.ogmb
      /\ b.ready = d.ready /\ b.busy = d.busy /\ b.diagnosing = d.diagnosing
      /\ b.inReset = d.inReset
  BY DEF WdSound, IsWd, WdFields, QueueLike
<1> HIDE DEF b
<1>4. WdSound(b)
  <2>1. Queued(b) /\ Boxed(b.queue, b.inUse)
    BY <1>3 DEF WdSound, QueueLike, Queued
  <2> QED BY <1>2, <1>3, <2>1 DEF WdSound, QueueLike
<1>5. WdTrue(d) => WdTrue(b)
  BY <1>3 DEF WdTrue, QueueLike
<1>6. /\ IsWd(n) /\ QueueLike(n, b) /\ DriveLike(n, b) /\ n.diagnosing = b.diagnosing
      /\ n.inReset = FALSE
  BY <1>3 DEF IsWd, WdFields, QueueLike, DriveLike
<1> HIDE DEF n
<1>7. WdSound(n) /\ (n.diagnosing => WdTrue(n))
  <2>1. WdSound(n)
    BY <1>4, <1>6, SoundAlike
  <2>2. n.diagnosing => WdTrue(n)
    BY <2>1 DEF WdSound, Queued, WdTrue
  <2> QED BY <2>1, <2>2
<1>8. WdSound(w) /\ WdTrue(w) /\ w.drive = n.drive
  BY <1>7, ClearedIs
<1> HIDE DEF w
<1>9. WdSound(p) /\ WdTrue(p) /\ p.drive = b.drive
  <2>1. /\ IsWd(p) /\ p.queue = b.queue /\ p.awaiting = b.awaiting /\ p.interrupt = FALSE
        /\ p.inUse = b.inUse /\ DriveLike(p, b) /\ p.diagnosing = b.diagnosing
        /\ p.inReset = TRUE
    BY <1>3 DEF IsWd, WdFields, DriveLike
  <2> HIDE DEF p
  <2>2. Queued(p)
    BY <1>4, <2>1 DEF WdSound, Queued
  <2>3. WdSound(p)
    BY <1>4, <2>1, <2>2 DEF WdSound, DriveLike
  <2>4. WdTrue(p)
    BY <2>1 DEF WdTrue
  <2> QED BY <2>1, <2>3, <2>4 DEF DriveLike
<1> HIDE DEF p
<1>10. /\ b.drive = r /\ n.drive = r /\ w.drive = r /\ p.drive = r
  BY <1>3, <1>6, <1>8, <1>9 DEF DriveLike
<1>11. WdSound(e) /\ e.drive = r
  <2> HIDE DEF WdSound
  <2> QED BY <1>1, <1>4, <1>7, <1>8, <1>9, <1>10
<1>12. IF "reset" \in d.ctl \ v THEN e.diagnosing => WdTrue(e) ELSE WdTrue(d) => WdTrue(e)
  <2>1. CASE "reset" \in v \ d.ctl
    <3>1. e = p
      BY <1>1, <2>1
    <3> HIDE DEF WdTrue
    <3> QED BY <1>9, <2>1, <3>1
  <2>2. CASE "reset" \in d.ctl \ v
    <3>1. e = w \/ e = n
      BY <1>1, <2>2
    <3> HIDE DEF WdTrue
    <3> QED BY <1>7, <1>8, <2>2, <3>1
  <2>3. CASE "reset" \notin v \ d.ctl /\ "reset" \notin d.ctl \ v
    <3>1. e = b
      BY <1>1, <2>3
    <3> HIDE DEF WdTrue
    <3> QED BY <1>5, <2>3, <3>1
  <2> QED BY <2>1, <2>2, <2>3
<1> QED BY <1>2, <1>11, <1>12 DEF e

\* The host has read the first.
LEMMA AcknowledgeDid ==
  ASSUME NEW d, WdSound(d), d.interrupt
  PROVE  LET e == Acknowledge(d) IN WdDid(e, d) /\ \A p : WdDid([e EXCEPT !.posted = p], d)
<1> DEFINE h == Head(d.queue)
           u == IF h.form = "icmb" THEN d.inUse \ {h.box} ELSE d.inUse
           q == Tail(d.queue)
           f == [d EXCEPT !.inUse = u, !.queue = q, !.awaiting = FALSE, !.interrupt = FALSE]
           x == Head(q)
           g == [f EXCEPT !.shown = x, !.interrupt = TRUE, !.awaiting = TRUE]
           e == Acknowledge(d)
<1>1. d.queue \in Seq(Notice) /\ d.queue # <<>> /\ d.awaiting /\ ~d.inReset /\ ~d.diagnosing
  BY DEF WdSound, Queued
<1>2. e = IF q = <<>> THEN f ELSE g
  <2>1. f = [d EXCEPT !.inUse = IF h.form = "icmb" THEN @ \ {h.box} ELSE @,
                      !.queue = Tail(@), !.awaiting = FALSE, !.interrupt = FALSE]
    BY DEF WdSound, IsWd, WdFields
  <2>2. e = IF f.queue = <<>> THEN f ELSE Show(f)
    <3> DEFINE f2 == [d EXCEPT !.inUse = IF h.form = "icmb" THEN @ \ {h.box} ELSE @,
                      !.queue = Tail(@), !.awaiting = FALSE, !.interrupt = FALSE]
    <3>1. e = IF f2.queue = <<>> THEN f2 ELSE Show(f2)
      BY <1>1 DEF Acknowledge
    <3>2. f2 = f
      BY <2>1
    <3> HIDE DEF f2, f, e
    <3> QED BY <3>1, <3>2
  <2>3. f.queue = q
    BY DEF WdSound, IsWd, WdFields
  <2> QED BY <2>2, <2>3 DEF Show
<1>3. Boxed(q, u) /\ q \in Seq(Notice)
  BY <1>1, BoxedLess, HeadTailProperties DEF WdSound
<1> HIDE DEF u, q, h, e
<1>4. /\ IsWd(f) /\ f.queue = q /\ f.inUse = u /\ f.awaiting = FALSE /\ f.interrupt = FALSE
      /\ DriveLike(f, d) /\ WdAside(f, d)
  BY DEF WdSound, IsWd, WdFields, DriveLike, WdAside
<1> HIDE DEF f, x
<1>5. /\ IsWd(g) /\ g.queue = q /\ g.inUse = u /\ g.awaiting = TRUE /\ g.interrupt = TRUE
      /\ g.shown = x /\ DriveLike(g, d) /\ WdAside(g, d)
  BY <1>4 DEF IsWd, WdFields, DriveLike, WdAside
<1> HIDE DEF g
<1>6. /\ IsWd(e) /\ Queued(e) /\ Boxed(e.queue, e.inUse) /\ DriveLike(e, d) /\ WdAside(e, d)
      /\ (e.interrupt <=> e.queue # <<>>)
  <2>1. CASE q = <<>>
    <3>1. e = f
      BY <1>2, <2>1
    <3> QED BY <1>3, <1>4, <2>1, <3>1 DEF Queued
  <2>2. CASE q # <<>>
    <3>1. e = g
      BY <1>2, <2>2
    <3> QED BY <1>3, <1>5, <2>2, <3>1 DEF Queued, x
  <2> QED BY <2>1, <2>2
<1>7. WdSound(e)
  BY <1>1, <1>6 DEF WdSound, DriveLike, WdAside
<1>8. WdTrue(d) => WdTrue(e)
  BY <1>1, <1>6 DEF WdTrue, WdAside
<1>9. WdDid(e, d)
  BY <1>6, <1>7, <1>8 DEF WdDid, DriveLike
<1>10. ASSUME NEW p PROVE WdDid([e EXCEPT !.posted = p], d)
  <2> DEFINE y == [e EXCEPT !.posted = p]
  <2>1. IsWd(y) /\ QueueLike(y, e) /\ DriveLike(y, e) /\ WdAside(y, e)
    BY <1>6 DEF IsWd, WdFields, QueueLike, DriveLike, WdAside
  <2> HIDE DEF y
  <2>2. WdDid(y, e)
    BY <1>7, <2>1, KinAlike, KinIsDid
  <2>3. WdDid(y, d)
    BY <1>9, <2>2, WdDidTrans
  <2> QED BY <2>3 DEF y
<1> QED BY <1>9, <1>10 DEF e

\* A command block put in a mailbox.
LEMMA FillDid ==
  ASSUME NEW d, WdSound(d), NEW n \in 0 .. Ogmbs - 1, NEW tag, NEW c, IsCdb(c)
  PROVE  WdDid([d EXCEPT !.ogmb[n] = [tag |-> tag, cmd |-> c]], d)
<1> DEFINE x == [tag |-> tag, cmd |-> c]
           o == [d.ogmb EXCEPT ![n] = x]
           e == [d EXCEPT !.ogmb = o]
<1>1. e = [d EXCEPT !.ogmb[n] = x]
  BY DEF WdSound, IsWd, WdFields
<1>2. x.cmd = c
  OBVIOUS
<1> HIDE DEF x
<1>3. Boxes(o)
  BY <1>2 DEF WdSound, Boxes
<1> HIDE DEF o
<1>4. /\ IsWd(e) /\ QueueLike(e, d) /\ WdAside(e, d) /\ e.drive = d.drive /\ e.last = d.last
      /\ e.ogmb = o
  BY DEF WdSound, IsWd, WdFields, QueueLike, WdAside
<1> HIDE DEF e
<1>5. Queued(e) /\ Boxed(e.queue, e.inUse)
  BY <1>4 DEF WdSound, QueueLike, Queued
<1>6. WdSound(e)
  BY <1>3, <1>4, <1>5 DEF WdSound, QueueLike, WdAside
<1>7. WdTrue(d) => WdTrue(e)
  BY <1>4 DEF WdTrue, WdAside, QueueLike
<1>8. WdDid(e, d)
  BY <1>4, <1>6, <1>7 DEF WdDid
<1> QED BY <1>1, <1>8 DEF x

-----------------------------------------------------------------------------
(* The board.  The steps of a device are told apart first. *)

\* The disk's, ...
DiskNext ==
    \/ DiskSelect \/ DiskStatusWrite \/ DiskByteOut \/ DiskByteIn \/ DiskWordOut \/ DiskWordIn
    \/ \E m \in Masks : DiskMask(m)
    \/ \E c \in DiskCommands : DiskCommand(c)
\* ... the diskette's, ...
FloppyNext ==
    \/ \E running, lines \in BOOLEAN : FloppyDor(running, lines)
    \/ \E c \in FloppyCommands : FloppyCommand(c)
    \/ FloppyByteOut \/ FloppyByteIn
\* ... the tape's, ...
TapeNext ==
    \/ \E v \in TapeControls : TapeControl(v)
    \/ \E op \in TapeCommands : TapeData(op)
    \/ \E v \in TapeBytes : TapeByteOut(v)
    \/ TapeDmaGo \/ TapeRstDma
    \/ \E last \in BOOLEAN : TapeDmaCycle(last)
\* ... and the SCSI adapter's.
ScsiNext ==
    \/ \E v \in ScsiControls : ScsiControl(v)
    \/ \E n \in 0 .. Ogmbs - 1 : ScsiFill(n)
    \/ \E v \in ScsiOpcodes : ScsiByte(v)
    \/ ScsiAcknowledge
\* Time passes.
Passes == \E dt \in 1 .. MaxStep[which] : Pass(dt)

\* The number of commands given.
Counted == commands' = commands \/ commands' = commands + 1

\* There are no others but the board's sample and time.
LEMMA NextSplits ==
  ASSUME Next
  PROVE  DiskNext \/ FloppyNext \/ TapeNext \/ ScsiNext \/ Sample \/ Passes
BY DEF Next, DiskNext, FloppyNext, TapeNext, ScsiNext, Passes

\* Each reaches its own device.
LEMMA DiskReaches ==
  ASSUME DiskNext
  PROVE  (Access("disk") \/ Word) /\ Counted
<1>1. CASE DiskSelect
  BY <1>1 DEF DiskSelect, Counted
<1>2. CASE DiskStatusWrite
  BY <1>2 DEF DiskStatusWrite, Control, Counted
<1>3. CASE DiskByteOut
  BY <1>3 DEF DiskByteOut, Moved, Counted
<1>4. CASE DiskByteIn
  BY <1>4 DEF DiskByteIn, Moved, Counted
<1>5. CASE \E m \in Masks : DiskMask(m)
  BY <1>5 DEF DiskMask, Control, Counted
<1>6. CASE \E c \in DiskCommands : DiskCommand(c)
  BY <1>6 DEF DiskCommand, Counted
<1>7. CASE DiskWordOut
  <2>1. PICK v : LET e == TakeData(dev, now, v)
                 IN  IF e.phase = "out" THEN dev' = TakeData(e, now, v + 1) /\ MovedAll(<<v, v + 1>>)
                                        ELSE dev' = e /\ MovedAll(<<v>>)
    BY <1>7 DEF DiskWordOut
  <2>2. commands' = commands
    BY <2>1 DEF MovedAll
  <2> QED BY <1>7, <2>2 DEF DiskWordOut, Counted
<1>8. CASE DiskWordIn
  BY <1>8 DEF DiskWordIn, MovedAll, Counted
<1> QED BY <1>1, <1>2, <1>3, <1>4, <1>5, <1>6, <1>7, <1>8 DEF DiskNext

\* The diskette's do.
LEMMA FloppyReaches ==
  ASSUME FloppyNext
  PROVE  Access("floppy") /\ Counted
<1>1. CASE \E running, lines \in BOOLEAN : FloppyDor(running, lines)
  BY <1>1 DEF FloppyDor, Control, Counted
<1>2. CASE \E c \in FloppyCommands : FloppyCommand(c)
  BY <1>2 DEF FloppyCommand, Counted
<1>3. CASE FloppyByteOut
  BY <1>3 DEF FloppyByteOut, Moved, Counted
<1>4. CASE FloppyByteIn
  BY <1>4 DEF FloppyByteIn, Moved, Counted
<1> QED BY <1>1, <1>2, <1>3, <1>4 DEF FloppyNext

\* The tape's do.
LEMMA TapeReaches ==
  ASSUME TapeNext
  PROVE  Access("tape") /\ Counted
<1>1. CASE \E v \in TapeControls : TapeControl(v)
  BY <1>1 DEF TapeControl, Command, Counted
<1>2. CASE \E op \in TapeCommands : TapeData(op)
  BY <1>2 DEF TapeData, Command, Counted
<1>3. CASE \E v \in TapeBytes : TapeByteOut(v)
  BY <1>3 DEF TapeByteOut, Counted
<1>4. CASE TapeDmaGo \/ TapeRstDma
  BY <1>4 DEF TapeDmaGo, TapeRstDma, Counted
<1>5. CASE \E last \in BOOLEAN : TapeDmaCycle(last)
  BY <1>5 DEF TapeDmaCycle, Moved, Counted
<1> QED BY <1>1, <1>2, <1>3, <1>4, <1>5 DEF TapeNext

\* The adapter's do.
LEMMA ScsiReaches ==
  ASSUME ScsiNext
  PROVE  Access("scsi") /\ Counted
<1>1. CASE \E v \in ScsiControls : ScsiControl(v)
  BY <1>1 DEF ScsiControl, Counted
<1>2. CASE \E n \in 0 .. Ogmbs - 1 : ScsiFill(n)
  BY <1>2 DEF ScsiFill, Counted
<1>3. CASE \E v \in ScsiOpcodes : ScsiByte(v)
  BY <1>3 DEF ScsiByte, Counted
<1>4. CASE ScsiAcknowledge
  BY <1>4 DEF ScsiAcknowledge, Counted
<1> QED BY <1>1, <1>2, <1>3, <1>4 DEF ScsiNext

\* An access: a word of the fixed disk goes round the promise.
Reaches(w) == Access(w) \/ (w = "disk" /\ Word)
\* An access, whatever the device.
Accesses == Counted /\ \E w \in {"disk", "floppy", "tape", "scsi"} : Reaches(w)

\* A step is an access, a sample, or time.
LEMMA NextReaches ==
  ASSUME Next
  PROVE  Accesses \/ Sample \/ Passes
BY NextSplits, DiskReaches, FloppyReaches, TapeReaches, ScsiReaches DEF Accesses, Reaches

\* The machine, whatever the device.
Timed ==
    /\ which \in {"disk", "floppy", "tape", "scsi"}
    /\ now \in Nat /\ now <= MaxNow[which] /\ until \in Nat /\ Standing \in Nat /\ commands \in Nat
    /\ turn \in {"sample", "run"}

\* Time passes within its bound, and advances the device.
LEMMA PassesIs ==
  ASSUME Timed, Passes
  PROVE  \E t \in Nat :
           /\ now < t /\ t <= MaxNow[which] /\ now' = t /\ dev' = Advance(which, dev, t)
           /\ turn = "run" /\ turn' = "sample"
           /\ which' = which /\ until' = until /\ Standing' = Standing /\ job' = job /\ commands' = commands
<1>1. PICK dt \in 1 .. MaxStep[which] : Pass(dt)
  BY DEF Passes
<1>2. dt \in Nat /\ dt > 0 /\ now \in Nat
  BY StorageAssumption DEF Timed
<1>3. now + dt \in Nat /\ now < now + dt
  BY <1>2
<1> DEFINE t == now + dt
<1>4. /\ t <= MaxNow[which] /\ now' = t /\ dev' = Advance(which, dev, t)
      /\ turn = "run" /\ turn' = "sample"
      /\ which' = which /\ until' = until /\ Standing' = Standing /\ job' = job /\ commands' = commands
  BY <1>1 DEF Pass, Standing
<1> HIDE DEF t
<1>5. t \in Nat /\ now < t
  BY <1>3 DEF t
<1> QED BY <1>4, <1>5

\* An access withdraws the promise.
LEMMA AccessIs ==
  ASSUME Timed, NEW w, Reaches(w)
  PROVE  /\ which = w /\ which' = which /\ now' = now /\ Standing' = 0 /\ ~(now' < Standing')
         /\ turn = "run" /\ turn' = turn
<1>1. /\ which = w /\ which' = which /\ now' = now /\ turn = "run" /\ turn' = turn
      /\ missed' \/ until' = 0
  BY DEF Reaches, Access, Word
<1>2. Standing' = 0
  BY <1>1 DEF Standing
<1> QED BY <1>1, <1>2 DEF Timed

\* The instant promised is a number.
LEMMA UntilNat ==
  ASSUME Timed, NextChange(which, dev) \in Nat, Accesses \/ Sample
  PROVE  until' \in Nat
BY DEF Timed, Accesses, Reaches, Access, Word, Sample

\* A sample renews the promise, if it had run out.
LEMMA SampleIs ==
  ASSUME Timed, Sample
  PROVE  /\ which' = which /\ dev' = dev /\ now' = now /\ job' = job /\ commands' = commands
         /\ turn = "sample" /\ turn' = "run"
         /\ \/ Standing' = Standing
            \/ now >= Standing /\ Standing' = NextChange(which, dev)
<1>1. now \in Nat /\ Standing = IF missed THEN 0 ELSE until
  BY DEF Timed, Standing
<1>2. CASE now >= until
  <2>1. until' = NextChange(which, dev) /\ ~missed'
    <3>1. ~(now < until)
      BY <1>2 DEF Timed
    <3>2. ~missed'
      BY <3>1, Zenon DEF Sample
    <3> QED BY <1>2, <3>2 DEF Sample
  <2>2. Standing' = NextChange(which, dev) /\ now >= Standing
    BY <1>1, <1>2, <2>1 DEF Standing
  <2> QED BY <2>2 DEF Sample
<1>3. CASE ~(now >= until)
  <2>1. until' = until /\ (missed' <=> missed /\ now < until)
    BY <1>3 DEF Sample
  <2>2. now < until
    BY <1>1, <1>3 DEF Timed
  <2>3. Standing' = Standing
    BY <1>1, <2>1, <2>2 DEF Standing
  <2> QED BY <2>3 DEF Sample
<1> QED BY <1>2, <1>3

\* Every step keeps the time within its bound.
LEMMA TimedStep ==
  ASSUME Timed, Next, NextChange(which, dev) \in Nat
  PROVE  Timed'
<1>1. CASE Accesses
  BY <1>1, AccessIs, UntilNat DEF Accesses, Counted, Timed
<1>2. CASE Sample
  BY <1>2, SampleIs, UntilNat DEF Timed
<1>3. CASE Passes
  BY <1>3, PassesIs DEF Timed
<1> QED BY <1>1, <1>2, <1>3, NextReaches

\* What the driver remembers of a command.
IsJob(j) == j = [before |-> j.before, moved |-> j.moved]

\* What moved is no more than that.
LEMMA MovedIs ==
  ASSUME IsJob(job), NEW v, Moved(v)
  PROVE  IsJob(job') /\ job'.before = job.before
BY DEF IsJob, Moved

\* So does a word's.
LEMMA MovedAllIs ==
  ASSUME IsJob(job), NEW bytes, MovedAll(bytes)
  PROVE  IsJob(job') /\ job'.before = job.before
BY DEF IsJob, MovedAll

\* The disk's invariant: its promise stands too.
DiskInv ==
    which = "disk" =>
      /\ DiskSound(dev) /\ DiskDid(dev, job.before) /\ IsJob(job)
      /\ now < Standing => Standing <= DiskNextChange(dev)

\* The instant it gives is a number.
LEMMA DiskChanges ==
  ASSUME NEW d, DiskSound(d)
  PROVE  DiskNextChange(d) \in Nat
BY OmtiAssumption DEF DiskNextChange, DiskSound

\* Every access keeps it, ...
LEMMA DiskAccess ==
  ASSUME Timed, DiskInv, DiskNext
  PROVE  DiskInv'
<1>0. /\ DiskSound(dev) /\ DiskDid(dev, job.before) /\ IsJob(job) /\ now \in Nat
      /\ which' = which /\ ~(now' < Standing')
  BY DiskReaches, AccessIs DEF DiskInv, Timed, Reaches
<1> SUFFICES DiskSound(dev') /\ DiskDid(dev', job'.before) /\ IsJob(job')
  BY <1>0 DEF DiskInv
<1>1. CASE DiskSelect
  BY <1>0, <1>1, SelectSound DEF DiskSelect
<1>2. CASE DiskStatusWrite
  BY <1>0, <1>2, ResetSound DEF DiskStatusWrite, Control
<1>3. CASE DiskByteOut
  <2>1. PICK v : dev.phase = "out" /\ dev' = TakeData(dev, now, v) /\ Moved(v)
    BY <1>3 DEF DiskByteOut
  <2>2. DiskSound(dev') /\ DiskDid(dev', job.before)
    BY <1>0, <2>1, TakeDataSound
  <2> QED BY <1>0, <2>1, <2>2, MovedIs
<1>4. CASE DiskByteIn
  <2>1. DiskSound(dev') /\ DiskDid(dev', job.before)
    BY <1>0, <1>4, GiveByteSound DEF DiskByteIn
  <2>2. CASE dev.phase = "in"
    <3>1. Moved(dev.buf[dev.i + 1])
      BY <1>4, <2>2 DEF DiskByteIn
    <3> QED BY <1>0, <2>1, <3>1, MovedIs
  <2>3. CASE dev.phase # "in"
    BY <1>0, <1>4, <2>1, <2>3 DEF DiskByteIn
  <2> QED BY <2>2, <2>3
<1>5. CASE \E m \in Masks : DiskMask(m)
  BY <1>0, <1>5, MaskSound DEF DiskMask, Control
<1>6. CASE \E c \in DiskCommands : DiskCommand(c)
  <2>1. PICK c \in DiskCommands : DiskCommand(c)
    BY <1>6
  <2>2. c \in CommandBlocks /\ dev.phase \in {"idle", "command"} /\ dev' = TakeCommand(dev, now, c)
    BY <2>1, StorageAssumption DEF DiskCommand
  <2>3. /\ DiskSound(dev')
        /\ dev'.phase = "command" => DiskDid(dev', job.before)
        /\ dev'.phase # "command" => DiskDid(dev', dev.vol)
    BY <1>0, <2>2, CommandSound
  <2>4. /\ dev'.phase = "command" => job' = job
        /\ dev'.phase # "command" => job' = [before |-> dev.vol, moved |-> <<>>]
    BY <2>1 DEF DiskCommand
  <2> QED BY <1>0, <2>3, <2>4 DEF IsJob
<1>7. CASE DiskWordOut
  <2>1. PICK v : LET e == TakeData(dev, now, v)
                 IN  IF e.phase = "out" THEN dev' = TakeData(e, now, v + 1) /\ MovedAll(<<v, v + 1>>)
                                        ELSE dev' = e /\ MovedAll(<<v>>)
    BY <1>7 DEF DiskWordOut
  <2> DEFINE e == TakeData(dev, now, v)
  <2>2. dev.phase = "out"
    BY <1>7 DEF DiskWordOut
  <2>3. DiskSound(e) /\ DiskDid(e, job.before)
    BY <1>0, <2>2, TakeDataSound
  <2>4. /\ e.phase = "out" => dev' = TakeData(e, now, v + 1) /\ MovedAll(<<v, v + 1>>)
        /\ e.phase # "out" => dev' = e /\ MovedAll(<<v>>)
    BY <2>1
  <2> HIDE DEF e
  <2>5. CASE e.phase = "out"
    <3>1. DiskSound(dev') /\ DiskDid(dev', job.before)
      BY <1>0, <2>3, <2>4, <2>5, TakeDataSound
    <3> QED BY <1>0, <2>4, <2>5, <3>1, MovedAllIs
  <2>6. CASE e.phase # "out"
    BY <1>0, <2>3, <2>4, <2>6, MovedAllIs
  <2> QED BY <2>5, <2>6
<1>8. CASE DiskWordIn
  <2> DEFINE e == GiveByte(dev, now)
             bytes == Given(dev) \o Given(e)
  <2>1. dev' = GiveByte(e, now) /\ MovedAll(bytes)
    BY <1>8 DEF DiskWordIn
  <2>2. DiskSound(e) /\ DiskDid(e, job.before)
    BY <1>0, <1>8, GiveByteSound DEF DiskWordIn
  <2> HIDE DEF e, bytes
  <2>3. DiskSound(GiveByte(e, now)) /\ DiskDid(GiveByte(e, now), job.before)
    <3>1. CASE e.phase \in {"in", "status"}
      BY <1>0, <2>2, <3>1, GiveByteSound
    <3>2. CASE e.phase \notin {"in", "status"}
      <4>1. GiveByte(e, now) = e
        BY <3>2 DEF GiveByte
      <4> QED BY <2>2, <4>1
    <3> QED BY <3>1, <3>2
  <2> QED BY <1>0, <2>1, <2>3, MovedAllIs
<1> QED BY <1>1, <1>2, <1>3, <1>4, <1>5, <1>6, <1>7, <1>8 DEF DiskNext

\* ... and time does, with the line as it was before the instant promised, ...
LEMMA DiskPass ==
  ASSUME Timed, DiskInv, which = "disk", Passes
  PROVE  DiskInv' /\ (now' < Standing => Irq(which', dev') = Irq(which, dev))
<1>1. PICK t \in Nat : /\ now < t /\ now' = t /\ dev' = Advance(which, dev, t)
                       /\ which' = which /\ Standing' = Standing /\ job' = job
  BY PassesIs
<1>2. DiskSound(dev) /\ DiskDid(dev, job.before) /\ IsJob(job) /\ dev' = DiskAdvance(dev, t)
  BY <1>1 DEF DiskInv, Advance
<1>3. /\ DiskSound(dev') /\ DiskDid(dev', job'.before) /\ IsJob(job')
      /\ t < DiskNextChange(dev) => dev' = dev
  BY <1>1, <1>2, AdvanceSound
<1>4. ASSUME now' < Standing
      PROVE  dev' = dev /\ Standing <= DiskNextChange(dev)
  <2>1. now \in Nat /\ Standing \in Nat /\ t < Standing
    BY <1>1, <1>4 DEF Timed
  <2>2. now < Standing
    BY <1>1, <2>1
  <2>3. Standing <= DiskNextChange(dev) /\ DiskNextChange(dev) \in Nat
    BY <1>2, <2>2, DiskChanges DEF DiskInv
  <2>4. t < DiskNextChange(dev)
    BY <2>1, <2>3
  <2> QED BY <1>3, <2>3, <2>4
<1>5. DiskInv'
  BY <1>1, <1>3, <1>4 DEF DiskInv
<1> QED BY <1>1, <1>4, <1>5

\* ... and so every step.
LEMMA DiskStep ==
  ASSUME Timed, DiskInv, Next
  PROVE  DiskInv'
<1>1. CASE which # "disk"
  BY <1>1, NextReaches, AccessIs, SampleIs, PassesIs DEF Accesses, DiskInv
<1>2. CASE which = "disk" /\ Accesses
  <2>1. DiskNext
    BY <1>2, NextSplits, FloppyReaches, TapeReaches, ScsiReaches, PassesIs
       DEF Accesses, Reaches, Access, Word, Sample
  <2> QED BY <2>1, DiskAccess
<1>3. CASE which = "disk" /\ Sample
  <2>1. DiskSound(dev) /\ DiskNextChange(dev) \in Nat
    BY <1>3, DiskChanges DEF DiskInv
  <2>2. /\ which' = which /\ dev' = dev /\ job' = job /\ now' = now
        /\ Standing' = Standing \/ Standing' = DiskNextChange(dev)
    BY <1>3, SampleIs DEF NextChange
  <2> QED BY <1>3, <2>1, <2>2 DEF DiskInv
<1>4. CASE which = "disk" /\ Passes
  BY <1>4, DiskPass
<1> QED BY <1>1, <1>2, <1>3, <1>4, NextReaches

\* The diskette's invariant.
FloppyInv ==
    which = "floppy" =>
      /\ FdcSound(dev) /\ FdcDid(dev, job.before) /\ IsJob(job)
      /\ now < Standing => Standing <= FdcNextChange(dev)

\* The instant it gives is a number.
LEMMA FloppyChanges ==
  ASSUME NEW f, FdcSound(f)
  PROVE  FdcNextChange(f) \in Nat
<1> DEFINE S == {f.unit[u].at : u \in Units} \cup {f.reset}
                  \cup (IF f.phase = "executing" THEN {f.ends} ELSE {})
<1>1. \A u \in Units : f.unit[u].at \in Nat
  BY DEF FdcSound, UnitsSound, UnitSound
<1>2. f.reset \in Nat /\ (f.phase = "executing" => f.ends \in Nat)
  BY DEF FdcSound
<1>3. S \in SUBSET Nat /\ S # {}
  BY <1>1, <1>2
<1>4. FdcNextChange(f) = Earliest(S)
  BY DEF FdcNextChange
<1> HIDE DEF S
<1>5. Earliest(S) \in S
  BY <1>3, EarliestIs
<1> QED BY <1>3, <1>4, <1>5

\* The commands a driver gives the diskette address cylinders that can be reached.
LEMMA FloppyBlocks ==
  ASSUME NEW c \in FloppyCommands
  PROVE  c \in FdcBlocks /\ Near(c.at \div PerTrack)
<1>1. c \in FdcBlocks
  BY StorageAssumption
<1>2. c.at \in Nat
  BY <1>1 DEF FdcBlocks
<1>3. PerTrack \in Nat \ {0}
  BY FdcTimes
<1>4. c.at \div PerTrack \in Nat
  BY <1>2, <1>3
<1>5. MaxNow["floppy"] + (c.at \div PerTrack) * StepTime + Settling < NeverDue
  BY StorageAssumption
<1> QED BY <1>1, <1>4, <1>5 DEF Near

\* Every access keeps it, ...
LEMMA FloppyAccess ==
  ASSUME Timed, FloppyInv, FloppyNext
  PROVE  FloppyInv'
<1>0. /\ FdcSound(dev) /\ FdcDid(dev, job.before) /\ IsJob(job) /\ now \in Nat
      /\ now <= MaxNow["floppy"] /\ which' = which /\ ~(now' < Standing')
  BY FloppyReaches, AccessIs DEF FloppyInv, Timed, Reaches
<1> SUFFICES FdcSound(dev') /\ FdcDid(dev', job'.before) /\ IsJob(job')
  BY <1>0 DEF FloppyInv
<1>1. CASE \E running, lines \in BOOLEAN : FloppyDor(running, lines)
  BY <1>0, <1>1, WriteDorSound DEF FloppyDor, Control
<1>2. CASE \E c \in FloppyCommands : FloppyCommand(c)
  <2>1. PICK c \in FloppyCommands : FloppyCommand(c)
    BY <1>2
  <2>2. /\ dev.phase \in {"idle", "command"} /\ dev' = FdcCommand(dev, now, c)
        /\ dev'.phase = "command" => job' = job
        /\ dev'.phase # "command" => job' = [before |-> dev.vol, moved |-> <<>>]
    BY <2>1 DEF FloppyCommand
  <2>3. c \in FdcBlocks /\ Near(c.at \div PerTrack)
    BY FloppyBlocks
  <2>4. /\ FdcSound(dev')
        /\ dev'.phase = "command" => FdcDid(dev', job.before)
        /\ dev'.phase # "command" => FdcDid(dev', dev.vol)
    BY <1>0, <2>2, <2>3, FdcCommandSound
  <2> QED BY <1>0, <2>2, <2>4 DEF IsJob
<1>3. CASE FloppyByteOut
  <2>1. PICK v : dev.phase = "out" /\ dev' = FdcTakeData(dev, now, v) /\ Moved(v)
    BY <1>3 DEF FloppyByteOut
  <2>2. FdcSound(dev') /\ FdcDid(dev', job.before)
    BY <1>0, <2>1, FdcTakeDataSound
  <2> QED BY <1>0, <2>1, <2>2, MovedIs
<1>4. CASE FloppyByteIn
  <2>1. FdcSound(dev') /\ FdcDid(dev', job.before)
    BY <1>0, <1>4, FdcGiveByteSound DEF FloppyByteIn
  <2>2. CASE dev.phase = "in"
    <3>1. Moved(dev.buf[dev.bi + 1])
      BY <1>4, <2>2 DEF FloppyByteIn
    <3> QED BY <1>0, <2>1, <3>1, MovedIs
  <2>3. CASE dev.phase # "in"
    BY <1>0, <1>4, <2>1, <2>3 DEF FloppyByteIn
  <2> QED BY <2>2, <2>3
<1> QED BY <1>1, <1>2, <1>3, <1>4 DEF FloppyNext

\* ... and time does, with the line as it was before the instant promised, ...
LEMMA FloppyPass ==
  ASSUME Timed, FloppyInv, which = "floppy", Passes
  PROVE  FloppyInv' /\ (now' < Standing => Irq(which', dev') = Irq(which, dev))
<1>1. PICK t \in Nat : /\ now < t /\ now' = t /\ dev' = Advance(which, dev, t)
                       /\ which' = which /\ Standing' = Standing /\ job' = job
  BY PassesIs
<1>2. FdcSound(dev) /\ FdcDid(dev, job.before) /\ IsJob(job) /\ dev' = FdcAdvance(dev, t)
  BY <1>1 DEF FloppyInv, Advance
<1>3. /\ FdcSound(dev') /\ FdcDid(dev', job'.before) /\ IsJob(job')
      /\ t < FdcNextChange(dev) => dev' = dev
  BY <1>1, <1>2, FdcAdvanceSound
<1>4. ASSUME now' < Standing
      PROVE  dev' = dev /\ Standing <= FdcNextChange(dev)
  <2>1. now \in Nat /\ Standing \in Nat /\ t < Standing
    BY <1>1, <1>4 DEF Timed
  <2>2. now < Standing
    BY <1>1, <2>1
  <2>3. Standing <= FdcNextChange(dev) /\ FdcNextChange(dev) \in Nat
    BY <1>2, <2>2, FloppyChanges DEF FloppyInv
  <2>4. t < FdcNextChange(dev)
    BY <2>1, <2>3
  <2> QED BY <1>3, <2>3, <2>4
<1>5. FloppyInv'
  BY <1>1, <1>3, <1>4 DEF FloppyInv
<1> QED BY <1>1, <1>4, <1>5

\* ... and so every step.
LEMMA FloppyStep ==
  ASSUME Timed, FloppyInv, Next
  PROVE  FloppyInv'
<1>1. CASE which # "floppy"
  BY <1>1, NextReaches, AccessIs, SampleIs, PassesIs DEF Accesses, FloppyInv
<1>2. CASE which = "floppy" /\ Accesses
  <2>1. FloppyNext
    BY <1>2, NextSplits, DiskReaches, TapeReaches, ScsiReaches, PassesIs
       DEF Accesses, Reaches, Access, Word, Sample
  <2> QED BY <2>1, FloppyAccess
<1>3. CASE which = "floppy" /\ Sample
  <2>1. FdcSound(dev) /\ FdcNextChange(dev) \in Nat
    BY <1>3, FloppyChanges DEF FloppyInv
  <2>2. /\ which' = which /\ dev' = dev /\ job' = job /\ now' = now
        /\ Standing' = Standing \/ Standing' = FdcNextChange(dev)
    BY <1>3, SampleIs DEF NextChange
  <2> QED BY <1>3, <2>1, <2>2 DEF FloppyInv
<1>4. CASE which = "floppy" /\ Passes
  BY <1>4, FloppyPass
<1> QED BY <1>1, <1>2, <1>3, <1>4, NextReaches

\* What the driver remembers of a tape's command.
IsTapeJob(j) ==
    j = [before |-> j.before, moved |-> j.moved, op |-> j.op, from |-> j.from,
         twice |-> j.twice]
\* The tape is sound and has done only that, and READY comes unless a reset was too short.
TapeSafe(d, j) ==
    /\ TapeSound(d) /\ TapeDid(d, j) /\ IsTapeJob(j)
    /\ d.card.ctl \in TapeControls \cup {{}}
    /\ "reset" \in d.card.ctl => j.op \notin {"write", "mark"}
    /\ d.card.ctl \cap {"request", "reset"} = {} => Live(d.card) \/ j.op = "narrow"

\* The driver does not reset and ask at once.
LEMMA ControlApart ==
  ASSUME NEW v \in TapeControls \cup {{}}
  PROVE  ~({"reset", "request"} \subseteq v)
BY StorageAssumption

\* An operation that is no command keeps that, ...
LEMMA KinSafe ==
  ASSUME NEW d, NEW j, TapeSafe(d, j), NEW e, TapeKin(e, d)
  PROVE  TapeSafe(e, j)
<1>1. TapeDid(e, j)
  BY KinDid DEF TapeSafe
<1> QED BY <1>1 DEF TapeSafe, TapeKin

\* ... and so does a byte that moved.
LEMMA MovedSafe ==
  ASSUME NEW d, TapeSafe(d, job), NEW v, Moved(v)
  PROVE  TapeSafe(d, job')
<1>1. /\ job'.before = job.before /\ job'.op = job.op /\ job'.from = job.from /\ IsTapeJob(job')
  BY DEF TapeSafe, IsTapeJob, Moved
<1>2. TapeDid(d, job')
  BY <1>1 DEF TapeSafe, TapeDid
<1> QED BY <1>1, <1>2 DEF TapeSafe

\* A byte written, of a WRITE or into a READ, ...
LEMMA MixedSafe ==
  ASSUME NEW d, TapeSafe(d, job), NEW v,
         job' = [job EXCEPT !.moved = Append(@, v), !.op = IF @ = "read" THEN "mixed" ELSE @]
  PROVE  TapeSafe(d, job')
<1>1. /\ job'.before = job.before /\ job'.from = job.from /\ IsTapeJob(job')
      /\ job'.op = IF job.op = "read" THEN "mixed" ELSE job.op
  BY DEF TapeSafe, IsTapeJob
<1>2. TapeDid(d, job')
  BY <1>1 DEF TapeSafe, TapeDid
<1> QED BY <1>1, <1>2 DEF TapeSafe

\* A command begun has done nothing yet.
LEMMA BegunDid ==
  ASSUME NEW d, TapeSound(d), NEW op, op \notin {"write", "mark"}
  PROVE  TapeDid(d, TapeJob(d, op))
<1> DEFINE j == TapeJob(d, op)
<1>1. j.before = d.vol /\ j.op = op /\ j.from = d.pos
  BY DEF TapeJob
<1> HIDE DEF j
<1>2. d.pos \in Nat
  BY DEF TapeSound
<1>3. \A a \in DOMAIN d.vol : d.vol[a] = j.before[a]
  BY <1>1
<1>4. j.from \in Nat /\ j.op \notin {"write", "mark"}
  BY <1>1, <1>2
<1>5. TapeDid(d, j)
  BY <1>3, <1>4 DEF TapeDid
<1> QED BY <1>5 DEF j

\* What is remembered of it is its beginning.
LEMMA BegunJob ==
  ASSUME NEW d, NEW op
  PROVE  IsTapeJob(TapeJob(d, op)) /\ TapeJob(d, op).op = op
BY DEF TapeJob, IsTapeJob

\* The tape at the access is the tape, advanced.
LEMMA TapeIs ==
  ASSUME NEW j, TapeSafe(dev, j), now \in Nat, now <= MaxNow["tape"]
  PROVE  /\ TapeSafe(Tape, j) /\ TapeKin(Tape, dev)
         /\ Tape.card.ctl = dev.card.ctl /\ Tape.svalid = dev.svalid /\ Tape.writing = dev.writing
<1>1. now < Unset
  BY CardTimes
<1>2. TapeKin(Tape, dev)
  BY <1>1, TapeAdvanceIs DEF Tape, TapeSafe
<1> QED BY <1>2, KinSafe DEF TapeKin

\* The control register, ...
LEMMA TapeControlSafe ==
  ASSUME TapeSafe(dev, job), now \in Nat, now <= MaxNow["tape"], NEW v \in TapeControls,
         TapeControl(v)
  PROVE  TapeSafe(dev', job')
<1> DEFINE d == Tape
           was == dev.card.ctl
           op == d.card.data
           asks == "request" \in v \ was /\ ~dev.svalid
           wide == Wide(d.card, now)
           e == WriteCtl(d, now, v)
<1>1. /\ TapeSafe(d, job) /\ d.card.ctl = was /\ d.svalid = dev.svalid
  BY TapeIs
<1>2. /\ dev' = e
      /\ asks => job' = IF Refuses(d, op) THEN job ELSE TapeJob(d, op)
      /\ ~asks => job' = IF "reset" \in v THEN TapeJob(dev', "reset")
                         ELSE IF "reset" \in was /\ ~wide
                         THEN [job EXCEPT !.op = "narrow"] ELSE job
  BY DEF TapeControl, Command
<1> HIDE DEF d
<1>3. ~({"reset", "request"} \subseteq v) /\ ~({"reset", "request"} \subseteq was)
  BY ControlApart DEF TapeSafe
<1>4. TapeSound(d) /\ TapeDid(d, job)
  BY <1>1 DEF TapeSafe
<1>5. /\ TapeSound(e) /\ e.card.ctl = v
      /\ ~(asks /\ ~Refuses(d, op)) /\ "reset" \notin v => TapeDid(e, job)
      /\ asks /\ ~Refuses(d, op) => TapeDid(e, TapeJob(d, op))
      /\ v \cap {"request", "reset"} = {}
           /\ (\/ "reset" \in was /\ wide
               \/ was \cap {"request", "reset"} = {} /\ Live(d.card)
               \/ "request" \in was)
           => Live(e.card)
  BY <1>1, <1>3, <1>4, WriteCtlIs
<1> HIDE DEF e, op, wide
<1>6. CASE asks
  <2>1. "reset" \notin v /\ "request" \in v
    BY <1>3, <1>6
  <2>2. TapeDid(e, job') /\ IsTapeJob(job')
    <3>1. CASE Refuses(d, op)
      BY <1>1, <1>2, <1>5, <1>6, <2>1, <3>1 DEF TapeSafe
    <3>2. CASE ~Refuses(d, op)
      BY <1>2, <1>5, <1>6, <3>2, BegunJob
    <3> QED BY <3>1, <3>2
  <2> QED BY <1>2, <1>5, <2>1, <2>2 DEF TapeSafe
<1>7. CASE ~asks /\ "reset" \in v
  <2>1. job' = TapeJob(e, "reset")
    BY <1>2, <1>7
  <2>2. TapeDid(e, job') /\ IsTapeJob(job') /\ job'.op = "reset"
    BY <1>5, <2>1, BegunDid, BegunJob
  <2> QED BY <1>2, <1>5, <1>7, <2>2 DEF TapeSafe
<1>8. CASE ~asks /\ "reset" \notin v /\ "reset" \in was /\ ~wide
  <2>1. job' = [job EXCEPT !.op = "narrow"]
    BY <1>2, <1>8
  <2>2. job'.before = job.before /\ job'.op = "narrow" /\ job'.from = job.from /\ IsTapeJob(job')
    BY <1>1, <2>1 DEF TapeSafe, IsTapeJob
  <2>3. TapeDid(e, job) /\ job.op \notin {"write", "mark"}
    BY <1>1, <1>5, <1>8 DEF TapeSafe
  <2>4. TapeDid(e, job')
    BY <2>2, <2>3 DEF TapeDid
  <2> QED BY <1>2, <1>5, <1>8, <2>2, <2>4 DEF TapeSafe
<1>9. CASE ~asks /\ "reset" \notin v /\ ~("reset" \in was /\ ~wide)
  <2>1. job' = job
    BY <1>2, <1>9
  <2>2. v \cap {"request", "reset"} = {} => Live(e.card) \/ job.op = "narrow"
    BY <1>1, <1>5, <1>9 DEF TapeSafe
  <2>3. TapeDid(e, job)
    BY <1>5, <1>9
  <2> QED BY <1>1, <1>2, <1>5, <1>9, <2>1, <2>2, <2>3 DEF TapeSafe
<1> QED BY <1>6, <1>7, <1>8, <1>9

\* ... the data register, ...
LEMMA TapeDataSafe ==
  ASSUME TapeSafe(dev, job), now \in Nat, now <= MaxNow["tape"], NEW v, TapeData(v)
  PROVE  TapeSafe(dev', job')
<1> DEFINE d == Tape
           e == WriteData(d, now, v)
<1>1. /\ TapeSafe(d, job) /\ d.card.ctl = dev.card.ctl /\ d.svalid = dev.svalid
  BY TapeIs
<1>2. dev' = e /\ IF Asking THEN Command(d, v) ELSE job' = job
  BY DEF TapeData
<1> HIDE DEF d
<1>3. TapeSound(d)
  BY <1>1 DEF TapeSafe
<1>4. CASE Asking
  <2>1. "request" \in d.card.ctl /\ ~d.svalid
    BY <1>1, <1>4 DEF Asking
  <2>2. e = IssueCommand(d, now, v)
    BY <1>3, <2>1, WriteDataIs
  <2>3. job' = IF Refuses(d, v) THEN job ELSE TapeJob(d, v)
    BY <1>2, <1>4 DEF Command
  <2> HIDE DEF e
  <2>4. CASE Refuses(d, v)
    <3>1. TapeKin(e, d)
      BY <1>3, <2>2, <2>4, IssueCommandIs
    <3> QED BY <1>1, <1>2, <2>3, <2>4, <3>1, KinSafe
  <2>5. CASE ~Refuses(d, v)
    <3>1. TapeSound(e) /\ e.card.ctl = d.card.ctl /\ TapeDid(e, TapeJob(d, v))
      BY <1>3, <2>2, <2>5, IssueCommandIs
    <3>2. "reset" \notin d.card.ctl /\ d.card.ctl \in TapeControls \cup {{}}
      BY <1>1, <2>1, ControlApart DEF TapeSafe
    <3>3. IsTapeJob(TapeJob(d, v))
      BY BegunJob
    <3>4. "reset" \notin e.card.ctl /\ "request" \in e.card.ctl
          /\ e.card.ctl \in TapeControls \cup {{}}
      BY <2>1, <3>1, <3>2
    <3>5. TapeSafe(e, TapeJob(d, v))
      BY <3>1, <3>3, <3>4 DEF TapeSafe
    <3> QED BY <1>2, <2>3, <2>5, <3>5
  <2> QED BY <2>4, <2>5
<1>5. CASE ~Asking
  <2>1. ~(~d.svalid /\ "request" \in d.card.ctl)
    BY <1>1, <1>5 DEF Asking
  <2>2. TapeKin(e, d)
    BY <1>3, <2>1, WriteDataIs
  <2> HIDE DEF e
  <2> QED BY <1>1, <1>2, <1>5, <2>2, KinSafe
<1> QED BY <1>4, <1>5

\* ... a byte of data, ...
LEMMA TapeByteOutSafe ==
  ASSUME TapeSafe(dev, job), now \in Nat, now <= MaxNow["tape"], NEW v, TapeByteOut(v)
  PROVE  TapeSafe(dev', job')
<1> DEFINE d == Tape
           e == WriteData(d, now, v)
<1>1. /\ TapeSafe(d, job) /\ d.card.ctl = dev.card.ctl /\ d.svalid = dev.svalid
  BY TapeIs
<1>2. /\ dev' = e /\ ~Asking
      /\ job' = [job EXCEPT !.moved = Append(@, v), !.op = IF @ = "read" THEN "mixed" ELSE @]
  BY DEF TapeByteOut
<1> HIDE DEF d
<1>3. TapeSound(d) /\ ~(~d.svalid /\ "request" \in d.card.ctl)
  BY <1>1, <1>2 DEF TapeSafe, Asking
<1>4. TapeKin(e, d)
  BY <1>3, WriteDataIs
<1> HIDE DEF e
<1>5. TapeSafe(e, job)
  BY <1>1, <1>4, KinSafe
<1>6. TapeSafe(e, job')
  BY <1>2, <1>5, MixedSafe
<1> QED BY <1>2, <1>6

\* ... the DMA latches ...
LEMMA TapeLatchSafe ==
  ASSUME TapeSafe(dev, job), now \in Nat, now <= MaxNow["tape"], TapeDmaGo \/ TapeRstDma
  PROVE  TapeSafe(dev', job')
<1> DEFINE d == Tape
           g == DmaGo(d.card)
           r == RstDma(d.card, now)
<1>1. /\ TapeSafe(d, job) /\ d.card.ctl = dev.card.ctl
  BY TapeIs
<1>2. TapeSound(d) /\ CardSound(d.card)
  BY <1>1 DEF TapeSafe, TapeSound
<1>3. job' = job
  BY DEF TapeDmaGo, TapeRstDma
<1>4. CASE TapeDmaGo
  <2>1. dev' = [d EXCEPT !.card = g]
    BY <1>4 DEF TapeDmaGo
  <2> HIDE DEF d
  <2>2. CardSound(g) /\ g.ctl = d.card.ctl /\ (Live(d.card) => Live(g))
    BY <1>2, DmaGoIs
  <2> HIDE DEF g
  <2>3. TapeKin([d EXCEPT !.card = g], d)
    BY <1>2, <2>2, NewCard
  <2> QED BY <1>1, <1>3, <2>1, <2>3, KinSafe
<1>5. CASE TapeRstDma
  <2>1. dev' = [d EXCEPT !.card = r] /\ dev.card.ctl \cap {"request", "reset"} = {}
    BY <1>5 DEF TapeRstDma
  <2> HIDE DEF d
  <2>2. CardSound(r) /\ r.ctl = {} /\ (Live(d.card) => Live(r))
    BY <1>2, RstDmaIs
  <2> HIDE DEF r
  <2> DEFINE e == [d EXCEPT !.card = r]
  <2>3. /\ TapeSound(e) /\ e.card = r
        /\ e.vol = d.vol /\ e.pos = d.pos /\ e.writable = d.writable /\ e.writing = d.writing
    BY <1>2, <2>2, NewCard
  <2>4. dev' = e
    BY <2>1
  <2> HIDE DEF e
  <2>5. TapeDid(e, job)
    BY <1>1, <2>3, MildDid DEF TapeSafe, Mild
  <2>6. Live(r) \/ job.op = "narrow"
    BY <1>1, <2>1, <2>2 DEF TapeSafe
  <2>7. TapeSafe(e, job)
    BY <1>1, <2>2, <2>3, <2>5, <2>6 DEF TapeSafe
  <2> QED BY <1>3, <2>4, <2>7
<1> QED BY <1>4, <1>5

\* ... and a DMA cycle keep the tape safe.
LEMMA TapeDmaSafe ==
  ASSUME TapeSafe(dev, job), now \in Nat, now <= MaxNow["tape"], NEW last, TapeDmaCycle(last)
  PROVE  TapeSafe(dev', job')
<1> DEFINE d == DmaByte(dev, now).dev
           b == DmaByte(dev, now).byte
<1>1. dev' = (IF last THEN DmaOver(d) ELSE d) /\ (IF job.op = "read" THEN Moved(b) ELSE job' = job)
  BY DEF TapeDmaCycle
<1>2. TapeSafe(d, job)
  <2>1. TapeKin(d, dev)
    BY DmaByteIs DEF TapeSafe
  <2> QED BY <2>1, KinSafe
<1> HIDE DEF d, b
<1>3. TapeSafe(DmaOver(d), job)
  <2>1. TapeKin(DmaOver(d), d)
    BY <1>2, DmaOverIs DEF TapeSafe
  <2> QED BY <1>2, <2>1, KinSafe
<1>4. TapeSafe(dev', job)
  BY <1>1, <1>2, <1>3
<1>5. CASE job.op = "read"
  BY <1>1, <1>4, <1>5, MovedSafe
<1>6. CASE job.op # "read"
  BY <1>1, <1>4, <1>6
<1> QED BY <1>5, <1>6

\* What the samples rely on, and what stands Standing the instant promised.
TapeCalm(d) == Quiet(d) /\ (d.card.arming => "ien" \notin d.card.ctl)
\* What a promise rests on: with the interrupt enabled, the card's own instants.
TapePromised(d, u) ==
    /\ Quiet(d)
    /\ "ien" \notin d.card.ctl \/ (~d.card.arming /\ u <= CardNextChange(d.card))

\* The tape's invariant.
TapeInv ==
    which = "tape" =>
      /\ TapeSafe(dev, job)
      /\ turn = "sample" => TapeCalm(dev)
      /\ now < Standing => TapePromised(dev, Standing)

\* Every access keeps it, ...
LEMMA TapeAccess ==
  ASSUME Timed, TapeInv, TapeNext
  PROVE  TapeInv'
<1>0. /\ TapeSafe(dev, job) /\ now \in Nat /\ now <= MaxNow["tape"]
      /\ which' = which /\ ~(now' < Standing') /\ turn' = "run"
  BY TapeReaches, AccessIs DEF TapeInv, Timed, Reaches
<1> SUFFICES TapeSafe(dev', job')
  BY <1>0 DEF TapeInv
<1>1. CASE \E v \in TapeControls : TapeControl(v)
  BY <1>0, <1>1, TapeControlSafe
<1>2. CASE \E op \in TapeCommands : TapeData(op)
  BY <1>0, <1>2, TapeDataSafe
<1>3. CASE \E v \in TapeBytes : TapeByteOut(v)
  BY <1>0, <1>3, TapeByteOutSafe
<1>4. CASE TapeDmaGo \/ TapeRstDma
  BY <1>0, <1>4, TapeLatchSafe
<1>5. CASE \E last \in BOOLEAN : TapeDmaCycle(last)
  BY <1>0, <1>5, TapeDmaSafe
<1> QED BY <1>1, <1>2, <1>3, <1>4, <1>5 DEF TapeNext

\* ... and time does, with the line as it was before the instant promised, ...
LEMMA TapePass ==
  ASSUME Timed, TapeInv, which = "tape", Passes
  PROVE  TapeInv' /\ (now' < Standing => Irq(which', dev') = Irq(which, dev))
<1>1. PICK t \in Nat : /\ now < t /\ t <= MaxNow["tape"] /\ now' = t
                       /\ dev' = Advance(which, dev, t) /\ turn' = "sample"
                       /\ which' = which /\ Standing' = Standing /\ job' = job
  BY PassesIs
<1> DEFINE e == TapeAdvance(dev, t)
<1>2. TapeSafe(dev, job) /\ dev' = e
  BY <1>1 DEF TapeInv, Advance
<1>3. /\ TapeKin(e, dev) /\ Quiet(e) /\ ~e.card.arming
      /\ Quiet(dev) /\ ~dev.card.arming /\ t < CardNextChange(dev.card) => e = dev
  <2>1. t < Unset
    BY <1>1, CardTimes
  <2>2. TapeSound(dev)
    BY <1>2 DEF TapeSafe
  <2> QED BY <2>1, <2>2, TapeAdvanceIs
<1> HIDE DEF e
<1>4. TapeSafe(e, job) /\ e.card.ctl = dev.card.ctl
  BY <1>2, <1>3, KinSafe DEF TapeKin
<1>5. ASSUME now' < Standing
      PROVE  TapePromised(e, Standing) /\ CardIrq(e.card) = CardIrq(dev.card)
  <2>1. now \in Nat /\ Standing \in Nat /\ t < Standing
    BY <1>1, <1>5 DEF Timed
  <2>2. now < Standing
    BY <1>1, <2>1
  <2>3. TapePromised(dev, Standing)
    BY <1>1, <2>2 DEF TapeInv
  <2>4. CASE "ien" \notin dev.card.ctl
    <3>1. "ien" \notin e.card.ctl
      BY <1>4, <2>4
    <3> QED BY <1>3, <2>4, <3>1 DEF TapePromised, CardIrq
  <2>5. CASE "ien" \in dev.card.ctl
    <3>1. Standing <= CardNextChange(dev.card) /\ CardNextChange(dev.card) \in Nat /\ ~dev.card.arming
      BY <1>2, <2>3, <2>5, CardNextChangeIs DEF TapePromised, TapeSafe, TapeSound
    <3>2. t < CardNextChange(dev.card)
      BY <2>1, <3>1
    <3>3. e = dev
      BY <1>3, <2>3, <3>1, <3>2 DEF TapePromised
    <3> QED BY <2>3, <3>3
  <2> QED BY <2>4, <2>5
<1>6. TapeCalm(e)
  BY <1>3 DEF TapeCalm
<1>7. TapeInv'
  BY <1>1, <1>2, <1>4, <1>5, <1>6 DEF TapeInv
<1>8. Irq(which, dev) = CardIrq(dev.card) /\ Irq(which', dev') = CardIrq(e.card)
  BY <1>1, <1>2 DEF Irq
<1> QED BY <1>1, <1>5, <1>7, <1>8

\* ... and so every step.
LEMMA TapeStep ==
  ASSUME Timed, TapeInv, Next
  PROVE  TapeInv'
<1>1. CASE which # "tape"
  BY <1>1, NextReaches, AccessIs, SampleIs, PassesIs DEF Accesses, TapeInv
<1>2. CASE which = "tape" /\ Accesses
  <2>1. TapeNext
    BY <1>2, NextSplits, DiskReaches, FloppyReaches, ScsiReaches, PassesIs
       DEF Accesses, Reaches, Access, Word, Sample
  <2> QED BY <2>1, TapeAccess
<1>3. CASE which = "tape" /\ Sample
  <2>1. TapeSafe(dev, job) /\ CardNextChange(dev.card) \in Nat /\ TapeCalm(dev)
    BY <1>3, CardNextChangeIs DEF TapeInv, TapeSafe, TapeSound, Sample
  <2>2. /\ which' = which /\ dev' = dev /\ job' = job /\ now' = now /\ turn' = "run"
        /\ Standing' = Standing \/ Standing' = CardNextChange(dev.card)
    BY <1>3, SampleIs DEF NextChange
  <2>3. CASE Standing' = Standing
    BY <1>3, <2>1, <2>2, <2>3 DEF TapeInv
  <2>4. CASE Standing' = CardNextChange(dev.card)
    <3>1. TapePromised(dev, CardNextChange(dev.card))
      BY <2>1 DEF TapePromised, TapeCalm
    <3> QED BY <1>3, <2>1, <2>2, <2>4, <3>1 DEF TapeInv
  <2> QED BY <2>2, <2>3, <2>4
<1>4. CASE which = "tape" /\ Passes
  BY <1>4, TapePass
<1> QED BY <1>1, <1>2, <1>3, <1>4, NextReaches

\* A protected medium is as it was.
Untouched(d, recs) == d.drive.writable \/ d.drive.recs = recs
\* What the driver put in the mailboxes.
Asked(asks) == Len(asks) \in Nat /\ \A i \in 1 .. Len(asks) : \A c \in asks[i] : IsCdb(c)
\* The adapter is sound, its line true unless a reset was too short, its medium protected.
ScsiSafe(d, j) ==
    /\ WdSound(d) /\ j = [op |-> j.op, before |-> j.before, asks |-> j.asks]
    /\ j.op # "narrow" => WdTrue(d)
    /\ Untouched(d, j.before) /\ Asked(j.asks)

\* An access leaves a protected medium as it is, ...
LEMMA DidUntouched ==
  ASSUME NEW d, NEW e, WdDid(e, d), NEW recs
  PROVE  Untouched(d, recs) => Untouched(e, recs)
BY DEF WdDid, Untouched

\* ... and the adapter safe.
LEMMA DidSafe ==
  ASSUME NEW d, NEW j, ScsiSafe(d, j), NEW e, WdDid(e, d)
  PROVE  ScsiSafe(e, j)
<1>1. Untouched(e, j.before)
  BY DidUntouched DEF ScsiSafe
<1> QED BY <1>1 DEF ScsiSafe, WdDid

\* The adapter at the access is the adapter, advanced.
LEMMA ScsiIs ==
  ASSUME NEW j, ScsiSafe(dev, j)
  PROVE  /\ ScsiSafe(Scsi, j) /\ Scsi.ctl = dev.ctl /\ Scsi.interrupt = dev.interrupt
         /\ Scsi.queue = dev.queue
<1>1. WdSound(dev)
  BY DEF ScsiSafe
<1>2. /\ WdDid(Scsi, dev) /\ Scsi.ctl = dev.ctl /\ Scsi.interrupt = dev.interrupt
      /\ Scsi.queue = dev.queue
  BY <1>1, WdAdvanceDid DEF Scsi
<1> QED BY <1>2, DidSafe

\* The control register leaves a protected medium too.
LEMMA ControlUntouched ==
  ASSUME NEW d, WdSound(d), NEW t, NEW v, NEW recs
  PROVE  Untouched(d, recs) => Untouched(WdControl(d, t, v), recs)
<1> DEFINE e == WdControl(d, t, v)
<1>1. e.drive.writable = d.drive.writable /\ (d.drive.writable \/ e.drive.recs = d.drive.recs)
  BY WdControlDid
<1> HIDE DEF e
<1>2. Untouched(d, recs) => Untouched(e, recs)
  BY <1>1 DEF Untouched
<1> QED BY <1>2 DEF e

\* The control register, ...
LEMMA ScsiControlSafe ==
  ASSUME ScsiSafe(dev, job), NEW v, ScsiControl(v)
  PROVE  ScsiSafe(dev', job')
<1> DEFINE d == Scsi
           e == WdControl(d, now, v)
           op == IF e.diagnosing THEN "reset" ELSE "narrow"
<1>1. ScsiSafe(d, job) /\ d.ctl = dev.ctl
  BY ScsiIs
<1>2. dev' = e /\ job' = IF "reset" \in dev.ctl \ v THEN [job EXCEPT !.op = op] ELSE job
  BY DEF ScsiControl
<1> HIDE DEF d
<1>3. WdSound(d)
  BY <1>1 DEF ScsiSafe
<1>4. Untouched(e, job.before)
  BY <1>1, <1>3, ControlUntouched DEF ScsiSafe
<1>5. /\ WdSound(e)
      /\ "reset" \in d.ctl \ v => (e.diagnosing => WdTrue(e))
      /\ "reset" \notin d.ctl \ v => (WdTrue(d) => WdTrue(e))
  BY <1>3, WdControlDid
<1> HIDE DEF e
<1>6. CASE "reset" \in dev.ctl \ v
  <2>1. job' = [job EXCEPT !.op = op]
    BY <1>2, <1>6
  <2>2. op # "narrow" => WdTrue(e)
    BY <1>1, <1>5, <1>6
  <2> HIDE DEF op
  <2>3. /\ job' = [op |-> job'.op, before |-> job'.before, asks |-> job'.asks]
        /\ job'.op = op /\ job'.before = job.before /\ job'.asks = job.asks
    BY <1>1, <2>1 DEF ScsiSafe
  <2>4. Asked(job'.asks)
    BY <1>1, <2>3 DEF ScsiSafe
  <2>5. ScsiSafe(e, job')
    BY <1>4, <1>5, <2>2, <2>3, <2>4 DEF ScsiSafe
  <2> QED BY <1>2, <2>5
<1>7. CASE "reset" \notin dev.ctl \ v
  <2>1. job' = job
    BY <1>2, <1>7
  <2>2. ScsiSafe(e, job)
    BY <1>1, <1>4, <1>5, <1>7 DEF ScsiSafe
  <2> QED BY <1>2, <2>1, <2>2
<1> QED BY <1>6, <1>7

\* ... a mailbox filled, ...
LEMMA ScsiFillSafe ==
  ASSUME ScsiSafe(dev, job), commands \in Nat, NEW n \in 0 .. Ogmbs - 1, ScsiFill(n)
  PROVE  ScsiSafe(dev', job')
<1>1. PICK c \in job.asks[commands + 1] :
        dev' = [dev EXCEPT !.ogmb[n] = [tag |-> commands + 1, cmd |-> c]]
  BY DEF ScsiFill
<1>2. job' = job /\ commands < Len(job.asks)
  BY DEF ScsiFill
<1>3. commands + 1 \in 1 .. Len(job.asks)
  BY <1>2 DEF ScsiSafe, Asked
<1>4. IsCdb(c)
  BY <1>3 DEF ScsiSafe, Asked
<1>5. WdSound(dev)
  BY DEF ScsiSafe
<1>6. WdDid([dev EXCEPT !.ogmb[n] = [tag |-> commands + 1, cmd |-> c]], dev)
  BY <1>4, <1>5, FillDid
<1> QED BY <1>1, <1>2, <1>6, DidSafe

\* ... a byte of the command register ...
LEMMA ScsiByteSafe ==
  ASSUME ScsiSafe(dev, job), NEW v \in ScsiOpcodes, ScsiByte(v)
  PROVE  ScsiSafe(dev', job')
<1>1. ScsiSafe(Scsi, job)
  BY ScsiIs
<1>2. dev' = WriteCommand(Scsi, now, v) /\ job' = job
  BY DEF ScsiByte
<1>3. v.box \in Nat
  BY ScsiAssumption
<1>4. WdDid(WriteCommand(Scsi, now, v), Scsi)
  BY <1>1, <1>3, WriteCommandDid DEF ScsiSafe
<1> QED BY <1>1, <1>2, <1>4, DidSafe

\* ... and an acknowledge keep the adapter safe.
LEMMA ScsiAcknowledgeSafe ==
  ASSUME ScsiSafe(dev, job), ScsiAcknowledge
  PROVE  ScsiSafe(dev', job')
<1> DEFINE s == Scsi
           d == Acknowledge(s)
           p == Tail(d.posted)
           x == [d EXCEPT !.posted = p]
<1>1. ScsiSafe(s, job) /\ s.interrupt = dev.interrupt
  BY ScsiIs
<1>2. dev.interrupt /\ job' = job /\ dev' \in {x, d}
  BY DEF ScsiAcknowledge
<1> HIDE DEF s
<1>3. WdSound(s) /\ s.interrupt
  BY <1>1, <1>2 DEF ScsiSafe
<1>4. WdDid(d, s) /\ WdDid(x, s)
  <2>1. WdDid(d, s) /\ \A q : WdDid([d EXCEPT !.posted = q], s)
    BY <1>3, AcknowledgeDid
  <2> HIDE DEF d, p
  <2> QED BY <2>1
<1> HIDE DEF d, x
<1>5. ScsiSafe(d, job) /\ ScsiSafe(x, job)
  BY <1>1, <1>4, DidSafe
<1> QED BY <1>2, <1>5

\* The adapter's invariant.
ScsiInv == which = "scsi" => ScsiSafe(dev, job)

\* Time keeps it and the line, whatever the instant, ...
LEMMA ScsiPass ==
  ASSUME Timed, ScsiInv, which = "scsi", Passes
  PROVE  ScsiInv' /\ Irq(which', dev') = Irq(which, dev)
<1>1. PICK t \in Nat : dev' = Advance(which, dev, t) /\ which' = which /\ job' = job
  BY PassesIs
<1> DEFINE e == WdAdvance(dev, t)
<1>2. ScsiSafe(dev, job) /\ dev' = e
  BY <1>1 DEF ScsiInv, Advance
<1>3. WdDid(e, dev) /\ e.interrupt = dev.interrupt /\ e.ctl = dev.ctl
  BY <1>2, WdAdvanceDid DEF ScsiSafe
<1> HIDE DEF e
<1>4. ScsiSafe(e, job)
  BY <1>2, <1>3, DidSafe
<1>5. WdIrq(e) = WdIrq(dev)
  BY <1>3 DEF WdIrq
<1>6. Irq(which, dev) = WdIrq(dev) /\ Irq(which', dev') = WdIrq(e)
  BY <1>1, <1>2 DEF Irq
<1> QED BY <1>1, <1>2, <1>4, <1>5, <1>6 DEF ScsiInv

\* ... and so every step does.
LEMMA ScsiStep ==
  ASSUME Timed, ScsiInv, Next
  PROVE  ScsiInv'
<1>1. CASE which # "scsi"
  BY <1>1, NextReaches, AccessIs, SampleIs, PassesIs DEF Accesses, ScsiInv
<1>2. CASE which = "scsi" /\ Accesses
  <2>1. ScsiNext
    BY <1>2, NextSplits, DiskReaches, FloppyReaches, TapeReaches, PassesIs
       DEF Accesses, Reaches, Access, Word, Sample
  <2>2. ScsiSafe(dev, job) /\ which' = which /\ commands \in Nat
    BY <1>2, <2>1, ScsiReaches, AccessIs DEF ScsiInv, Timed, Reaches
  <2>3. CASE \E v \in ScsiControls : ScsiControl(v)
    BY <2>2, <2>3, ScsiControlSafe DEF ScsiInv
  <2>4. CASE \E n \in 0 .. Ogmbs - 1 : ScsiFill(n)
    BY <2>2, <2>4, ScsiFillSafe DEF ScsiInv
  <2>5. CASE \E v \in ScsiOpcodes : ScsiByte(v)
    BY <2>2, <2>5, ScsiByteSafe DEF ScsiInv
  <2>6. CASE ScsiAcknowledge
    BY <2>2, <2>6, ScsiAcknowledgeSafe DEF ScsiInv
  <2> QED BY <2>1, <2>3, <2>4, <2>5, <2>6 DEF ScsiNext
<1>3. CASE which = "scsi" /\ Sample
  BY <1>3, SampleIs DEF ScsiInv
<1>4. CASE which = "scsi" /\ Passes
  BY <1>4, ScsiPass
<1> QED BY <1>1, <1>2, <1>3, <1>4, NextReaches

\* The invariant of the machine: that of whichever device it has.
StorageInv == Timed /\ DiskInv /\ FloppyInv /\ TapeInv /\ ScsiInv

\* A drive at power on is a drive, ...
LEMMA DriveStartIs ==
  ASSUME NEW p, NEW w, NEW r
  PROVE  IsDrive(DriveStart(p, w, r))
<1> DEFINE n == NoSense
           z == [present |-> p, loaded |-> p, writable |-> w,
                 recs |-> r, prevented |-> FALSE, block |-> 1, where |-> "data", at |-> 0,
                 sense |-> n, attention |-> FALSE, quiet |-> 0]
           e == ExbReset(z)
<1>1. DriveStart(p, w, r) = e
  BY DEF DriveStart
<1> HIDE DEF n
<1>2. IsDrive(z)
  BY DEF IsDrive, DriveFields
<1> HIDE DEF z
<1>3. IsDrive(e)
  BY <1>2 DEF ExbReset, IsDrive, DriveFields
<1> HIDE DEF e
<1> QED BY <1>1, <1>3

\* ... and one that stands among its records is sound.
LEMMA ScsiDriveSound ==
  ASSUME NEW t, t = [DriveStart(t.present, t.writable, t.recs)
                       EXCEPT !.block = t.block, !.where = t.where, !.at = t.at,
                              !.attention = t.attention, !.sense = t.sense],
         t.recs \in Seq({t.recs[i] : i \in DOMAIN t.recs}), Len(t.recs) <= MaxRecords,
         t.at \in 0 .. Len(t.recs), t.block \in Nat
  PROVE  DriveSound(t)
<1>1. IsDrive(t)
  <2> DEFINE b == t.block
             h == t.where
             a == t.at
             n == t.attention
             s == t.sense
             x == DriveStart(t.present, t.writable, t.recs)
             y == [x EXCEPT !.block = b, !.where = h, !.at = a, !.attention = n, !.sense = s]
  <2>1. IsDrive(x)
    BY DriveStartIs
  <2>2. t = y
    OBVIOUS
  <2> HIDE DEF b, h, a, n, s, x
  <2>3. IsDrive(y)
    BY <2>1 DEF IsDrive, DriveFields
  <2> HIDE DEF y
  <2> QED BY <2>2, <2>3
<1>2. Recorded(t.recs)
  BY DEF Recorded
<1> QED BY <1>1, <1>2 DEF DriveSound

\* The adapters the machine may start with are sound.
LEMMA ScsiStartSound ==
  ASSUME NEW s \in ScsiSetups
  PROVE  /\ WdSound(s.dev) /\ WdTrue(s.dev) /\ s.now \in Nat /\ s.now <= MaxNow["scsi"]
         /\ Asked(s.asks)
<1> DEFINE d == s.dev
           t == d.drive
           g == d.diagnosing
           r == d.ready
           h == d.shown
           i == d.initialized
           c == d.ctl
           a == d.readyAt
           m == [n \in 0 .. Ogmbs - 1 |-> NoBlock]
           z == Fresh(t, 0)
           x == [z EXCEPT !.diagnosing = g, !.ready = r, !.shown = h,
                          !.initialized = i, !.ctl = c, !.readyAt = a]
<1>1. /\ s.now \in 0 .. MaxNow["scsi"] /\ d = x /\ g \in BOOLEAN /\ r = ~g
      /\ Len(s.asks) \in Nat
      /\ \A j \in 1 .. Len(s.asks) : \A b \in s.asks[j] :
           IF b.op = "space" THEN b.count \in Int ELSE b.count \in Nat
  BY ScsiAssumption
<1>2. DriveSound(t)
  <2>1. /\ t = [DriveStart(t.present, t.writable, t.recs)
                       EXCEPT !.block = t.block, !.where = t.where, !.at = t.at,
                              !.attention = t.attention, !.sense = t.sense]
        /\ t.recs \in Seq({t.recs[j] : j \in DOMAIN t.recs}) /\ Len(t.recs) <= MaxRecords
        /\ t.at \in 0 .. Len(t.recs) /\ t.block \in Nat
    BY ScsiAssumption
  <2> HIDE DEF t
  <2> QED BY <2>1, ScsiDriveSound
<1>3. s.now \in Nat /\ s.now <= MaxNow["scsi"]
  BY <1>1, StorageAssumption
<1>4. Asked(s.asks)
  BY <1>1 DEF Asked, IsCdb
<1>5. Boxes(m)
  BY DEF Boxes
<1>6. /\ IsWd(z) /\ z.queue = <<>> /\ z.awaiting = FALSE /\ z.interrupt = FALSE
      /\ z.inUse = {} /\ z.drive = t /\ z.inReset = FALSE /\ z.last = <<>> /\ z.ogmb = m
  <2> HIDE DEF d, t, g, r, h, i, c, a
  <2> QED BY DEF Fresh, IsWd, WdFields
<1>7. r \in BOOLEAN /\ (r \/ g)
  BY <1>1
<1>8. d = x
  BY <1>1
<1> HIDE DEF d, t, h, i, c, a, z, m, g, r
<1>9. /\ IsWd(x) /\ x.queue = <<>> /\ x.awaiting = FALSE /\ x.interrupt = FALSE
      /\ x.inUse = {} /\ x.drive = t /\ x.inReset = FALSE /\ x.last = <<>> /\ x.ogmb = m
      /\ x.ready = r /\ x.diagnosing = g
  BY <1>1, <1>6, <1>7, ZenonT(60) DEF IsWd, WdFields
<1> HIDE DEF x
<1>11. Queued(x)
  BY <1>9, EmptySeq DEF Queued
<1>12. Boxed(x.queue, x.inUse)
  <2>1. Len(x.queue) = 0
    BY <1>9, EmptySeq
  <2>2. Naming(x.queue) = {}
    BY <2>1 DEF Naming
  <2> QED BY <1>9, <2>2 DEF Boxed
<1>13. WdSound(x)
  BY <1>2, <1>5, <1>9, <1>11, <1>12 DEF WdSound
<1>14. WdTrue(x)
  BY <1>7, <1>9 DEF WdTrue
<1>15. WdSound(d) /\ WdTrue(d)
  BY <1>8, <1>13, <1>14
<1> QED BY <1>3, <1>4, <1>15 DEF d

\* The machine starts with it.
LEMMA StorageInit ==
  ASSUME Init
  PROVE  StorageInv
<1>1. until = 0 /\ ~missed /\ Standing = 0 /\ turn = "sample" /\ commands = 0
  BY DEF Init, Standing
<1>2. CASE which \in {"disk", "floppy", "tape"} /\ now = 0
  <2>1. Timed
    BY <1>1, <1>2, StorageAssumption DEF Timed
  <2>2. CASE which = "disk"
    <3>1. PICK w \in BOOLEAN : dev = DiskStart(w)
      BY <2>2 DEF Init
    <3>2. DiskSound(dev) /\ DiskDid(dev, dev.vol)
      BY <3>1, DiskStartSound
    <3>3. job = [before |-> dev.vol, moved |-> <<>>]
      BY <2>2 DEF Init
    <3>4. IsJob(job) /\ job.before = dev.vol
      BY <3>3 DEF IsJob
    <3>5. DiskInv
      BY <1>1, <1>2, <3>2, <3>4 DEF DiskInv
    <3> QED BY <2>1, <2>2, <3>5 DEF StorageInv, FloppyInv, TapeInv, ScsiInv
  <2>3. CASE which = "floppy"
    <3>1. PICK w \in BOOLEAN, i \in BOOLEAN : dev = FdcStart(i, w)
      BY <2>3 DEF Init
    <3>2. FdcSound(dev) /\ FdcDid(dev, dev.vol)
      BY <3>1, FdcStartSound
    <3>3. job = [before |-> dev.vol, moved |-> <<>>]
      BY <2>3 DEF Init
    <3>4. IsJob(job) /\ job.before = dev.vol
      BY <3>3 DEF IsJob
    <3>5. FloppyInv
      BY <1>1, <1>2, <3>2, <3>4 DEF FloppyInv
    <3> QED BY <2>1, <2>3, <3>5 DEF StorageInv, DiskInv, TapeInv, ScsiInv
  <2>4. CASE which = "tape"
    <3>1. PICK c \in Cartridges \cup {NoCartridge} : dev = TapeStart(c)
      BY <2>4 DEF Init
    <3>2. c.writable \in BOOLEAN
      <4>1. CASE c \in Cartridges
        BY <4>1, CartridgeAssumption
      <4>2. CASE c = NoCartridge
        BY <4>2 DEF NoCartridge
      <4> QED BY <4>1, <4>2
    <3>3. /\ TapeSound(dev) /\ dev.card.ctl = {} /\ Quiet(dev) /\ Live(dev.card)
          /\ TapeDid(dev, TapeJob(dev, "reset"))
      BY <3>1, <3>2, TapeStartSound
    <3>4. job = TapeJob(dev, "reset")
      BY <2>4 DEF Init
    <3>5. IsTapeJob(job) /\ job.op = "reset"
      BY <3>4, BegunJob
    <3>6. TapeSafe(dev, job) /\ TapeCalm(dev)
      BY <3>3, <3>4, <3>5 DEF TapeSafe, TapeCalm
    <3>7. TapeInv
      BY <1>1, <1>2, <3>6 DEF TapeInv
    <3> QED BY <2>1, <2>4, <3>7 DEF StorageInv, DiskInv, FloppyInv, ScsiInv
  <2> QED BY <1>2, <2>2, <2>3, <2>4
<1>3. CASE which = "scsi"
  <2>1. PICK s \in ScsiSetups :
          /\ dev = s.dev /\ now = s.now
          /\ job = [op |-> "reset", before |-> s.dev.drive.recs, asks |-> s.asks]
    BY <1>3 DEF Init
  <2>2. /\ WdSound(dev) /\ WdTrue(dev) /\ now \in Nat /\ now <= MaxNow["scsi"]
        /\ Asked(s.asks)
    BY <2>1, ScsiStartSound
  <2>3. /\ job = [op |-> job.op, before |-> job.before, asks |-> job.asks]
        /\ job.before = dev.drive.recs /\ job.asks = s.asks
    BY <2>1
  <2>4. ScsiSafe(dev, job)
    BY <2>2, <2>3 DEF ScsiSafe, Untouched
  <2>5. Timed
    BY <1>1, <1>3, <2>2 DEF Timed
  <2> QED BY <1>3, <2>4, <2>5 DEF StorageInv, DiskInv, FloppyInv, TapeInv, ScsiInv
<1> QED BY <1>2, <1>3 DEF Init

\* The instant a device gives is a number.
LEMMA ChangesNat ==
  ASSUME StorageInv
  PROVE  NextChange(which, dev) \in Nat
<1>1. CASE which = "disk"
  BY <1>1, DiskChanges DEF StorageInv, DiskInv, NextChange
<1>2. CASE which = "floppy"
  BY <1>2, FloppyChanges DEF StorageInv, FloppyInv, NextChange
<1>3. CASE which = "tape"
  BY <1>3, CardNextChangeIs DEF StorageInv, TapeInv, NextChange, TapeSafe, TapeSound
<1>4. CASE which = "scsi"
  BY <1>4, WdAssumption DEF NextChange
<1> QED BY <1>1, <1>2, <1>3, <1>4 DEF StorageInv, Timed

\* Every step keeps it.
LEMMA StorageStep ==
  ASSUME StorageInv, [Next]_vars
  PROVE  StorageInv'
<1>1. CASE Next
  BY <1>1, ChangesNat, TimedStep, DiskStep, FloppyStep, TapeStep, ScsiStep DEF StorageInv
<1>2. CASE UNCHANGED vars
  BY <1>2 DEF vars, Standing, StorageInv, Timed, DiskInv, FloppyInv, TapeInv, ScsiInv
<1> QED BY <1>1, <1>2

\* So it holds for ever.
LEMMA StorageAlways == Spec => []StorageInv
BY StorageInit, StorageStep, PTL DEF Spec

\* The invariant says the lines agree, ...
LEMMA LinesFromInv ==
  ASSUME StorageInv
  PROVE  LinesTrue
<1>1. which = "disk" => Lined(dev)
  BY DEF StorageInv, DiskInv, DiskSound
<1>2. ASSUME which = "scsi", ~dev.inReset, job.op # "narrow"
      PROVE  /\ dev.interrupt <=> dev.queue # <<>>
             /\ dev.interrupt => dev.shown = Head(dev.queue)
  <2>1. WdSound(dev) /\ WdTrue(dev)
    BY <1>2 DEF StorageInv, ScsiInv, ScsiSafe
  <2>2. dev.interrupt <=> dev.queue # <<>>
    BY <1>2, <2>1 DEF WdTrue
  <2>3. dev.interrupt => dev.shown = Head(dev.queue)
    BY <2>1 DEF WdSound, Queued
  <2> QED BY <2>2, <2>3
<1> QED BY <1>1, <1>2 DEF LinesTrue, Lined

\* What the driver waits for and the DMA controller follows agree with the phase the
\* controller is in, whatever commands, resets and masks came before, and the SCSI
\* adapter's interrupt stands for as long as one is queued
\* (complete, feed, transfer and the mask register; post_interrupt, acknowledge).
THEOREM LinesAreTrue == Spec => []LinesTrue
BY StorageAlways, LinesFromInv, PTL

\* It says what was written was asked for, ...
LEMMA AskedFromInv ==
  ASSUME StorageInv
  PROVE  OnlyWhatWasAsked
<1> DEFINE changed == {a \in DOMAIN dev.vol : dev.vol[a] # job.before[a]}
<1>1. ASSUME which = "disk"
      PROVE  /\ dev.phase \in {"out", "executing", "status"} => changed \subseteq Target(dev)
             /\ changed = {} \/ dev.writable
  <2>1. DiskDid(dev, job.before) /\ DOMAIN dev.vol = Addr
    BY <1>1 DEF StorageInv, DiskInv, DiskSound
  <2> QED BY <2>1 DEF DiskDid
<1>2. ASSUME which = "floppy"
      PROVE  /\ dev.phase \in {"executing", "status"} /\ dev.cmd.op # "format" =>
                  changed \subseteq {dev.cmd.at}
             /\ changed = {} \/ dev.writable
  <2>1. FdcDid(dev, job.before) /\ DOMAIN dev.vol = OnDisk
    BY <1>2 DEF StorageInv, FloppyInv, FdcSound
  <2> QED BY <2>1 DEF FdcDid
<1>3. ASSUME which = "tape"
      PROVE  /\ CASE job.op = "write" -> changed \subseteq job.from .. dev.pos - 1
                  [] job.op = "mark"  -> changed \subseteq {job.from}
                  [] OTHER            -> dev.writing \/ changed = {}
             /\ changed = {} \/ dev.writable
  <2>1. TapeDid(dev, job)
    BY <1>3 DEF StorageInv, TapeInv, TapeSafe
  <2>2. job.op = "write" => changed \subseteq job.from .. dev.pos - 1
    BY <2>1 DEF TapeDid
  <2>3. job.op = "mark" => changed \subseteq {job.from}
    BY <2>1 DEF TapeDid
  <2>4. job.op \notin {"write", "mark"} => dev.writing \/ changed = {}
    BY <2>1 DEF TapeDid
  <2>5. changed = {} \/ dev.writable
    BY <2>1 DEF TapeDid
  <2> HIDE DEF changed
  <2> QED BY <2>2, <2>3, <2>4, <2>5
<1>4. ASSUME which = "scsi"
      PROVE  OnlyBeyond /\ (dev.drive.writable \/ dev.drive.recs = job.before)
  <2>1. WdSound(dev) /\ Untouched(dev, job.before)
    BY <1>4 DEF StorageInv, ScsiInv, ScsiSafe
  <2>2. OnlyBeyond
    BY <2>1 DEF OnlyBeyond, WdSound, Fitting
  <2> QED BY <2>1, <2>2 DEF Untouched
<1>5. which \in {"disk", "floppy", "tape", "scsi"}
  BY DEF StorageInv, Timed
<1>6. OnlyWhatWasAsked <=>
        /\ which = "disk" /\ dev.phase \in {"out", "executing", "status"} =>
             changed \subseteq Target(dev)
        /\ which = "floppy" /\ dev.phase \in {"executing", "status"}
             /\ dev.cmd.op # "format" => changed \subseteq {dev.cmd.at}
        /\ which = "tape" =>
             CASE job.op = "write" -> changed \subseteq job.from .. dev.pos - 1
               [] job.op = "mark"  -> changed \subseteq {job.from}
               [] OTHER            -> dev.writing \/ changed = {}
        /\ which # "scsi" => changed = {} \/ dev.writable
        /\ which = "scsi" =>
             /\ OnlyBeyond
             /\ dev.drive.writable \/ dev.drive.recs = job.before
  BY DEF OnlyWhatWasAsked
<1> HIDE DEF changed
<1> QED BY <1>1, <1>2, <1>3, <1>4, <1>5, <1>6

\* A command that fails halfway, is refused, or is cut short by a reset has written
\* nothing but sectors it was asked to, and nothing at all on a medium that is protected,
\* on any of the four (writable, addressed, the tests of the diskette's, and the tape's).
THEOREM NothingElseIsWritten == Spec => []OnlyWhatWasAsked
BY StorageAlways, AskedFromInv, PTL

\* It says that every wait has an end coming.
LEMMA BusyFromInv ==
  ASSUME StorageInv
  PROVE  BusyEnds
<1>1. ASSUME which = "floppy", NEW u \in Units, dev.unit[u].busy
      PROVE  dev.unit[u].done \/ dev.unit[u].at # NeverDue
  <2>1. UnitSound(dev.unit[u])
    BY <1>1 DEF StorageInv, FloppyInv, FdcSound, UnitsSound
  <2> QED BY <1>1, <2>1 DEF UnitSound
<1>2. ASSUME which = "tape"
      PROVE  /\ TapeSafe(dev, job) /\ TapeSound(dev) /\ CardSound(dev.card)
             /\ turn = "sample" => Quiet(dev)
  BY <1>2 DEF StorageInv, TapeInv, TapeSafe, TapeSound, TapeCalm
<1>3. ASSUME which = "tape", dev.card.ctl \cap {"request", "reset"} = {}
      PROVE  \/ dev.card.ready \/ dev.card.exception \/ dev.card.arming \/ dev.card.testing
             \/ Executing(dev.card) \/ dev.card.reopenAt # Unset \/ job.op = "narrow"
  <2>1. Live(dev.card) \/ job.op = "narrow"
    BY <1>2, <1>3 DEF TapeSafe
  <2> QED BY <2>1 DEF Live, Executing
<1>4. ASSUME which = "tape", turn = "sample", ~dev.card.done
      PROVE  \/ dev.card.exception \/ dev.writing
             \/ dev.reading /\ (now >= dev.byteAt => TapeDmaRequest(dev, now))
  <2>1. dev.card.dma /\ Quiet(dev)
    BY <1>2, <1>4 DEF CardSound
  <2>2. dev.card.exception \/ dev.writing \/ dev.reading
    BY <2>1 DEF Quiet
  <2>3. ASSUME dev.reading
        PROVE  IF ~NeedsBlock(dev) THEN TRUE
               ELSE IF AtMark(dev) THEN dev.card.dma /\ ~dev.markSent ELSE ~Exhausted(dev)
    BY <2>1, AtMarkExhausts DEF Quiet
  <2> QED BY <2>2, <2>3 DEF TapeDmaRequest
<1>5. ASSUME which = "scsi"
      PROVE  /\ \/ dev.ready \/ dev.busy \/ dev.diagnosing \/ dev.inReset \/ job.op = "narrow"
             /\ LET naming == {i \in DOMAIN dev.queue : dev.queue[i].form = "icmb"}
                IN  /\ dev.inUse = {dev.queue[i].box : i \in naming}
                    /\ Cardinality(dev.inUse) = Cardinality(naming)
  <2>1. /\ WdSound(dev) /\ (job.op # "narrow" => WdTrue(dev))
        /\ dev.queue \in Seq(Notice) /\ Boxed(dev.queue, dev.inUse)
    BY <1>5 DEF StorageInv, ScsiInv, ScsiSafe, WdSound, Queued
  <2>2. DOMAIN dev.queue = 1 .. Len(dev.queue)
    BY <2>1
  <2>3. Naming(dev.queue) = {i \in DOMAIN dev.queue : dev.queue[i].form = "icmb"}
    BY <2>2 DEF Naming
  <2>4. /\ dev.inUse = {dev.queue[i].box : i \in Naming(dev.queue)}
        /\ Cardinality(dev.inUse) = Cardinality(Naming(dev.queue))
    BY <2>1, BoxedCounted DEF Boxed
  <2>5. dev.ready \/ dev.busy \/ dev.diagnosing \/ dev.inReset \/ job.op = "narrow"
    BY <2>1 DEF WdTrue
  <2> QED BY <2>3, <2>4, <2>5
<1> QED BY <1>1, <1>3, <1>4, <1>5 DEF BusyEnds

\* A driver never waits for ever: what is busy has an end coming, READY that is down
\* comes back or an exception does, DONE comes with the next byte, and every mailbox the
\* SCSI adapter holds has an interrupt to free it, one each.  Of READY nothing is said
\* after a reset too short to be one
\* (fdc_begin_seek, ap_tape_advance, ap_wd7000_advance, post_icmb).
THEOREM WaitsEnd == Spec => []BusyEnds
BY StorageAlways, BusyFromInv, PTL

\* Before the instant promised the line stays.
LEMMA LineStays ==
  ASSUME StorageInv, Passes, now' < Standing
  PROVE  Irq(which', dev') = Irq(which, dev)
BY DiskPass, FloppyPass, TapePass, ScsiPass DEF StorageInv, Timed

\* The line is high or low.
LEMMA IrqBoolean == Irq(which, dev) \in BOOLEAN /\ Irq(which', dev') \in BOOLEAN
BY DEF Irq, DiskIrq, FdcIrq, CardIrq, WdIrq

\* So every step is one the board allows.
LEMMA StepKeepsPromise ==
  ASSUME StorageInv, [Next]_vars
  PROVE  [Board!Next]_<<Irq(which, dev), now, Standing>>
<1>0. Timed
  BY DEF StorageInv
<1>1. CASE Accesses
  <2>1. now' = now /\ Standing' = 0
    BY <1>0, <1>1, AccessIs DEF Accesses
  <2> QED BY <2>1, IrqBoolean DEF Board!Next, Board!Touch
<1>2. CASE Sample
  <2>1. /\ which' = which /\ dev' = dev /\ now' = now
        /\ Standing' = Standing \/ (now >= Standing /\ Standing' = NextChange(which, dev))
    BY <1>0, <1>2, SampleIs
  <2>2. Irq(which', dev') = Irq(which, dev)
    BY <2>1
  <2>3. CASE Standing' = Standing
    BY <2>1, <2>2, <2>3
  <2>4. CASE now >= Standing /\ Standing' = NextChange(which, dev)
    <3>1. Standing' \in Nat
      BY <2>4, ChangesNat
    <3> QED BY <2>1, <2>2, <2>4, <3>1 DEF Board!Next, Board!Sample
  <2> QED BY <2>1, <2>3, <2>4
<1>3. CASE Passes
  <2>1. now' \in Nat /\ now' > now /\ Standing' = Standing
    BY <1>0, <1>3, PassesIs DEF Timed
  <2>2. now' < Standing => Irq(which', dev') = Irq(which, dev)
    BY <1>3, LineStays
  <2> QED BY <2>1, <2>2, IrqBoolean DEF Board!Next, Board!Pass
<1>4. CASE UNCHANGED vars
  BY <1>4 DEF vars, Standing
<1> QED BY <1>1, <1>2, <1>3, <1>4, NextReaches

\* The board may skip its sampling: no interrupt line of a disk, diskette or tape moves
\* before the instant its controller gave, and the SCSI adapter's never does, without an
\* access (ap_omti_interrupt_next_change, ap_sc499_next_change and
\* ap_board_sample_interrupts).  After a word of the fixed disk's data port, which the
\* board does not take for one (ap_board_write_access, ap_board_read_access), nothing is
\* said until the next sample or byte.
THEOREM StoragePromiseIsKept == Spec => PromiseKept
<1>1. Init => Board!Init
  <2> SUFFICES ASSUME Init PROVE Board!Init
    OBVIOUS
  <2>1. now \in Nat /\ Standing = 0
    BY StorageInit DEF Init, StorageInv, Timed, Standing
  <2> QED BY <2>1, IrqBoolean DEF Board!Init
<1>2. StorageInv /\ [Next]_vars => [Board!Next]_<<Irq(which, dev), now, Standing>>
  BY StepKeepsPromise
<1> QED BY <1>1, <1>2, StorageAlways, PTL DEF Spec, PromiseKept, Board!Spec
=============================================================================
