------------------------------- MODULE Wd7000 -------------------------------
(***************************************************************************)
(* The WD7000 SCSI adapter (ap_wd7000.c): its reset and diagnostics, the   *)
(* command port, the mailboxes in the host's memory, and the queue of      *)
(* interrupts of which the host is shown the first.                        *)
(*                                                                         *)
(* A command block is known by its tag.  The host's memory is the outgoing *)
(* mailboxes and the incoming ones.  Two fields are history: what has been *)
(* posted and not acknowledged, and the last command that ran, with the    *)
(* drive as it was before it (ap_scsi_command's).                          *)
(***************************************************************************)
EXTENDS Exb8200

CONSTANTS Ogmbs, Icmbs,     \* the numbers of mailboxes, given at initialisation
          QueueMax,         \* AP_WD7000_IRQ_QUEUE
          InitBytes,        \* of an initialisation or a soft reset
          PortTime, DiagnoseTime, ResetMin, \* AP_WD7000_T_*
          Forever           \* AP_TIME_NEVER

ASSUME WdAssumption ==
    {Ogmbs, Icmbs, QueueMax, PortTime, DiagnoseTime, ResetMin, Forever} \subseteq Nat \ {0}
    /\ InitBytes \in Nat \ {0, 1}

NoBlock == [tag |-> 0, cmd |-> [op |-> "none"]]
Unanswered == [code |-> "none", tag |-> 0]
Icmb(m) == [form |-> "icmb", box |-> m]
OgmbFree(n) == [form |-> "free", box |-> n]
Diagnostic(result) == [form |-> result, box |-> 0]

\* ap_wd7000_clear.  The memory, the bus with its drive, and the history remain.
Fresh(drive, now) ==
    [ready |-> FALSE, rejected |-> FALSE, initialized |-> FALSE, ctl |-> {},
     inReset |-> FALSE, dating |-> FALSE, since |-> Forever,
     diagnosing |-> TRUE, diagnoseAt |-> now + DiagnoseTime, busy |-> FALSE, readyAt |-> 0,
     parameters |-> 0, seq |-> "init", freeAsked |-> FALSE, idle |-> FALSE,
     queue |-> <<>>, awaiting |-> FALSE, interrupt |-> FALSE, shown |-> Diagnostic("power_on"),
     inUse |-> {}, posted |-> <<>>, drive |-> drive,
     ogmb |-> [n \in 0 .. Ogmbs - 1 |-> NoBlock], icmb |-> [m \in 0 .. Icmbs - 1 |-> Unanswered],
     last |-> <<>>]

Cleared(d, now) ==
    [Fresh(d.drive, now) EXCEPT !.ogmb = d.ogmb, !.icmb = d.icmb, !.last = d.last]

WdIrq(d) == d.interrupt /\ "irq" \in d.ctl

\* can_master.
Masters(d) == ~d.inReset /\ "dma" \in d.ctl

-----------------------------------------------------------------------------
(* The queue of interrupts. *)

Show(d) == [d EXCEPT !.shown = Head(d.queue), !.interrupt = TRUE, !.awaiting = TRUE]

Posts(d) == Len(d.queue) < QueueMax

\* Mutant of PostInterrupt: the newest is shown.
PostInterruptShown(d, status) ==
    IF ~Posts(d) THEN d
    ELSE [d EXCEPT !.queue = Append(@, status), !.shown = status,
                   !.interrupt = TRUE, !.awaiting = TRUE]

\* ap_wd7000_post_interrupt; refused when the queue is full.
PostInterrupt(d, status) ==
    LET q == [d EXCEPT !.queue = Append(@, status)]
    IN  IF ~Posts(d) THEN d ELSE IF d.awaiting THEN q ELSE Show(q)

\* Mutant of Acknowledge: any interrupt about a mailbox frees the incoming one.
AcknowledgeAny(d) ==
    LET freed == [d EXCEPT !.inUse = @ \ {Head(d.queue).box}, !.queue = Tail(@),
                           !.awaiting = FALSE, !.interrupt = FALSE]
    IN  IF ~d.awaiting THEN [d EXCEPT !.interrupt = FALSE]
        ELSE IF freed.queue = <<>> THEN freed ELSE Show(freed)

\* The host has seen the first: its mailbox is free again.
Acknowledge(d) ==
    LET head == Head(d.queue)
        freed == [d EXCEPT !.inUse = IF head.form = "icmb" THEN @ \ {head.box} ELSE @,
                           !.queue = Tail(@), !.awaiting = FALSE, !.interrupt = FALSE]
    IN  IF ~d.awaiting THEN [d EXCEPT !.interrupt = FALSE]
        ELSE IF freed.queue = <<>> THEN freed ELSE Show(freed)

\* post_icmb: the first incoming mailbox not in use, held once its interrupt is
\* queued.  With none, or no room in the queue, the completion is dropped.
PostIcmb(d, code, tag) ==
    LET free == (0 .. Icmbs - 1) \ d.inUse
        m    == CHOOSE b \in free : \A f \in free : b <= f
        written == [d EXCEPT !.icmb[m] = [code |-> code, tag |-> tag]]
    IN  IF ~Masters(d) \/ free = {} THEN d
        ELSE IF ~Posts(d) THEN written
        ELSE [PostInterrupt(written, Icmb(m))
                EXCEPT !.inUse = @ \cup {m}, !.posted = Append(@, written.icmb[m])]

-----------------------------------------------------------------------------
(* Mailboxes. *)

\* The bytes the host has for a block, told apart from every other's.
HostBytes(tag) == [k \in 1 .. BlockMax * (MaxRecords + 1) |-> 10 * tag + k]

Code(selected, r) ==
    IF ~selected THEN "no_status"
    ELSE IF r.status # "good" \/ r.short THEN "error"
    ELSE "complete"

\* ap_wd7000_start_ogmb: the block is fetched, its mailbox emptied, the command run
\* and a completion posted.
StartOgmb(d, n, now) ==
    LET box   == d.ogmb[n]
        taken == [d EXCEPT !.ogmb[n] = NoBlock]
        freed == IF d.freeAsked
                 THEN PostInterrupt([taken EXCEPT !.freeAsked = FALSE], OgmbFree(n)) ELSE taken
        selected == Selectable(d.drive, box.cmd, now)
        r     == ExbExecute(d.drive, box.cmd, HostBytes(box.tag))
        ran   == IF ~selected THEN freed
                 ELSE [freed EXCEPT !.drive = r.drive,
                                    !.last = <<[tag |-> box.tag, cmd |-> box.cmd,
                                                before |-> d.drive, result |-> r]>>]
    IN  IF ~Masters(d) \/ n >= Ogmbs THEN d
        ELSE IF box = NoBlock THEN PostIcmb(d, "error", 0)
        ELSE IF box.cmd.op = "icb" THEN PostIcmb(freed, "no_status", box.tag)
        ELSE PostIcmb(ran, Code(selected, r), box.tag)

\* ap_wd7000_scan: every full mailbox in order, then a completion of its own.
ScanOne(d, n, now) ==
    IF ~Masters(d) \/ d.ogmb[n] = NoBlock THEN d ELSE StartOgmb(d, n, now)

Scan(d, now) ==
    LET f[n \in 0 .. Ogmbs] == IF n = 0 THEN d ELSE ScanOne(f[n - 1], n - 1, now)
    IN  PostIcmb(f[Ogmbs], "scan", 0)

-----------------------------------------------------------------------------
(* The registers. *)

Take(d, now, accepted) ==
    [d EXCEPT !.rejected = ~accepted, !.ready = FALSE, !.busy = TRUE, !.readyAt = now + PortTime]

\* ap_wd7000_opcode_legal.
Legal(d, op) ==
    CASE op = "nop"  -> TRUE
      [] op = "init" -> ~d.initialized
      [] op \in {"start", "scan", "soft_reset", "hard_reset"} -> d.initialized
      [] op \in {"unsolicited", "on_free"} -> d.initialized /\ ~d.idle
      [] OTHER -> FALSE

\* ap_wd7000_command: a parameter of the sequence under way, or an opcode.  `seq`
\* is the sequence and `parameters` those it still wants.
WdCommand(d, now, v) ==
    LET got == [d EXCEPT !.parameters = @ - 1]
    IN  IF d.parameters > 0
        THEN Take(IF got.parameters > 0 \/ d.seq # "init" THEN got
                  ELSE [got EXCEPT !.initialized = TRUE], now, TRUE)
        ELSE IF ~Legal(d, v.op) THEN Take(d, now, FALSE)
        ELSE Take(CASE v.op \in {"init", "soft_reset"} ->
                         [d EXCEPT !.parameters = InitBytes - 1, !.seq = v.op]
                    [] v.op = "on_free"    -> [d EXCEPT !.freeAsked = TRUE]
                    [] v.op = "hard_reset" -> [d EXCEPT !.idle = ~@]
                    [] v.op = "start"      -> StartOgmb(d, v.box, now)
                    [] v.op = "scan"       -> Scan(d, now)
                    [] OTHER               -> d,
                  now, TRUE)

PortClosed(d) == d.inReset \/ d.diagnosing \/ d.busy

WriteCommand(d, now, v) == IF PortClosed(d) THEN d ELSE WdCommand(d, now, v)

\* ap_wd7000_control: the bus is reset on the edge, and the card on the end of a
\* pulse that was wide enough.
WdControl(d, now, v) ==
    LET bus   == [d EXCEPT !.ctl = v,
                           !.drive = IF "scsi" \in v \ d.ctl THEN BusReset(@, now) ELSE @]
        ended == [bus EXCEPT !.inReset = FALSE, !.dating = FALSE, !.since = Forever]
    IN  CASE "reset" \in v \ d.ctl ->
               [bus EXCEPT !.inReset = TRUE, !.dating = TRUE, !.since = Forever, !.ready = FALSE,
                           !.rejected = FALSE, !.interrupt = FALSE, !.busy = FALSE]
          [] "reset" \in d.ctl \ v ->
               IF d.since # Forever /\ now - d.since >= ResetMin
               THEN [Cleared(ended, now) EXCEPT !.ctl = v] ELSE ended
          [] OTHER -> bus

\* ap_wd7000_advance.
WdAdvance(d, now) ==
    LET dated  == IF d.dating THEN [d EXCEPT !.dating = FALSE, !.since = now] ELSE d
        tested == IF dated.diagnosing /\ now >= dated.diagnoseAt
                  THEN [dated EXCEPT !.diagnosing = FALSE, !.shown = Diagnostic("ok"),
                                     !.ready = TRUE]
                  ELSE dated
    IN  IF d.inReset THEN dated
        ELSE IF tested.busy /\ now >= tested.readyAt
             THEN [tested EXCEPT !.busy = FALSE, !.ready = TRUE] ELSE tested

=============================================================================
