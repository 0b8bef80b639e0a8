--------------------------------- MODULE Mmu --------------------------------
(***************************************************************************)
(* A data access of the 68030 (ap_m68030_access.c): the data cache, which  *)
(* is looked up before the address is translated; the transparent range;   *)
(* the address translation cache; the search of the tables, which fills it *)
(* and marks what it went through; and memory.  Beside it the system that  *)
(* edits the tables, flushes and loads the translation cache, switches     *)
(* trees and writes the cache control register, and another master that    *)
(* writes memory (ap_m68030_step.c, ap_i8237.c).                           *)
(*                                                                         *)
(* An edit is one step, as seen by the searches that come after it, and    *)
(* every long word of memory answers.                                      *)
(***************************************************************************)
EXTENDS Caches, TableSearch

CONSTANTS Start,       \* by name, how a system sets its tables, trees and cache up,
                       \* and which function codes and pages, long words, halves and
                       \* frames are used
          Edits,       \* what it may do to its tables, by name
          Settings,    \* what it may write to the cache control register, by name
          Inhibited,   \* frames the board does not let be cached
          Supervisors, \* "srp" if supervisor accesses have a tree of their own
          Masks,       \* masks of function codes it flushes by, by name
          MaxChanges, MaxWrites \* bounds of the model, by name

VARIABLES which,     \* the set-up
          desc,      \* the descriptors
          crp,       \* the tree of the accesses that have no other
          atc, cache, cacr, mem,
          unflushed, \* function codes and pages whose translation was changed and
                     \* not flushed since
          remapped,  \* those of them the data cache may still hold
          behind,    \* long words of memory written behind the data cache's back
          strayed,   \* long words the data cache filled with another of their line
          written,   \* leaf descriptors through which a page was written
          changes, writes

vars == <<which, desc, crp, atc, cache, cacr, mem, unflushed, remapped, behind, strayed,
          written, changes, writes>>

Spaces == Codes \X Pages

\* The places of root descriptors, and a descriptor that may stand in a place: it
\* names a table, a descriptor or frames there are.  One that ends a search early
\* covers two frames.
RootPlaces == UNION {{Root[tree][Index1(p)] : p \in Pages} : tree \in DOMAIN Root}

Fits(a, d) ==
    /\ d = Descriptor(d.type, d.to, d.limit, d.flags, d.marks)
    /\ d.type = "table" => d.to \in DOMAIN Table
    /\ d.type = "indirect" => d.to \in Places
    /\ d.type = "page" => d.to \in Frames
    /\ d.type = "page" /\ a \in RootPlaces => d.to + 1 \in Frames

ASSUME TablesAssumption ==
    /\ Pages \subseteq Nat /\ Frames \subseteq Nat
    /\ RootPlaces \subseteq Places
    /\ \A t \in DOMAIN Table, p \in Pages : Table[t][Index2(p)] \in Places
    /\ \A a \in Places : Base[a] \in Places
    /\ "srp" \in Supervisors => "srp" \in DOMAIN Root

ASSUME MmuAssumption ==
    \A n \in DOMAIN Start :
      /\ Start[n].spaces \subseteq Spaces
      /\ Start[n].desc = [a \in Places |-> Start[n].desc[a]]
      /\ \A a \in Places : Fits(a, Start[n].desc[a])
      /\ Start[n].crp \in DOMAIN Root
      /\ \A e \in Edits[n] : e[1] \in Places /\ Fits(e[1], e[2])
      /\ \A r \in Start[n].transparent : r.page \in Frames
      /\ Start[n].longs \subseteq Long

Super(code) == "s" \in code

\* root_for
TreeOf(code) == IF Super(code) /\ "srp" \in Supervisors THEN "srp" ELSE crp

\* ap_m68030_tt_translate: a range passes an access through if its kind is one it
\* is set for; an indivisible one needs both.
Transparent(code, page, write, rmw) ==
    \E r \in Start[which].transparent :
      r.code = code /\ r.page = page
      /\ \/ r.kinds = {"read", "write"}
         \/ ~rmw /\ r.kinds = {IF write THEN "write" ELSE "read"}

Init ==
    /\ which \in DOMAIN Start
    /\ desc = Start[which].desc /\ crp = Start[which].crp
    /\ atc = Empty /\ cache = Cold /\ cacr = Start[which].cacr
    /\ mem = [f \in Frames |-> [l \in Long |-> <<1, 1>>]]
    /\ unflushed = {} /\ remapped = {} /\ behind = {} /\ strayed = {}
    /\ written = {}
    /\ changes = 0 /\ writes = 0

-----------------------------------------------------------------------------
(* Translation. *)

\* ap_m68030_walk_fill_atc
Entered(code, page, s) ==
    Insert(atc, [valid |-> TRUE, code |-> code, page |-> page, error |-> ~s.ok,
                 inhibit |-> s.inhibit, protect |-> s.protect, modified |-> s.modified,
                 frame |-> s.frame, history |-> TRUE])

\* A lookup is never told that the access is indivisible, a search is.
Translated(code, page, write, rmw) ==
    LET found == Matching(atc, code, page)
        e     == atc[First(found)]
        state == IF found = {} THEN "miss" ELSE Status(e, write)
        s     == Search(desc, TreeOf(code), page, write \/ rmw, Super(code))
    IN  CASE Transparent(code, page, write, rmw) ->
               [ok |-> TRUE, frame |-> page, inhibit |-> FALSE, atc |-> atc, desc |-> desc]
          [] ~Transparent(code, page, write, rmw) /\ state \in {"hit", "fault"} ->
               [ok |-> state = "hit", frame |-> e.frame, inhibit |-> e.inhibit,
                atc |-> MarkUsed(atc, First(found)), desc |-> desc]
          [] OTHER ->
               [ok |-> s.ok /\ (write => ~s.protect), frame |-> s.frame,
                inhibit |-> s.inhibit, atc |-> Entered(code, page, s), desc |-> s.desc]

\* What the board says of a page's or a frame's number: the lookup asks of the
\* address before it is translated.
Caching(number, inhibit) == cacr.enabled /\ ~inhibit /\ number \notin Inhibited

-----------------------------------------------------------------------------
(* Accesses. *)

\* The long word that the cycle of a read asks memory for.  One that requests a
\* burst asks for the first of its line, and the machine's memory never
\* acknowledges a burst (machine_fill): it is answered with that one long word.
Asked(tag, l, rmw) ==
    IF cacr.burst /\ ~rmw /\ WantsBurst(cache, tag, l) THEN BaseOf(l) ELSE l

Fills(tag, l, t, rmw) ==
    Caching(t.frame, t.inhibit) /\ ~cacr.frozen /\ (rmw \/ ~Hit(cache, tag, l))

\* ap_m68030_cache_read, of an access that goes to memory or may: what is answered
\* is kept as the long word that was wanted.
Filled(tag, l, t, rmw) ==
    IF Fills(tag, l, t, rmw)
    THEN FillEntry(cache, tag, l, mem[t.frame][Asked(tag, l, rmw)]) ELSE cache

\* ap_m68030_access_read_sized.  A hit does not consult the MMU.
Read(code, page, l, rmw) ==
    LET tag == <<code, page>>
    IN  /\ rmw \/ ~Caching(page, FALSE) \/ ~Hit(cache, tag, l)
        /\ \E t \in {Translated(code, page, FALSE, rmw)} :
             /\ atc' = t.atc /\ desc' = t.desc
             /\ cache' = IF t.ok THEN Filled(tag, l, t, rmw) ELSE cache
             /\ strayed' = CASE t.ok /\ Fills(tag, l, t, rmw) /\ Asked(tag, l, rmw) # l -> strayed \cup {l}
                             [] t.ok /\ Fills(tag, l, t, rmw) /\ Asked(tag, l, rmw) = l -> strayed \ {l}
                             [] OTHER -> strayed
        /\ UNCHANGED <<which, crp, cacr, mem, unflushed, remapped, behind, written,
                       changes, writes>>

\* What is written differs from what was there, within the bound.
Written(f, l, halves) ==
    IF writes < MaxWrites[which]
    THEN [h \in Full |-> IF h \in halves THEN 1 - mem[f][l][h] ELSE mem[f][l][h]]
    ELSE mem[f][l]

\* ap_m68030_access_write: memory, and then the cache, if it may hold the page.
Write(code, page, l, halves, rmw) ==
    LET tag == <<code, page>>
    IN  /\ \E t \in {Translated(code, page, TRUE, rmw)} :
             /\ atc' = t.atc /\ desc' = t.desc
             /\ IF t.ok
                THEN \E v \in {Written(t.frame, l, halves)} :
                       /\ mem' = [mem EXCEPT ![t.frame][l] = v]
                       /\ cache' = IF Caching(t.frame, t.inhibit)
                                   THEN CacheWrite(cache, tag, l, v, halves, cacr.allocate, cacr.frozen)
                                   ELSE cache
                       /\ behind' = IF /\ Caching(t.frame, t.inhibit)
                                       /\ Hit(cache, tag, l) \/ (cacr.allocate /\ ~cacr.frozen)
                                    THEN behind ELSE behind \cup {<<t.frame, l>>}
                       /\ written' = IF tag \in unflushed \/ Transparent(code, page, TRUE, rmw)
                                     THEN written
                                     ELSE written \cup {Leaf(desc', TreeOf(code), page)}
                       /\ writes' = IF writes < MaxWrites[which] THEN writes + 1 ELSE writes
                ELSE UNCHANGED <<mem, cache, behind, written, writes>>
        /\ UNCHANGED <<which, crp, cacr, unflushed, remapped, strayed, changes>>

-----------------------------------------------------------------------------
(* The system. *)

\* Spaces whose search goes through a place.
Through(d, a) == {s \in Spaces : LET p == Path(d, TreeOf(s[1]), s[2])
                                 IN  \E k \in 1 .. Len(p) : p[k] = a}

Changed(S) == unflushed' = unflushed \cup S /\ remapped' = remapped \cup S

Edit(a, d) ==
    /\ changes < MaxChanges[which] /\ changes' = changes + 1
    /\ desc' = [desc EXCEPT ![a] = d]
    /\ Changed(Through(desc, a) \cup Through(desc', a))
    /\ written' = written \ {a}
    /\ UNCHANGED <<which, crp, atc, cache, cacr, mem, behind, strayed, writes>>

Flushed(new, S) ==
    /\ atc' = new /\ unflushed' = unflushed \ S
    /\ UNCHANGED <<which, desc, crp, cache, cacr, mem, remapped, behind, strayed, written,
                   changes, writes>>

\* PFLUSHA, PFLUSH by function code, and PFLUSH by function code and address
\* (execute_pflush_or_pload)
Pflusha == Flushed([i \in 1 .. Slots |-> Free(FALSE)], Spaces)
PflushCodes(code, mask) ==
    Flushed(FlushCodes(atc, code, mask), {s \in Spaces : Agree(s[1], code, mask)})
PflushEntry(code, mask, page) ==
    Flushed(FlushEntry(atc, code, mask, page),
            {s \in Spaces : Agree(s[1], code, mask) /\ s[2] = page})

\* PLOAD
Pload(code, page, write) ==
    \E s \in {Search(desc, TreeOf(code), page, write, Super(code))} :
      /\ atc' = Entered(code, page, s) /\ desc' = s.desc
      /\ unflushed' = unflushed \ {<<code, page>>}
      /\ UNCHANGED <<which, crp, cache, cacr, mem, remapped, behind, strayed, written,
                     changes, writes>>

\* PMOVE to the root pointer, which flushes unless it is told not to.
Pmove(tree, flushDisabled) ==
    LET own == {s \in Spaces : TreeOf(s[1]) = crp}
    IN  /\ changes < MaxChanges[which] /\ changes' = changes + 1
        /\ crp' = tree
        /\ atc' = IF flushDisabled THEN atc ELSE Empty
        /\ unflushed' = IF flushDisabled THEN unflushed \cup own ELSE {}
        /\ remapped' = remapped \cup own
        /\ UNCHANGED <<which, desc, cache, cacr, mem, behind, strayed, written, writes>>

\* MOVEC to the cache control register: it may clear the cache, or the long word
\* the cache address register names.
Movec(setting, clear) ==
    /\ changes < MaxChanges[which] /\ changes' = changes + 1
    /\ cacr' = setting
    /\ cache' = Dropped(cache, clear)
    /\ remapped' = IF clear = Long THEN unflushed ELSE remapped
    /\ behind' = IF clear = Long THEN {} ELSE behind
    /\ strayed' = strayed \ clear
    /\ UNCHANGED <<which, desc, crp, atc, mem, unflushed, written, writes>>

\* Another master's write.  The data cache does not watch the bus.
Dma(f, l) ==
    /\ writes < MaxWrites[which] /\ writes' = writes + 1
    /\ mem' = [mem EXCEPT ![f][l] = [h \in Full |-> 1 - @[h]]]
    /\ behind' = behind \cup {<<f, l>>}
    /\ UNCHANGED <<which, desc, crp, atc, cache, cacr, unflushed, remapped, strayed, written,
                   changes>>

Next ==
    \/ \E s \in Start[which].spaces, l \in Start[which].longs, rmw \in BOOLEAN :
         \/ Read(s[1], s[2], l, rmw)
         \/ \E halves \in Start[which].pieces : Write(s[1], s[2], l, halves, rmw)
    \/ \E e \in Edits[which] : Edit(e[1], e[2])
    \/ Pflusha
    \/ \E s \in Start[which].spaces, m \in Masks[which] :
         PflushCodes(s[1], m) \/ PflushEntry(s[1], m, s[2])
    \/ \E s \in Start[which].spaces, w \in BOOLEAN : Pload(s[1], s[2], w)
    \/ \E t \in DOMAIN Root \ {"srp"}, fd \in BOOLEAN : Pmove(t, fd)
    \/ \E s \in Settings[which], clear \in {{}, Long} \cup {{l} : l \in Long} : Movec(s, clear)
    \/ \E f \in Start[which].dma, l \in Start[which].longs : Dma(f, l)

Spec == Init /\ [][Next]_vars

-----------------------------------------------------------------------------
\* No page has two translations at once under one function code, or the one that
\* is found would depend on the order they are looked through (ap_m68030_atc_insert).
OneEntry ==
    \A i, j \in 1 .. Slots :
      /\ atc[i].valid /\ atc[j].valid
      /\ atc[i].code = atc[j].code /\ atc[i].page = atc[j].page
      => i = j

\* A translation that is cached is the one the tables give, whatever was flushed
\* by mask, given up or searched in between: as long as the system has flushed
\* what it changed, no access reaches a frame, or gets round a protection, that a
\* search of the tables would not allow it (the cache, the flushes and the search).
AnswersTrue ==
    \A i \in 1 .. Slots :
      LET e == atc[i]
      IN  e.valid /\ <<e.code, e.page>> \notin unflushed =>
            \E s \in {Search(desc, TreeOf(e.code), e.page, FALSE, Super(e.code))} :
              /\ e.error = ~s.ok
              /\ s.ok => /\ e.frame = s.frame /\ e.protect = s.protect
                         /\ e.inhibit = s.inhibit /\ (e.modified => s.modified)

\* "an indirect descriptor has no status bits at all" (ap_m68030_walk.c), and "what it
\* yields is the page descriptor itself": a translation through one is that of the
\* page descriptor it names.
IndirectIsFollowed ==
    \A i \in 1 .. Slots :
      LET e == atc[i]
          p == Path(desc, TreeOf(e.code), e.page)
      IN  e.valid /\ <<e.code, e.page>> \notin unflushed /\ ~e.error /\ Len(p) = 3 =>
            e.frame = desc[desc[p[2]].to].to

\* A page that has been written is marked as modified where the system looks for
\* it, also when the translation was cached by a read, by PLOAD, or under another
\* function code: a pager never throws away what was written (update_history and
\* the modify status).
WrittenIsModified == \A a \in written : "modified" \in desc[a].marks

\* Spaces of which a transparent range passes accesses of one kind only: reads
\* and writes of them may go to different places, and the data cache, which is
\* looked up first, does not know (ap_m68030_tt_translate).
Mixed == {s \in Spaces : \E r \in Start[which].transparent :
                           r.code = s[1] /\ r.page = s[2] /\ r.kinds # {"read", "write"}}

\* A read that the data cache answers gives what memory holds and what the page may
\* be read for, after any mixture of partial writes, writes through an alias or under
\* another function code while it allocates on writes, and frozen spells.  It is not so
\* for a long word that another master, or a write that passed the cache by, has
\* changed, for a page that has been mapped elsewhere, until the cache is cleared, nor
\* for a long word that a refused burst filled with the first of its line, until it is
\* filled again or cleared (ap_m68030_cache_write and ap_m68030_cache_read).
CacheTrue ==
    \A s \in Spaces \ Mixed, l \in Long \ strayed :
      Hit(cache, s, l) /\ s \notin remapped =>
        \E t \in {Search(desc, TreeOf(s[1]), s[2], FALSE, Super(s[1]))} :
          LET f == IF Transparent(s[1], s[2], FALSE, FALSE) THEN s[2] ELSE t.frame
          IN  <<f, l>> \notin behind =>
                /\ cache.entry[l] = mem[f][l]
                /\ t.ok \/ Transparent(s[1], s[2], FALSE, FALSE)
=============================================================================
