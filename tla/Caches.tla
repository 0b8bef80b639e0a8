------------------------------- MODULE Caches -------------------------------
(***************************************************************************)
(* The two caches of the 68030 that Mmu is about.  The address translation *)
(* cache (ap_m68030_atc.c) has entries tagged with a function code and a   *)
(* logical page, and chooses the one that is given up; one page size, and  *)
(* the bits of an address under it are the caller's.  The data cache       *)
(* (ap_m68030_cache.c) has lines of long words that are valid one by one,  *)
(* tagged with a function code and a logical page: the part of an address  *)
(* under the page chooses the line and the long word, so that every page's *)
(* same long words share them.  A long word has two halves, and a write    *)
(* one or both.                                                            *)
(***************************************************************************)
EXTENDS Naturals, Sequences

CONSTANTS Slots,   \* AP_M68030_ATC_ENTRIES
          Codes,   \* function codes, as sets of their bits
          Pages, Frames

ASSUME AtcAssumption == /\ Slots \in Nat \ {0}
                        /\ \A c \in Codes : c \subseteq {"s", "p", "d"}
                        /\ 0 \in Frames

\* An invalid entry keeps nothing the cache can tell apart.
Free(hist) == [valid |-> FALSE, code |-> CHOOSE c \in Codes : TRUE,
               page |-> CHOOSE p \in Pages : TRUE, error |-> FALSE, inhibit |-> FALSE,
               protect |-> FALSE, modified |-> FALSE, frame |-> 0, history |-> hist]

Empty == [i \in 1 .. Slots |-> Free(FALSE)]

\* Two function codes agree on the bits the mask names.
Agree(c, base, mask) == c \cap mask = base \cap mask
AllBits == {"s", "p", "d"}

\* Mutant of FlushEntry: the function code is compared exactly, whatever the mask.
FlushEntryExact(atc, code, mask, page) ==
    [i \in 1 .. Slots |-> IF atc[i].valid /\ atc[i].code = code /\ atc[i].page = page
                          THEN Free(atc[i].history) ELSE atc[i]]

\* ap_m68030_atc_flush_entry, ap_m68030_atc_flush_function_codes
FlushEntry(atc, code, mask, page) ==
    [i \in 1 .. Slots |-> IF atc[i].valid /\ Agree(atc[i].code, code, mask) /\ atc[i].page = page
                          THEN Free(atc[i].history) ELSE atc[i]]
FlushCodes(atc, code, mask) ==
    [i \in 1 .. Slots |-> IF atc[i].valid /\ Agree(atc[i].code, code, mask)
                          THEN Free(atc[i].history) ELSE atc[i]]

Matching(atc, code, page) ==
    {i \in 1 .. Slots : atc[i].valid /\ atc[i].code = code /\ atc[i].page = page}
First(S) == CHOOSE i \in S : \A j \in S : i <= j

\* Mutant of Status: a first write is like any other.
StatusUnmodified(e, writing) ==
    IF e.error \/ (writing /\ e.protect) THEN "fault" ELSE "hit"

\* ap_m68030_atc_lookup: what the entry found says of an access.
Status(e, writing) ==
    CASE e.error \/ (writing /\ e.protect)                   -> "fault"
      [] ~e.error /\ writing /\ ~e.protect /\ ~e.modified    -> "modify"
      [] OTHER                                               -> "hit"

\* choose_victim: an invalid entry, one not used since the last sweep, or the
\* first of all after a sweep.
Swept(atc) == IF \E i \in 1 .. Slots : ~atc[i].valid \/ ~atc[i].history THEN atc
              ELSE [i \in 1 .. Slots |-> [atc[i] EXCEPT !.history = FALSE]]
Victim(atc) ==
    LET free   == {i \in 1 .. Slots : ~atc[i].valid}
        unused == {i \in 1 .. Slots : ~atc[i].history}
    IN  CASE free # {}                 -> First(free)
          [] free = {} /\ unused # {}  -> First(unused)
          [] OTHER                     -> 1

\* Mutant of Insert: the entry the page has is left beside the new one.
InsertBeside(atc, e) ==
    [Swept(atc) EXCEPT ![Victim(atc)] = e]

\* ap_m68030_atc_insert: e is valid and counts as used.
Insert(atc, e) ==
    LET f == FlushEntry(atc, e.code, AllBits, e.page)
    IN  [Swept(f) EXCEPT ![Victim(f)] = e]

\* ap_m68030_atc_mark_used
MarkUsed(atc, i) == [atc EXCEPT ![i].history = TRUE]

-----------------------------------------------------------------------------
(* The data cache. *)

CONSTANTS Longs,    \* long words of a page
          PerLine,  \* AP_M68030_CACHE_ENTRIES
          Tags      \* function codes and pages

ASSUME CacheAssumption == Longs \in Nat /\ PerLine \in 1 .. Longs

Long  == 0 .. Longs - 1
LineOf(l) == l \div PerLine
Line(n) == {l \in Long : LineOf(l) = n}
BaseOf(l) == LineOf(l) * PerLine
Full  == {1, 2}    \* the halves of an aligned long word
Nothing == <<0, 0>>

\* The line's tag is kept when its entries are cleared.
NoTag == <<>>
Cold == [tag |-> [n \in {LineOf(l) : l \in Long} |-> NoTag],
         valid |-> {}, entry |-> [l \in Long |-> Nothing]]

\* Entries that are not valid keep nothing.
Dropped(c, S) == [c EXCEPT !.valid = @ \ S,
                           !.entry = [l \in Long |-> IF l \in S THEN Nothing ELSE @[l]]]

TagHit(c, tag, l) == c.tag[LineOf(l)] = tag
Hit(c, tag, l) == TagHit(c, tag, l) /\ l \in c.valid

\* ap_m68030_cache_fill_entry
FillEntry(c, tag, l, v) ==
    LET d == IF TagHit(c, tag, l) THEN c ELSE Dropped(c, Line(LineOf(l)))
    IN  [d EXCEPT !.tag[LineOf(l)] = tag, !.valid = @ \cup {l}, !.entry[l] = v]

\* ap_m68030_cache_burst_request, of a cache that is enabled and not frozen
WantsBurst(c, tag, l) == ~TagHit(c, tag, l) \/ Line(LineOf(l)) \cap c.valid = {}

\* What is stored, in its own halves.
Merged(old, new, halves) == [h \in Full |-> IF h \in halves THEN new[h] ELSE old[h]]

\* Mutant of CacheWrite: a part of a long word replaces the whole.
CacheWriteWhole(c, tag, l, v, halves, allocate, frozen) ==
    IF Hit(c, tag, l)
    THEN [c EXCEPT !.entry[l] = [h \in Full |-> IF h \in halves THEN v[h] ELSE 0]]
    ELSE IF allocate /\ ~frozen /\ halves = Full
         THEN FillEntry(Dropped(c, Line(LineOf(l))), tag, l, v)
         ELSE IF allocate /\ ~frozen THEN Dropped(c, {l}) ELSE c

\* ap_m68030_cache_write: a hit is merged, frozen or not; a miss that allocates
\* takes the line over, or only gives up the long word if a part of it is
\* written, whoever's it is.
CacheWrite(c, tag, l, v, halves, allocate, frozen) ==
    CASE Hit(c, tag, l) -> [c EXCEPT !.entry[l] = Merged(@, v, halves)]
      [] ~Hit(c, tag, l) /\ allocate /\ ~frozen /\ halves = Full ->
           FillEntry(Dropped(c, Line(LineOf(l))), tag, l, v)
      [] ~Hit(c, tag, l) /\ allocate /\ ~frozen /\ halves # Full -> Dropped(c, {l})
      [] OTHER -> c
=============================================================================
