---------------------------- MODULE TableSearch -----------------------------
(***************************************************************************)
(* The 68030's search of its translation tables (ap_m68030_walk.c and      *)
(* ap_m68030_desc.c), over two levels: a root table, indexed by the first  *)
(* part of a page's number, and page tables, indexed by the second.  A     *)
(* root descriptor may end the search early, a page table's may point to   *)
(* the descriptor to use, and either may be invalid or out of limits.      *)
(*                                                                         *)
(* The root table's descriptors are long ones, a page table's short.       *)
(* Memory that holds them answers every fetch; the frame of an early page  *)
(* is aligned to what it covers.                                           *)
(***************************************************************************)
EXTENDS Naturals, Sequences

CONSTANTS Places,  \* the addresses of descriptors
          Root,    \* by tree and first index, a place
          Table,   \* by table and second index, a place
          Base     \* by place, the one at the sixteen-byte boundary below it

\* A page's number has two parts, as the indices of its tables.
Index1(page) == page \div 2
Index2(page) == page % 2

\* A descriptor is "invalid", a "table", a "page" or "indirect"; it restricts ("protect",
\* "super") or inhibits caching, and keeps marks of its use.
Descriptor(type, to, limit, flags, marks) ==
    [type |-> type, to |-> to, limit |-> limit, flags |-> flags, marks |-> marks]

-----------------------------------------------------------------------------
\* The descriptors a search reads, in order.  The index into a page table is
\* held against the limit of the descriptor that names it.  machine_table_fetch
\* unpacks every descriptor as one that is in no page table: an indirect one as
\* the pointer to a table, whose low four bits are not its address.
Path(desc, tree, page) ==
    LET r == Root[tree][Index1(page)]
        t == Table[desc[r].to][Index2(page)]
        early == desc[r].type # "table" \/ Index2(page) > desc[r].limit
    IN  CASE early                                -> <<r>>
          [] ~early /\ desc[t].type # "indirect"  -> <<r, t>>
          [] OTHER                                -> <<r, t, Base[desc[t].to]>>

Leaf(desc, tree, page) == LET p == Path(desc, tree, page) IN p[Len(p)]

\* What has been accumulated when the search has read n descriptors.
Seen(desc, path, n) == UNION {desc[path[k]].flags : k \in 1 .. n}

Denied(flags, super) == "super" \in flags /\ ~super

\* The search ends at a page, and not in an indirect descriptor's that is none.
Found(desc, path) == desc[path[Len(path)]].type = "page"

\* Mutant of Marks: the page is marked as modified only by the search that finds
\* it unused.
MarksTogether(desc, path, k, write, super) ==
    LET flags == Seen(desc, path, k)
        leaf  == k = Len(path)
        d     == desc[path[k]]
    IN  IF Denied(flags, super) \/ d.type = "invalid" \/ "used" \in d.marks
        THEN {}
        ELSE {"used"} \cup (IF leaf /\ write /\ "protect" \notin flags THEN {"modified"} ELSE {})

\* update_history: what the search marks in the k-th descriptor it reads.  One it
\* may not use is not marked.
Marks(desc, path, k, write, super) ==
    LET flags == Seen(desc, path, k)
        leaf  == k = Len(path)
        d     == desc[path[k]]
    IN  IF Denied(flags, super) \/ d.type = "invalid" THEN {}
        ELSE {"used"} \cup (IF leaf /\ write /\ d.type = "page" /\ "protect" \notin flags
                            THEN {"modified"} ELSE {})

\* A third descriptor that is no page is read and not marked.
Marked(desc, path, write, super) ==
    [a \in Places |->
       LET at == {k \in 1 .. Len(path) : path[k] = a /\ (k < 3 \/ Found(desc, path))}
       IN  [desc[a] EXCEPT !.marks = @ \cup UNION {Marks(desc, path, k, write, super) : k \in at}]]

\* The frame: a page's own, or that of the part of an early page.
FrameOf(desc, path, page) ==
    LET d == desc[path[Len(path)]]
    IN  IF Len(path) = 1 THEN d.to + Index2(page) ELSE d.to

\* ap_m68030_walk
Search(desc, tree, page, write, super) ==
    LET path  == Path(desc, tree, page)
        after == Marked(desc, path, write, super)
        flags == Seen(desc, path, Len(path))
        ok    == Found(desc, path) /\ ~Denied(flags, super)
    IN  [desc |-> after, leaf |-> path[Len(path)], ok |-> ok,
         protect |-> "protect" \in flags, inhibit |-> "inhibit" \in flags,
         modified |-> Found(desc, path) /\ "modified" \in after[path[Len(path)]].marks,
         frame |-> IF ok THEN FrameOf(desc, path, page) ELSE 0]
=============================================================================
