------------------------------ MODULE MmuProofs -----------------------------
(***************************************************************************)
(* What the 68030's caches answer is true (Mmu), for every number of       *)
(* entries, of pages and of function codes, every tables and every system. *)
(*                                                                         *)
(* First, no page has two entries in the translation cache: what is        *)
(* inserted goes where nothing else of its page is left.  Then each cached *)
(* translation says what a search of the tables says, by an invariant over *)
(* all of them: a search depends on the descriptors it reads only, what it *)
(* marks changes none of its answers, and an edit makes the spaces whose   *)
(* search it could change wait for a flush.  Last, what the data cache     *)
(* answers is what memory holds where a read of the page ends.             *)
(***************************************************************************)
EXTENDS Mmu, WellFoundedInduction, SequenceTheorems, TLAPS

-----------------------------------------------------------------------------
(* Least numbers.                                                          *)

\* The order of the naturals, as the set of its pairs, is well founded.
LEMMA NatOrder == IsWellFoundedOn({ss \in Nat \X Nat : ss[1] < ss[2]}, Nat)
  BY NatLessThanWellFounded DEF OpToRel

\* A set of naturals that is not empty has a least element.
LEMMA Least ==
  ASSUME NEW T \in SUBSET Nat, T # {}
  PROVE  \E x \in T : \A y \in T : x <= y
<1> DEFINE R == {ss \in Nat \X Nat : ss[1] < ss[2]}
<1>1. IsWellFoundedOn(R, Nat)
  BY NatOrder
<1>2. \E x \in T : \A y \in T : ~ (<<y, x>> \in R)
  <2> HIDE DEF R
  <2> QED BY <1>1, WFMin
<1>3. PICK x \in T : \A y \in T : ~ (<<y, x>> \in R)
  BY <1>2
<1>4. ASSUME NEW y \in T PROVE x <= y
  <2>1. <<y, x>> \in Nat \X Nat /\ ~ (<<y, x>> \in R)
    BY <1>3
  <2>2. ~ (y < x)
    BY <2>1
  <2> QED BY <2>2
<1> QED BY <1>4

-----------------------------------------------------------------------------
(* Entries and searches.                                                   *)

\* The function is an entry: it has an entry's fields and no others.
Formed(e) ==
    e = [valid |-> e.valid, code |-> e.code, page |-> e.page, error |-> e.error,
         inhibit |-> e.inhibit, protect |-> e.protect, modified |-> e.modified,
         frame |-> e.frame, history |-> e.history]

WellFormed(a) == /\ a = [i \in 1 .. Slots |-> a[i]]
                 /\ \A i \in 1 .. Slots : Formed(a[i])
                 /\ \A i \in 1 .. Slots : a[i].valid => a[i].code \in Codes /\ a[i].page \in Pages

Same(a, i, b, j) == a[i].code = b[j].code /\ a[i].page = b[j].page
Distinct(a) == \A i, j \in 1 .. Slots :
                 a[i].valid /\ a[j].valid /\ Same(a, i, a, j) => i = j

\* Two entries that differ in nothing but their use.
Alike(e, d) == /\ e.code = d.code /\ e.page = d.page /\ e.error = d.error
               /\ e.inhibit = d.inhibit /\ e.protect = d.protect
               /\ e.modified = d.modified /\ e.frame = d.frame

\* Each entry of b is the one a has in its place, but for its use, or is free.
Fewer(a, b) == \A i \in 1 .. Slots : b[i].valid => a[i].valid /\ Alike(a[i], b[i])

\* Giving entries up leaves no two of one page if there were none.
LEMMA FewerDistinct ==
    ASSUME NEW a, NEW b, Distinct(a), Fewer(a, b) PROVE Distinct(b)
<1> QED BY DEF Distinct, Fewer, Alike, Same

\* An entry's use may be noted without changing what it is of.
LEMMA UseOnly ==
    ASSUME NEW e, Formed(e), NEW h
    PROVE  LET d == [e EXCEPT !.history = h]
           IN  Formed(d) /\ d.valid = e.valid /\ Alike(e, d)
<1>1. [e EXCEPT !.history = h] =
        [valid |-> e.valid, code |-> e.code, page |-> e.page, error |-> e.error,
         inhibit |-> e.inhibit, protect |-> e.protect, modified |-> e.modified,
         frame |-> e.frame, history |-> h]
  BY DEF Formed
<1> QED BY <1>1 DEF Formed, Alike

\* An entry that is free is one, and not valid.
LEMMA FreeFormed == \A h : Formed(Free(h)) /\ Free(h).valid = FALSE
<1> QED BY DEF Formed, Free

\* Flushes by function code and by address, and the sweep of the use bits, only give
\* entries up.
LEMMA FlushFewer ==
    ASSUME NEW a, WellFormed(a), NEW code, NEW mask, NEW page
    PROVE /\ WellFormed(FlushEntry(a, code, mask, page)) /\ Fewer(a, FlushEntry(a, code, mask, page))
          /\ WellFormed(FlushCodes(a, code, mask)) /\ Fewer(a, FlushCodes(a, code, mask))
<1> QED BY FreeFormed DEF WellFormed, Fewer, Alike, FlushEntry, FlushCodes

\* Entries whose use alone may have been noted or forgotten are those there were.
LEMMA UsesFewer ==
    ASSUME NEW a, WellFormed(a), NEW b, b = [i \in 1 .. Slots |-> b[i]],
           \A i \in 1 .. Slots : Formed(b[i]) /\ b[i].valid = a[i].valid /\ Alike(a[i], b[i])
    PROVE  WellFormed(b) /\ Fewer(a, b)
<1>1. \A i \in 1 .. Slots : b[i].valid => a[i].valid /\ a[i].code = b[i].code
                                         /\ a[i].page = b[i].page
  BY DEF Alike
<1>2. \A i \in 1 .. Slots : b[i].valid => b[i].code \in Codes /\ b[i].page \in Pages
  BY <1>1 DEF WellFormed
<1> QED BY <1>2 DEF WellFormed, Fewer

\* The sweep of the use bits gives nothing up.
LEMMA SweptFewer ==
    ASSUME NEW a, WellFormed(a)
    PROVE  WellFormed(Swept(a)) /\ Fewer(a, Swept(a))
<1>1. \A i \in 1 .. Slots : Formed(a[i]) /\ Alike(a[i], a[i])
  BY DEF WellFormed, Alike
<1>2. \A i \in 1 .. Slots : LET d == [a[i] EXCEPT !.history = FALSE]
                             IN  Formed(d) /\ d.valid = a[i].valid /\ Alike(a[i], d)
  BY <1>1, UseOnly
<1>3. CASE Swept(a) = a
  BY <1>1, <1>3 DEF Fewer
<1>4. CASE Swept(a) = [i \in 1 .. Slots |-> [a[i] EXCEPT !.history = FALSE]]
  <2> DEFINE b == [i \in 1 .. Slots |-> [a[i] EXCEPT !.history = FALSE]]
  <2>1. \A i \in 1 .. Slots : Formed(b[i]) /\ b[i].valid = a[i].valid /\ Alike(a[i], b[i])
    BY <1>2
  <2>2. b = [i \in 1 .. Slots |-> b[i]]
    OBVIOUS
  <2> HIDE DEF b
  <2>3. WellFormed(b) /\ Fewer(a, b)
    BY <2>1, <2>2, UsesFewer
  <2> QED BY <1>4, <2>3 DEF b
<1> QED BY <1>3, <1>4 DEF Swept

\* A hit notes the use of its entry, after a sweep if every other was used.
LEMMA MarkUsedFewer ==
    ASSUME NEW a, WellFormed(a), NEW n
    PROVE  WellFormed(MarkUsed(a, n)) /\ Fewer(a, MarkUsed(a, n))
<1>1. DOMAIN a = 1 .. Slots /\ \A i \in 1 .. Slots : Formed(a[i])
  BY DEF WellFormed
<1>2. MarkUsed(a, n) =
        [i \in 1 .. Slots |-> IF i = n THEN [a[i] EXCEPT !.history = TRUE] ELSE a[i]]
  BY <1>1 DEF MarkUsed
<1>3. \A i \in 1 .. Slots : LET d == [a[i] EXCEPT !.history = TRUE]
                             IN  Formed(d) /\ d.valid = a[i].valid /\ Alike(a[i], d)
  BY <1>1, UseOnly
<1>4. \A i \in 1 .. Slots : Alike(a[i], a[i])
  BY DEF Alike
<1>5. \A i \in 1 .. Slots : Formed(MarkUsed(a, n)[i]) /\ MarkUsed(a, n)[i].valid = a[i].valid
                              /\ Alike(a[i], MarkUsed(a, n)[i])
  <2> TAKE i \in 1 .. Slots
  <2>1. CASE i = n
    BY <1>2, <1>3, <2>1
  <2>2. CASE i # n
    <3>1. MarkUsed(a, n)[i] = a[i]
      BY <1>2, <2>2
    <3> QED BY <1>1, <1>4, <3>1
  <2> QED BY <2>1, <2>2
<1>6. MarkUsed(a, n) = [i \in 1 .. Slots |-> MarkUsed(a, n)[i]]
  BY <1>2
<1> QED BY <1>5, <1>6, UsesFewer

\* A flush of a page's own function code, with every bit of it compared, leaves no
\* entry of the page.
LEMMA FlushClears ==
    ASSUME NEW a, WellFormed(a), NEW code \in Codes, NEW page, NEW i \in 1 .. Slots,
           FlushEntry(a, code, AllBits, page)[i].valid
    PROVE  ~(a[i].code = code /\ a[i].page = page)
<1>1. CASE a[i].valid
  <2>1. a[i].code \in Codes
    BY <1>1 DEF WellFormed
  <2>2. \A c \in Codes : c \cap AllBits = c
    BY AtcAssumption DEF AllBits
  <2> QED BY <1>1, <2>1, <2>2 DEF FlushEntry, Agree, Free
<1>2. CASE ~a[i].valid
  BY <1>2 DEF FlushEntry
<1> QED BY <1>1, <1>2

\* What is inserted is the only entry of its page.
LEMMA InsertDistinct ==
    ASSUME NEW a, WellFormed(a), Distinct(a), NEW e, Formed(e), e.code \in Codes,
           e.page \in Pages
    PROVE  WellFormed(Insert(a, e)) /\ Distinct(Insert(a, e))
<1> DEFINE f == FlushEntry(a, e.code, AllBits, e.page)
           b == Swept(f)
           v == Victim(f)
<1>1. WellFormed(f) /\ Fewer(a, f)
  BY FlushFewer
<1>2. WellFormed(b) /\ Fewer(f, b)
  BY <1>1, SweptFewer
<1>3. Distinct(b)
  BY <1>1, <1>2, FewerDistinct
<1>5. \A i \in 1 .. Slots : b[i].valid => ~(b[i].code = e.code /\ b[i].page = e.page)
  BY <1>1, <1>2, FlushClears DEF Fewer, Alike
<1>6. Insert(a, e) = [i \in 1 .. Slots |-> IF i = v THEN e ELSE b[i]]
  <2>1. Insert(a, e) = [b EXCEPT ![v] = e]
    BY DEF Insert
  <2>2. DOMAIN b = 1 .. Slots
    BY <1>2 DEF WellFormed
  <2> HIDE DEF b, v
  <2> QED BY <2>1, <2>2
<1> HIDE DEF b, v, f
<1>7. WellFormed(Insert(a, e))
  BY <1>2, <1>6 DEF WellFormed
<1>8. Distinct(Insert(a, e))
  BY <1>3, <1>5, <1>6 DEF Distinct, Same
<1> QED BY <1>7, <1>8

-----------------------------------------------------------------------------
(* The search of the tables. *)

\* Tables each of whose descriptors may stand where it stands.
Fitting(d) == /\ d = [a \in Places |-> d[a]]
              /\ \A a \in Places : Fits(a, d[a])

\* Two descriptors that differ in nothing but their marks.
Like(c, d) == c.type = d.type /\ c.to = d.to /\ c.limit = d.limit /\ c.flags = d.flags

\* The search ends at the root's descriptor, at the page table's, or at one more.
EndsAtRoot(d, r, page)   == d[r].type # "table" \/ Index2(page) > d[r].limit
InTable(d, r, page)      == Table[d[r].to][Index2(page)]

\* The three ways a search may go, by what its first two descriptors are.
LEMMA PathIs ==
    ASSUME NEW d, NEW tree, NEW page
    PROVE  LET r == Root[tree][Index1(page)]
               t == InTable(d, r, page)
               p == Path(d, tree, page)
           IN  /\ EndsAtRoot(d, r, page) => p = <<r>>
               /\ ~EndsAtRoot(d, r, page) /\ d[t].type # "indirect" => p = <<r, t>>
               /\ ~EndsAtRoot(d, r, page) /\ d[t].type = "indirect" => p = <<r, t, Base[d[t].to]>>
<1> DEFINE r == Root[tree][Index1(page)]
           t == InTable(d, r, page)
<1>1. Path(d, tree, page) =
        CASE EndsAtRoot(d, r, page)  -> <<r>>
          [] ~EndsAtRoot(d, r, page) /\ d[t].type # "indirect" -> <<r, t>>
          [] OTHER                   -> <<r, t, Base[d[t].to]>>
  BY DEF Path, EndsAtRoot, InTable
<1> HIDE DEF r, t
<1>2. EndsAtRoot(d, r, page) => Path(d, tree, page) = <<r>>
  BY <1>1
<1>3. ~EndsAtRoot(d, r, page) /\ d[t].type # "indirect" => Path(d, tree, page) = <<r, t>>
  BY <1>1
<1>4. ~EndsAtRoot(d, r, page) /\ d[t].type = "indirect"
        => Path(d, tree, page) = <<r, t, Base[d[t].to]>>
  BY <1>1
<1> QED BY <1>2, <1>3, <1>4 DEF r, t

\* What a search reads are places of descriptors.
Read1(p) == /\ Len(p) \in 1 .. 3 /\ \A k \in 1 .. Len(p) : p[k] \in Places
            /\ Len(p) = 1 => p[1] \in RootPlaces

\* A search reads one to three descriptors, that are all there.
LEMMA PathPlaces ==
    ASSUME NEW d, Fitting(d), NEW tree \in DOMAIN Root, NEW page \in Pages
    PROVE  Read1(Path(d, tree, page))
<1> DEFINE r == Root[tree][Index1(page)]
           t == InTable(d, r, page)
           b == Base[d[t].to]
           p == Path(d, tree, page)
<1>1. r \in RootPlaces /\ r \in Places
  BY TablesAssumption DEF RootPlaces
<1>2. ~EndsAtRoot(d, r, page) => t \in Places
  <2>1. Fits(r, d[r])
    BY <1>1 DEF Fitting
  <2> QED BY <1>1, <2>1, TablesAssumption DEF EndsAtRoot, InTable, Fits
<1>3. ~EndsAtRoot(d, r, page) /\ d[t].type = "indirect" => b \in Places
  <2>1. ~EndsAtRoot(d, r, page) => Fits(t, d[t])
    BY <1>2 DEF Fitting
  <2> QED BY <1>2, <2>1, TablesAssumption DEF Fits
<1>4. /\ EndsAtRoot(d, r, page) => p = <<r>>
      /\ ~EndsAtRoot(d, r, page) /\ d[t].type # "indirect" => p = <<r, t>>
      /\ ~EndsAtRoot(d, r, page) /\ d[t].type = "indirect" => p = <<r, t, b>>
  BY PathIs
<1> HIDE DEF r, t, b, p
<1>5. CASE EndsAtRoot(d, r, page)
  <2>1. p = <<r>> /\ Len(p) = 1 /\ p[1] = r
    BY <1>4, <1>5
  <2> QED BY <1>1, <2>1 DEF Read1, p
<1>6. CASE ~EndsAtRoot(d, r, page) /\ d[t].type # "indirect"
  <2>1. p = <<r, t>> /\ Len(p) = 2 /\ p[1] = r /\ p[2] = t
    BY <1>4, <1>6
  <2> QED BY <1>1, <1>2, <1>6, <2>1 DEF Read1, p
<1>7. CASE ~EndsAtRoot(d, r, page) /\ d[t].type = "indirect"
  <2>1. p = <<r, t, b>> /\ Len(p) = 3 /\ p[1] = r /\ p[2] = t /\ p[3] = b
    BY <1>4, <1>7
  <2> QED BY <1>1, <1>2, <1>3, <1>7, <2>1 DEF Read1, p
<1> QED BY <1>5, <1>6, <1>7

\* Tables that agree on what one of them makes a search read are read alike.
LEMMA SamePath ==
    ASSUME NEW d, NEW e, NEW tree, NEW page,
           \A k \in 1 .. Len(Path(d, tree, page)) :
             Like(d[Path(d, tree, page)[k]], e[Path(d, tree, page)[k]])
    PROVE  Path(e, tree, page) = Path(d, tree, page)
<1> DEFINE r == Root[tree][Index1(page)]
           t == InTable(d, r, page)
           b == Base[d[t].to]
           p == Path(d, tree, page)
<1>1. /\ EndsAtRoot(d, r, page) => p = <<r>>
      /\ ~EndsAtRoot(d, r, page) /\ d[t].type # "indirect" => p = <<r, t>>
      /\ ~EndsAtRoot(d, r, page) /\ d[t].type = "indirect" => p = <<r, t, b>>
  BY PathIs
<1>2. LET u == InTable(e, r, page)
      IN  /\ EndsAtRoot(e, r, page) => Path(e, tree, page) = <<r>>
          /\ ~EndsAtRoot(e, r, page) /\ e[u].type # "indirect" => Path(e, tree, page) = <<r, u>>
          /\ ~EndsAtRoot(e, r, page) /\ e[u].type = "indirect"
               => Path(e, tree, page) = <<r, u, Base[e[u].to]>>
  BY PathIs
<1>3. \A k \in 1 .. Len(p) : Like(d[p[k]], e[p[k]])
  OBVIOUS
<1>4. p[1] = r /\ 1 \in 1 .. Len(p)
  <2> HIDE DEF r, t, b, p
  <2>1. p = <<r>> \/ p = <<r, t>> \/ p = <<r, t, b>>
    BY <1>1
  <2> QED BY <2>1
<1>5. Like(d[r], e[r])
  <2> HIDE DEF r, p
  <2> QED BY <1>3, <1>4
<1>6. EndsAtRoot(e, r, page) <=> EndsAtRoot(d, r, page)
  BY <1>5 DEF EndsAtRoot, Like
<1>7. InTable(e, r, page) = t
  BY <1>5 DEF InTable, Like
<1>8. ~EndsAtRoot(d, r, page) => Like(d[t], e[t])
  <2> HIDE DEF r, p, t, b
  <2>1. ~EndsAtRoot(d, r, page) => p = <<r, t>> \/ p = <<r, t, b>>
    BY <1>1
  <2>2. ~EndsAtRoot(d, r, page) => p[2] = t /\ 2 \in 1 .. Len(p)
    BY <2>1
  <2> QED BY <1>3, <2>2
<1>9. /\ EndsAtRoot(d, r, page) => Path(e, tree, page) = <<r>>
      /\ ~EndsAtRoot(d, r, page) /\ e[t].type # "indirect" => Path(e, tree, page) = <<r, t>>
      /\ ~EndsAtRoot(d, r, page) /\ e[t].type = "indirect"
               => Path(e, tree, page) = <<r, t, Base[e[t].to]>>
  BY <1>2, <1>6, <1>7
<1> HIDE DEF r, t
<1>10. Path(e, tree, page) = p
  BY <1>1, <1>8, <1>9 DEF Like
<1> QED BY <1>10

\* What a search says of a page, apart from the marks.
SameAnswer(s, t) == /\ s.ok = t.ok /\ s.protect = t.protect /\ s.inhibit = t.inhibit
                    /\ s.frame = t.frame /\ s.leaf = t.leaf

\* Tables that are alike along the way give the same answer, for a read or a write.
LEMMA SameSearch ==
    ASSUME NEW d, Fitting(d), NEW e, NEW tree \in DOMAIN Root, NEW page \in Pages,
           \A k \in 1 .. Len(Path(d, tree, page)) :
             Like(d[Path(d, tree, page)[k]], e[Path(d, tree, page)[k]]),
           NEW w, NEW x, NEW super
    PROVE  SameAnswer(Search(d, tree, page, w, super), Search(e, tree, page, x, super))
<1> DEFINE p == Path(d, tree, page)
<1>1. Path(e, tree, page) = p
  BY SamePath
<1>2. Len(p) \in 1 .. 3
  BY PathPlaces DEF Read1
<1>3. \A k \in 1 .. Len(p) : Like(d[p[k]], e[p[k]])
  OBVIOUS
<1> HIDE DEF p
<1>4. Like(d[p[Len(p)]], e[p[Len(p)]])
  <2>1. \A n \in 1 .. 3 : n \in 1 .. n
    OBVIOUS
  <2>2. Len(p) \in 1 .. Len(p)
    BY <1>2, <2>1
  <2> QED BY <1>3, <2>2
<1>5. Seen(e, p, Len(p)) = Seen(d, p, Len(p))
  <2>1. {e[p[k]].flags : k \in 1 .. Len(p)} = {d[p[k]].flags : k \in 1 .. Len(p)}
    BY <1>3 DEF Like
  <2> QED BY <2>1 DEF Seen
<1>6. Found(e, p) = Found(d, p) /\ FrameOf(e, p, page) = FrameOf(d, p, page)
  BY <1>4 DEF Found, FrameOf, Like
<1>7. Denied(Seen(e, p, Len(p)), super) = Denied(Seen(d, p, Len(p)), super)
  BY <1>5
<1> QED BY <1>1, <1>5, <1>6, <1>7 DEF SameAnswer, Search, p

\* A search leaves the tables alike, gives no mark up, and a search that does not
\* write marks nothing as modified.
Marked1(d, e) == \A a \in Places : Like(d[a], e[a]) /\ d[a].marks \subseteq e[a].marks

\* The marks a search leaves change nothing else of the tables.
LEMMA MarkedKeeps ==
    ASSUME NEW d, Fitting(d), NEW p, NEW w, NEW super
    PROVE  Fitting(Marked(d, p, w, super)) /\ Marked1(d, Marked(d, p, w, super))
<1> DEFINE at(a) == {k \in 1 .. Len(p) : p[k] = a /\ (k < 3 \/ Found(d, p))}
           more(a) == UNION {Marks(d, p, k, w, super) : k \in at(a)}
<1>1. Marked(d, p, w, super) = [a \in Places |-> [d[a] EXCEPT !.marks = @ \cup more(a)]]
  BY DEF Marked
<1>2. ASSUME NEW a \in Places, NEW S
      PROVE  LET c == [d[a] EXCEPT !.marks = @ \cup S]
             IN  Fits(a, c) /\ Like(d[a], c) /\ c.marks = d[a].marks \cup S
  <2>1. Fits(a, d[a])
    BY DEF Fitting
  <2>2. [d[a] EXCEPT !.marks = @ \cup S] =
          [type |-> d[a].type, to |-> d[a].to, limit |-> d[a].limit,
           flags |-> d[a].flags, marks |-> d[a].marks \cup S]
    <3>1. \A ty, to, li, fl, ma :
            [[type |-> ty, to |-> to, limit |-> li, flags |-> fl, marks |-> ma]
               EXCEPT !.marks = @ \cup S] =
            [type |-> ty, to |-> to, limit |-> li, flags |-> fl, marks |-> ma \cup S]
      OBVIOUS
    <3>2. d[a] = [type |-> d[a].type, to |-> d[a].to, limit |-> d[a].limit,
                  flags |-> d[a].flags, marks |-> d[a].marks]
      BY <2>1 DEF Fits, Descriptor
    <3> DEFINE c == d[a]
    <3>3. [[type |-> c.type, to |-> c.to, limit |-> c.limit, flags |-> c.flags, marks |-> c.marks]
             EXCEPT !.marks = @ \cup S] =
          [type |-> c.type, to |-> c.to, limit |-> c.limit, flags |-> c.flags,
           marks |-> c.marks \cup S]
      BY <3>1
    <3> QED BY <3>2, <3>3
  <2> QED BY <2>1, <2>2 DEF Fits, Like, Descriptor
<1> HIDE DEF more
<1> DEFINE e == Marked(d, p, w, super)
<1>3. ASSUME NEW a \in Places
      PROVE  Fits(a, e[a]) /\ Like(d[a], e[a]) /\ e[a].marks = d[a].marks \cup more(a)
  <2>1. e[a] = [d[a] EXCEPT !.marks = @ \cup more(a)]
    BY <1>1
  <2> QED BY <1>2, <2>1
<1>4. e = [a \in Places |-> e[a]]
  BY <1>1
<1> HIDE DEF e
<1>5. Fitting(e) /\ Marked1(d, e)
  BY <1>3, <1>4 DEF Fitting, Marked1
<1> QED BY <1>5 DEF e

\* A search that only reads finds a page modified if it has been marked so.
LEMMA ReadModified ==
    ASSUME NEW d, Fitting(d), NEW tree \in DOMAIN Root, NEW page \in Pages, NEW super
    PROVE  LET s == Search(d, tree, page, FALSE, super)
           IN  s.modified => s.leaf \in Places /\ "modified" \in d[s.leaf].marks
<1> DEFINE p == Path(d, tree, page)
           leaf == p[Len(p)]
           at == {k \in 1 .. Len(p) : p[k] = leaf /\ (k < 3 \/ Found(d, p))}
<1>1. leaf \in Places
  BY PathPlaces DEF Read1
<1>2. "modified" \notin UNION {Marks(d, p, k, FALSE, super) : k \in at}
  BY DEF Marks
<1>3. Marked(d, p, FALSE, super)[leaf].marks =
        d[leaf].marks \cup UNION {Marks(d, p, k, FALSE, super) : k \in at}
  <2>1. Marked(d, p, FALSE, super)[leaf] =
          [d[leaf] EXCEPT !.marks = @ \cup UNION {Marks(d, p, k, FALSE, super) : k \in at}]
    BY <1>1 DEF Marked
  <2>2. d[leaf] = [type |-> d[leaf].type, to |-> d[leaf].to, limit |-> d[leaf].limit,
                   flags |-> d[leaf].flags, marks |-> d[leaf].marks]
    BY <1>1 DEF Fitting, Fits, Descriptor
  <2> HIDE DEF at, leaf
  <2> QED BY <2>1, <2>2
<1>4. Search(d, tree, page, FALSE, super).modified
        => "modified" \in Marked(d, p, FALSE, super)[leaf].marks
  BY DEF Search
<1>5. Search(d, tree, page, FALSE, super).leaf = leaf
  BY DEF Search
<1> HIDE DEF p, leaf, at
<1> QED BY <1>1, <1>2, <1>3, <1>4, <1>5

\* A search to write a page that may be written marks it.
LEMMA WriteModifies ==
    ASSUME NEW d, Fitting(d), NEW tree \in DOMAIN Root, NEW page \in Pages, NEW super
    PROVE  LET s == Search(d, tree, page, TRUE, super)
           IN  s.ok /\ ~s.protect => s.leaf \in Places /\ "modified" \in s.desc[s.leaf].marks
<1> DEFINE p == Path(d, tree, page)
           n == Len(p)
           leaf == p[n]
           at == {k \in 1 .. Len(p) : p[k] = leaf /\ (k < 3 \/ Found(d, p))}
           flags == Seen(d, p, n)
<1>1. leaf \in Places /\ n \in 1 .. Len(p)
  <2>1. \A k \in 1 .. 3 : k \in 1 .. k
    OBVIOUS
  <2>2. Read1(p)
    BY PathPlaces
  <2> HIDE DEF p
  <2> QED BY <2>1, <2>2 DEF Read1
<1> SUFFICES ASSUME Found(d, p), ~Denied(flags, super), "protect" \notin flags
             PROVE  "modified" \in Marked(d, p, TRUE, super)[leaf].marks
  BY <1>1 DEF Search
<1>2. "modified" \in Marks(d, p, n, TRUE, super)
  BY DEF Marks, Found
<1>3. n \in at
  BY <1>1
<1>4. Marked(d, p, TRUE, super)[leaf].marks =
        d[leaf].marks \cup UNION {Marks(d, p, k, TRUE, super) : k \in at}
  <2>1. Marked(d, p, TRUE, super)[leaf] =
          [d[leaf] EXCEPT !.marks = @ \cup UNION {Marks(d, p, k, TRUE, super) : k \in at}]
    BY <1>1 DEF Marked
  <2>2. d[leaf] = [type |-> d[leaf].type, to |-> d[leaf].to, limit |-> d[leaf].limit,
                   flags |-> d[leaf].flags, marks |-> d[leaf].marks]
    BY <1>1 DEF Fitting, Fits, Descriptor
  <2> HIDE DEF at, leaf
  <2> QED BY <2>1, <2>2
<1> HIDE DEF at, leaf, n
<1> QED BY <1>2, <1>3, <1>4

-----------------------------------------------------------------------------
\* What the steps of the processor and the system keep.
IInv == which \in DOMAIN Start /\ WellFormed(atc) /\ Distinct(atc)

\* A cache all of whose entries are free.
LEMMA EmptyInv == \A h : LET a == [i \in 1 .. Slots |-> Free(h)]
                         IN  WellFormed(a) /\ Distinct(a)
<1> QED BY FreeFormed DEF WellFormed, Distinct

\* An entry that is marked, and one that a search fills, keep the invariant.
LEMMA MarkUsedInv == ASSUME IInv, NEW n
                     PROVE  WellFormed(MarkUsed(atc, n)) /\ Distinct(MarkUsed(atc, n))
<1> QED BY MarkUsedFewer, FewerDistinct DEF IInv

\* What a search enters in the cache leaves no two entries of one page.
LEMMA EnteredInv == ASSUME IInv, NEW code \in Codes, NEW page \in Pages, NEW s
                    PROVE  WellFormed(Entered(code, page, s)) /\ Distinct(Entered(code, page, s))
<1> DEFINE e == [valid |-> TRUE, code |-> code, page |-> page, error |-> ~s.ok,
                 inhibit |-> s.inhibit, protect |-> s.protect, modified |-> s.modified,
                 frame |-> s.frame, history |-> TRUE]
<1>1. Formed(e) /\ e.code \in Codes /\ e.page \in Pages
  BY DEF Formed
<1>2. Entered(code, page, s) = Insert(atc, e)
  BY DEF Entered
<1> HIDE DEF e
<1> QED BY <1>1, <1>2, InsertDistinct DEF IInv

\* Whatever a translation comes to.
LEMMA TranslatedInv ==
    ASSUME IInv, NEW code \in Codes, NEW page \in Pages, NEW write, NEW rmw
    PROVE  LET t == Translated(code, page, write, rmw)
           IN  WellFormed(t.atc) /\ Distinct(t.atc)
<1> DEFINE t == Translated(code, page, write, rmw)
<1>1. \/ t.atc = atc
      \/ \E n : t.atc = MarkUsed(atc, n)
      \/ \E s : t.atc = Entered(code, page, s)
  BY DEF Translated
<1> HIDE DEF t
<1>2. WellFormed(t.atc) /\ Distinct(t.atc)
  BY <1>1, MarkUsedInv, EnteredInv DEF IInv
<1> QED BY <1>2 DEF t

\* Every step of the processor, of the system and of another master keeps it.
LEMMA StepInv ==
    ASSUME IInv, [Next]_vars PROVE IInv'
<1> USE DEF IInv
<1>0. \A s \in Start[which].spaces : s[1] \in Codes /\ s[2] \in Pages
  BY MmuAssumption DEF Spaces
<1>1. ASSUME NEW s \in Start[which].spaces, NEW l, NEW rmw, Read(s[1], s[2], l, rmw)
      PROVE  IInv'
  <2>1. which' = which /\ atc' = Translated(s[1], s[2], FALSE, rmw).atc
    BY <1>1 DEF Read
  <2> QED BY <1>0, <2>1, TranslatedInv
<1>2. ASSUME NEW s \in Start[which].spaces, NEW l, NEW halves, NEW rmw,
             Write(s[1], s[2], l, halves, rmw)
      PROVE  IInv'
  <2>1. which' = which /\ atc' = Translated(s[1], s[2], TRUE, rmw).atc
    BY <1>2 DEF Write
  <2> QED BY <1>0, <2>1, TranslatedInv
<1>3. ASSUME NEW a, NEW d, Edit(a, d) PROVE IInv'
  BY <1>3 DEF Edit
<1>4. CASE Pflusha
  BY <1>4, EmptyInv DEF Pflusha, Flushed
<1>5. ASSUME NEW c, NEW m, PflushCodes(c, m) PROVE IInv'
  <2>1. which' = which /\ atc' = FlushCodes(atc, c, m)
    BY <1>5 DEF PflushCodes, Flushed
  <2> QED BY <2>1, FlushFewer, FewerDistinct
<1>6. ASSUME NEW c, NEW m, NEW p, PflushEntry(c, m, p) PROVE IInv'
  <2>1. which' = which /\ atc' = FlushEntry(atc, c, m, p)
    BY <1>6 DEF PflushEntry, Flushed
  <2> QED BY <2>1, FlushFewer, FewerDistinct
<1>7. ASSUME NEW s \in Start[which].spaces, NEW w, Pload(s[1], s[2], w) PROVE IInv'
  <2>1. which' = which /\ \E found : atc' = Entered(s[1], s[2], found)
    BY <1>7 DEF Pload
  <2> QED BY <1>0, <2>1, EnteredInv
<1>8. ASSUME NEW t, NEW fd, Pmove(t, fd) PROVE IInv'
  BY <1>8, EmptyInv DEF Pmove, Empty
<1>9. ASSUME NEW s, NEW clear, Movec(s, clear) PROVE IInv'
  BY <1>9 DEF Movec
<1>10. ASSUME NEW f, NEW l, Dma(f, l) PROVE IInv'
  BY <1>10 DEF Dma
<1>11. CASE UNCHANGED vars
  BY <1>11 DEF vars
<1> QED BY <1>1, <1>2, <1>3, <1>4, <1>5, <1>6, <1>7, <1>8, <1>9, <1>10, <1>11 DEF Next

-----------------------------------------------------------------------------
\* The translation cache never answers an access with one of two entries of the
\* same page and function code, whatever is inserted, flushed by mask, loaded and
\* given up (ap_m68030_atc_insert).
THEOREM NeverTwoEntries == Spec => []OneEntry
<1>1. Init => IInv
  <2> SUFFICES ASSUME Init PROVE IInv
    OBVIOUS
  <2>1. which \in DOMAIN Start /\ atc = [i \in 1 .. Slots |-> Free(FALSE)]
    BY DEF Init, Empty
  <2> QED BY <2>1, EmptyInv DEF IInv
<1>2. IInv => OneEntry
  BY DEF IInv, Distinct, Same, OneEntry
<1>3. IInv /\ [Next]_vars => IInv'
  BY StepInv
<1> QED BY <1>1, <1>2, <1>3, PTL DEF Spec

-----------------------------------------------------------------------------
(* What is cached of a translation is what the tables say. *)

\* The tree of a function code when c is the tree of those that have no other.
TreeIn(c, code) == IF Super(code) /\ "srp" \in Supervisors THEN "srp" ELSE c

\* What the tables d say of the page of an entry, and whether it says the same.
Says(e, d, c) == Search(d, TreeIn(c, e.code), e.page, FALSE, Super(e.code))
True1(e, d, c) ==
    /\ e.error = ~Says(e, d, c).ok
    /\ Says(e, d, c).ok =>
         /\ e.frame = Says(e, d, c).frame /\ e.protect = Says(e, d, c).protect
         /\ e.inhibit = Says(e, d, c).inhibit /\ (e.modified => Says(e, d, c).modified)

\* Every entry is true but for the pages of U.
AllTrue(a, d, c, U) ==
    \A i \in 1 .. Slots : a[i].valid /\ <<a[i].code, a[i].page>> \notin U => True1(a[i], d, c)

\* The tables e read, where d makes a search read, as d does, and no mark is gone.
Kept(d, e, p) == \A k \in 1 .. Len(p) : Like(d[p[k]], e[p[k]]) /\ d[p[k]].marks \subseteq e[p[k]].marks

\* Marks keep what an entry of the translation cache relies on.
LEMMA MarkedIsKept ==
    ASSUME NEW d, NEW e, NEW p, Read1(p), Marked1(d, e) PROVE Kept(d, e, p)
<1> QED BY DEF Kept, Marked1, Read1

\* A mark in the last descriptor is found by every search.
LEMMA MarkIsFound ==
    ASSUME NEW d, Fitting(d), NEW tree \in DOMAIN Root, NEW page \in Pages, NEW w, NEW super
    PROVE  LET p == Path(d, tree, page)
           IN  Found(d, p) /\ "modified" \in d[p[Len(p)]].marks
                 => Search(d, tree, page, w, super).modified
<1> DEFINE p == Path(d, tree, page)
<1>1. p[Len(p)] \in Places
  <2>1. \A k \in 1 .. 3 : k \in 1 .. k
    OBVIOUS
  <2>2. Read1(p)
    BY PathPlaces
  <2> HIDE DEF p
  <2> QED BY <2>1, <2>2 DEF Read1
<1>2. Marked1(d, Marked(d, p, w, super))
  BY MarkedKeeps
<1>3. Search(d, tree, page, w, super).modified
        = (Found(d, p) /\ "modified" \in Marked(d, p, w, super)[p[Len(p)]].marks)
  BY DEF Search
<1> HIDE DEF p
<1>4. d[p[Len(p)]].marks \subseteq Marked(d, p, w, super)[p[Len(p)]].marks
  BY <1>1, <1>2 DEF Marked1
<1>5. Found(d, p) /\ "modified" \in d[p[Len(p)]].marks => Search(d, tree, page, w, super).modified
  BY <1>3, <1>4
<1> QED BY <1>5 DEF p

\* An entry that is true stays so while what its search reads is kept.
LEMMA TrueKept ==
    ASSUME NEW d, Fitting(d), NEW b, Fitting(b), NEW c, NEW e,
           e.page \in Pages, TreeIn(c, e.code) \in DOMAIN Root,
           Kept(d, b, Path(d, TreeIn(c, e.code), e.page)), True1(e, d, c)
    PROVE  True1(e, b, c)
<1> DEFINE tree == TreeIn(c, e.code)
           p == Path(d, tree, e.page)
           s == Says(e, d, c)
           t == Says(e, b, c)
<1>1. \A k \in 1 .. Len(p) : Like(d[p[k]], b[p[k]])
  BY DEF Kept
<1>2. SameAnswer(s, t)
  BY <1>1, SameSearch DEF Says
<1>3. Path(b, tree, e.page) = p
  BY <1>1, SamePath
<1>4. s.modified => t.modified
  <2>1. s.modified => "modified" \in d[p[Len(p)]].marks
    <3>1. s.leaf = p[Len(p)]
      BY DEF Says, Search
    <3>2. s.modified => "modified" \in d[s.leaf].marks
      BY ReadModified DEF Says
    <3> QED BY <3>1, <3>2
  <2>2. s.modified => Found(d, p)
    BY DEF Says, Search
  <2>3. Len(p) \in 1 .. Len(p)
    <3>1. \A k \in 1 .. 3 : k \in 1 .. k
      OBVIOUS
    <3>2. Read1(p)
      BY PathPlaces
    <3> HIDE DEF p
    <3> QED BY <3>1, <3>2 DEF Read1
  <2>4. Like(d[p[Len(p)]], b[p[Len(p)]]) /\ d[p[Len(p)]].marks \subseteq b[p[Len(p)]].marks
    <3> HIDE DEF p
    <3> QED BY <2>3 DEF Kept, p
  <2>5. Found(b, p) = Found(d, p)
    BY <2>4 DEF Found, Like
  <2>6. Found(b, p) /\ "modified" \in b[p[Len(p)]].marks => t.modified
    <3>1. LET q == Path(b, tree, e.page)
          IN  Found(b, q) /\ "modified" \in b[q[Len(q)]].marks
                => Search(b, tree, e.page, FALSE, Super(e.code)).modified
      BY MarkIsFound
    <3> HIDE DEF p
    <3> QED BY <1>3, <3>1 DEF Says
  <2> HIDE DEF p, s, t
  <2> QED BY <2>1, <2>2, <2>4, <2>5, <2>6
<1>5. e.error = ~s.ok /\ (s.ok => /\ e.frame = s.frame /\ e.protect = s.protect
                                   /\ e.inhibit = s.inhibit /\ (e.modified => s.modified))
  BY DEF True1
<1> HIDE DEF s, t
<1>6. e.error = ~t.ok /\ (t.ok => /\ e.frame = t.frame /\ e.protect = t.protect
                                   /\ e.inhibit = t.inhibit /\ (e.modified => t.modified))
  BY <1>2, <1>4, <1>5 DEF SameAnswer
<1> QED BY <1>6 DEF True1, s, t

\* What is said of an entry does not depend on its use.
LEMMA TrueAlike ==
    ASSUME NEW e, NEW f, Alike(e, f), NEW d, NEW c, True1(e, d, c) PROVE True1(f, d, c)
<1>1. Says(f, d, c) = Says(e, d, c)
  BY DEF Says, Alike
<1> QED BY <1>1 DEF True1, Alike

\* The entry a search fills is true of the tables as the search leaves them.
LEMMA FilledTrue ==
    ASSUME NEW d, Fitting(d), NEW c, NEW code, NEW page \in Pages,
           TreeIn(c, code) \in DOMAIN Root, NEW w, NEW e,
           NEW s, s = Search(d, TreeIn(c, code), page, w, Super(code)),
           e.code = code, e.page = page, e.error = ~s.ok, e.inhibit = s.inhibit,
           e.protect = s.protect, e.modified = s.modified, e.frame = s.frame
    PROVE  /\ Fitting(s.desc) /\ Marked1(d, s.desc)
           /\ True1(e, s.desc, c)
<1> DEFINE tree == TreeIn(c, code)
           p == Path(d, tree, page)
           b == s.desc
           t == Says(e, b, c)
<1>1. b = Marked(d, p, w, Super(code)) /\ s.leaf = p[Len(p)]
      /\ s.modified = (Found(d, p) /\ "modified" \in b[p[Len(p)]].marks)
  BY DEF Search
<1>2. Fitting(b) /\ Marked1(d, b)
  <2> HIDE DEF b, p
  <2> QED BY <1>1, MarkedKeeps
<1>3. Read1(p)
  BY PathPlaces
<1>4. Kept(d, b, p)
  <2> HIDE DEF b, p
  <2> QED BY <1>2, <1>3, MarkedIsKept
<1>5. \A k \in 1 .. Len(p) : Like(d[p[k]], b[p[k]])
  <2> HIDE DEF b, p
  <2> QED BY <1>4 DEF Kept
<1>6. SameAnswer(s, t)
  <2> HIDE DEF b
  <2> QED BY <1>5, SameSearch DEF Says
<1>7. Path(b, tree, page) = p
  <2> HIDE DEF b
  <2> QED BY <1>5, SamePath
<1>8. s.modified => t.modified
  <2>1. Found(b, p) = Found(d, p)
    <3>1. \A k \in 1 .. 3 : k \in 1 .. k
      OBVIOUS
    <3> HIDE DEF b, p
    <3> QED BY <1>3, <1>5, <3>1 DEF Read1, Found, Like
  <2>2. Found(b, p) /\ "modified" \in b[p[Len(p)]].marks => t.modified
    <3> HIDE DEF b
    <3>1. LET q == Path(b, tree, page)
          IN  Found(b, q) /\ "modified" \in b[q[Len(q)]].marks
                => Search(b, tree, page, FALSE, Super(code)).modified
      BY <1>2, MarkIsFound
    <3> HIDE DEF p, tree
    <3> QED BY <1>7, <3>1 DEF Says, tree
  <2> HIDE DEF b, p, t, tree
  <2> QED BY <1>1, <2>1, <2>2
<1> HIDE DEF b, t
<1>9. True1(e, b, c)
  <2>1. e.error = ~t.ok /\ (t.ok => /\ e.frame = t.frame /\ e.protect = t.protect
                                     /\ e.inhibit = t.inhibit /\ (e.modified => t.modified))
    BY <1>6, <1>8 DEF SameAnswer
  <2> QED BY <2>1 DEF True1, t
<1> QED BY <1>2, <1>9 DEF b

\* Giving entries up keeps the rest true, and so do marks in the tables.
LEMMA FewerTrue ==
    ASSUME NEW a, NEW b, Fewer(a, b), NEW d, NEW c, NEW U, AllTrue(a, d, c, U)
    PROVE  AllTrue(b, d, c, U)
<1> SUFFICES ASSUME NEW i \in 1 .. Slots, b[i].valid, <<b[i].code, b[i].page>> \notin U
             PROVE  True1(b[i], d, c)
  BY DEF AllTrue
<1>1. a[i].valid /\ Alike(a[i], b[i])
  BY DEF Fewer
<1>2. True1(a[i], d, c)
  <2>1. a[i].code = b[i].code /\ a[i].page = b[i].page
    BY <1>1 DEF Alike
  <2> QED BY <1>1, <2>1 DEF AllTrue
<1> QED BY <1>1, <1>2, TrueAlike

\* Every function code has a tree.
LEMMA TreeThere ==
    ASSUME NEW c \in DOMAIN Root, NEW code PROVE TreeIn(c, code) \in DOMAIN Root
<1> QED BY TablesAssumption DEF TreeIn

\* What was true of the entries is true of them after a search marked the tables.
LEMMA MarkedTrue ==
    ASSUME NEW a, WellFormed(a), NEW d, Fitting(d), NEW b, Fitting(b), Marked1(d, b),
           NEW c \in DOMAIN Root, NEW U, AllTrue(a, d, c, U)
    PROVE  AllTrue(a, b, c, U)
<1> SUFFICES ASSUME NEW i \in 1 .. Slots, a[i].valid, <<a[i].code, a[i].page>> \notin U
             PROVE  True1(a[i], b, c)
  BY DEF AllTrue
<1>1. a[i].page \in Pages /\ True1(a[i], d, c)
  BY DEF WellFormed, AllTrue
<1> DEFINE e == a[i]
           tree == TreeIn(c, e.code)
<1>2. tree \in DOMAIN Root
  BY TreeThere
<1>3. Kept(d, b, Path(d, tree, e.page))
  <2>1. Read1(Path(d, tree, e.page))
    <3> HIDE DEF tree
    <3> QED BY <1>1, <1>2, PathPlaces
  <2> QED BY <2>1, MarkedIsKept
<1> HIDE DEF e
<1>4. e.page \in Pages /\ True1(e, d, c)
  BY <1>1 DEF e
<1>5. True1(e, b, c)
  BY <1>2, <1>3, <1>4, TrueKept
<1> QED BY <1>5 DEF e

\* What is inserted is the one entry of its page; every other was there before.
LEMMA InsertFewer ==
    ASSUME NEW a, WellFormed(a), NEW e, e.code \in Codes
    PROVE  \A i \in 1 .. Slots : Insert(a, e)[i].valid =>
             \/ Insert(a, e)[i] = e
             \/ /\ a[i].valid /\ Alike(a[i], Insert(a, e)[i])
                /\ ~(a[i].code = e.code /\ a[i].page = e.page)
<1> DEFINE f == FlushEntry(a, e.code, AllBits, e.page)
           b == Swept(f)
           v == Victim(f)
<1>1. WellFormed(f) /\ Fewer(a, f)
  BY FlushFewer
<1>2. WellFormed(b) /\ Fewer(f, b)
  BY <1>1, SweptFewer
<1>3. \A i \in 1 .. Slots : f[i].valid => ~(a[i].code = e.code /\ a[i].page = e.page)
  BY FlushClears
<1>4. Insert(a, e) = [i \in 1 .. Slots |-> IF i = v THEN e ELSE b[i]]
  <2>1. Insert(a, e) = [b EXCEPT ![v] = e]
    BY DEF Insert
  <2>2. DOMAIN b = 1 .. Slots
    BY <1>2 DEF WellFormed
  <2> HIDE DEF b, v
  <2> QED BY <2>1, <2>2
<1> HIDE DEF b, v, f
<1>5. ASSUME NEW i \in 1 .. Slots, b[i].valid
      PROVE  a[i].valid /\ Alike(a[i], b[i]) /\ ~(a[i].code = e.code /\ a[i].page = e.page)
  <2>1. f[i].valid /\ Alike(f[i], b[i]) /\ a[i].valid /\ Alike(a[i], f[i])
    BY <1>1, <1>2, <1>5 DEF Fewer
  <2> QED BY <1>3, <2>1 DEF Alike
<1> SUFFICES ASSUME NEW i \in 1 .. Slots, Insert(a, e)[i].valid, i # v
             PROVE  a[i].valid /\ Alike(a[i], Insert(a, e)[i])
                    /\ ~(a[i].code = e.code /\ a[i].page = e.page)
  BY <1>4
<1>6. Insert(a, e)[i] = b[i]
  BY <1>4
<1> QED BY <1>5, <1>6

\* An entry that is true takes the place of one of its page: the others keep theirs.
LEMMA InsertTrue ==
    ASSUME NEW a, WellFormed(a), NEW e, e.code \in Codes, NEW d, NEW c, NEW U, NEW V,
           AllTrue(a, d, c, U), U \subseteq V \cup {<<e.code, e.page>>}, True1(e, d, c)
    PROVE  AllTrue(Insert(a, e), d, c, V)
<1> DEFINE b == Insert(a, e)
<1> SUFFICES ASSUME NEW i \in 1 .. Slots, b[i].valid, <<b[i].code, b[i].page>> \notin V
             PROVE  True1(b[i], d, c)
  BY DEF AllTrue
<1>1. \/ b[i] = e
      \/ a[i].valid /\ Alike(a[i], b[i]) /\ ~(a[i].code = e.code /\ a[i].page = e.page)
  BY InsertFewer
<1> HIDE DEF b
<1>2. CASE a[i].valid /\ Alike(a[i], b[i]) /\ ~(a[i].code = e.code /\ a[i].page = e.page)
  <2>1. <<a[i].code, a[i].page>> \notin U
    BY <1>2 DEF Alike
  <2>2. True1(a[i], d, c)
    BY <1>2, <2>1 DEF AllTrue
  <2> QED BY <1>2, <2>2, TrueAlike
<1> QED BY <1>1, <1>2

\* The tables fit, and what is cached and what has been written is true of them.
TInv == /\ IInv /\ Fitting(desc) /\ crp \in DOMAIN Root
        /\ AllTrue(atc, desc, crp, unflushed)
        /\ written \subseteq Places /\ WrittenIsModified

\* The entry that is found is one of the page.
LEMMA FirstIsOne ==
    ASSUME NEW S, S \subseteq 1 .. Slots, S # {} PROVE First(S) \in S
<1>1. \E i \in S : \A j \in S : i <= j
  <2>1. S \in SUBSET Nat
    BY AtcAssumption
  <2> QED BY <2>1, Least
<1> QED BY <1>1 DEF First

\* What the translation t of an access makes of the tables and the entries.
Sound(t) == Fitting(t.desc) /\ Marked1(desc, t.desc) /\ AllTrue(t.atc, t.desc, crp, unflushed)

\* An access that may go on, of a page whose translation was flushed since it was
\* changed, reaches the frame the tables give, and a write's is marked.
Right(t, code, page, write) ==
    LET s == Search(t.desc, TreeOf(code), page, FALSE, Super(code))
    IN  /\ s.ok /\ t.frame = s.frame /\ t.inhibit = s.inhibit
        /\ write => s.leaf \in Places /\ "modified" \in t.desc[s.leaf].marks

\* The tree of a function code, by the root pointer.
LEMMA TreeOfIs == \A code : TreeOf(code) = TreeIn(crp, code)
<1> QED BY DEF TreeOf, TreeIn

\* Tables that were not marked.
LEMMA MarkedSelf == ASSUME NEW d PROVE Marked1(d, d)
<1> QED BY DEF Marked1, Like

\* An entry that is found and lets the access go on.
LEMMA HitTrue ==
    ASSUME TInv, NEW code \in Codes, NEW page \in Pages, NEW write \in BOOLEAN,
           NEW i \in 1 .. Slots, atc[i].valid, atc[i].code = code, atc[i].page = page,
           <<code, page>> \notin unflushed, Status(atc[i], write) = "hit",
           NEW t, t.desc = desc, t.frame = atc[i].frame, t.inhibit = atc[i].inhibit
    PROVE  Right(t, code, page, write)
<1> DEFINE e == atc[i]
           s == Says(e, desc, crp)
<1>1. True1(e, desc, crp)
  BY DEF TInv, AllTrue
<1>2. s = Search(t.desc, TreeOf(code), page, FALSE, Super(code))
  BY TreeOfIs DEF Says
<1>3. ~e.error /\ (write => e.modified)
  BY DEF Status
<1>4. s.ok /\ e.frame = s.frame /\ e.inhibit = s.inhibit /\ (write => s.modified)
  <2> HIDE DEF e
  <2> QED BY <1>1, <1>3 DEF True1
<1>5. s.modified => s.leaf \in Places /\ "modified" \in desc[s.leaf].marks
  BY ReadModified, TreeOfIs, TreeThere DEF TInv, Says
<1> HIDE DEF s
<1> QED BY <1>2, <1>4, <1>5 DEF Right

\* A search, whose entry is put in the cache.
LEMMA SearchTrue ==
    ASSUME TInv, NEW code \in Codes, NEW page \in Pages, NEW w \in BOOLEAN,
           NEW s, s = Search(desc, TreeOf(code), page, w, Super(code)),
           NEW V, unflushed \subseteq V \cup {<<code, page>>}
    PROVE  /\ Fitting(s.desc) /\ Marked1(desc, s.desc)
           /\ AllTrue(Entered(code, page, s), s.desc, crp, V)
           /\ SameAnswer(s, Search(s.desc, TreeOf(code), page, FALSE, Super(code)))
           /\ w /\ s.ok /\ ~s.protect => s.leaf \in Places /\ "modified" \in s.desc[s.leaf].marks
<1> DEFINE e == [valid |-> TRUE, code |-> code, page |-> page, error |-> ~s.ok,
                 inhibit |-> s.inhibit, protect |-> s.protect, modified |-> s.modified,
                 frame |-> s.frame, history |-> TRUE]
           tree == TreeIn(crp, code)
<1>1. tree \in DOMAIN Root /\ TreeOf(code) = tree
  BY TreeThere, TreeOfIs DEF TInv
<1>2. Fitting(s.desc) /\ Marked1(desc, s.desc) /\ True1(e, s.desc, crp)
  <2>1. e.code = code /\ e.page = page /\ e.error = ~s.ok /\ e.inhibit = s.inhibit
        /\ e.protect = s.protect /\ e.modified = s.modified /\ e.frame = s.frame
    OBVIOUS
  <2>2. Fitting(desc) /\ s = Search(desc, tree, page, w, Super(code))
    BY <1>1 DEF TInv
  <2> HIDE DEF e
  <2> QED BY <1>1, <2>1, <2>2, FilledTrue
<1>3. AllTrue(atc, s.desc, crp, unflushed) /\ WellFormed(atc)
  BY <1>2, MarkedTrue DEF TInv, IInv
<1>4. Entered(code, page, s) = Insert(atc, e) /\ e.code = code /\ e.page = page
  BY DEF Entered
<1>5. AllTrue(Entered(code, page, s), s.desc, crp, V)
  <2> HIDE DEF e
  <2> QED BY <1>2, <1>3, <1>4, InsertTrue
<1>6. SameAnswer(s, Search(s.desc, tree, page, FALSE, Super(code)))
  <2> DEFINE p == Path(desc, tree, page)
             b == s.desc
  <2>1. Fitting(desc) /\ Read1(p)
    BY <1>1, PathPlaces DEF TInv
  <2>2. \A k \in 1 .. Len(p) : Like(desc[p[k]], b[p[k]])
    <3> HIDE DEF b, p
    <3> QED BY <1>2, <2>1 DEF Read1, Marked1, b
  <2>3. SameAnswer(Search(desc, tree, page, w, Super(code)), Search(b, tree, page, FALSE, Super(code)))
    <3> HIDE DEF b, tree
    <3> QED BY <1>1, <2>1, <2>2, SameSearch DEF p
  <2> QED BY <1>1, <2>3
<1>7. w /\ s.ok /\ ~s.protect => s.leaf \in Places /\ "modified" \in s.desc[s.leaf].marks
  BY <1>1, WriteModifies DEF TInv
<1> QED BY <1>1, <1>2, <1>5, <1>6, <1>7

\* What a translation that lets the access go on comes to: the page's own frame, in a
\* transparent range, or that of the tables.
Goes(t, code, page, write, rmw) ==
    /\ Transparent(code, page, write, rmw) => t.ok /\ t.frame = page /\ t.inhibit = FALSE
    /\ t.ok /\ ~Transparent(code, page, write, rmw) /\ <<code, page>> \notin unflushed
         => Right(t, code, page, write)

\* Whatever a translation comes to.
LEMMA TranslatedTrue ==
    ASSUME TInv, NEW code \in Codes, NEW page \in Pages, NEW write \in BOOLEAN, NEW rmw \in BOOLEAN
    PROVE  /\ Sound(Translated(code, page, write, rmw))
           /\ Goes(Translated(code, page, write, rmw), code, page, write, rmw)
<1> DEFINE found == Matching(atc, code, page)
           i == First(found)
           state == IF found = {} THEN "miss" ELSE Status(atc[i], write)
           s == Search(desc, TreeOf(code), page, write \/ rmw, Super(code))
           t == Translated(code, page, write, rmw)
           through == Transparent(code, page, write, rmw)
<1>1. CASE through
  <2>1. t = [ok |-> TRUE, frame |-> page, inhibit |-> FALSE, atc |-> atc, desc |-> desc]
    BY <1>1 DEF Translated
  <2> HIDE DEF t
  <2>2. Sound(t)
    BY <2>1, MarkedSelf DEF Sound, TInv
  <2>3. Goes(t, code, page, write, rmw)
    BY <1>1, <2>1 DEF Goes
  <2> QED BY <2>2, <2>3 DEF t
<1>2. CASE ~through /\ state \in {"hit", "fault"}
  <2>1. t = [ok |-> state = "hit", frame |-> atc[i].frame, inhibit |-> atc[i].inhibit,
             atc |-> MarkUsed(atc, i), desc |-> desc]
    BY <1>2 DEF Translated
  <2>2. found # {} /\ state = Status(atc[i], write)
    BY <1>2
  <2>3. i \in found /\ i \in 1 .. Slots /\ atc[i].valid /\ atc[i].code = code /\ atc[i].page = page
    BY <2>2, FirstIsOne DEF Matching
  <2> HIDE DEF t, i, state, found
  <2>4. AllTrue(MarkUsed(atc, i), desc, crp, unflushed)
    BY MarkUsedFewer, FewerTrue DEF TInv, IInv
  <2>5. Sound(t)
    BY <2>1, <2>4, MarkedSelf DEF Sound, TInv
  <2>6. t.ok /\ <<code, page>> \notin unflushed => Right(t, code, page, write)
    <3> SUFFICES ASSUME t.ok, <<code, page>> \notin unflushed PROVE Right(t, code, page, write)
      OBVIOUS
    <3>1. t.desc = desc /\ t.frame = atc[i].frame /\ t.inhibit = atc[i].inhibit
          /\ Status(atc[i], write) = "hit"
      BY <2>1, <2>2
    <3> QED BY <2>3, <3>1, HitTrue
  <2>7. Goes(t, code, page, write, rmw)
    BY <1>2, <2>6 DEF Goes
  <2> QED BY <2>5, <2>7 DEF t
<1>3. CASE ~through /\ state \notin {"hit", "fault"}
  <2>1. t = [ok |-> s.ok /\ (write => ~s.protect), frame |-> s.frame,
             inhibit |-> s.inhibit, atc |-> Entered(code, page, s), desc |-> s.desc]
    BY <1>3 DEF Translated
  <2> DEFINE u == Search(s.desc, TreeOf(code), page, FALSE, Super(code))
  <2>2. /\ Fitting(s.desc) /\ Marked1(desc, s.desc)
        /\ AllTrue(Entered(code, page, s), s.desc, crp, unflushed)
        /\ SameAnswer(s, u)
        /\ (write \/ rmw) /\ s.ok /\ ~s.protect
             => s.leaf \in Places /\ "modified" \in s.desc[s.leaf].marks
    <3> HIDE DEF s
    <3>1. s = Search(desc, TreeOf(code), page, write \/ rmw, Super(code))
          /\ (write \/ rmw) \in BOOLEAN /\ unflushed \subseteq unflushed \cup {<<code, page>>}
      BY DEF s
    <3> QED BY <3>1, SearchTrue
  <2> HIDE DEF t, s, u
  <2>3. Sound(t)
    BY <2>1, <2>2 DEF Sound
  <2>4. t.ok => s.ok /\ (write => ~s.protect) /\ t.frame = s.frame /\ t.inhibit = s.inhibit
                /\ t.desc = s.desc
    BY <2>1
  <2>5. t.ok => Right(t, code, page, write)
    BY <2>2, <2>4 DEF Right, SameAnswer, u
  <2>6. Goes(t, code, page, write, rmw)
    BY <1>3, <2>5 DEF Goes
  <2> QED BY <2>3, <2>6 DEF t
<1> QED BY <1>1, <1>2, <1>3

\* What has been written stays marked while no mark is taken away.
LEMMA WrittenKept ==
    ASSUME written \subseteq Places, WrittenIsModified, NEW d, Marked1(desc, d)
    PROVE  \A a \in written : "modified" \in d[a].marks
<1> QED BY DEF WrittenIsModified, Marked1

\* The set-up's spaces are pages under function codes there are.
LEMMA SpacesThere ==
    ASSUME TInv, NEW s \in Start[which].spaces PROVE s[1] \in Codes /\ s[2] \in Pages
<1> QED BY MmuAssumption DEF TInv, IInv, Spaces

\* What the invariant is made of after a step.
LEMMA TInvAfter ==
    ASSUME TInv, [Next]_vars, NEW d, NEW c \in DOMAIN Root, NEW a, NEW U, NEW W,
           desc' = d, crp' = c, atc' = a, unflushed' = U, written' = W,
           Fitting(d), AllTrue(a, d, c, U), W \subseteq Places,
           \A x \in W : "modified" \in d[x].marks
    PROVE  TInv'
<1>1. IInv'
  BY StepInv DEF TInv
<1>2. Fitting(desc') /\ AllTrue(atc', desc', crp', unflushed')
  OBVIOUS
<1> QED BY <1>1, <1>2 DEF TInv, Fitting, AllTrue, True1, Says, TreeIn, WrittenIsModified

\* A read: what it looks up, or searches and enters.
LEMMA ReadTInv ==
    ASSUME TInv, [Next]_vars, NEW s \in Start[which].spaces, NEW l, NEW rmw \in BOOLEAN,
           Read(s[1], s[2], l, rmw)
    PROVE  TInv'
<1> DEFINE t == Translated(s[1], s[2], FALSE, rmw)
<1>1. s[1] \in Codes /\ s[2] \in Pages
  BY SpacesThere
<1>2. atc' = t.atc /\ desc' = t.desc /\ crp' = crp /\ unflushed' = unflushed /\ written' = written
  BY DEF Read
<1>3. Sound(t)
  BY <1>1, TranslatedTrue
<1> HIDE DEF t
<1>4. \A a \in written : "modified" \in t.desc[a].marks
  BY <1>3, WrittenKept DEF Sound, TInv
<1>5. crp \in DOMAIN Root /\ written \subseteq Places
  BY DEF TInv
<1> QED BY <1>2, <1>3, <1>4, <1>5, TInvAfter DEF Sound

\* A write: what it writes through is marked, or it faults or searches again.
LEMMA WriteTInv ==
    ASSUME TInv, [Next]_vars, NEW s \in Start[which].spaces, NEW l, NEW rmw \in BOOLEAN,
           NEW halves, Write(s[1], s[2], l, halves, rmw)
    PROVE  TInv'
<1> DEFINE t == Translated(s[1], s[2], TRUE, rmw)
           leaf == Leaf(t.desc, TreeOf(s[1]), s[2])
<1>1. s[1] \in Codes /\ s[2] \in Pages
  BY SpacesThere
<1>2. /\ atc' = t.atc /\ desc' = t.desc /\ crp' = crp /\ unflushed' = unflushed
      /\ \/ written' = written
         \/ /\ t.ok /\ <<s[1], s[2]>> \notin unflushed /\ ~Transparent(s[1], s[2], TRUE, rmw)
            /\ written' = written \cup {leaf}
  <2>1. /\ atc' = t.atc /\ desc' = t.desc /\ crp' = crp /\ unflushed' = unflushed
        /\ IF t.ok
           THEN written' = IF <<s[1], s[2]>> \in unflushed \/ Transparent(s[1], s[2], TRUE, rmw)
                           THEN written
                           ELSE written \cup {Leaf(desc', TreeOf(s[1]), s[2])}
           ELSE written' = written
    BY DEF Write
  <2> HIDE DEF t
  <2> QED BY <2>1
<1>3. /\ Sound(t)
      /\ t.ok /\ <<s[1], s[2]>> \notin unflushed /\ ~Transparent(s[1], s[2], TRUE, rmw)
            => Right(t, s[1], s[2], TRUE)
  <2>1. Sound(t) /\ Goes(t, s[1], s[2], TRUE, rmw)
    BY <1>1, TranslatedTrue
  <2> HIDE DEF t
  <2> QED BY <2>1 DEF Goes
<1>4. Right(t, s[1], s[2], TRUE) => leaf \in Places /\ "modified" \in t.desc[leaf].marks
  <2> HIDE DEF t
  <2> QED BY DEF Right, Search, Leaf
<1> HIDE DEF t, leaf
<1>5. \A a \in written : "modified" \in t.desc[a].marks
  BY <1>3, WrittenKept DEF Sound, TInv
<1>6. crp \in DOMAIN Root /\ written \subseteq Places
  BY DEF TInv
<1>7. written' \subseteq Places /\ \A a \in written' : "modified" \in t.desc[a].marks
  BY <1>2, <1>3, <1>4, <1>5, <1>6
<1> DEFINE W == written'
<1>8. W \subseteq Places /\ \A a \in W : "modified" \in t.desc[a].marks
  BY <1>7
<1> HIDE DEF W
<1> QED BY <1>2, <1>3, <1>6, <1>8, TInvAfter DEF Sound, W

\* An edit: the spaces whose search reads the descriptor, before or after, wait to be
\* flushed.
LEMMA EditTInv ==
    ASSUME TInv, [Next]_vars, NEW a \in Places, NEW d, Fits(a, d), Edit(a, d)
    PROVE  TInv'
<1> DEFINE b == [desc EXCEPT ![a] = d]
           U == unflushed \cup Through(desc, a) \cup Through(b, a)
<1>1. /\ desc' = b /\ crp' = crp /\ atc' = atc /\ written' = written \ {a}
      /\ unflushed' = unflushed \cup (Through(desc, a) \cup Through(desc', a))
  BY DEF Edit, Changed
<1>2. unflushed' = U
  <2>1. Through(desc', a) = Through(b, a)
    BY <1>1
  <2> HIDE DEF b
  <2> QED BY <1>1, <2>1
<1>3. Fitting(b) /\ \A x \in Places : x # a => b[x] = desc[x]
  <2>1. b = [x \in Places |-> IF x = a THEN d ELSE desc[x]]
    BY DEF TInv, Fitting
  <2> QED BY <2>1 DEF TInv, Fitting
<1>4. AllTrue(atc, b, crp, U)
  <2> SUFFICES ASSUME NEW i \in 1 .. Slots, atc[i].valid, <<atc[i].code, atc[i].page>> \notin U
               PROVE  True1(atc[i], b, crp)
    BY DEF AllTrue
  <2> DEFINE e == atc[i]
             tree == TreeIn(crp, e.code)
             p == Path(desc, tree, e.page)
  <2>1. e.code \in Codes /\ e.page \in Pages
    BY DEF TInv, IInv, WellFormed
  <2>2. True1(e, desc, crp)
    BY DEF TInv, AllTrue
  <2>3. tree \in DOMAIN Root /\ tree = TreeOf(e.code)
    BY TreeThere, TreeOfIs DEF TInv
  <2>4. \A k \in 1 .. Len(p) : p[k] # a
    <3>1. <<e.code, e.page>> \in Spaces /\ <<e.code, e.page>> \notin Through(desc, a)
      BY <2>1 DEF Spaces
    <3>2. <<e.code, e.page>>[1] = e.code /\ <<e.code, e.page>>[2] = e.page
      OBVIOUS
    <3>3. ~ \E k \in 1 .. Len(Path(desc, TreeOf(e.code), e.page)) :
              Path(desc, TreeOf(e.code), e.page)[k] = a
      <4> HIDE DEF e
      <4> QED BY <3>1, <3>2 DEF Through
    <3> QED BY <2>3, <3>3
  <2>5. Read1(p)
    <3> HIDE DEF e, tree
    <3> QED BY <2>1, <2>3, PathPlaces DEF TInv
  <2>6. Kept(desc, b, p)
    <3> HIDE DEF p, b
    <3> QED BY <1>3, <2>4, <2>5 DEF Kept, Read1, Like
  <2> HIDE DEF e, b
  <2>7. True1(e, b, crp)
    BY <1>3, <2>1, <2>2, <2>3, <2>6, TrueKept DEF TInv
  <2> QED BY <2>7 DEF e
<1>5. written \ {a} \subseteq Places /\ \A x \in written \ {a} : "modified" \in b[x].marks
  <2> HIDE DEF b
  <2> QED BY <1>3 DEF TInv, WrittenIsModified
<1>6. crp \in DOMAIN Root
  BY DEF TInv
<1> DEFINE W == written \ {a}
<1> HIDE DEF b, U, W
<1>7. W \subseteq Places /\ \A x \in W : "modified" \in b[x].marks
  BY <1>5 DEF W
<1>8. written' = W
  BY <1>1 DEF W
<1> QED BY <1>1, <1>2, <1>3, <1>4, <1>6, <1>7, <1>8, TInvAfter

\* A flush gives up every entry of the spaces it ends the wait of.
LEMMA FlushTInv ==
    ASSUME TInv, [Next]_vars, NEW b, NEW S, Flushed(b, S), Fewer(atc, b),
           \A i \in 1 .. Slots : b[i].valid => <<b[i].code, b[i].page>> \notin S
    PROVE  TInv'
<1>1. /\ desc' = desc /\ crp' = crp /\ atc' = b /\ unflushed' = unflushed \ S
      /\ written' = written
  BY DEF Flushed
<1>2. AllTrue(b, desc, crp, unflushed)
  BY FewerTrue DEF TInv
<1>3. AllTrue(b, desc, crp, unflushed \ S)
  BY <1>2 DEF AllTrue
<1> QED BY <1>1, <1>3, TInvAfter DEF TInv, WrittenIsModified

\* A cache of which all is given up.
LEMMA FreeFewer == \A a, h : Fewer(a, [i \in 1 .. Slots |-> Free(h)])
<1> QED BY FreeFormed DEF Fewer

\* Each flush gives up what it says it does, by mask or by page.
LEMMA PflushTInv ==
    ASSUME TInv, [Next]_vars, Pflusha \/ (\E c, m : PflushCodes(c, m))
                              \/ (\E c, m, q : PflushEntry(c, m, q))
    PROVE  TInv'
<1>1. CASE Pflusha
  <2> DEFINE b == [i \in 1 .. Slots |-> Free(FALSE)]
  <2>1. Fewer(atc, b) /\ \A i \in 1 .. Slots : ~b[i].valid
    BY FreeFewer, FreeFormed
  <2> HIDE DEF b
  <2>2. Flushed(b, Spaces)
    BY <1>1 DEF Pflusha, b
  <2> QED BY <2>1, <2>2, FlushTInv
<1>2. ASSUME NEW c, NEW m, PflushCodes(c, m) PROVE TInv'
  <2> DEFINE b == FlushCodes(atc, c, m)
             S == {s \in Spaces : Agree(s[1], c, m)}
  <2>1. Fewer(atc, b)
    BY FlushFewer DEF TInv, IInv
  <2>2. ASSUME NEW i \in 1 .. Slots, b[i].valid PROVE <<b[i].code, b[i].page>> \notin S
    <3>1. ~Agree(b[i].code, c, m)
      BY <2>2, FreeFormed DEF FlushCodes
    <3> QED BY <3>1
  <2>3. Flushed(b, S)
    BY <1>2 DEF PflushCodes
  <2> HIDE DEF b, S
  <2> QED BY <2>1, <2>2, <2>3, FlushTInv
<1>3. ASSUME NEW c, NEW m, NEW q, PflushEntry(c, m, q) PROVE TInv'
  <2> DEFINE b == FlushEntry(atc, c, m, q)
             S == {s \in Spaces : Agree(s[1], c, m) /\ s[2] = q}
  <2>1. Fewer(atc, b)
    BY FlushFewer DEF TInv, IInv
  <2>2. ASSUME NEW i \in 1 .. Slots, b[i].valid PROVE <<b[i].code, b[i].page>> \notin S
    <3>1. ~(Agree(b[i].code, c, m) /\ b[i].page = q)
      BY <2>2, FreeFormed DEF FlushEntry
    <3> QED BY <3>1
  <2>3. Flushed(b, S)
    BY <1>3 DEF PflushEntry
  <2> HIDE DEF b, S
  <2> QED BY <2>1, <2>2, <2>3, FlushTInv
<1> QED BY <1>1, <1>2, <1>3

\* PLOAD enters what it searches, and ends the wait of its page.
LEMMA PloadTInv ==
    ASSUME TInv, [Next]_vars, NEW s \in Start[which].spaces, NEW w \in BOOLEAN,
           Pload(s[1], s[2], w)
    PROVE  TInv'
<1>1. s[1] \in Codes /\ s[2] \in Pages
  BY SpacesThere
<1>2. PICK r : /\ r = Search(desc, TreeOf(s[1]), s[2], w, Super(s[1]))
               /\ atc' = Entered(s[1], s[2], r) /\ desc' = r.desc
               /\ unflushed' = unflushed \ {<<s[1], s[2]>>}
               /\ crp' = crp /\ written' = written
  BY DEF Pload
<1> DEFINE V == unflushed \ {<<s[1], s[2]>>}
<1>3. unflushed \subseteq V \cup {<<s[1], s[2]>>}
  OBVIOUS
<1> HIDE DEF V
<1>4. /\ Fitting(r.desc) /\ Marked1(desc, r.desc)
      /\ AllTrue(Entered(s[1], s[2], r), r.desc, crp, V)
  BY <1>1, <1>2, <1>3, SearchTrue
<1>5. \A a \in written : "modified" \in r.desc[a].marks
  BY <1>4, WrittenKept DEF TInv
<1>6. crp \in DOMAIN Root /\ written \subseteq Places
  BY DEF TInv
<1> QED BY <1>2, <1>4, <1>5, <1>6, TInvAfter DEF V

\* Another tree says the same of the function codes that do not use it.
LEMMA OtherTree ==
    ASSUME NEW a, NEW d, NEW c, NEW b, NEW U, NEW V, AllTrue(a, d, c, U), U \subseteq V,
           \A i \in 1 .. Slots : a[i].valid /\ <<a[i].code, a[i].page>> \notin V
                                => TreeIn(b, a[i].code) = TreeIn(c, a[i].code)
    PROVE  AllTrue(a, d, b, V)
<1> SUFFICES ASSUME NEW i \in 1 .. Slots, a[i].valid, <<a[i].code, a[i].page>> \notin V
             PROVE  True1(a[i], d, b)
  BY DEF AllTrue
<1>1. True1(a[i], d, c) /\ TreeIn(b, a[i].code) = TreeIn(c, a[i].code)
  BY DEF AllTrue
<1>2. Says(a[i], d, b) = Says(a[i], d, c)
  BY <1>1 DEF Says
<1> QED BY <1>1, <1>2 DEF True1

\* Another tree: what it may have changed is flushed, or waits to be.
LEMMA PmoveTInv ==
    ASSUME TInv, [Next]_vars, NEW t \in DOMAIN Root, NEW fd \in BOOLEAN, Pmove(t, fd)
    PROVE  TInv'
<1> DEFINE own == {s \in Spaces : TreeOf(s[1]) = crp}
<1>1. desc' = desc /\ crp' = t /\ written' = written
      /\ atc' = (IF fd THEN atc ELSE Empty) /\ unflushed' = (IF fd THEN unflushed \cup own ELSE {})
  BY DEF Pmove
<1>2. CASE fd
  <2> DEFINE V == unflushed \cup own
  <2>1. ASSUME NEW i \in 1 .. Slots, atc[i].valid, <<atc[i].code, atc[i].page>> \notin V
        PROVE  TreeIn(t, atc[i].code) = TreeIn(crp, atc[i].code)
    <3> DEFINE e == atc[i]
    <3>1. e.code \in Codes /\ e.page \in Pages
      BY <2>1 DEF TInv, IInv, WellFormed
    <3>2. TreeOf(e.code) # crp
      <4>1. <<e.code, e.page>> \in Spaces /\ <<e.code, e.page>> \notin own
        BY <2>1, <3>1 DEF Spaces
      <4> HIDE DEF e
      <4> QED BY <4>1
    <3> QED BY <3>2 DEF TreeIn, TreeOf
  <2>2. AllTrue(atc, desc, t, V)
    <3>1. unflushed \subseteq V /\ AllTrue(atc, desc, crp, unflushed)
      BY DEF TInv
    <3> HIDE DEF V
    <3> QED BY <2>1, <3>1, OtherTree
  <2>3. atc' = atc /\ unflushed' = V
    BY <1>1, <1>2
  <2> HIDE DEF V
  <2> QED BY <1>1, <2>2, <2>3, TInvAfter DEF TInv, WrittenIsModified
<1>3. CASE ~fd
  <2>1. AllTrue(Empty, desc, t, {})
    BY FreeFormed DEF AllTrue, Empty
  <2>2. atc' = Empty /\ unflushed' = {}
    BY <1>1, <1>3
  <2> QED BY <1>1, <2>1, <2>2, TInvAfter DEF TInv, WrittenIsModified
<1> QED BY <1>2, <1>3

\* Every step of the processor, of the system and of another master keeps what is
\* cached and what is written true.
LEMMA StepTInv == ASSUME TInv, [Next]_vars PROVE TInv'
<1>1. ASSUME NEW s \in Start[which].spaces, NEW l, NEW rmw \in BOOLEAN, Read(s[1], s[2], l, rmw)
      PROVE  TInv'
  BY <1>1, ReadTInv
<1>2. ASSUME NEW s \in Start[which].spaces, NEW l, NEW halves, NEW rmw \in BOOLEAN,
             Write(s[1], s[2], l, halves, rmw)
      PROVE  TInv'
  BY <1>2, WriteTInv
<1>3. ASSUME NEW e \in Edits[which], Edit(e[1], e[2]) PROVE TInv'
  <2>1. e[1] \in Places /\ Fits(e[1], e[2])
    BY MmuAssumption DEF TInv, IInv
  <2> QED BY <1>3, <2>1, EditTInv
<1>4. CASE Pflusha
  BY <1>4, PflushTInv
<1>5. ASSUME NEW c, NEW m, PflushCodes(c, m) PROVE TInv'
  BY <1>5, PflushTInv
<1>6. ASSUME NEW c, NEW m, NEW q, PflushEntry(c, m, q) PROVE TInv'
  BY <1>6, PflushTInv
<1>7. ASSUME NEW s \in Start[which].spaces, NEW w \in BOOLEAN, Pload(s[1], s[2], w) PROVE TInv'
  BY <1>7, PloadTInv
<1>8. ASSUME NEW t \in DOMAIN Root, NEW fd \in BOOLEAN, Pmove(t, fd) PROVE TInv'
  BY <1>8, PmoveTInv
<1>9. ASSUME UNCHANGED <<desc, crp, atc, unflushed, written>> PROVE TInv'
  BY <1>9, TInvAfter DEF TInv, WrittenIsModified
<1>10. ASSUME NEW s, NEW clear, Movec(s, clear) PROVE TInv'
  BY <1>9, <1>10 DEF Movec
<1>11. ASSUME NEW f, NEW l, Dma(f, l) PROVE TInv'
  BY <1>9, <1>11 DEF Dma
<1>12. CASE UNCHANGED vars
  BY <1>9, <1>12 DEF vars
<1> QED BY <1>1, <1>2, <1>3, <1>4, <1>5, <1>6, <1>7, <1>8, <1>10, <1>11, <1>12 DEF Next

\* Nothing is cached, nothing has been written.
LEMMA InitTInv == ASSUME Init PROVE TInv
<1>1. which \in DOMAIN Start /\ atc = [i \in 1 .. Slots |-> Free(FALSE)] /\ unflushed = {}
      /\ desc = Start[which].desc /\ crp = Start[which].crp /\ written = {}
  BY DEF Init, Empty
<1>2. IInv
  BY <1>1, EmptyInv DEF IInv
<1>3. Fitting(desc) /\ crp \in DOMAIN Root
  BY <1>1, MmuAssumption DEF Fitting
<1>4. AllTrue(atc, desc, crp, unflushed)
  BY <1>1, FreeFormed DEF AllTrue
<1> QED BY <1>1, <1>2, <1>3, <1>4 DEF TInv, WrittenIsModified

\* The invariant: the tables name what there is, and each cached translation that was
\* flushed since it was changed is the one a search would give (ap_m68030_atc.c,
\* ap_m68030_walk.c).
THEOREM Truth == Spec => []TInv
<1>1. Init => TInv
  BY InitTInv
<1>2. TInv /\ [Next]_vars => TInv'
  BY StepTInv
<1> QED BY <1>1, <1>2, PTL DEF Spec

\* A cached translation is the one a search of the tables would give, as long as
\* the system has flushed what it changed: no access reaches another frame or gets
\* round a protection, whatever was flushed by mask, loaded, given up and searched
\* (ap_m68030_atc.c, ap_m68030_walk.c).
THEOREM CachedIsTrue == Spec => []AnswersTrue
<1>1. TInv => AnswersTrue
  <2> SUFFICES ASSUME TInv, NEW i \in 1 .. Slots, atc[i].valid,
                      <<atc[i].code, atc[i].page>> \notin unflushed
               PROVE  LET e == atc[i]
                          s == Search(desc, TreeOf(e.code), e.page, FALSE, Super(e.code))
                      IN  /\ e.error = ~s.ok
                          /\ s.ok => /\ e.frame = s.frame /\ e.protect = s.protect
                                     /\ e.inhibit = s.inhibit /\ (e.modified => s.modified)
    BY DEF AnswersTrue
  <2> DEFINE e == atc[i]
             s == Search(desc, TreeOf(e.code), e.page, FALSE, Super(e.code))
  <2>1. True1(e, desc, crp)
    BY DEF TInv, AllTrue
  <2>2. Says(e, desc, crp) = s
    BY TreeOfIs DEF Says
  <2> HIDE DEF e, s
  <2>3. /\ e.error = ~s.ok
        /\ s.ok => /\ e.frame = s.frame /\ e.protect = s.protect
                   /\ e.inhibit = s.inhibit /\ (e.modified => s.modified)
    BY <2>1, <2>2 DEF True1
  <2> QED BY <2>3 DEF e, s
<1> QED BY <1>1, Truth, PTL

\* A page that was written is marked as modified where the pager looks, also when
\* its translation had been cached by a read, by PLOAD or under another function
\* code (update_history, and the modify status of a lookup).
THEOREM WritesAreMarked == Spec => []WrittenIsModified
<1>1. TInv => WrittenIsModified
  BY DEF TInv
<1> QED BY <1>1, Truth, PTL

-----------------------------------------------------------------------------
(* What the data cache holds is what memory holds. *)

\* A range passes accesses of one kind to the space s only.
OneKind(n, s) == \E r \in Start[n].transparent :
                   r.code = s[1] /\ r.page = s[2] /\ r.kinds # {"read", "write"}

\* A range passes an access to the space s.
Through1(n, s) == \E r \in Start[n].transparent : r.code = s[1] /\ r.page = s[2]

\* Where a read of a space ends, in the set-up n with the tables d and the tree c, and
\* whether it may.
Answer(d, c, s)    == Search(d, TreeIn(c, s[1]), s[2], FALSE, Super(s[1]))
FrameAt(n, d, c, s) == IF Through1(n, s) THEN s[2] ELSE Answer(d, c, s).frame
OkAt(n, d, c, s)    == Through1(n, s) \/ Answer(d, c, s).ok

\* A cache, and memory, with their fields and no others.
LineNumbers == {LineOf(l) : l \in Long}
CacheFormed(k) == /\ k = [tag |-> k.tag, valid |-> k.valid, entry |-> k.entry]
                  /\ k.tag = [n \in LineNumbers |-> k.tag[n]]
                  /\ k.entry = [l \in Long |-> k.entry[l]] /\ k.valid \subseteq Long
Halves(v) == v = [h \in Full |-> v[h]]
MemoryFormed(m) == /\ m = [f \in Frames |-> m[f]]
                   /\ \A f \in Frames : m[f] = [l \in Long |-> m[f][l]]
                   /\ \A f \in Frames, l \in Long : Halves(m[f][l])

\* What the cache k answers is what memory m has, but for the spaces of R, the long
\* words of B in memory and those of W in the cache.
Holds(n, k, m, d, c, R, B, W) ==
    \A s \in Spaces, l \in Long \ W :
      Hit(k, s, l) /\ s \notin R /\ ~OneKind(n, s) /\ <<FrameAt(n, d, c, s), l>> \notin B
        => k.entry[l] = m[FrameAt(n, d, c, s)][l] /\ OkAt(n, d, c, s)

\* A range that passes reads and writes passes every access through.
LEMMA ThroughIs ==
    ASSUME NEW n \in DOMAIN Start, which = n, NEW s, ~OneKind(n, s), NEW write \in BOOLEAN,
           NEW rmw \in BOOLEAN
    PROVE  Transparent(s[1], s[2], write, rmw) <=> Through1(n, s)
<1> QED BY DEF OneKind, Transparent, Through1

\* A search that is let go on ends in a frame there is.
LEMMA FramesThere ==
    ASSUME NEW n \in DOMAIN Start, NEW d, Fitting(d), NEW c \in DOMAIN Root, NEW s \in Spaces,
           OkAt(n, d, c, s)
    PROVE  FrameAt(n, d, c, s) \in Frames
<1>1. CASE Through1(n, s)
  BY <1>1, MmuAssumption DEF FrameAt, Through1
<1>2. CASE ~Through1(n, s)
  <2> DEFINE tree == TreeIn(c, s[1])
             page == s[2]
             p == Path(d, tree, page)
             leaf == p[Len(p)]
  <2>1. tree \in DOMAIN Root /\ page \in Pages
    BY TreeThere DEF Spaces
  <2>2. Read1(p)
    BY <2>1, PathPlaces
  <2>3. leaf \in Places /\ (Len(p) = 1 => leaf \in RootPlaces)
    <3>1. \A k \in 1 .. 3 : k \in 1 .. k
      OBVIOUS
    <3> HIDE DEF p
    <3> QED BY <2>2, <3>1 DEF Read1
  <2>4. Found(d, p) /\ FrameAt(n, d, c, s) = FrameOf(d, p, page)
    BY <1>2 DEF OkAt, FrameAt, Answer, Search
  <2>5. Fits(leaf, d[leaf]) /\ d[leaf].type = "page"
    BY <2>3, <2>4 DEF Fitting, Found
  <2> HIDE DEF p, leaf, page
  <2>6. Index2(page) \in {0, 1}
    <3>1. page \in Nat
      BY <2>1, TablesAssumption
    <3> QED BY <3>1 DEF Index2
  <2>7. d[leaf].to \in Frames /\ d[leaf].to \in Nat /\ (Len(p) = 1 => d[leaf].to + 1 \in Frames)
    BY <2>3, <2>5, TablesAssumption DEF Fits
  <2>8. FrameOf(d, p, page) = IF Len(p) = 1 THEN d[leaf].to + Index2(page) ELSE d[leaf].to
    BY DEF FrameOf, leaf
  <2>9. CASE Index2(page) = 0
    <3>1. d[leaf].to + Index2(page) = d[leaf].to
      BY <2>7, <2>9
    <3> QED BY <2>4, <2>7, <2>8, <3>1
  <2>10. CASE Index2(page) = 1
    BY <2>4, <2>7, <2>8, <2>10
  <2> QED BY <2>6, <2>9, <2>10
<1> QED BY <1>1, <1>2

\* Where a read ends changes with what its search reads only.
LEMMA SameAt ==
    ASSUME NEW n, NEW d, Fitting(d), NEW c \in DOMAIN Root, NEW s \in Spaces, NEW b,
           \A k \in 1 .. Len(Path(d, TreeIn(c, s[1]), s[2])) :
             Like(d[Path(d, TreeIn(c, s[1]), s[2])[k]], b[Path(d, TreeIn(c, s[1]), s[2])[k]])
    PROVE  FrameAt(n, b, c, s) = FrameAt(n, d, c, s) /\ OkAt(n, b, c, s) = OkAt(n, d, c, s)
<1> DEFINE tree == TreeIn(c, s[1])
<1>1. tree \in DOMAIN Root /\ s[2] \in Pages
  BY TreeThere DEF Spaces
<1>2. SameAnswer(Answer(d, c, s), Answer(b, c, s))
  BY <1>1, SameSearch DEF Answer
<1> QED BY <1>2 DEF FrameAt, OkAt, SameAnswer

\* The marks of a search do not change where a read ends.
LEMMA MarkedAt ==
    ASSUME NEW n, NEW d, Fitting(d), NEW c \in DOMAIN Root, NEW b, Marked1(d, b), NEW s \in Spaces
    PROVE  FrameAt(n, b, c, s) = FrameAt(n, d, c, s) /\ OkAt(n, b, c, s) = OkAt(n, d, c, s)
<1> DEFINE p == Path(d, TreeIn(c, s[1]), s[2])
<1>1. TreeIn(c, s[1]) \in DOMAIN Root /\ s[2] \in Pages
  BY TreeThere DEF Spaces
<1>2. Read1(p)
  BY <1>1, PathPlaces
<1>3. \A k \in 1 .. Len(p) : Like(d[p[k]], b[p[k]])
  <2> HIDE DEF p
  <2> QED BY <1>2 DEF Read1, Marked1
<1> QED BY <1>3, SameAt

\* Tables and trees that answer alike outside R leave the cache as true as it was.
LEMMA HoldsAt ==
    ASSUME NEW n, NEW k, NEW m, NEW d, NEW c, NEW R, NEW B, NEW W, Holds(n, k, m, d, c, R, B, W),
           NEW e, NEW b, NEW Q, R \subseteq Q,
           \A s \in Spaces : s \notin Q => /\ FrameAt(n, e, b, s) = FrameAt(n, d, c, s)
                                         /\ OkAt(n, e, b, s) = OkAt(n, d, c, s)
    PROVE  Holds(n, k, m, e, b, Q, B, W)
<1> QED BY DEF Holds

\* The operations of the cache, field by field.
LEMMA TagSet ==
    ASSUME NEW k, NEW t, NEW v, NEW e, k = [tag |-> t, valid |-> v, entry |-> e], NEW x
    PROVE  [k EXCEPT !.tag = x] = [tag |-> x, valid |-> v, entry |-> e]
<1> QED OBVIOUS

\* Its valid long words set.
LEMMA ValidSet ==
    ASSUME NEW k, NEW t, NEW v, NEW e, k = [tag |-> t, valid |-> v, entry |-> e], NEW x
    PROVE  [k EXCEPT !.valid = x] = [tag |-> t, valid |-> x, entry |-> e]
<1> QED OBVIOUS

\* Its entries set.
LEMMA EntrySet ==
    ASSUME NEW k, NEW t, NEW v, NEW e, k = [tag |-> t, valid |-> v, entry |-> e], NEW x
    PROVE  [k EXCEPT !.entry = x] = [tag |-> t, valid |-> v, entry |-> x]
<1> QED OBVIOUS

\* Long words given up: the tags and the other long words stay.
LEMMA DroppedIs ==
    ASSUME NEW k, CacheFormed(k), NEW S
    PROVE  /\ CacheFormed(Dropped(k, S)) /\ Dropped(k, S).tag = k.tag
           /\ Dropped(k, S).valid = k.valid \ S
           /\ \A l \in Long : l \notin S => Dropped(k, S).entry[l] = k.entry[l]
<1> DEFINE entry == [l \in Long |-> IF l \in S THEN Nothing ELSE k.entry[l]]
<1>1. Dropped(k, S) = [tag |-> k.tag, valid |-> k.valid \ S, entry |-> entry]
  <2> DEFINE V == k.valid \ S
             h == [k EXCEPT !.valid = V]
  <2>1. k = [tag |-> k.tag, valid |-> k.valid, entry |-> k.entry]
    BY DEF CacheFormed
  <2>2. h = [tag |-> k.tag, valid |-> V, entry |-> k.entry]
    <3> HIDE DEF V
    <3> QED BY <2>1, ValidSet
  <2>3. Dropped(k, S) = [h EXCEPT !.entry = [l \in Long |-> IF l \in S THEN Nothing ELSE h.entry[l]]]
    BY DEF Dropped
  <2>4. [l \in Long |-> IF l \in S THEN Nothing ELSE h.entry[l]] = entry
    <3>1. h.entry = k.entry
      BY <2>2
    <3> HIDE DEF h
    <3> QED BY <3>1
  <2> HIDE DEF h, V, entry
  <2>5. [h EXCEPT !.entry = entry] = [tag |-> k.tag, valid |-> V, entry |-> entry]
    BY <2>2, EntrySet
  <2> QED BY <2>3, <2>4, <2>5 DEF V
<1>2. \A l \in Long : l \notin S => entry[l] = k.entry[l]
  OBVIOUS
<1>3. entry = [l \in Long |-> entry[l]]
  OBVIOUS
<1> HIDE DEF entry
<1> QED BY <1>1, <1>2, <1>3 DEF CacheFormed

\* The line of l has the tag t, the others have those they had.
TagOn(e, k, l, t) == \A n \in LineNumbers : /\ n = LineOf(l) => e.tag[n] = t
                                            /\ n # LineOf(l) => e.tag[n] = k.tag[n]

\* e is k after v was entered at l, the rest of its line kept if it has the tag t.
EntryIn(e, k, t, l, v) ==
    /\ TagOn(e, k, l, t) /\ e.entry[l] = v
    /\ \A j \in e.valid \ {l} : /\ j \in k.valid /\ e.entry[j] = k.entry[j]
                                /\ LineOf(j) = LineOf(l) => TagHit(k, t, l)

\* A long word filled.
LEMMA FillEntryIs ==
    ASSUME NEW k, CacheFormed(k), NEW tag, NEW l \in Long, NEW v
    PROVE  /\ CacheFormed(FillEntry(k, tag, l, v))
           /\ EntryIn(FillEntry(k, tag, l, v), k, tag, l, v)
<1> DEFINE d == IF TagHit(k, tag, l) THEN k ELSE Dropped(k, Line(LineOf(l)))
           e == FillEntry(k, tag, l, v)
<1>1. /\ CacheFormed(d) /\ d.tag = k.tag /\ d.valid \subseteq k.valid
      /\ \A j \in d.valid : /\ d.entry[j] = k.entry[j]
                            /\ LineOf(j) = LineOf(l) => TagHit(k, tag, l)
  <2>1. CASE TagHit(k, tag, l)
    BY <2>1
  <2>2. CASE ~TagHit(k, tag, l)
    <3> DEFINE S == Line(LineOf(l))
    <3>1. d = Dropped(k, S)
      BY <2>2
    <3>2. \A j \in Long : LineOf(j) = LineOf(l) => j \in S
      BY DEF Line
    <3> HIDE DEF d, S
    <3>3. /\ CacheFormed(d) /\ d.tag = k.tag /\ d.valid = k.valid \ S
          /\ \A j \in Long : j \notin S => d.entry[j] = k.entry[j]
      BY <3>1, DroppedIs
    <3>4. k.valid \subseteq Long
      BY DEF CacheFormed
    <3> QED BY <3>2, <3>3, <3>4
  <2> QED BY <2>1, <2>2
<1> HIDE DEF d
<1>2. e = [tag |-> [d.tag EXCEPT ![LineOf(l)] = tag], valid |-> d.valid \cup {l},
           entry |-> [d.entry EXCEPT ![l] = v]]
  <2>1. d = [tag |-> d.tag, valid |-> d.valid, entry |-> d.entry]
    BY <1>1 DEF CacheFormed
  <2> DEFINE x == [d.tag EXCEPT ![LineOf(l)] = tag]
             y == d.valid \cup {l}
             z == [d.entry EXCEPT ![l] = v]
             g == [d EXCEPT !.tag = x]
             h == [g EXCEPT !.valid = g.valid \cup {l}]
  <2>2. e = [h EXCEPT !.entry = [h.entry EXCEPT ![l] = v]]
    BY DEF FillEntry, d
  <2>3. g = [tag |-> x, valid |-> d.valid, entry |-> d.entry]
    <3> HIDE DEF x
    <3> QED BY <2>1, TagSet
  <2> HIDE DEF g, e
  <2>4. h = [tag |-> x, valid |-> y, entry |-> d.entry]
    <3>1. g.valid \cup {l} = y
      BY <2>3
    <3> HIDE DEF x, y
    <3>2. [g EXCEPT !.valid = y] = [tag |-> x, valid |-> y, entry |-> d.entry]
      BY <2>3, ValidSet
    <3> QED BY <3>1, <3>2
  <2>5. h.entry = d.entry
    BY <2>4
  <2> HIDE DEF h, x, y, z
  <2>6. [h EXCEPT !.entry = z] = [tag |-> x, valid |-> y, entry |-> z]
    BY <2>4, EntrySet
  <2> QED BY <2>2, <2>5, <2>6 DEF x, y, z
<1> HIDE DEF e
<1>3. LineOf(l) \in LineNumbers
  BY DEF LineNumbers
<1>4. /\ d.tag = [n \in LineNumbers |-> d.tag[n]] /\ d.entry = [j \in Long |-> d.entry[j]]
      /\ d.valid \subseteq Long
  BY <1>1 DEF CacheFormed
<1>5. /\ e.tag = [n \in LineNumbers |-> IF n = LineOf(l) THEN tag ELSE d.tag[n]]
      /\ e.entry = [j \in Long |-> IF j = l THEN v ELSE d.entry[j]]
      /\ e.valid = d.valid \cup {l}
  BY <1>2, <1>3, <1>4
<1>6. CacheFormed(e)
  <2>1. e = [tag |-> e.tag, valid |-> e.valid, entry |-> e.entry]
    BY <1>2
  <2>2. e.tag = [n \in LineNumbers |-> e.tag[n]]
    BY <1>5
  <2>3. e.entry = [j \in Long |-> e.entry[j]]
    BY <1>5
  <2> QED BY <1>4, <1>5, <2>1, <2>2, <2>3 DEF CacheFormed
<1>7. TagOn(e, k, l, tag)
  BY <1>1, <1>5 DEF TagOn
<1>8. e.entry[l] = v
  BY <1>5
<1>9. \A j \in e.valid \ {l} : /\ j \in k.valid /\ e.entry[j] = k.entry[j]
                               /\ LineOf(j) = LineOf(l) => TagHit(k, tag, l)
  BY <1>1, <1>4, <1>5
<1> QED BY <1>6, <1>7, <1>8, <1>9 DEF e, EntryIn

\* A long word that is given up is answered no more, and no other is answered otherwise.
LEMMA DroppedHolds ==
    ASSUME NEW n, NEW k, CacheFormed(k), NEW m, NEW d, NEW c, NEW R, NEW B, NEW W,
           Holds(n, k, m, d, c, R, B, W), NEW S
    PROVE  Holds(n, Dropped(k, S), m, d, c, R, B, W)
<1> DEFINE e == Dropped(k, S)
<1>1. /\ e.tag = k.tag /\ e.valid = k.valid \ S
      /\ \A l \in Long : l \notin S => e.entry[l] = k.entry[l]
  BY DroppedIs
<1> HIDE DEF e
<1>2. \A s \in Spaces, l \in Long : Hit(e, s, l) => Hit(k, s, l) /\ e.entry[l] = k.entry[l]
  BY <1>1 DEF Hit, TagHit
<1> QED BY <1>2 DEF Holds, e

\* A fill of a long word by what v is, from where a read of the space ends.  W becomes
\* V, which has that long word if v is another.
LEMMA FillHolds ==
    ASSUME NEW n, NEW k, CacheFormed(k), NEW m, NEW d, NEW c, NEW R, NEW B, NEW W,
           Holds(n, k, m, d, c, R, B, W), NEW s \in Spaces, NEW l \in Long, NEW f, NEW v,
           s \notin R /\ ~OneKind(n, s) => OkAt(n, d, c, s) /\ f = FrameAt(n, d, c, s),
           NEW V, W \subseteq V \cup {l}, l \notin V => v = m[f][l]
    PROVE  Holds(n, FillEntry(k, s, l, v), m, d, c, R, B, V)
<1> DEFINE e == FillEntry(k, s, l, v)
<1>1. EntryIn(e, k, s, l, v)
  BY FillEntryIs
<1> HIDE DEF e
<1>2. ASSUME NEW t \in Spaces, NEW j \in Long, Hit(e, t, j)
      PROVE  (j = l /\ t = s) \/ (j # l /\ Hit(k, t, j) /\ e.entry[j] = k.entry[j])
  <2>1. LineOf(j) \in LineNumbers /\ j \in e.valid /\ e.tag[LineOf(j)] = t
    BY <1>2 DEF Hit, TagHit, LineNumbers
  <2>2. CASE j = l
    BY <1>1, <2>1, <2>2 DEF EntryIn, TagOn
  <2>3. CASE j # l
    <3>1. CASE LineOf(j) = LineOf(l)
      BY <1>1, <2>1, <2>3, <3>1 DEF EntryIn, TagOn, Hit, TagHit
    <3>2. CASE LineOf(j) # LineOf(l)
      BY <1>1, <2>1, <2>3, <3>2 DEF EntryIn, TagOn, Hit, TagHit
    <3> QED BY <2>3, <3>1, <3>2
  <2> QED BY <2>2, <2>3
<1>3. e.entry[l] = v
  BY <1>1 DEF EntryIn
<1> QED BY <1>2, <1>3 DEF Holds, e

\* A long word of w: v, where v was stored, or as it was in m.
Stored(w, m, g, j, f, l, v) == /\ g = f /\ j = l => w[g][j] = v
                               /\ g # f \/ j # l => w[g][j] = m[g][j]

\* Memory after a long word of it is written.
LEMMA StoredIs ==
    ASSUME NEW m, MemoryFormed(m), NEW f, NEW l \in Long, NEW v
    PROVE  LET w == [m EXCEPT ![f][l] = v]
           IN  /\ (f \in Frames => Halves(v)) => MemoryFormed(w)
               /\ \A g \in Frames, j \in Long : Stored(w, m, g, j, f, l, v)
<1> DEFINE w == [m EXCEPT ![f][l] = v]
<1>1. m = [g \in Frames |-> m[g]] /\ \A g \in Frames : m[g] = [j \in Long |-> m[g][j]]
  BY DEF MemoryFormed
<1>2. w = [g \in Frames |-> IF g = f THEN [m[f] EXCEPT ![l] = v] ELSE m[g]]
  BY <1>1
<1>3. \A g \in Frames : g = f => w[g] = [j \in Long |-> IF j = l THEN v ELSE m[g][j]]
  BY <1>1, <1>2
<1>4. \A g \in Frames : g # f => w[g] = m[g]
  BY <1>2
<1>5. w = [g \in Frames |-> w[g]]
  BY <1>2
<1> HIDE DEF w
<1>6. \A g \in Frames, j \in Long : Stored(w, m, g, j, f, l, v)
  BY <1>3, <1>4, ZenonT(60) DEF Stored
<1>7. \A g \in Frames : w[g] = [j \in Long |-> w[g][j]]
  BY <1>1, <1>3, <1>4
<1>8. (f \in Frames => Halves(v)) => \A g \in Frames, j \in Long : Halves(w[g][j])
  BY <1>6 DEF MemoryFormed, Stored
<1> QED BY <1>5, <1>6, <1>7, <1>8 DEF MemoryFormed, w

\* A long word written behind the cache's back is noted.
LEMMA BehindHolds ==
    ASSUME NEW n \in DOMAIN Start, NEW k, NEW m, MemoryFormed(m), NEW d, Fitting(d),
           NEW c \in DOMAIN Root, NEW R, NEW B, NEW W, Holds(n, k, m, d, c, R, B, W),
           NEW f, NEW l \in Long, NEW v
    PROVE  Holds(n, k, [m EXCEPT ![f][l] = v], d, c, R, B \cup {<<f, l>>}, W)
<1> DEFINE w == [m EXCEPT ![f][l] = v]
<1>1. \A g \in Frames, j \in Long : Stored(w, m, g, j, f, l, v)
  BY StoredIs
<1> HIDE DEF w
<1> SUFFICES ASSUME NEW s \in Spaces, NEW j \in Long \ W, Hit(k, s, j), s \notin R,
                    ~OneKind(n, s), <<FrameAt(n, d, c, s), j>> \notin B \cup {<<f, l>>}
             PROVE  k.entry[j] = w[FrameAt(n, d, c, s)][j] /\ OkAt(n, d, c, s)
  BY DEF Holds, w
<1>2. k.entry[j] = m[FrameAt(n, d, c, s)][j] /\ OkAt(n, d, c, s)
  BY DEF Holds
<1>3. FrameAt(n, d, c, s) \in Frames
  BY <1>2, FramesThere
<1>4. ~(FrameAt(n, d, c, s) = f /\ j = l)
  OBVIOUS
<1> QED BY <1>1, <1>2, <1>3, <1>4 DEF Stored

\* A write of v to the long word l of the frame f, of which it keeps the halves it does
\* not write: what the cache makes of it.  B becomes C.
LEMMA StoreHolds ==
    ASSUME NEW n \in DOMAIN Start, NEW k, CacheFormed(k), NEW m, MemoryFormed(m),
           NEW d, Fitting(d), NEW c \in DOMAIN Root, NEW R, NEW B, NEW W, Holds(n, k, m, d, c, R, B, W),
           NEW s \in Spaces, NEW l \in Long, NEW f,
           s \notin R /\ ~OneKind(n, s) => OkAt(n, d, c, s) /\ f = FrameAt(n, d, c, s),
           NEW halves, NEW v, f \in Frames => Halves(v), \A h \in Full \ halves : v[h] = m[f][l][h],
           NEW allocate, NEW frozen, NEW C,
           Hit(k, s, l) \/ (allocate /\ ~frozen) => C = B,
           ~(Hit(k, s, l) \/ (allocate /\ ~frozen)) => C = B \cup {<<f, l>>}
    PROVE  /\ CacheFormed(CacheWrite(k, s, l, v, halves, allocate, frozen))
           /\ Holds(n, CacheWrite(k, s, l, v, halves, allocate, frozen),
                    [m EXCEPT ![f][l] = v], d, c, R, C, W)
<1> DEFINE e == CacheWrite(k, s, l, v, halves, allocate, frozen)
           w == [m EXCEPT ![f][l] = v]
<1>1. \A g \in Frames, j \in Long : Stored(w, m, g, j, f, l, v)
  BY StoredIs
<1>2. s \notin R /\ ~OneKind(n, s) => f \in Frames
  BY FramesThere
<1>3. CASE Hit(k, s, l)
  <2> DEFINE z == Merged(k.entry[l], v, halves)
  <2>1. e = [k EXCEPT !.entry[l] = z]
    BY <1>3 DEF CacheWrite
  <2>2. /\ k = [tag |-> k.tag, valid |-> k.valid, entry |-> k.entry]
        /\ k.tag = [i \in LineNumbers |-> k.tag[i]]
        /\ k.entry = [j \in Long |-> k.entry[j]] /\ k.valid \subseteq Long
    BY DEF CacheFormed
  <2> DEFINE x == [k.entry EXCEPT ![l] = z]
  <2>3. f \in Frames /\ k.entry[l] = m[f][l] => z = v
    BY DEF Merged, Halves
  <2> HIDE DEF z
  <2>4. x = [j \in Long |-> x[j]] /\ x[l] = z /\ \A j \in Long : j # l => x[j] = k.entry[j]
    BY <2>2
  <2> HIDE DEF x, e, w
  <2>5. e = [tag |-> k.tag, valid |-> k.valid, entry |-> x]
    <3>1. e = [k EXCEPT !.entry = x]
      BY <2>1 DEF x
    <3> QED BY <2>2, <3>1, EntrySet
  <2>6. CacheFormed(e)
    <3>1. e.tag = k.tag /\ e.valid = k.valid /\ e.entry = x
      BY <2>5
    <3>2. e = [tag |-> e.tag, valid |-> e.valid, entry |-> e.entry]
      BY <2>5
    <3> QED BY <2>2, <2>4, <3>1, <3>2 DEF CacheFormed
  <2>7. Holds(n, e, w, d, c, R, B, W)
    <3> SUFFICES ASSUME NEW t \in Spaces, NEW j \in Long \ W, Hit(e, t, j), t \notin R,
                        ~OneKind(n, t), <<FrameAt(n, d, c, t), j>> \notin B
                 PROVE  e.entry[j] = w[FrameAt(n, d, c, t)][j] /\ OkAt(n, d, c, t)
      BY DEF Holds
    <3>1. e.tag = k.tag /\ e.valid = k.valid /\ e.entry = x
      BY <2>5
    <3>2. Hit(k, t, j)
      BY <3>1 DEF Hit, TagHit
    <3>3. k.entry[j] = m[FrameAt(n, d, c, t)][j] /\ OkAt(n, d, c, t)
      BY <3>2 DEF Holds
    <3>4. FrameAt(n, d, c, t) \in Frames
      BY <3>3, FramesThere
    <3>5. CASE j = l
      <4>1. t = s
        BY <1>3, <3>2, <3>5 DEF Hit, TagHit
      <4>2. f = FrameAt(n, d, c, t) /\ f \in Frames
        BY <1>2, <4>1
      <4>3. w[f][l] = v
        BY <1>1, <3>4, <4>2 DEF Stored
      <4> QED BY <2>3, <2>4, <3>1, <3>3, <3>5, <4>2, <4>3
    <3>6. CASE j # l
      BY <1>1, <2>4, <3>1, <3>3, <3>4, <3>6 DEF Stored
    <3> QED BY <3>5, <3>6
  <2> QED BY <1>3, <2>6, <2>7 DEF e, w
<1>4. CASE ~Hit(k, s, l) /\ allocate /\ ~frozen /\ halves = Full
  <2> DEFINE S == Line(LineOf(l))
             b == Dropped(k, S)
  <2>1. e = FillEntry(b, s, l, v)
    BY <1>4 DEF CacheWrite
  <2>2. \A j \in Long : LineOf(j) = LineOf(l) => j \in S
    BY DEF Line
  <2> HIDE DEF S
  <2>3. /\ CacheFormed(b) /\ b.tag = k.tag /\ b.valid = k.valid \ S
        /\ \A j \in Long : j \notin S => b.entry[j] = k.entry[j]
    BY DroppedIs
  <2> HIDE DEF b, e, w
  <2>4. CacheFormed(e) /\ EntryIn(e, b, s, l, v)
    BY <2>1, <2>3, FillEntryIs
  <2>5. Holds(n, e, w, d, c, R, B, W)
    <3> SUFFICES ASSUME NEW t \in Spaces, NEW j \in Long \ W, Hit(e, t, j), t \notin R,
                        ~OneKind(n, t), <<FrameAt(n, d, c, t), j>> \notin B
                 PROVE  e.entry[j] = w[FrameAt(n, d, c, t)][j] /\ OkAt(n, d, c, t)
      BY DEF Holds
    <3>1. LineOf(j) \in LineNumbers /\ j \in e.valid /\ e.tag[LineOf(j)] = t
      BY DEF Hit, TagHit, LineNumbers
    <3>2. CASE j = l
      <4>1. t = s
        BY <2>4, <3>1, <3>2 DEF EntryIn, TagOn
      <4>2. f = FrameAt(n, d, c, t) /\ OkAt(n, d, c, t) /\ f \in Frames
        BY <1>2, <4>1
      <4>3. w[f][l] = v
        BY <1>1, <4>2 DEF Stored
      <4> QED BY <2>4, <3>2, <4>2, <4>3 DEF EntryIn
    <3>3. CASE j # l
      <4>1. j \in b.valid /\ e.entry[j] = b.entry[j]
        BY <2>4, <3>1, <3>3 DEF EntryIn
      <4>2. j \in k.valid /\ j \notin S /\ e.entry[j] = k.entry[j]
        BY <2>3, <4>1
      <4>3. LineOf(j) # LineOf(l)
        BY <2>2, <4>2
      <4>4. Hit(k, t, j)
        BY <2>3, <2>4, <3>1, <4>2, <4>3 DEF EntryIn, TagOn, Hit, TagHit
      <4>5. k.entry[j] = m[FrameAt(n, d, c, t)][j] /\ OkAt(n, d, c, t)
        BY <4>4 DEF Holds
      <4>6. FrameAt(n, d, c, t) \in Frames
        BY <4>5, FramesThere
      <4> QED BY <1>1, <3>3, <4>2, <4>5, <4>6 DEF Stored
    <3> QED BY <3>2, <3>3
  <2> QED BY <1>4, <2>4, <2>5 DEF e, w
<1>5. CASE ~Hit(k, s, l) /\ allocate /\ ~frozen /\ halves # Full
  <2>1. e = Dropped(k, {l})
    BY <1>5 DEF CacheWrite
  <2>2. /\ CacheFormed(Dropped(k, {l})) /\ Dropped(k, {l}).tag = k.tag
        /\ Dropped(k, {l}).valid = k.valid \ {l}
        /\ \A j \in Long : j \notin {l} => Dropped(k, {l}).entry[j] = k.entry[j]
    BY DroppedIs
  <2> HIDE DEF e, w
  <2>3. CacheFormed(e)
    BY <2>1, <2>2
  <2>4. Holds(n, e, w, d, c, R, B, W)
    <3> SUFFICES ASSUME NEW t \in Spaces, NEW j \in Long \ W, Hit(e, t, j), t \notin R,
                        ~OneKind(n, t), <<FrameAt(n, d, c, t), j>> \notin B
                 PROVE  e.entry[j] = w[FrameAt(n, d, c, t)][j] /\ OkAt(n, d, c, t)
      BY DEF Holds
    <3>1. j # l /\ Hit(k, t, j) /\ e.entry[j] = k.entry[j]
      BY <2>1, <2>2 DEF Hit, TagHit
    <3>2. k.entry[j] = m[FrameAt(n, d, c, t)][j] /\ OkAt(n, d, c, t)
      BY <3>1 DEF Holds
    <3>3. FrameAt(n, d, c, t) \in Frames
      BY <3>2, FramesThere
    <3> QED BY <1>1, <3>1, <3>2, <3>3 DEF Stored
  <2> QED BY <1>5, <2>3, <2>4 DEF e, w
<1>6. CASE ~Hit(k, s, l) /\ ~(allocate /\ ~frozen)
  <2>1. e = k
    BY <1>6 DEF CacheWrite
  <2> HIDE DEF e
  <2>2. Holds(n, k, w, d, c, R, B \cup {<<f, l>>}, W)
    BY BehindHolds
  <2> HIDE DEF w
  <2>3. CacheFormed(e) /\ Holds(n, e, w, d, c, R, C, W)
    BY <1>6, <2>1, <2>2
  <2> QED BY <2>3 DEF e, w
<1> QED BY <1>3, <1>4, <1>5, <1>6

\* What is cached of the translations and of memory is true, but for the pages that were
\* mapped elsewhere, and for what was written behind the cache's back.
CInv == /\ TInv /\ CacheFormed(cache) /\ MemoryFormed(mem) /\ unflushed \subseteq remapped
        /\ Holds(which, cache, mem, desc, crp, remapped, behind, strayed)

\* What the invariant is made of after a step.
LEMMA CInvAfter ==
    ASSUME CInv, [Next]_vars, NEW k, NEW m, NEW d, NEW c, NEW U, NEW R, NEW B, NEW W,
           which' = which, cache' = k, mem' = m, desc' = d, crp' = c, unflushed' = U,
           remapped' = R, behind' = B, strayed' = W,
           CacheFormed(k), MemoryFormed(m), U \subseteq R, Holds(which, k, m, d, c, R, B, W)
    PROVE  CInv'
<1>1. TInv'
  BY StepTInv DEF CInv
<1>2. CacheFormed(cache)' /\ MemoryFormed(mem)'
  BY DEF CacheFormed, MemoryFormed, Halves
<1>3. Holds(which, cache, mem, desc, crp, remapped, behind, strayed)'
  BY ZenonT(60) DEF Holds, FrameAt, OkAt, Through1, OneKind, Answer, TreeIn
<1> QED BY <1>1, <1>2, <1>3 DEF CInv

\* A space is a function code and a page.
LEMMA SpaceIs ==
    ASSUME NEW s \in Spaces PROVE s[1] \in Codes /\ s[2] \in Pages /\ s = <<s[1], s[2]>>
<1> QED BY DEF Spaces

\* Where the translation of an access sends it, if the page was not mapped elsewhere.
LEMMA GoesThere ==
    ASSUME CInv, NEW s \in Spaces, NEW write \in BOOLEAN, NEW rmw \in BOOLEAN,
           NEW t, t = Translated(s[1], s[2], write, rmw), t.ok, s \notin remapped,
           ~OneKind(which, s)
    PROVE  OkAt(which, t.desc, crp, s) /\ t.frame = FrameAt(which, t.desc, crp, s)
<1>1. s[1] \in Codes /\ s[2] \in Pages /\ s = <<s[1], s[2]>>
  BY SpaceIs
<1>2. which \in DOMAIN Start /\ s \notin unflushed
  BY DEF CInv, TInv, IInv
<1>3. /\ Transparent(s[1], s[2], write, rmw) => t.frame = s[2]
      /\ ~Transparent(s[1], s[2], write, rmw) => Right(t, s[1], s[2], write)
  <2>1. Goes(t, s[1], s[2], write, rmw)
    BY <1>1, TranslatedTrue DEF CInv
  <2>2. <<s[1], s[2]>> \notin unflushed
    BY <1>1, <1>2
  <2> QED BY <2>1, <2>2 DEF Goes
<1>4. Transparent(s[1], s[2], write, rmw) <=> Through1(which, s)
  BY <1>2, ThroughIs
<1>5. TreeOf(s[1]) = TreeIn(crp, s[1])
  BY TreeOfIs
<1> QED BY <1>3, <1>4, <1>5 DEF OkAt, FrameAt, Answer, Right

\* A translation's marks do not change what the cache may answer.
LEMMA MarkedHolds ==
    ASSUME CInv, NEW d, Marked1(desc, d)
    PROVE  Holds(which, cache, mem, d, crp, remapped, behind, strayed)
<1>1. \A s \in Spaces : /\ FrameAt(which, d, crp, s) = FrameAt(which, desc, crp, s)
                        /\ OkAt(which, d, crp, s) = OkAt(which, desc, crp, s)
  BY MarkedAt DEF CInv, TInv
<1> QED BY <1>1, HoldsAt DEF CInv

\* A read: it fills what it reads from where it goes, or leaves the cache alone.
LEMMA ReadCInv ==
    ASSUME CInv, [Next]_vars, NEW s \in Start[which].spaces,
           NEW l \in Start[which].longs, NEW rmw \in BOOLEAN, Read(s[1], s[2], l, rmw)
    PROVE  CInv'
<1> DEFINE t == Translated(s[1], s[2], FALSE, rmw)
           k == cache'
           W == strayed'
<1>1. s \in Spaces /\ l \in Long /\ s[1] \in Codes /\ s[2] \in Pages /\ s = <<s[1], s[2]>>
  <2>1. s \in Spaces /\ l \in Long
    BY MmuAssumption DEF CInv, TInv, IInv
  <2> QED BY <2>1, SpaceIs
<1>2. /\ which' = which /\ mem' = mem /\ desc' = t.desc /\ crp' = crp
      /\ unflushed' = unflushed /\ remapped' = remapped /\ behind' = behind
      /\ k = IF t.ok THEN Filled(<<s[1], s[2]>>, l, t, rmw) ELSE cache
      /\ W = CASE t.ok /\ Fills(<<s[1], s[2]>>, l, t, rmw) /\ Asked(<<s[1], s[2]>>, l, rmw) # l
                    -> strayed \cup {l}
               [] t.ok /\ Fills(<<s[1], s[2]>>, l, t, rmw) /\ Asked(<<s[1], s[2]>>, l, rmw) = l
                    -> strayed \ {l}
               [] OTHER -> strayed
  BY DEF Read
<1>3. Sound(t) /\ (t.ok /\ s \notin remapped /\ ~OneKind(which, s) => OkAt(which, t.desc, crp, s)
                                                /\ t.frame = FrameAt(which, t.desc, crp, s))
  BY <1>1, TranslatedTrue, GoesThere DEF CInv
<1> HIDE DEF t, k, W
<1>4. Holds(which, cache, mem, t.desc, crp, remapped, behind, strayed)
  BY <1>3, MarkedHolds DEF Sound
<1>5. /\ strayed' = W /\ cache' = k /\ MemoryFormed(mem) /\ CacheFormed(cache)
      /\ unflushed \subseteq remapped
  BY DEF CInv, k, W
<1>6. CASE ~(t.ok /\ Fills(s, l, t, rmw))
  <2>1. k = cache /\ W = strayed
    BY <1>1, <1>2, <1>6 DEF Filled
  <2> QED BY <1>2, <1>4, <1>5, <2>1, CInvAfter
<1>7. CASE t.ok /\ Fills(s, l, t, rmw)
  <2> DEFINE v == mem[t.frame][Asked(s, l, rmw)]
  <2>1. k = FillEntry(cache, s, l, v)
    BY <1>1, <1>2, <1>7 DEF Filled
  <2>2. W = IF Asked(s, l, rmw) = l THEN strayed \ {l} ELSE strayed \cup {l}
    BY <1>1, <1>2, <1>7
  <2>3. strayed \subseteq W \cup {l} /\ (l \notin W => v = mem[t.frame][l])
    BY <2>2
  <2> HIDE DEF v
  <2>4. CacheFormed(k)
    BY <1>1, <1>5, <2>1, FillEntryIs
  <2>5. Holds(which, k, mem, t.desc, crp, remapped, behind, W)
    BY <1>1, <1>3, <1>4, <1>5, <1>7, <2>1, <2>3, FillHolds
  <2> QED BY <1>2, <1>5, <2>4, <2>5, CInvAfter
<1> QED BY <1>6, <1>7

\* A write: memory, and the cache or the note that it was passed by.
LEMMA WriteCInv ==
    ASSUME CInv, [Next]_vars, NEW s \in Start[which].spaces,
           NEW l \in Start[which].longs, NEW halves, NEW rmw \in BOOLEAN,
           Write(s[1], s[2], l, halves, rmw)
    PROVE  CInv'
<1> DEFINE t == Translated(s[1], s[2], TRUE, rmw)
           f == t.frame
           v == Written(f, l, halves)
           d == t.desc
<1>1. s \in Spaces /\ l \in Long /\ s[1] \in Codes /\ s[2] \in Pages /\ s = <<s[1], s[2]>>
  <2>1. s \in Spaces /\ l \in Long
    BY MmuAssumption DEF CInv, TInv, IInv
  <2> QED BY <2>1, SpaceIs
<1>2. /\ which' = which /\ desc' = d /\ crp' = crp
      /\ unflushed' = unflushed /\ remapped' = remapped /\ strayed' = strayed
      /\ ~t.ok => mem' = mem /\ cache' = cache /\ behind' = behind
      /\ t.ok => /\ mem' = [mem EXCEPT ![f][l] = v]
                 /\ ~Caching(f, t.inhibit) => cache' = cache /\ behind' = behind \cup {<<f, l>>}
                 /\ Caching(f, t.inhibit) =>
                      /\ cache' = CacheWrite(cache, <<s[1], s[2]>>, l, v, halves, cacr.allocate,
                                             cacr.frozen)
                      /\ Hit(cache, <<s[1], s[2]>>, l) \/ (cacr.allocate /\ ~cacr.frozen)
                           => behind' = behind
                      /\ ~(Hit(cache, <<s[1], s[2]>>, l) \/ (cacr.allocate /\ ~cacr.frozen))
                           => behind' = behind \cup {<<f, l>>}
  <2> HIDE DEF t
  <2> QED BY DEF Write, t
<1>3. Sound(t) /\ (t.ok /\ s \notin remapped /\ ~OneKind(which, s) => OkAt(which, d, crp, s)
                                                /\ f = FrameAt(which, d, crp, s))
  BY <1>1, TranslatedTrue, GoesThere DEF CInv
<1>4. (f \in Frames => Halves(v)) /\ \A h \in Full \ halves : v[h] = mem[f][l][h]
  <2> HIDE DEF f
  <2>1. f \in Frames => Halves(mem[f][l])
    BY <1>1 DEF CInv, MemoryFormed
  <2>2. CASE writes < MaxWrites[which]
    <3>1. v = [h \in Full |-> IF h \in halves THEN 1 - mem[f][l][h] ELSE mem[f][l][h]]
      BY <2>2 DEF Written
    <3> QED BY <3>1 DEF Halves
  <2>3. CASE ~(writes < MaxWrites[which])
    <3>1. v = mem[f][l]
      BY <2>3 DEF Written
    <3> QED BY <2>1, <3>1
  <2> QED BY <2>2, <2>3
<1> HIDE DEF t, f, v, d
<1>5. Holds(which, cache, mem, d, crp, remapped, behind, strayed) /\ Fitting(d) /\ crp \in DOMAIN Root
      /\ which \in DOMAIN Start /\ CacheFormed(cache) /\ MemoryFormed(mem)
      /\ unflushed \subseteq remapped
  BY <1>3, MarkedHolds DEF Sound, CInv, TInv, IInv, d
<1>6. CASE ~t.ok
  BY <1>2, <1>5, <1>6, CInvAfter
<1>7. CASE t.ok
  <2> DEFINE w == [mem EXCEPT ![f][l] = v]
  <2>1. MemoryFormed(w)
    BY <1>1, <1>4, <1>5, StoredIs
  <2>2. CASE Caching(f, t.inhibit)
    <3> DEFINE k == CacheWrite(cache, s, l, v, halves, cacr.allocate, cacr.frozen)
               C == behind'
    <3>1. /\ cache' = k /\ mem' = w
          /\ Hit(cache, s, l) \/ (cacr.allocate /\ ~cacr.frozen) => C = behind
          /\ ~(Hit(cache, s, l) \/ (cacr.allocate /\ ~cacr.frozen)) => C = behind \cup {<<f, l>>}
      BY <1>1, <1>2, <1>7, <2>2
    <3> HIDE DEF C
    <3>2. CacheFormed(k) /\ Holds(which, k, w, d, crp, remapped, C, strayed)
      BY <1>1, <1>3, <1>4, <1>5, <1>7, <3>1, StoreHolds
    <3> HIDE DEF k, w
    <3>3. behind' = C
      BY DEF C
    <3> QED BY <1>2, <1>5, <2>1, <3>1, <3>2, <3>3, CInvAfter
  <2>3. CASE ~Caching(f, t.inhibit)
    <3>1. Holds(which, cache, w, d, crp, remapped, behind \cup {<<f, l>>}, strayed)
      BY <1>1, <1>5, BehindHolds
    <3>2. cache' = cache /\ mem' = w /\ behind' = behind \cup {<<f, l>>}
      BY <1>2, <1>7, <2>3
    <3> HIDE DEF w
    <3> QED BY <1>2, <1>5, <2>1, <3>1, <3>2, CInvAfter
  <2> QED BY <2>2, <2>3
<1> QED BY <1>6, <1>7

\* A descriptor that is edited changes where the spaces whose search reads it end.
LEMMA EditCInv ==
    ASSUME CInv, [Next]_vars, NEW a \in Places, NEW x, Fits(a, x), Edit(a, x)
    PROVE  CInv'
<1> DEFINE b == [desc EXCEPT ![a] = x]
           Q == remapped \cup Through(desc, a) \cup Through(b, a)
           U == unflushed \cup Through(desc, a) \cup Through(b, a)
<1>1. /\ which' = which /\ cache' = cache /\ mem' = mem /\ desc' = b /\ crp' = crp
      /\ unflushed' = U /\ remapped' = Q /\ behind' = behind /\ strayed' = strayed
  <2>1. /\ which' = which /\ cache' = cache /\ mem' = mem /\ desc' = b /\ crp' = crp
        /\ unflushed' = unflushed \cup (Through(desc, a) \cup Through(desc', a))
        /\ remapped' = remapped \cup (Through(desc, a) \cup Through(desc', a))
        /\ behind' = behind /\ strayed' = strayed
    BY DEF Edit, Changed
  <2>2. Through(desc', a) = Through(b, a)
    BY <2>1
  <2> HIDE DEF b
  <2> QED BY <2>1, <2>2
<1>2. \A y \in Places : y # a => b[y] = desc[y]
  BY DEF CInv, TInv, Fitting
<1> HIDE DEF b
<1>3. ASSUME NEW s \in Spaces, s \notin Q
      PROVE  /\ FrameAt(which, b, crp, s) = FrameAt(which, desc, crp, s)
             /\ OkAt(which, b, crp, s) = OkAt(which, desc, crp, s)
  <2> DEFINE p == Path(desc, TreeIn(crp, s[1]), s[2])
  <2>1. Fitting(desc) /\ crp \in DOMAIN Root
    BY DEF CInv, TInv
  <2>2. TreeIn(crp, s[1]) \in DOMAIN Root /\ s[2] \in Pages
    BY <2>1, TreeThere, SpaceIs
  <2>3. Read1(p)
    BY <2>1, <2>2, PathPlaces
  <2>4. \A i \in 1 .. Len(p) : p[i] # a
    BY <1>3, TreeOfIs DEF Through
  <2>5. \A i \in 1 .. Len(p) : Like(desc[p[i]], b[p[i]])
    <3> HIDE DEF p
    <3> QED BY <1>2, <2>3, <2>4 DEF Read1, Like
  <2> QED BY <2>1, <2>5, SameAt
<1>4. Holds(which, cache, mem, b, crp, Q, behind, strayed)
  <2>1. remapped \subseteq Q /\ Holds(which, cache, mem, desc, crp, remapped, behind, strayed)
    BY DEF CInv
  <2> HIDE DEF Q
  <2> QED BY <1>3, <2>1, HoldsAt
<1>5. U \subseteq Q
  BY DEF CInv
<1> HIDE DEF Q, U
<1> QED BY <1>1, <1>4, <1>5, CInvAfter DEF CInv

\* A flush leaves the data cache alone, and it is the spaces that were mapped elsewhere
\* that the cache is not held to.
LEMMA FlushCInv ==
    ASSUME CInv, [Next]_vars, NEW b, NEW S, Flushed(b, S) PROVE CInv'
<1>1. /\ which' = which /\ cache' = cache /\ mem' = mem /\ desc' = desc /\ crp' = crp
      /\ unflushed' = unflushed \ S /\ remapped' = remapped /\ behind' = behind
      /\ strayed' = strayed
  BY DEF Flushed
<1>2. unflushed \ S \subseteq remapped
  BY DEF CInv
<1> QED BY <1>1, <1>2, CInvAfter DEF CInv

\* PLOAD marks what it searches, and fills the translation cache only.
LEMMA PloadCInv ==
    ASSUME CInv, [Next]_vars, NEW s \in Start[which].spaces, NEW w \in BOOLEAN,
           Pload(s[1], s[2], w)
    PROVE  CInv'
<1>1. s[1] \in Codes /\ s[2] \in Pages
  BY SpacesThere DEF CInv
<1>2. PICK r : /\ r = Search(desc, TreeOf(s[1]), s[2], w, Super(s[1]))
               /\ which' = which /\ cache' = cache /\ mem' = mem /\ desc' = r.desc /\ crp' = crp
               /\ unflushed' = unflushed \ {<<s[1], s[2]>>}
               /\ remapped' = remapped /\ behind' = behind /\ strayed' = strayed
  BY DEF Pload
<1>3. Marked1(desc, r.desc)
  <2>1. unflushed \subseteq unflushed \cup {<<s[1], s[2]>>} /\ TInv
    BY DEF CInv
  <2> QED BY <1>1, <1>2, <2>1, SearchTrue
<1>4. Holds(which, cache, mem, r.desc, crp, remapped, behind, strayed)
  BY <1>3, MarkedHolds
<1>5. unflushed \ {<<s[1], s[2]>>} \subseteq remapped
  BY DEF CInv
<1> QED BY <1>2, <1>4, <1>5, CInvAfter DEF CInv

\* Another tree maps the spaces that use it elsewhere, flushed or not: the data cache
\* knows nothing of trees.
LEMMA PmoveCInv ==
    ASSUME CInv, [Next]_vars, NEW t \in DOMAIN Root, NEW fd \in BOOLEAN, Pmove(t, fd)
    PROVE  CInv'
<1> DEFINE own == {s \in Spaces : TreeOf(s[1]) = crp}
           Q == remapped \cup own
           U == IF fd THEN unflushed \cup own ELSE {}
<1>1. /\ which' = which /\ cache' = cache /\ mem' = mem /\ desc' = desc /\ crp' = t
      /\ unflushed' = U /\ remapped' = Q /\ behind' = behind /\ strayed' = strayed
  BY DEF Pmove
<1>2. ASSUME NEW s \in Spaces, s \notin Q
      PROVE  /\ FrameAt(which, desc, t, s) = FrameAt(which, desc, crp, s)
             /\ OkAt(which, desc, t, s) = OkAt(which, desc, crp, s)
  <2>1. TreeOf(s[1]) # crp
    BY <1>2
  <2>2. TreeIn(t, s[1]) = TreeIn(crp, s[1])
    BY <2>1 DEF TreeOf, TreeIn
  <2> QED BY <2>2 DEF FrameAt, OkAt, Answer
<1>3. Holds(which, cache, mem, desc, t, Q, behind, strayed)
  <2>1. remapped \subseteq Q /\ Holds(which, cache, mem, desc, crp, remapped, behind, strayed)
    BY DEF CInv
  <2> HIDE DEF Q
  <2> QED BY <1>2, <2>1, HoldsAt
<1>4. U \subseteq Q
  BY DEF CInv
<1> HIDE DEF Q, U
<1> QED BY <1>1, <1>3, <1>4, CInvAfter DEF CInv

\* The cache register's clears: of a long word, which is answered no more, and of all of
\* them, after which nothing is owed.
LEMMA MovecCInv ==
    ASSUME CInv, [Next]_vars, NEW x, NEW clear, Movec(x, clear) PROVE CInv'
<1> DEFINE k == Dropped(cache, clear)
           Q == IF clear = Long THEN unflushed ELSE remapped
           C == IF clear = Long THEN {} ELSE behind
<1>1. /\ which' = which /\ cache' = k /\ mem' = mem /\ desc' = desc /\ crp' = crp
      /\ unflushed' = unflushed /\ remapped' = Q /\ behind' = C
      /\ strayed' = strayed \ clear
  BY DEF Movec
<1>2. CacheFormed(k) /\ k.valid = cache.valid \ clear
  BY DroppedIs DEF CInv
<1>3. Holds(which, k, mem, desc, crp, Q, C, strayed \ clear)
  <2>1. \A l \in Long \cap clear, s \in Spaces : ~Hit(k, s, l)
    BY <1>2 DEF Hit
  <2>2. CASE clear = Long
    <3>1. \A s \in Spaces, l \in Long : ~Hit(k, s, l)
      BY <2>1, <2>2
    <3> HIDE DEF k
    <3> QED BY <3>1 DEF Holds
  <2>3. CASE clear # Long
    <3>1. Q = remapped /\ C = behind
      BY <2>3
    <3>2. Holds(which, k, mem, desc, crp, remapped, behind, strayed)
      BY DroppedHolds DEF CInv
    <3> HIDE DEF k, Q, C
    <3> QED BY <2>1, <3>1, <3>2 DEF Holds
  <2> QED BY <2>2, <2>3
<1>4. unflushed \subseteq Q
  BY DEF CInv
<1> HIDE DEF k, Q, C
<1> QED BY <1>1, <1>2, <1>3, <1>4, CInvAfter DEF CInv

\* Another master's write is behind the cache's back.
LEMMA DmaCInv ==
    ASSUME CInv, [Next]_vars, NEW f, NEW l \in Start[which].longs, Dma(f, l) PROVE CInv'
<1> DEFINE v == [h \in Full |-> 1 - mem[f][l][h]]
           w == [mem EXCEPT ![f][l] = v]
           C == behind \cup {<<f, l>>}
<1>1. l \in Long /\ which \in DOMAIN Start /\ MemoryFormed(mem) /\ Fitting(desc)
      /\ crp \in DOMAIN Root
  BY MmuAssumption DEF CInv, TInv, IInv
<1>2. /\ which' = which /\ cache' = cache /\ mem' = w /\ desc' = desc /\ crp' = crp
      /\ unflushed' = unflushed /\ remapped' = remapped /\ behind' = C
      /\ strayed' = strayed
  BY <1>1 DEF Dma, MemoryFormed
<1>3. Halves(v)
  BY DEF Halves
<1> HIDE DEF v
<1>4. MemoryFormed(w) /\ Holds(which, cache, w, desc, crp, remapped, C, strayed)
  BY <1>1, <1>3, StoredIs, BehindHolds DEF CInv
<1> HIDE DEF w, C
<1> QED BY <1>2, <1>4, CInvAfter DEF CInv

\* Every step keeps what is cached true.
LEMMA StepCInv == ASSUME CInv, [Next]_vars PROVE CInv'
<1>1. ASSUME NEW s \in Start[which].spaces, NEW l \in Start[which].longs, NEW rmw \in BOOLEAN,
             Read(s[1], s[2], l, rmw)
      PROVE  CInv'
  BY <1>1, ReadCInv
<1>2. ASSUME NEW s \in Start[which].spaces, NEW l \in Start[which].longs, NEW halves,
             NEW rmw \in BOOLEAN, Write(s[1], s[2], l, halves, rmw)
      PROVE  CInv'
  BY <1>2, WriteCInv
<1>3. ASSUME NEW e \in Edits[which], Edit(e[1], e[2]) PROVE CInv'
  <2>1. e[1] \in Places /\ Fits(e[1], e[2])
    BY MmuAssumption DEF CInv, TInv, IInv
  <2> QED BY <1>3, <2>1, EditCInv
<1>4. CASE Pflusha
  BY <1>4, FlushCInv DEF Pflusha
<1>5. ASSUME NEW c, NEW m, PflushCodes(c, m) PROVE CInv'
  BY <1>5, FlushCInv DEF PflushCodes
<1>6. ASSUME NEW c, NEW m, NEW q, PflushEntry(c, m, q) PROVE CInv'
  BY <1>6, FlushCInv DEF PflushEntry
<1>7. ASSUME NEW s \in Start[which].spaces, NEW w \in BOOLEAN, Pload(s[1], s[2], w) PROVE CInv'
  BY <1>7, PloadCInv
<1>8. ASSUME NEW t \in DOMAIN Root, NEW fd \in BOOLEAN, Pmove(t, fd) PROVE CInv'
  BY <1>8, PmoveCInv
<1>9. ASSUME NEW s, NEW clear, Movec(s, clear) PROVE CInv'
  BY <1>9, MovecCInv
<1>10. ASSUME NEW f, NEW l \in Start[which].longs, Dma(f, l) PROVE CInv'
  BY <1>10, DmaCInv
<1>11. CASE UNCHANGED vars
  BY <1>11, CInvAfter DEF vars, CInv
<1> QED BY <1>1, <1>2, <1>3, <1>4, <1>5, <1>6, <1>7, <1>8, <1>9, <1>10, <1>11 DEF Next

\* The cache is empty, and nothing has been changed.
LEMMA InitCInv == ASSUME Init PROVE CInv
<1>1. TInv
  BY InitTInv
<1>2. /\ cache = Cold /\ unflushed = {}
      /\ mem = [f \in Frames |-> [l \in Long |-> <<1, 1>>]]
  BY DEF Init
<1>3. CacheFormed(Cold) /\ Cold.valid = {}
  BY DEF CacheFormed, Cold, LineNumbers
<1>4. MemoryFormed(mem)
  <2>1. Halves(<<1, 1>>)
    BY DEF Halves, Full
  <2> QED BY <1>2, <2>1 DEF MemoryFormed
<1>5. \A s \in Spaces, l \in Long : ~Hit(cache, s, l)
  BY <1>2, <1>3 DEF Hit
<1> QED BY <1>1, <1>2, <1>3, <1>4, <1>5 DEF CInv, Holds

\* What the data cache answers is what memory holds at the page, and only where it may
\* be read, but for what was mapped elsewhere, written behind its back or filled by a
\* refused burst: whatever is written in part or through an alias, frozen, flushed and
\* cleared, and for every page that no transparent range passes one kind of access to
\* (ap_m68030_cache.c, ap_m68030_access.c).
THEOREM CacheIsTrue == Spec => []CacheTrue
<1>1. Init => CInv
  BY InitCInv
<1>2. CInv /\ [Next]_vars => CInv'
  BY StepCInv
<1>3. CInv => CacheTrue
  <2> SUFFICES ASSUME CInv, NEW s \in Spaces \ Mixed, NEW l \in Long \ strayed,
                      Hit(cache, s, l), s \notin remapped
               PROVE  \E t \in {Search(desc, TreeOf(s[1]), s[2], FALSE, Super(s[1]))} :
                        LET f == IF Transparent(s[1], s[2], FALSE, FALSE) THEN s[2] ELSE t.frame
                        IN  <<f, l>> \notin behind =>
                              /\ cache.entry[l] = mem[f][l]
                              /\ t.ok \/ Transparent(s[1], s[2], FALSE, FALSE)
    BY DEF CacheTrue
  <2> DEFINE t == Search(desc, TreeOf(s[1]), s[2], FALSE, Super(s[1]))
             f == IF Transparent(s[1], s[2], FALSE, FALSE) THEN s[2] ELSE t.frame
  <2>0. ~OneKind(which, s)
    BY DEF OneKind, Mixed
  <2>1. t = Answer(desc, crp, s)
    BY TreeOfIs DEF Answer
  <2>2. Transparent(s[1], s[2], FALSE, FALSE) <=> Through1(which, s)
    BY <2>0, ThroughIs DEF CInv, TInv, IInv
  <2> HIDE DEF t
  <2>3. f = FrameAt(which, desc, crp, s)
    BY <2>1, <2>2 DEF FrameAt
  <2>4. t.ok \/ Transparent(s[1], s[2], FALSE, FALSE) <=> OkAt(which, desc, crp, s)
    BY <2>1, <2>2 DEF OkAt
  <2> HIDE DEF f
  <2>5. <<f, l>> \notin behind => cache.entry[l] = mem[f][l] /\ OkAt(which, desc, crp, s)
    BY <2>0, <2>3 DEF CInv, Holds
  <2> QED BY <2>4, <2>5 DEF t, f
<1> QED BY <1>1, <1>2, <1>3, PTL DEF Spec

=============================================================================
