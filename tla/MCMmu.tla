-------------------------------- MODULE MCMmu -------------------------------
(***************************************************************************)
(* Two set-ups.  In "paging" a user and a supervisor share a page table,   *)
(* an indirect descriptor and an early page, the cache is off, and the     *)
(* system edits and flushes.  In "caching" two pages of the user and one   *)
(* of the supervisor are the same frame, one of them transparently, and    *)
(* the cache is on.                                                        *)
(***************************************************************************)
EXTENDS Mmu

User == {"d"}
Kernel == {"s", "d"}
MCCodes == {User, Kernel}
MCPages == 0 .. 3
MCFrames == 0 .. 3
MCTags == MCCodes \X MCPages
MCPlaces == {"a0", "a1", "b0", "k0", "k1", "t0", "t1", "i0", "i4"}
\* i4 is the short descriptor that follows i0.
MCBase == [a \in MCPlaces |-> IF a = "i4" THEN "i0" ELSE a]
MCRoot == [one |-> [i \in {0, 1} |-> IF i = 0 THEN "a0" ELSE "a1"],
           two |-> [i \in {0, 1} |-> IF i = 0 THEN "b0" ELSE "a1"],
           srp |-> [i \in {0, 1} |-> IF i = 0 THEN "k0" ELSE "k1"]]
MCTable == [T |-> [i \in {0, 1} |-> IF i = 0 THEN "t0" ELSE "t1"]]

Page(f, flags) == Descriptor("page", f, 1, flags, {})
ToTable(limit, flags) == Descriptor("table", "T", limit, flags, {})
None == Descriptor("invalid", 0, 1, {}, {})
\* The third lowest bit of what it holds is i4's, and a table's write protection.
Pointer(a) == Descriptor("indirect", a, 1, IF a = "i4" THEN {"protect"} ELSE {}, {})

Paging == [a \in MCPlaces |->
             CASE a = "a0" -> ToTable(1, {})   [] a = "a1" -> Page(2, {"super"})
               [] a = "b0" -> ToTable(0, {"protect"}) [] a = "k0" -> ToTable(1, {})
               [] a = "k1" -> Page(2, {})      [] a = "t0" -> Page(0, {})
               [] a = "t1" -> Pointer("i0")    [] a = "i0" -> Page(1, {"protect"})
               [] a = "i4" -> Page(3, {})]
Aliases == [a \in MCPlaces |->
             CASE a = "a0" -> ToTable(1, {})   [] a = "a1" -> None
               [] a = "b0" -> None             [] a = "k0" -> ToTable(1, {})
               [] a = "k1" -> Page(1, {"inhibit"}) [] a = "t0" -> Page(1, {})
               [] a = "t1" -> Page(1, {})      [] a \in {"i0", "i4"} -> None]

\* Tables that every page has been used and written through.
Used(d) == [a \in MCPlaces |-> [d[a] EXCEPT !.marks = {"used", "modified"}]]

Off == [enabled |-> FALSE, allocate |-> FALSE, frozen |-> FALSE, burst |-> FALSE]
On == [Off EXCEPT !.enabled = TRUE, !.allocate = TRUE, !.burst = TRUE]
MCStart == [paging |-> [desc |-> Paging, crp |-> "one", cacr |-> Off, transparent |-> {},
                        spaces |-> {<<User, 0>>, <<User, 1>>, <<Kernel, 1>>, <<User, 2>>},
                        longs |-> {0}, dma |-> {}, pieces |-> {Full}],
            caching |-> [desc |-> Used(Aliases), crp |-> "one", cacr |-> On,
                         transparent |-> {[code |-> Kernel, page |-> 1, kinds |-> {"read", "write"}]},
                         spaces |-> {<<User, 0>>, <<Kernel, 1>>},
                         longs |-> {0, 1}, dma |-> {1}, pieces |-> {{1}, Full}]]
\* The page table's indirect descriptor names the second of two.
MCIndirect == [paging |-> [MCStart.paging EXCEPT !.desc["t1"] = Pointer("i4")]]

MCEdits == [paging |-> {<<"t0", Page(3, {})>>, <<"t0", Page(0, {"protect"})>>, <<"t0", Page(0, {})>>,
                        <<"i0", None>>, <<"i0", Page(1, {})>>, <<"a1", Page(2, {})>>,
                        <<"a0", ToTable(0, {})>>},
            caching |-> {<<"t0", Page(0, {})>>, <<"t0", Page(1, {"inhibit"})>>}]
MCSettings == [paging |-> {}, caching |-> {On, [On EXCEPT !.frozen = TRUE],
                                           [On EXCEPT !.allocate = FALSE, !.burst = FALSE], Off}]
MCMasks == [paging |-> {{}, AllBits}, caching |-> {}]
MCMaxChanges == [paging |-> 1, caching |-> 1]
MCMaxWrites == [paging |-> 0, caching |-> 1]
=============================================================================
