------------------------- MODULE PagingMemoryProofs -------------------------
(***************************************************************************)
(* The steps in which a process works on its own memory preserve Inv:      *)
(* sbrk(), which grows or shrinks it, the accesses of the user, the        *)
(* page-fault handler and the clock, exec(), and uvmunmap().               *)
(***************************************************************************)
EXTENDS PagingGrow, PagingSwap, PagingExec, PagingMetaProofs

USE MaxTotalPagesAssumption

\* sbrk() begins to grow.
LEMMA GrowInv ==
  ASSUME Inv, NEW p \in Procs, NEW n \in 1 .. MaxGrow, Grow(p, n)
  PROVE  Inv'
<1> DEFINE b == [Idle EXCEPT !.op = "grow", !.a = sz[p], !.end = sz[p] + n]
<1>1. /\ pstate[p] = "RUN" /\ act[p] = Idle
      /\ TypeOK /\ ActOK(p) /\ TablesOK(p) /\ MetaOK(p)
  BY Zenon DEF Grow, Syscall, InUser, Running, Inv
<1>2. sz[p] \in 0 .. MAX_TOTAL_PAGES /\ sz[p] + n \in 0 .. MAX_TOTAL_PAGES
  BY <1>1 DEF Grow, TypeOK
<1>3. b \in Acts
  BY <1>2, IdleFacts, Zenon DEF Acts
<1>4. act' = [act EXCEPT ![p] = b] /\ sz' = [sz EXCEPT ![p] = sz[p]]
  BY <1>1, Zenon DEF Grow, TypeOK
<1>5. /\ act[p].op = "user" /\ act[p].then = "none" /\ b.op = "grow" /\ b.then = "none"
      /\ b.a = sz[p] /\ b.end = sz[p] + n
  BY <1>1 DEF Idle
<1> HIDE DEF b
<1>6. /\ UNCHANGED <<pstate, parent, pagetable, sidetable, meta, swapFile, free, mem,
                     want, shadow>>
      /\ act'[p] = b /\ sz'[p] = sz[p]
  BY <1>1, <1>4, Zenon DEF Grow, pt, TypeOK
<1>7. ActOK(p)'
  BY <1>1, <1>2, <1>5, <1>6 DEF ActOK, Foreign
<1>8. TablesOK(p)'
  BY <1>1, <1>2, <1>5, <1>6, Zenon DEF TablesOK, PageOK
<1>9. MetaOK(p)'
  BY <1>1, <1>5, <1>6, Zenon DEF MetaOK, Tracked, GoodMeta, Used
<1> QED
  BY <1>1, <1>2, <1>3, <1>4, <1>5, <1>6, <1>7, <1>8, <1>9, ActStep, Zenon

\* uvmalloc() fails and uvmdealloc() begins.
LEMMA GrowFailInv ==
  ASSUME Inv, NEW p \in Procs, GrowFail(p)
  PROVE  Inv'
<1> DEFINE b == [Idle EXCEPT !.op = "unmap", !.a = sz[p], !.lo = sz[p], !.end = act[p].a,
                             !.who = p, !.then = "sbrk"]
<1>1. /\ pstate[p] = "RUN" /\ act[p].op = "grow"
      /\ TypeOK /\ ActOK(p) /\ TablesOK(p) /\ MetaOK(p)
  BY Zenon DEF GrowFail, Running, Inv
<1>2. sz[p] \in 0 .. MAX_TOTAL_PAGES /\ act[p].a \in 0 .. MAX_TOTAL_PAGES
  BY <1>1, Zenon DEF TypeOK, Acts
<1>3. b \in Acts
  BY <1>2, IdleFacts, Zenon DEF Acts
<1>4. act' = [act EXCEPT ![p] = b] /\ sz' = [sz EXCEPT ![p] = sz[p]]
  BY <1>1, Zenon DEF GrowFail, TypeOK
<1>5. /\ b.op = "unmap" /\ b.then = "sbrk" /\ b.who = p /\ b.a = sz[p] /\ b.lo = sz[p]
      /\ b.end = act[p].a
  BY Zenon DEF Idle
<1> HIDE DEF b
<1>6. /\ UNCHANGED <<pstate, parent, pagetable, sidetable, meta, swapFile, free, mem,
                     want, shadow>>
      /\ act'[p] = b /\ sz'[p] = sz[p]
  BY <1>1, <1>4, Zenon DEF GrowFail, pt, TypeOK
<1>7. ActOK(p)'
  BY <1>1, <1>2, <1>5, <1>6 DEF ActOK, Foreign
<1>8. TablesOK(p)'
  <2>1. \A i \in Pages : i < act[p].a => i < sz[p] \/ (sz[p] <= i /\ i < act[p].a)
    BY <1>2 DEF Pages
  <2>2. act[p].then = "none"
    BY <1>1, Zenon DEF ActOK
  <2> SUFFICES ASSUME NEW i \in Pages PROVE PageOK(p, i)'
    BY Zenon DEF TablesOK
  <2>3. PageOK(p, i)
    BY <1>1, Zenon DEF TablesOK
  <2> QED  BY <1>1, <1>5, <1>6, <2>1, <2>2, <2>3 DEF PageOK
<1>9. MetaOK(p)'
  BY <1>1, <1>5, <1>6, Zenon DEF MetaOK, Tracked, GoodMeta, Used, ActOK
<1> QED
  BY <1>1, <1>2, <1>3, <1>4, <1>5, <1>6, <1>7, <1>8, <1>9, ActStep, Zenon

\* growproc() returns.
LEMMA GrowDoneInv ==
  ASSUME Inv, NEW p \in Procs, GrowDone(p)
  PROVE  Inv'
<1>1. /\ pstate[p] = "RUN" /\ act[p].op = "grow" /\ act[p].a = act[p].end
      /\ TypeOK /\ ActOK(p) /\ TablesOK(p) /\ MetaOK(p)
  BY Zenon DEF GrowDone, Running, Inv
<1>2. act[p].end \in 0 .. MAX_TOTAL_PAGES
  BY <1>1, Zenon DEF TypeOK, Acts
<1>3. /\ UNCHANGED <<pstate, parent, pagetable, sidetable, meta, swapFile, free, mem,
                     want, shadow>>
      /\ act'[p] = Idle /\ sz'[p] = act[p].end
  BY <1>1, Zenon DEF GrowDone, pt, TypeOK
<1>4. ActOK(p)'
  BY <1>1, <1>2, <1>3, IdleFacts, Zenon DEF ActOK, Foreign
<1>5. TablesOK(p)'
  BY <1>1, <1>2, <1>3, IdleFacts, ZenonT(40) DEF TablesOK, PageOK, ActOK
<1>6. MetaOK(p)'
  BY <1>1, <1>3, IdleFacts, Zenon DEF MetaOK, Tracked, GoodMeta, Used, ActOK
<1> QED
  BY <1>1, <1>2, <1>3, <1>4, <1>5, <1>6, IdleFacts, ActStep, Zenon DEF GrowDone

\* sbrk() begins to shrink.
LEMMA ShrinkInv ==
  ASSUME Inv, NEW p \in Procs, NEW n \in 1 .. MaxGrow, Shrink(p, n)
  PROVE  Inv'
<1> DEFINE b == [Idle EXCEPT !.op = "unmap", !.a = sz[p] - n, !.lo = sz[p] - n,
                             !.end = sz[p], !.who = p, !.then = "sbrk"]
<1>1. /\ pstate[p] = "RUN" /\ act[p] = Idle
      /\ TypeOK /\ ActOK(p) /\ TablesOK(p) /\ MetaOK(p)
  BY Zenon DEF Shrink, Syscall, InUser, Running, Inv
<1>2. sz[p] \in 0 .. MAX_TOTAL_PAGES /\ sz[p] - n \in 0 .. MAX_TOTAL_PAGES
  BY <1>1 DEF Shrink, TypeOK
<1>3. b \in Acts
  BY <1>2, IdleFacts, Zenon DEF Acts
<1>4. act' = [act EXCEPT ![p] = b] /\ sz' = [sz EXCEPT ![p] = sz[p]]
  BY <1>1, Zenon DEF Shrink, TypeOK
<1>5. /\ act[p].op = "user" /\ act[p].then = "none"
      /\ b.op = "unmap" /\ b.then = "sbrk" /\ b.who = p /\ b.a = sz[p] - n
      /\ b.lo = sz[p] - n /\ b.end = sz[p]
  BY <1>1 DEF Idle
<1> HIDE DEF b
<1>6. /\ UNCHANGED <<pstate, parent, pagetable, sidetable, meta, swapFile, free, mem,
                     want, shadow>>
      /\ act'[p] = b /\ sz'[p] = sz[p]
  BY <1>1, <1>4, Zenon DEF Shrink, pt, TypeOK
<1>7. ActOK(p)'
  BY <1>1, <1>2, <1>5, <1>6 DEF ActOK, Foreign
<1>8. TablesOK(p)'
  <2>1. \A i \in Pages : i < sz[p] => i < sz[p] - n \/ (sz[p] - n <= i /\ i < sz[p])
    BY <1>2 DEF Pages
  <2>2. /\ act'[p].op = "unmap" /\ act'[p].then = "sbrk" /\ pstate'[p] = "RUN"
        /\ pagetable'[p] = pagetable[p] /\ sidetable'[p] = sidetable[p]
    BY <1>1, <1>5, <1>6, Zenon
  <2>3. \A i \in Pages : /\ ~sidetable[p][i].v /\ (pagetable[p][i].pg => ~pagetable[p][i].v)
                         /\ pagetable[p][i].v => i < sz[p]
    BY <1>1, <1>5, Zenon DEF TablesOK, PageOK
  <2>4. \A i \in Pages : pagetable[p][i].v => i < act'[p].lo \/ (act'[p].a <= i /\ i < act'[p].end)
    BY <1>5, <1>6, <2>1, <2>3, Zenon
  <2> QED  BY <2>2, <2>3, <2>4, Zenon DEF TablesOK, PageOK
<1>9. MetaOK(p)'
  BY <1>1, <1>5, <1>6, Zenon DEF MetaOK, Tracked, GoodMeta, Used
<1> QED
  BY <1>1, <1>2, <1>3, <1>4, <1>5, <1>6, <1>7, <1>8, <1>9, ActStep, Zenon

\* An iteration of uvmalloc() below the limit.
LEMMA GrowPageInv ==
  ASSUME Inv, NEW p \in Procs, GrowPage(p)
  PROVE  Inv'
<1> DEFINE i == act[p].a
           t == [pagetable[p] EXCEPT ![i] = UserPte(kalloc)]
           m == MadeResident(meta[p], i)
           b == [act[p] EXCEPT !.a = i + 1]
<1>1. /\ pstate[p] = "RUN" /\ act[p].op = "grow" /\ i < act[p].end
      /\ kalloc \in Frames /\ meta[p].pagesInMemory < MAX_PSYC_PAGES
  BY kallocFacts, Zenon DEF GrowPage, Running, Inv, HasRoom
<1>2. /\ TypeOK /\ ActOK(p) /\ TablesOK(p) /\ MetaOK(p) /\ GoodMeta(meta[p])
      /\ pagetable[p] \in [Pages -> Ptes] /\ sidetable[p] \in [Pages -> Ptes]
      /\ act[p] \in Acts /\ sz[p] \in 0 .. MAX_TOTAL_PAGES
      /\ i \in 0 .. MAX_TOTAL_PAGES /\ act[p].end \in 0 .. MAX_TOTAL_PAGES
  BY ProcFacts, Zenon
<1>3. i \in Pages /\ i + 1 \in 0 .. MAX_TOTAL_PAGES
  BY <1>1, <1>2 DEF Pages
<1>4. act[p].then = "none" /\ sz[p] <= i
  BY <1>1, <1>2, Zenon DEF ActOK
<1>5. ~pagetable[p][i].v /\ Tracked(p) = pagetable[p]
  BY <1>1, <1>2, <1>3, <1>4 DEF TablesOK, PageOK, Tracked
<1>6. GoodMeta(m) /\ m \in Metas /\ Used(m) = Used(meta[p]) \cup {i}
  <2>1. ~meta[p].inUse[i]
    BY <1>1, <1>2, <1>3, <1>5, Zenon DEF MetaOK, Used
  <2> QED  BY <1>1, <1>2, <1>3, <2>1, MadeResidentGood DEF GoodMeta
<1>7. b \in Acts /\ b.op = "grow" /\ b.then = "none" /\ b.a = i + 1 /\ b.end = act[p].end
  BY <1>1, <1>2, <1>3, <1>4, Zenon DEF Acts
<1>8. /\ t \in [Pages -> Ptes] /\ t[i].v = TRUE /\ t[i].pg = FALSE
      /\ \A j \in Pages \ {i} : t[j] = pagetable[p][j]
  BY <1>1, <1>2, <1>3, PteFacts, PteStep
<1>9. /\ pagetable' = [pagetable EXCEPT ![p] = t]
      /\ sidetable' = [sidetable EXCEPT ![p] = sidetable[p]]
      /\ meta' = [meta EXCEPT ![p] = m] /\ act' = [act EXCEPT ![p] = b]
      /\ pstate' = pstate /\ parent' = parent /\ sz' = sz
  BY <1>2, Zenon DEF GrowPage, TypeOK
<1>10. /\ free' \subseteq Frames /\ mem' \in [Frames -> Contents]
       /\ shadow' \in [Procs -> [Pages -> Contents]] /\ UNCHANGED <<swapFile, want>>
  BY <1>1, <1>2, <1>3, ContentsFacts, Zenon DEF GrowPage, TypeOK
<1> HIDE DEF t, m, b
<1>11. /\ pagetable' \in [Procs -> [Pages -> Ptes]]
       /\ sidetable' \in [Procs -> [Pages -> Ptes]]
       /\ meta' \in [Procs -> Metas] /\ act' \in [Procs -> Acts]
       /\ pagetable'[p] = t /\ sidetable'[p] = sidetable[p] /\ meta'[p] = m /\ act'[p] = b
       /\ \A q \in Procs \ {p} : /\ act'[q] = act[q] /\ meta'[q] = meta[q]
                                 /\ pagetable'[q] = pagetable[q]
                                 /\ sidetable'[q] = sidetable[q]
  BY <1>2, <1>6, <1>7, <1>8, <1>9, OwnValues, Zenon
<1>12. TypeOK'
  BY <1>2, <1>9, <1>10, <1>11, Zenon DEF TypeOK
<1>13. ~Foreign(p)'
  BY <1>7, <1>11, ZenonT(40) DEF Foreign
<1>14. ActOK(p)'
  <2>1. sz[p] <= i + 1 /\ i + 1 <= act[p].end
    BY <1>1, <1>2, <1>3, <1>4
  <2> QED  BY <1>1, <1>7, <1>9, <1>11, <1>13, <2>1, Zenon DEF ActOK
<1>15. TablesOK(p)'
  <2>1. /\ \A j \in Pages : j < i => j < i + 1
        /\ i < i + 1
    BY <1>3 DEF Pages
  <2>2. \A j \in Pages : (t[j].v => j < i + 1) /\ (t[j].pg => ~t[j].v)
    BY <1>1, <1>2, <1>8, <2>1, Zenon DEF TablesOK, PageOK
  <2>3. \A j \in Pages : ~sidetable[p][j].v
    BY <1>1, <1>2, <1>4, Zenon DEF TablesOK, PageOK
  <2> SUFFICES ASSUME NEW j \in Pages PROVE PageOK(p, j)'
    BY Zenon DEF TablesOK
  <2>4. /\ act'[p].op = "grow" /\ act'[p].then = "none" /\ act'[p].a = i + 1
        /\ pstate'[p] = "RUN" /\ pagetable'[p] = t /\ sidetable'[p] = sidetable[p]
    BY <1>1, <1>7, <1>9, <1>11, Zenon
  <2> QED  BY <2>2, <2>3, <2>4, Zenon DEF PageOK
<1>16. MetaOK(p)'
  <2>1. Tracked(p)' = t
    BY <1>7, <1>11, Zenon DEF Tracked
  <2>2. \A j \in Used(m) : t[j].v
    BY <1>1, <1>2, <1>5, <1>6, <1>8, Zenon DEF MetaOK, Used
  <2> QED  BY <1>1, <1>6, <1>9, <1>11, <2>1, <2>2, Zenon DEF MetaOK, GoodMeta, Used
<1> QED
  BY <1>1, <1>9, <1>11, <1>12, <1>13, <1>14, <1>15, <1>16, LocalStep, Zenon

\* The second half of an iteration of uvmalloc() at the limit.
LEMMA GrowMapInv ==
  ASSUME Inv, NEW p \in Procs, GrowMap(p)
  PROVE  Inv'
<1> DEFINE i == act[p].a
           k == SlotForgotten(meta[p], i)
           t == [pagetable[p] EXCEPT ![i] = UserPte(kalloc)]
           u == sidetable[p]
           m == MadeResident(k, i)
           b == [act[p] EXCEPT !.op = "grow", !.a = i + 1]
<1>1. pstate[p] = "RUN" /\ act[p].op = "map"
  BY Zenon DEF GrowMap, Running
<1>2. /\ TypeOK /\ ActOK(p) /\ TablesOK(p) /\ MetaOK(p) /\ GoodMeta(meta[p])
      /\ pagetable[p] \in [Pages -> Ptes] /\ sidetable[p] \in [Pages -> Ptes]
      /\ act[p] \in Acts /\ sz[p] \in 0 .. MAX_TOTAL_PAGES
      /\ act[p].a \in 0 .. MAX_TOTAL_PAGES /\ act[p].end \in 0 .. MAX_TOTAL_PAGES
  BY ProcFacts, Zenon
<1>3. i < act[p].end /\ meta[p].pagesInMemory < MAX_PSYC_PAGES
  BY <1>1, <1>2, Zenon DEF ActOK
<1>4. i \in Pages /\ i + 1 \in 0 .. MAX_TOTAL_PAGES
  BY <1>2, <1>3 DEF Pages
<1>5. act[p].then = "none" /\ sz[p] <= i
  BY <1>1, <1>2, Zenon DEF ActOK
<1>6. ~pagetable[p][i].v /\ Tracked(p) = pagetable[p]
  BY <1>1, <1>2, <1>4, <1>5 DEF TablesOK, PageOK, Tracked
<1>7. GoodMeta(m) /\ m \in Metas /\ Used(m) = Used(meta[p]) \cup {i}
  <2>1. ~meta[p].inUse[i]
    BY <1>1, <1>2, <1>4, <1>6, Zenon DEF MetaOK, Used
  <2>2. /\ GoodMeta(k) /\ Used(k) = Used(meta[p]) /\ k.inUse = meta[p].inUse
        /\ k.pagesInMemory = meta[p].pagesInMemory
    BY <1>2, <1>4, SlotForgottenGood, Zenon
  <2> HIDE DEF k
  <2> QED  BY <1>3, <1>4, <2>1, <2>2, MadeResidentGood DEF GoodMeta
<1>8. b \in Acts /\ b.op = "grow" /\ b.then = "none" /\ b.a = i + 1 /\ b.end = act[p].end
  BY <1>1, <1>2, <1>4, <1>5, ZenonT(40) DEF Acts
<1>9. /\ t \in [Pages -> Ptes] /\ t[i].v = TRUE /\ t[i].pg = FALSE
      /\ \A j \in Pages \ {i} : t[j] = pagetable[p][j]
  BY <1>2, <1>4, kallocFacts, PteFacts, PteStep
<1>10. /\ pagetable' = [pagetable EXCEPT ![p] = t]
       /\ sidetable' = [sidetable EXCEPT ![p] = u]
       /\ meta' = [meta EXCEPT ![p] = m] /\ act' = [act EXCEPT ![p] = b]
       /\ pstate' = pstate /\ parent' = parent /\ sz' = sz
  <2>1. sidetable' = [sidetable EXCEPT ![p] = u]
    BY <1>2, Zenon DEF GrowMap, TypeOK
  <2> QED  BY <2>1, Zenon DEF GrowMap
<1>11. /\ free' \subseteq Frames /\ mem' \in [Frames -> Contents]
       /\ shadow' \in [Procs -> [Pages -> Contents]] /\ UNCHANGED <<swapFile, want>>
  BY <1>2, <1>4, ContentsFacts, Zenon DEF GrowMap, TypeOK
<1> HIDE DEF t, m, b
<1>12. /\ pagetable' \in [Procs -> [Pages -> Ptes]]
       /\ sidetable' \in [Procs -> [Pages -> Ptes]]
       /\ meta' \in [Procs -> Metas] /\ act' \in [Procs -> Acts]
       /\ pagetable'[p] = t /\ sidetable'[p] = u /\ meta'[p] = m /\ act'[p] = b
       /\ \A q \in Procs \ {p} : /\ act'[q] = act[q] /\ meta'[q] = meta[q]
                                 /\ pagetable'[q] = pagetable[q]
                                 /\ sidetable'[q] = sidetable[q]
  BY <1>2, <1>7, <1>8, <1>9, <1>10, OwnValues, Zenon
<1>13. TypeOK'
  BY <1>2, <1>10, <1>11, <1>12, Zenon DEF TypeOK
<1>14. ~Foreign(p)'
  BY <1>8, <1>12, Zenon DEF Foreign
<1>15. ActOK(p)'
  <2>1. sz[p] <= i + 1 /\ i + 1 <= act[p].end
    BY <1>2, <1>3, <1>4, <1>5
  <2> QED  BY <1>1, <1>8, <1>10, <1>12, <1>14, <2>1, Zenon DEF ActOK
<1>16. TablesOK(p)'
  <2>1. /\ \A j \in Pages : j < i => j < i + 1
        /\ i < i + 1
    BY <1>4 DEF Pages
  <2>2. \A j \in Pages : (t[j].v => j < i + 1) /\ (t[j].pg => ~t[j].v)
    BY <1>1, <1>2, <1>9, <2>1, Zenon DEF TablesOK, PageOK
  <2>3. \A j \in Pages : ~sidetable[p][j].v
    BY <1>1, <1>2, <1>5, Zenon DEF TablesOK, PageOK
  <2> SUFFICES ASSUME NEW j \in Pages PROVE PageOK(p, j)'
    BY Zenon DEF TablesOK
  <2>4. /\ act'[p].op = "grow" /\ act'[p].then = "none" /\ act'[p].a = i + 1
        /\ pstate'[p] = "RUN" /\ pagetable'[p] = t /\ sidetable'[p] = sidetable[p]
    BY <1>1, <1>8, <1>10, <1>12, Zenon
  <2> QED  BY <2>2, <2>3, <2>4, Zenon DEF PageOK
<1>17. MetaOK(p)'
  <2>1. Tracked(p)' = t
    BY <1>8, <1>12, Zenon DEF Tracked
  <2>2. \A j \in Used(m) : t[j].v
    BY <1>1, <1>2, <1>6, <1>7, <1>9, Zenon DEF MetaOK, Used
  <2> QED  BY <1>1, <1>7, <1>10, <1>12, <2>1, <2>2, Zenon DEF MetaOK, GoodMeta, Used
<1> QED
  BY <1>1, <1>10, <1>12, <1>13, <1>14, <1>15, <1>16, <1>17, LocalStep, Zenon

\* page_to_file() in uvmalloc().
LEMMA GrowEvictInv ==
  ASSUME Inv, NEW p \in Procs, GrowEvict(p), EvictPanic(p, getOffset(p)) = "none"
  PROVE  Inv'
<1> DEFINE i == getIndexToRemove(p)
           off == getOffset(p)
           e == page_to_file(p, off)
           t == e.tab
           u == sidetable[p]
           m == e.meta
           b == [act[p] EXCEPT !.op = "map"]
<1>1. pstate[p] = "RUN" /\ act[p].op = "grow" /\ act[p].a < act[p].end
  BY Zenon DEF GrowEvict, Running
<1>2. /\ TypeOK /\ ActOK(p) /\ TablesOK(p) /\ MetaOK(p) /\ GoodMeta(meta[p])
      /\ pagetable[p] \in [Pages -> Ptes] /\ sidetable[p] \in [Pages -> Ptes]
      /\ act[p] \in Acts /\ sz[p] \in 0 .. MAX_TOTAL_PAGES
      /\ act[p].a \in 0 .. MAX_TOTAL_PAGES /\ act[p].end \in 0 .. MAX_TOTAL_PAGES
  BY ProcFacts, Zenon
<1>3. ~HasRoom(meta[p])
  BY Zenon DEF GrowEvict
<1>4. off \in Pages
  BY <1>2, getOffsetType, Zenon
<1>5. i \in Pages
  BY <1>2, <1>3, EvictVictim, Zenon
<1>6. GoodMeta(m) /\ Used(m) = Used(meta[p]) \ {i} /\ m.pagesInMemory < MAX_PSYC_PAGES
  BY <1>2, <1>3, <1>4, EvictedFacts, Zenon
<1>7. m \in Metas
  BY <1>6, Zenon DEF GoodMeta
<1>8. act[p].then = "none" /\ Tracked(p) = pagetable[p] /\ sz[p] <= act[p].a
  BY <1>1, <1>2, Zenon DEF ActOK, Tracked
<1>9. b \in Acts /\ b.op = "map" /\ b.then = "none" /\ b.a = act[p].a /\ b.end = act[p].end
  BY <1>1, <1>2, <1>8, Zenon DEF Acts
<1>10. Without(pagetable[p], t, i)
  BY <1>2, EvictedTableGood, Zenon
<1>11. e.frame \in Frames /\ e.file \in Seq(Contents)
  BY <1>2, <1>3, <1>4, EvictedFacts, Zenon
<1>12. /\ pagetable' = [pagetable EXCEPT ![p] = t]
       /\ sidetable' = [sidetable EXCEPT ![p] = u]
       /\ meta' = [meta EXCEPT ![p] = m] /\ act' = [act EXCEPT ![p] = b]
       /\ pstate' = pstate /\ parent' = parent /\ sz' = sz
  BY <1>2, Zenon DEF GrowEvict, TypeOK
<1>13. /\ swapFile' = [swapFile EXCEPT ![p] = e.file] /\ free' = free \cup {e.frame}
       /\ mem' = [mem EXCEPT ![e.frame] = Junk] /\ UNCHANGED <<want, shadow>>
  BY Zenon DEF GrowEvict
<1> HIDE DEF t, m, b, e, i, off
<1>14. /\ free' \subseteq Frames /\ mem' \in [Frames -> Contents]
       /\ swapFile' \in [Procs -> Seq(Contents)]
  BY <1>2, <1>11, <1>13, ContentsFacts, Zenon DEF TypeOK
<1>15. /\ pagetable' \in [Procs -> [Pages -> Ptes]]
       /\ sidetable' \in [Procs -> [Pages -> Ptes]]
       /\ meta' \in [Procs -> Metas] /\ act' \in [Procs -> Acts]
       /\ pagetable'[p] = t /\ sidetable'[p] = u /\ meta'[p] = m /\ act'[p] = b
       /\ \A q \in Procs \ {p} : /\ act'[q] = act[q] /\ meta'[q] = meta[q]
                                 /\ pagetable'[q] = pagetable[q]
                                 /\ sidetable'[q] = sidetable[q]
  BY <1>2, <1>7, <1>9, <1>10, <1>12, OwnValues, Zenon DEF Without
<1>16. TypeOK'
  BY <1>2, <1>12, <1>13, <1>14, <1>15, Zenon DEF TypeOK
<1>17. ~Foreign(p)'
  BY <1>9, <1>15, ZenonT(40) DEF Foreign
<1>18. ActOK(p)'
  <2>1. act[p].a <= act[p].end
    BY <1>1, <1>2
  <2> QED  BY <1>1, <1>6, <1>8, <1>9, <1>12, <1>15, <1>17, <2>1, ZenonT(40) DEF ActOK
<1>19. TablesOK(p)'
  <2>1. \A j \in Pages : (t[j].v => j < act[p].a) /\ (t[j].pg => ~t[j].v)
    BY <1>1, <1>2, <1>10, Zenon DEF TablesOK, PageOK, Without
  <2>2. \A j \in Pages : ~sidetable[p][j].v
    BY <1>1, <1>2, <1>8, Zenon DEF TablesOK, PageOK
  <2> QED  BY <1>1, <1>9, <1>12, <1>15, <2>1, <2>2, ZenonT(40) DEF TablesOK, PageOK
<1>20. MetaOK(p)'
  <2>1. Tracked(p)' = t
    BY <1>9, <1>15, Zenon DEF Tracked
  <2>2. \A j \in Used(m) : t[j].v
    BY <1>1, <1>2, <1>6, <1>8, <1>10, Zenon DEF MetaOK, Used, Without
  <2> QED  BY <1>1, <1>6, <1>12, <1>15, <2>1, <2>2, Zenon DEF MetaOK, GoodMeta, Used
<1> QED
  BY <1>1, <1>12, <1>15, <1>16, <1>17, <1>18, <1>19, <1>20, LocalStep, Zenon

-----------------------------------------------------------------------------
(***************************************************************************)
(* The user, the page-fault handler and the clock.                         *)
(***************************************************************************)

\* Where a process is in the kernel depends on the bits of its page table and on
\* the slots and the counter of its metadata, not on what else they hold.
LEMMA ActKept ==
  ASSUME NEW p \in Procs, ActOK(p), act' = act, pstate' = pstate, parent' = parent, sz' = sz,
         \A j \in Pages : pagetable'[p][j].v = pagetable[p][j].v,
         meta'[p].offset = meta[p].offset,
         meta'[p].pagesInMemory = meta[p].pagesInMemory
  PROVE  ActOK(p)'
<1>1. \A q \in Procs : Foreign(q)' = Foreign(q)
  BY Zenon DEF Foreign
<1> QED
  BY <1>1 DEF ActOK

\* A step, a panic() for instance, that leaves all but panic alone.
LEMMA StutterInv ==
  ASSUME Inv, UNCHANGED <<pstate, parent, sz, pt, meta, swapFile, free, mem, act, want,
                          shadow>>
  PROVE  Inv'
<1>1. TypeOK'
  BY ZenonT(40) DEF Inv, TypeOK, pt
<1>2. \A p \in Procs : ActOK(p)'
  BY ActKept, ZenonT(40) DEF Inv, pt
<1>3. ASSUME NEW p \in Procs PROVE TablesOK(p)'
  <2>1. TablesOK(p) /\ UNCHANGED <<pstate, sz, act, pagetable, sidetable>>
    BY Zenon DEF Inv, pt
  <2> QED  BY <2>1, TablesKept, Zenon
<1>4. \A p \in Procs : MetaOK(p)'
  BY Zenon DEF Inv, MetaOK, GoodMeta, Used, Tracked, pt
<1> QED
  BY <1>1, <1>2, <1>3, <1>4, Zenon DEF Inv

\* The user writes a page.
LEMMA TouchInv ==
  ASSUME Inv, NEW p \in Procs, NEW i \in Pages, NEW v \in Versions, Touch(p, i, v)
  PROVE  Inv'
<1> DEFINE e == [pagetable[p][i] EXCEPT !.a = TRUE]
           t == [pagetable[p] EXCEPT ![i] = e]
           u == sidetable[p]
           m == meta[p]
           b == act[p]
<1>1. pstate[p] = "RUN" /\ act[p] = Idle
  BY Zenon DEF Touch, InUser, Running
<1>2. /\ TypeOK /\ ActOK(p) /\ TablesOK(p) /\ MetaOK(p) /\ GoodMeta(meta[p])
      /\ pagetable[p] \in [Pages -> Ptes] /\ sidetable[p] \in [Pages -> Ptes]
      /\ act[p] \in Acts /\ sz[p] \in 0 .. MAX_TOTAL_PAGES
      /\ act[p].a \in 0 .. MAX_TOTAL_PAGES /\ act[p].end \in 0 .. MAX_TOTAL_PAGES
      /\ act[p].buf \in Frames \cup {NoFrame}
  BY ProcFacts, Zenon
<1>3. e \in Ptes /\ e.v = pagetable[p][i].v /\ e.pg = pagetable[p][i].pg
  BY <1>2, PteAccessed, Zenon
<1>4. /\ pagetable' = [pagetable EXCEPT ![p] = t]
      /\ sidetable' = [sidetable EXCEPT ![p] = u]
      /\ meta' = [meta EXCEPT ![p] = m] /\ act' = [act EXCEPT ![p] = b]
      /\ pstate' = pstate /\ parent' = parent /\ sz' = sz
  BY <1>2, Zenon DEF Touch, TypeOK
<1>5. /\ UNCHANGED <<swapFile, free>> /\ mem' \in [Frames -> Contents]
      /\ shadow' \in [Procs -> [Pages -> Contents]]
      /\ want' \in [Procs -> Pages \cup {NoWant}]
  BY <1>2, ContentsFacts, Zenon DEF Touch, TypeOK
<1> HIDE DEF e
<1>6. /\ t \in [Pages -> Ptes]
      /\ \A j \in Pages : t[j].v = pagetable[p][j].v /\ t[j].pg = pagetable[p][j].pg
  BY <1>2, <1>3, PteStep, Zenon
<1>7. m \in Metas
  BY <1>2, Zenon DEF GoodMeta
<1> HIDE DEF t
<1>8.  /\ pagetable' \in [Procs -> [Pages -> Ptes]]
       /\ sidetable' \in [Procs -> [Pages -> Ptes]]
       /\ meta' \in [Procs -> Metas] /\ act' \in [Procs -> Acts]
       /\ pagetable'[p] = t /\ sidetable'[p] = u /\ meta'[p] = m /\ act'[p] = b
       /\ \A q \in Procs \ {p} : /\ act'[q] = act[q] /\ meta'[q] = meta[q]
                                 /\ pagetable'[q] = pagetable[q]
                                 /\ sidetable'[q] = sidetable[q]
  BY <1>2, <1>4, <1>6, <1>7, OwnValues, Zenon
<1>9. TypeOK'
  BY <1>2, <1>4, <1>5, <1>8, Zenon DEF TypeOK
<1>10. ~Foreign(p)' /\ act'[p].op = "user" /\ act'[p].then = "none"
  BY <1>1, <1>8, IdleFacts, Zenon DEF Foreign
<1>11. ActOK(p)'
  BY <1>1, <1>4, <1>8, <1>10, ZenonT(40) DEF ActOK
<1>12. TablesOK(p)'
  <2>1. \A j \in Pages : /\ (t[j].v => j < sz[p]) /\ (t[j].pg => ~t[j].v) /\ ~u[j].v
    BY <1>1, <1>2, <1>6, IdleFacts, Zenon DEF TablesOK, PageOK
  <2>2. pstate'[p] = "RUN" /\ pagetable'[p] = t /\ sidetable'[p] = u /\ sz'[p] = sz[p]
    BY <1>1, <1>4, <1>8, Zenon
  <2>3. act'[p].op = "user" /\ act'[p].then = "none"
    BY <1>10, Zenon
  <2> HIDE DEF t, u
  <2> QED  BY <2>1, <2>2, <2>3, Zenon DEF TablesOK, PageOK
<1>13. MetaOK(p)'
  <2>1. Tracked(p)' = t /\ Tracked(p) = pagetable[p]
    BY <1>8, <1>10, Zenon DEF Tracked
  <2>2. \A j \in Used(meta[p]) : t[j].v
    BY <1>1, <1>2, <1>6, <2>1, Zenon DEF MetaOK, Used
  <2> QED  BY <1>1, <1>2, <1>4, <1>8, <2>1, <2>2, Zenon DEF MetaOK, GoodMeta, Used
<1> QED
  BY <1>1, <1>4, <1>8, <1>9, <1>10, <1>11, <1>12, <1>13, LocalStep, Zenon

\* swap_in() begins.
LEMMA SwapInStartInv ==
  ASSUME Inv, NEW p \in Procs, NEW i \in Pages, SwapInStart(p, i),
         meta[p].offset[i] # NoOffset, free # {}
  PROVE  Inv'
<1> DEFINE b == [Idle EXCEPT !.op = "swapin", !.a = i, !.buf = kalloc]
           t == pagetable[p]
           u == sidetable[p]
           m == meta[p]
<1>1. /\ pstate[p] = "RUN" /\ act[p] = Idle /\ pagetable[p][i].pg /\ i < sz[p]
  BY Zenon DEF SwapInStart, Faults, InUser, Running
<1>2. /\ TypeOK /\ ActOK(p) /\ TablesOK(p) /\ MetaOK(p) /\ GoodMeta(meta[p])
      /\ pagetable[p] \in [Pages -> Ptes] /\ sidetable[p] \in [Pages -> Ptes]
      /\ act[p] \in Acts /\ sz[p] \in 0 .. MAX_TOTAL_PAGES
      /\ act[p].a \in 0 .. MAX_TOTAL_PAGES /\ act[p].end \in 0 .. MAX_TOTAL_PAGES
      /\ act[p].buf \in Frames \cup {NoFrame}
  BY ProcFacts, Zenon
<1>3. kalloc \in Frames /\ i \in 0 .. MAX_TOTAL_PAGES
  BY <1>2, kallocFacts DEF Pages
<1>4. /\ pagetable' = [pagetable EXCEPT ![p] = t]
      /\ sidetable' = [sidetable EXCEPT ![p] = u]
      /\ meta' = [meta EXCEPT ![p] = m] /\ act' = [act EXCEPT ![p] = b]
      /\ pstate' = pstate /\ parent' = parent /\ sz' = sz
  <2>1. act' = [act EXCEPT ![p] = b] /\ UNCHANGED <<pstate, parent, sz, pt, meta>>
    BY Zenon DEF SwapInStart
  <2> QED  BY <1>2, <2>1, Zenon DEF TypeOK, pt
<1>5. /\ UNCHANGED <<swapFile, shadow>> /\ free' \subseteq Frames
      /\ mem' \in [Frames -> Contents] /\ want' \in [Procs -> Pages \cup {NoWant}]
  <2>1. meta[p].offset[i] \in Pages
    BY <1>2, Zenon DEF GoodMeta, Metas
  <2>2. meta[p].offset[i] \in Nat
    BY <2>1 DEF Pages
  <2>3. ReadAt(swapFile[p], meta[p].offset[i]) \in Contents
    BY <1>2, <2>2, ReadAtType, Zenon DEF TypeOK
  <2>4. /\ free' = free \ {kalloc} /\ want' = [want EXCEPT ![p] = i]
        /\ mem' = [mem EXCEPT ![kalloc] = ReadAt(swapFile[p], meta[p].offset[i])]
        /\ UNCHANGED <<swapFile, shadow>>
    BY Zenon DEF SwapInStart
  <2> QED  BY <1>2, <2>3, <2>4, Zenon DEF TypeOK
<1>6. b \in Acts /\ b.op = "swapin" /\ b.then = "none" /\ b.a = i
  <2>1. b \in Acts
    BY <1>3, IdleFacts, Zenon DEF Acts
  <2> QED  BY <2>1, Zenon DEF Idle
<1>7. m \in Metas /\ act[p].op = "user" /\ act[p].then = "none"
  BY <1>1, <1>2, IdleFacts, Zenon DEF GoodMeta
<1> HIDE DEF b
<1>8.  /\ pagetable' \in [Procs -> [Pages -> Ptes]]
       /\ sidetable' \in [Procs -> [Pages -> Ptes]]
       /\ meta' \in [Procs -> Metas] /\ act' \in [Procs -> Acts]
       /\ pagetable'[p] = t /\ sidetable'[p] = u /\ meta'[p] = m /\ act'[p] = b
       /\ \A q \in Procs \ {p} : /\ act'[q] = act[q] /\ meta'[q] = meta[q]
                                 /\ pagetable'[q] = pagetable[q]
                                 /\ sidetable'[q] = sidetable[q]
  BY <1>2, <1>4, <1>6, <1>7, OwnValues, Zenon
<1>9. TypeOK'
  BY <1>2, <1>4, <1>5, <1>8, Zenon DEF TypeOK
<1>10. ~Foreign(p)'
  BY <1>6, <1>8, Zenon DEF Foreign
<1>11. ActOK(p)'
  <2>1. ~pagetable[p][i].v
    BY <1>1, <1>2, Zenon DEF TablesOK, PageOK
  <2> QED  BY <1>1, <1>4, <1>6, <1>8, <1>10, <2>1, Zenon DEF ActOK
<1>12. TablesOK(p)'
  BY <1>1, <1>2, <1>4, <1>6, <1>7, <1>8, ZenonT(40) DEF TablesOK, PageOK
<1>13. MetaOK(p)'
  <2>1. Tracked(p)' = t /\ Tracked(p) = pagetable[p]
    BY <1>6, <1>7, <1>8, Zenon DEF Tracked
  <2> QED  BY <1>1, <1>2, <1>4, <1>8, <2>1 DEF MetaOK, GoodMeta, Used
<1> QED
  BY <1>1, <1>4, <1>8, <1>9, <1>10, <1>11, <1>12, <1>13, LocalStep, Zenon

\* swap_in() returns, whatever table t and metadata m it leaves, if they agree.
LEMMA SwapInReturns ==
  ASSUME Inv, NEW p \in Procs, NEW t \in [Pages -> Ptes], NEW m, GoodMeta(m),
         pstate[p] = "RUN", act[p].op = "swapin", act[p].then = "none",
         Below(t, sz[p]), Resident(t, Used(m)),
         pagetable' = [pagetable EXCEPT ![p] = t], meta' = [meta EXCEPT ![p] = m],
         act' = [act EXCEPT ![p] = Idle], UNCHANGED <<pstate, parent, sz, sidetable, want, shadow>>,
         swapFile' \in [Procs -> Seq(Contents)], free' \subseteq Frames,
         mem' \in [Frames -> Contents]
  PROVE  Inv'
<1>1. TypeOK /\ TablesOK(p) /\ m \in Metas /\ sidetable[p] \in [Pages -> Ptes]
  BY Zenon DEF Inv, TypeOK, GoodMeta
<1>2. /\ pagetable' \in [Procs -> [Pages -> Ptes]] /\ meta' \in [Procs -> Metas]
      /\ act' \in [Procs -> Acts] /\ pagetable'[p] = t /\ meta'[p] = m /\ act'[p] = Idle
      /\ sidetable'[p] = sidetable[p]
      /\ \A q \in Procs \ {p} : /\ act'[q] = act[q] /\ meta'[q] = meta[q]
                                /\ pagetable'[q] = pagetable[q]
                                /\ sidetable'[q] = sidetable[q]
  BY <1>1, IdleFacts, Zenon DEF TypeOK
<1>3. TypeOK'
  BY <1>1, <1>2, Zenon DEF TypeOK
<1>4. ~Foreign(p)' /\ act'[p].op = "user" /\ act'[p].then = "none"
  BY <1>2, IdleFacts, Zenon DEF Foreign
<1>5. ActOK(p)'
  BY <1>2, <1>4, Zenon DEF ActOK
<1>6. TablesOK(p)'
  <2>1. \A j \in Pages : ~sidetable[p][j].v
    BY <1>1, Zenon DEF TablesOK, PageOK
  <2> QED  BY <1>2, <1>4, <2>1, Zenon DEF TablesOK, PageOK, Below
<1>7. MetaOK(p)'
  <2>1. Tracked(p)' = t
    BY <1>2, <1>4, Zenon DEF Tracked
  <2> QED  BY <1>2, <2>1, Zenon DEF MetaOK, GoodMeta, Used, Resident
<1> QED
  BY <1>2, <1>3, <1>4, <1>5, <1>6, <1>7, LocalStep, Zenon

\* The metadata of a page that is back: from metadata that does not have it.
LEMMA BackGood ==
  ASSUME NEW n, GoodMeta(n), NEW i \in Pages, ~n.inUse[i], n.pagesInMemory < MAX_PSYC_PAGES
  PROVE  GoodMeta(Back(n, i)) /\ Used(Back(n, i)) = Used(n) \cup {i}
<1> DEFINE k == SlotForgotten(n, i)
<1>1. /\ GoodMeta(k) /\ Used(k) = Used(n) /\ k.inUse = n.inUse
      /\ k.pagesInMemory = n.pagesInMemory
  BY SlotForgottenGood, Zenon
<1>2. Back(n, i) = MadeResident(k, i)
  BY Zenon DEF Back
<1> HIDE DEF k
<1> QED
  BY <1>1, <1>2, MadeResidentGood

\* swap_in() returns, with room to spare.
LEMMA SwapInRoomInv ==
  ASSUME Inv, NEW p \in Procs, Running(p), act[p].op = "swapin", SwapInRoom(p, act[p].a),
         UNCHANGED <<pstate, parent, sz, sidetable, want, shadow>>
  PROVE  Inv'
<1> DEFINE i == act[p].a
           e == [UserPte(act[p].buf) EXCEPT !.leaf = FALSE]
           t == [pagetable[p] EXCEPT ![i] = e]
           m == Back(meta[p], i)
<1>1. pstate[p] = "RUN" /\ meta[p].pagesInMemory < MAX_PSYC_PAGES
  BY Zenon DEF Running, SwapInRoom, HasRoom
<1>2. /\ i \in Pages /\ i < sz[p] /\ ~pagetable[p][i].v /\ act[p].then = "none"
      /\ act[p].buf \in Frames \cup {NoFrame} /\ GoodMeta(meta[p]) /\ ~meta[p].inUse[i]
      /\ pagetable[p] \in [Pages -> Ptes] /\ \A j \in Used(meta[p]) : pagetable[p][j].v
      /\ \A j \in Pages : /\ pagetable[p][j].v => j < sz[p]
                          /\ pagetable[p][j].pg => ~pagetable[p][j].v
  BY <1>1, SwapInFacts, Zenon
<1>3. TypeOK
  BY Zenon DEF Inv
<1>4. GoodMeta(m) /\ Used(m) = Used(meta[p]) \cup {i}
  BY <1>1, <1>2, BackGood, Zenon
<1>5. e \in Ptes /\ e.v = TRUE /\ e.pg = FALSE
  BY <1>2, PteVOnly, Zenon
<1>6. pagetable' = [pagetable EXCEPT ![p] = t] /\ meta' = [meta EXCEPT ![p] = m]
      /\ act' = [act EXCEPT ![p] = Idle] /\ UNCHANGED <<swapFile, free, mem>>
  BY Zenon DEF SwapInRoom
<1> HIDE DEF e
<1>7. /\ t \in [Pages -> Ptes] /\ t[i].v = TRUE /\ t[i].pg = FALSE
      /\ \A j \in Pages \ {i} : t[j] = pagetable[p][j]
  <2>1. /\ i \in Pages /\ pagetable[p] \in [Pages -> Ptes]
        /\ e \in Ptes /\ e.v = TRUE /\ e.pg = FALSE
    BY <1>2, <1>5, Zenon
  <2> QED  BY <2>1, Zenon
<1> HIDE DEF t, m
<1>8. Below(t, sz[p])
  BY <1>2, <1>7, Zenon DEF Below
<1>9. Resident(t, Used(m))
  BY <1>2, <1>4, <1>7, Zenon DEF Used, Resident
<1>10. /\ swapFile' \in [Procs -> Seq(Contents)] /\ free' \subseteq Frames
       /\ mem' \in [Frames -> Contents]
  BY <1>3, <1>6, Zenon DEF TypeOK
<1> QED
  BY <1>1, <1>2, <1>4, <1>6, <1>7, <1>8, <1>9, <1>10, SwapInReturns, Zenon

\* The table that swap_in() leaves when it has evicted page x from its table:
\* page i is mapped by g.
LEMMA TableBack ==
  ASSUME NEW p \in Procs, NEW i \in Pages, i < sz[p], NEW g \in Ptes, g.v = TRUE, g.pg = FALSE,
         NEW tab, NEW x, Without(pagetable[p], tab, x), Below(pagetable[p], sz[p]),
         Resident(pagetable[p], Used(meta[p]))
  PROVE  LET t == [tab EXCEPT ![i] = g]
         IN  /\ t \in [Pages -> Ptes]
             /\ Below(t, sz[p])
             /\ Resident(t, (Used(meta[p]) \ {x}) \cup {i})
<1> DEFINE t == [tab EXCEPT ![i] = g]
<1>1. t \in [Pages -> Ptes] /\ t[i] = g /\ \A j \in Pages \ {i} : t[j] = tab[j]
  BY PteStep DEF Without
<1> HIDE DEF t
<1>2. Below(t, sz[p])
  BY <1>1, Zenon DEF Below, Without
<1>3. Resident(t, (Used(meta[p]) \ {x}) \cup {i})
  BY <1>1, Zenon DEF Without, Resident, Used
<1> QED
  BY <1>1, <1>2, <1>3, Zenon DEF t

\* swap_in() returns, having evicted another page.
LEMMA SwapInEvictInv ==
  ASSUME Inv, NEW p \in Procs, Running(p), act[p].op = "swapin",
         EvictPanic(p, meta[p].offset[act[p].a]) = "none",
         SwapInEvict(p, act[p].a, page_to_file(p, meta[p].offset[act[p].a])),
         UNCHANGED <<pstate, parent, sz, sidetable, want, shadow>>
  PROVE  Inv'
<1> DEFINE i == act[p].a
           x == getIndexToRemove(p)
           e == page_to_file(p, meta[p].offset[i])
           tab == e.tab
           n == e.meta
           g == [tab[i] EXCEPT !.v = TRUE, !.pg = FALSE, !.frame = act[p].buf]
           t == [tab EXCEPT ![i] = g]
           m == Back(n, i)
<1>0. TypeOK /\ GoodMeta(meta[p])
  BY Zenon DEF Inv, MetaOK
<1>1. pstate[p] = "RUN" /\ ~HasRoom(meta[p])
  BY Zenon DEF Running, SwapInEvict
<1>2. i \in Pages /\ i < sz[p] /\ act[p].then = "none" /\ ~meta[p].inUse[i]
  BY <1>1, SwapInFacts, Zenon
<1>3. act[p].buf \in Frames \cup {NoFrame} /\ meta[p].offset[i] \in Pages
  BY <1>1, SwapInFacts, Zenon
<1>4. /\ pagetable[p] \in [Pages -> Ptes] /\ Resident(pagetable[p], Used(meta[p]))
      /\ Below(pagetable[p], sz[p])
  BY <1>1, SwapInFacts, Zenon DEF Below, Resident
<1>6. Without(pagetable[p], tab, x)
  BY <1>4, EvictedTableGood, Zenon
<1>7. GoodMeta(n) /\ Used(n) = Used(meta[p]) \ {x} /\ n.pagesInMemory < MAX_PSYC_PAGES
  BY <1>0, <1>1, <1>3, EvictedFacts, Zenon
<1>8. e.frame \in Frames /\ e.file \in Seq(Contents)
  BY <1>0, <1>1, <1>3, EvictedFacts, Zenon
<1>9. /\ pagetable' = [pagetable EXCEPT ![p] = t] /\ meta' = [meta EXCEPT ![p] = m]
      /\ act' = [act EXCEPT ![p] = Idle]
  BY Zenon DEF SwapInEvict
<1>10. /\ swapFile' = [swapFile EXCEPT ![p] = e.file] /\ free' = free \cup {e.frame}
       /\ mem' = [mem EXCEPT ![e.frame] = Junk]
  BY Zenon DEF SwapInEvict
<1> HIDE DEF tab, n, e, x
<1>11. GoodMeta(m) /\ Used(m) = (Used(meta[p]) \ {x}) \cup {i}
  <2>1. ~n.inUse[i]
    BY <1>2, <1>7, Zenon DEF Used
  <2>2. GoodMeta(m) /\ Used(m) = Used(n) \cup {i}
    BY <1>2, <1>7, <2>1, BackGood, Zenon
  <2> QED  BY <1>7, <2>2, Zenon
<1>12. tab[i] \in Ptes
  BY <1>2, <1>6, Zenon DEF Without
<1>13. g \in Ptes /\ g.v = TRUE /\ g.pg = FALSE
  BY <1>3, <1>12, PteBack, Zenon
<1> HIDE DEF g
<1>15. /\ t \in [Pages -> Ptes] /\ Below(t, sz[p])
       /\ Resident(t, (Used(meta[p]) \ {x}) \cup {i})
  BY <1>2, <1>4, <1>6, <1>13, TableBack, Zenon
<1> HIDE DEF t, m, i
<1>16. Resident(t, Used(m))
  BY <1>11, <1>15, Zenon
<1>17. /\ swapFile' \in [Procs -> Seq(Contents)] /\ free' \subseteq Frames
       /\ mem' \in [Frames -> Contents]
  <2>1. /\ swapFile \in [Procs -> Seq(Contents)] /\ free \subseteq Frames
        /\ mem \in [Frames -> Contents]
    BY Zenon DEF Inv, TypeOK
  <2> QED  BY <1>8, <1>10, <2>1, ContentsFacts, Zenon
<1> QED
  BY <1>1, <1>2, <1>9, <1>11, <1>15, <1>16, <1>17, SwapInReturns, Zenon

\* updateAging() keeps the metadata good.
LEMMA AgedGood ==
  ASSUME NEW n, GoodMeta(n), NEW g \in [Pages -> 0 .. 2 * TopBit - 1]
  PROVE  /\ GoodMeta([n EXCEPT !.aging = g])
         /\ Used([n EXCEPT !.aging = g]) = Used(n)
         /\ [n EXCEPT !.aging = g].offset = n.offset
         /\ [n EXCEPT !.aging = g].pagesInMemory = n.pagesInMemory
<1> DEFINE k == [n EXCEPT !.aging = g]
<1>1. /\ k \in Metas /\ k.inUse = n.inUse /\ k.queue = n.queue
      /\ k.pagesInMemory = n.pagesInMemory /\ k.offset = n.offset
  BY Zenon DEF Metas, GoodMeta
<1>2. Used(k) = Used(n)
  BY <1>1, Zenon DEF Used
<1> HIDE DEF k
<1>3. GoodMeta(k)
  BY <1>1, <1>2, Zenon DEF GoodMeta
<1> QED
  BY <1>1, <1>2, <1>3, Zenon DEF k

\* The scheduler ages the pages.
LEMMA TickInv ==
  ASSUME Inv, NEW p \in Procs, Tick(p)
  PROVE  Inv'
<1> DEFINE Old(j) == meta[p].aging[j]
           g == updateAging(p)
           t == AccessReset(p)
           u == sidetable[p]
           m == [meta[p] EXCEPT !.aging = g]
           b == act[p]
<1>1. pstate[p] = "RUN"
  BY Zenon DEF Tick, Running
<1>2. /\ TypeOK /\ ActOK(p) /\ TablesOK(p) /\ MetaOK(p) /\ GoodMeta(meta[p])
      /\ pagetable[p] \in [Pages -> Ptes] /\ sidetable[p] \in [Pages -> Ptes]
      /\ act[p] \in Acts /\ sz[p] \in 0 .. MAX_TOTAL_PAGES
      /\ act[p].a \in 0 .. MAX_TOTAL_PAGES /\ act[p].end \in 0 .. MAX_TOTAL_PAGES
      /\ act[p].buf \in Frames \cup {NoFrame}
  BY ProcFacts, Zenon
<1>3. g \in [Pages -> 0 .. 2 * TopBit - 1]
  <2>1. \A j \in Pages : Old(j) \in 0 .. 2 * TopBit - 1
    BY <1>2, Zenon DEF GoodMeta, Metas
  <2>2. \A x \in 0 .. 2 * TopBit - 1 : /\ x \div 2 \in 0 .. 2 * TopBit - 1
                                       /\ x \div 2 + TopBit \in 0 .. 2 * TopBit - 1
    BY LimitsAssumption
  <2> HIDE DEF Old
  <2>3. \A j \in Pages : Old(j) \div 2 + 0 \in 0 .. 2 * TopBit - 1
    BY <2>1, <2>2
  <2>4. g = [j \in Pages |-> IF ~pagetable[p][j].v THEN Old(j)
                            ELSE Old(j) \div 2 + (IF pagetable[p][j].a THEN TopBit ELSE 0)]
    BY Zenon DEF updateAging, Old
  <2> HIDE DEF g
  <2> QED  BY <2>1, <2>2, <2>3, <2>4, Zenon
<1>4. /\ pagetable' = [pagetable EXCEPT ![p] = t]
      /\ sidetable' = [sidetable EXCEPT ![p] = u]
      /\ meta' = [meta EXCEPT ![p] = m] /\ act' = [act EXCEPT ![p] = b]
      /\ pstate' = pstate /\ parent' = parent
      /\ sz' = sz
  <2>1. sidetable' = [sidetable EXCEPT ![p] = u] /\ act' = [act EXCEPT ![p] = b]
    BY <1>2, Zenon DEF Tick, TypeOK
  <2> QED  BY <2>1, Zenon DEF Tick
<1>5. UNCHANGED <<swapFile, free, mem, want, shadow>>
  BY Zenon DEF Tick
<1> HIDE DEF g
<1>6. /\ m \in Metas /\ GoodMeta(m) /\ Used(m) = Used(meta[p])
      /\ m.offset = meta[p].offset /\ m.pagesInMemory = meta[p].pagesInMemory
  BY <1>2, <1>3, AgedGood, Zenon DEF GoodMeta
<1>7. /\ t \in [Pages -> Ptes]
      /\ \A j \in Pages : t[j].v = pagetable[p][j].v /\ t[j].pg = pagetable[p][j].pg
  <2> DEFINE c(j) == [pagetable[p][j] EXCEPT !.a = FALSE]
  <2>1. \A j \in Pages : /\ c(j) \in Ptes /\ c(j).v = pagetable[p][j].v
                         /\ c(j).pg = pagetable[p][j].pg
    BY <1>2, PteAccessed, Zenon
  <2>2. t = [j \in Pages |-> IF pagetable[p][j].v THEN c(j) ELSE pagetable[p][j]]
    BY Zenon DEF AccessReset
  <2> HIDE DEF c, t
  <2> QED  BY <1>2, <2>1, <2>2, Zenon
<1> HIDE DEF t, m
<1>8.  /\ pagetable' \in [Procs -> [Pages -> Ptes]]
       /\ sidetable' \in [Procs -> [Pages -> Ptes]]
       /\ meta' \in [Procs -> Metas] /\ act' \in [Procs -> Acts]
       /\ pagetable'[p] = t /\ sidetable'[p] = u /\ meta'[p] = m /\ act'[p] = b
       /\ \A q \in Procs \ {p} : /\ act'[q] = act[q] /\ meta'[q] = meta[q]
                                 /\ pagetable'[q] = pagetable[q]
                                 /\ sidetable'[q] = sidetable[q]
  BY <1>2, <1>4, <1>6, <1>7, OwnValues, Zenon
<1>9. TypeOK'
  BY <1>2, <1>4, <1>5, <1>8, Zenon DEF TypeOK
<1>10. \A q \in Procs : act'[q] = act[q] /\ Foreign(q)' = Foreign(q)
  BY <1>8, ZenonT(40) DEF Foreign
<1>11. ActOK(p)'
  <2>1. act' = act
    BY <1>2, <1>4, ZenonT(40) DEF TypeOK
  <2> QED  BY <1>2, <1>4, <1>6, <1>7, <1>8, <2>1, ActKept, Zenon
<1>12. TablesOK(p)'
  <2>1. Foreign(p) => act[p].who \in Procs \ {p}
    BY <1>1, <1>2, Zenon DEF ActOK, Foreign
  <2>2. Foreign(p) => pagetable'[act[p].who] = pagetable[act[p].who]
    BY <1>8, <2>1, ZenonT(40)
  <2> QED  BY <1>2, <1>4, <1>7, <1>8, <2>2, TablesKept, Zenon
<1>13. MetaOK(p)'
  <2>1. \A j \in Pages : Tracked(p)'[j].v = Tracked(p)[j].v
    BY <1>7, <1>8, Zenon DEF Tracked
  <2> QED  BY <1>1, <1>2, <1>4, <1>6, <1>8, <2>1, Zenon DEF MetaOK, GoodMeta, Used
<1> QED
  BY <1>1, <1>4, <1>8, <1>9, <1>10, <1>11, <1>12, <1>13, LocalStep, Zenon

-----------------------------------------------------------------------------
(***************************************************************************)
(* The steps of exec(), and of uvmunmap() on the memory of the process     *)
(* itself.                                                                 *)
(***************************************************************************)

\* exec() begins.
LEMMA ExecInv ==
  ASSUME Inv, NEW p \in Procs, NEW n \in Images, Exec(p, n)
  PROVE  Inv'
<1> DEFINE b == [Idle EXCEPT !.op = "exec", !.end = n]
           t == pagetable[p]
           u == sidetable[p]
           m == NoMeta
<1>1. pstate[p] = "RUN" /\ act[p] = Idle
  BY Zenon DEF Exec, Syscall, InUser, Running
<1>2. /\ TypeOK /\ ActOK(p) /\ TablesOK(p) /\ MetaOK(p) /\ GoodMeta(meta[p])
      /\ pagetable[p] \in [Pages -> Ptes] /\ sidetable[p] \in [Pages -> Ptes]
      /\ act[p] \in Acts /\ sz[p] \in 0 .. MAX_TOTAL_PAGES
      /\ act[p].a \in 0 .. MAX_TOTAL_PAGES /\ act[p].end \in 0 .. MAX_TOTAL_PAGES
      /\ act[p].buf \in Frames \cup {NoFrame}
  BY ProcFacts, Zenon
<1>3. n \in 0 .. MAX_TOTAL_PAGES /\ n <= MAX_PSYC_PAGES /\ 0 <= n
  BY LimitsAssumption
<1>4. /\ pagetable' = [pagetable EXCEPT ![p] = t]
      /\ sidetable' = [sidetable EXCEPT ![p] = u]
      /\ meta' = [meta EXCEPT ![p] = m] /\ act' = [act EXCEPT ![p] = b]
      /\ pstate' = pstate /\ parent' = parent /\ sz' = sz
  BY <1>2, Zenon DEF Exec, TypeOK, pt
<1>5. UNCHANGED <<swapFile, free, mem, want, shadow>>
  BY Zenon DEF Exec
<1>6. b \in Acts /\ b.op = "exec" /\ b.then = "none" /\ b.a = 0 /\ b.end = n
  <2>1. b \in Acts
    BY <1>3, IdleFacts, Zenon DEF Acts
  <2> QED  BY <2>1, Zenon DEF Idle
<1>7. /\ m \in Metas /\ GoodMeta(m) /\ Used(m) = {} /\ m.pagesInMemory = 0
      /\ act[p].op = "user" /\ act[p].then = "none"
  <2>1. m.pagesInMemory = 0
    BY Zenon DEF NoMeta
  <2> QED  BY <1>1, <2>1, IdleFacts, NoMetaGood, Zenon DEF GoodMeta
<1> HIDE DEF b, m
<1>8.  /\ pagetable' \in [Procs -> [Pages -> Ptes]]
       /\ sidetable' \in [Procs -> [Pages -> Ptes]]
       /\ meta' \in [Procs -> Metas] /\ act' \in [Procs -> Acts]
       /\ pagetable'[p] = t /\ sidetable'[p] = u /\ meta'[p] = m /\ act'[p] = b
       /\ \A q \in Procs \ {p} : /\ act'[q] = act[q] /\ meta'[q] = meta[q]
                                 /\ pagetable'[q] = pagetable[q]
                                 /\ sidetable'[q] = sidetable[q]
  BY <1>2, <1>4, <1>6, <1>7, OwnValues, Zenon
<1>9. TypeOK'
  BY <1>2, <1>4, <1>5, <1>8, Zenon DEF TypeOK
<1>10. ~Foreign(p)'
  BY <1>6, <1>8, Zenon DEF Foreign
<1>11. ActOK(p)'
  <2>1. 0 <= n /\ n <= MAX_PSYC_PAGES /\ 0 <= 0
    BY <1>3
  <2>2. /\ act'[p].a <= act'[p].end /\ act'[p].end <= MAX_PSYC_PAGES
        /\ meta'[p].pagesInMemory <= act'[p].a
    BY <1>6, <1>7, <1>8, <2>1, Zenon
  <2> QED  BY <1>1, <1>4, <1>6, <1>8, <1>10, <2>2, Zenon DEF ActOK
<1>12. TablesOK(p)'
  BY <1>1, <1>2, <1>4, <1>6, <1>7, <1>8, Zenon DEF TablesOK, PageOK
<1>13. MetaOK(p)'
  BY <1>1, <1>4, <1>7, <1>8, Zenon DEF MetaOK, GoodMeta, Used
<1> QED
  BY <1>1, <1>4, <1>8, <1>9, <1>10, <1>11, <1>12, <1>13, LocalStep, Zenon

\* An iteration of uvmalloc() in exec().
LEMMA ExecPageInv ==
  ASSUME Inv, NEW p \in Procs, ExecPage(p)
  PROVE  Inv'
<1> DEFINE i == act[p].a
           t == pagetable[p]
           u == [sidetable[p] EXCEPT ![i] = UserPte(kalloc)]
           m == MadeResident(meta[p], i)
           b == [act[p] EXCEPT !.a = i + 1]
<1>1. /\ pstate[p] = "RUN" /\ act[p].op = "exec" /\ i < act[p].end /\ kalloc \in Frames
  BY kallocFacts, Zenon DEF ExecPage, Running, Inv
<1>2. /\ TypeOK /\ ActOK(p) /\ TablesOK(p) /\ MetaOK(p) /\ GoodMeta(meta[p])
      /\ pagetable[p] \in [Pages -> Ptes] /\ sidetable[p] \in [Pages -> Ptes]
      /\ act[p] \in Acts /\ sz[p] \in 0 .. MAX_TOTAL_PAGES
      /\ act[p].a \in 0 .. MAX_TOTAL_PAGES /\ act[p].end \in 0 .. MAX_TOTAL_PAGES
      /\ act[p].buf \in Frames \cup {NoFrame}
  BY ProcFacts, Zenon
<1>3. i \in Pages /\ i + 1 \in 0 .. MAX_TOTAL_PAGES
  BY <1>1, <1>2 DEF Pages
<1>4. /\ act[p].then = "none" /\ i <= act[p].end /\ act[p].end <= MAX_PSYC_PAGES
      /\ meta[p].pagesInMemory <= i
  BY <1>1, <1>2, Zenon DEF ActOK
<1>5. meta[p].pagesInMemory < MAX_PSYC_PAGES /\ meta[p].pagesInMemory + 1 <= i + 1
  <2>1. meta[p].pagesInMemory \in 0 .. MAX_PSYC_PAGES
    BY ProcFacts, Zenon
  <2> QED  BY <1>1, <1>2, <1>4, <2>1, LimitsAssumption
<1>6. ~sidetable[p][i].v /\ Tracked(p) = sidetable[p]
  <2>1. ~(i < i)
    BY <1>2
  <2>2. ~sidetable[p][i].v
    BY <1>1, <1>2, <1>3, <1>4, <2>1, Zenon DEF TablesOK, PageOK
  <2> QED  BY <1>1, <2>2, Zenon DEF Tracked
<1>7. /\ GoodMeta(m) /\ m \in Metas /\ Used(m) = Used(meta[p]) \cup {i}
      /\ m.pagesInMemory = meta[p].pagesInMemory + 1
  <2>1. ~meta[p].inUse[i]
    BY <1>1, <1>2, <1>3, <1>6, Zenon DEF MetaOK, Used
  <2> QED  BY <1>2, <1>3, <1>5, <2>1, MadeResidentGood, ZenonT(40) DEF GoodMeta
<1>8. b \in Acts /\ b.op = "exec" /\ b.then = "none" /\ b.a = i + 1 /\ b.end = act[p].end
  BY <1>1, <1>2, <1>3, <1>4, Zenon DEF Acts
<1>9. /\ u \in [Pages -> Ptes] /\ u[i].v = TRUE /\ u[i].pg = FALSE
      /\ \A j \in Pages \ {i} : u[j] = sidetable[p][j]
  BY <1>1, <1>2, <1>3, PteFacts, PteStep
<1>10. /\ pagetable' = [pagetable EXCEPT ![p] = t]
       /\ sidetable' = [sidetable EXCEPT ![p] = u]
       /\ meta' = [meta EXCEPT ![p] = m] /\ act' = [act EXCEPT ![p] = b]
       /\ pstate' = pstate /\ parent' = parent
       /\ sz' = sz
  <2>1. pagetable' = [pagetable EXCEPT ![p] = t]
    BY <1>2, Zenon DEF ExecPage, TypeOK
  <2> QED  BY <2>1, Zenon DEF ExecPage
<1>11. /\ free' \subseteq Frames /\ mem' \in [Frames -> Contents]
       /\ UNCHANGED <<swapFile, want, shadow>>
  BY <1>1, <1>2, <1>3, ContentsFacts, Zenon DEF ExecPage, TypeOK
<1> HIDE DEF u, m, b
<1>12. /\ pagetable' \in [Procs -> [Pages -> Ptes]]
       /\ sidetable' \in [Procs -> [Pages -> Ptes]]
       /\ meta' \in [Procs -> Metas] /\ act' \in [Procs -> Acts]
       /\ pagetable'[p] = t /\ sidetable'[p] = u /\ meta'[p] = m /\ act'[p] = b
       /\ \A q \in Procs \ {p} : /\ act'[q] = act[q] /\ meta'[q] = meta[q]
                                 /\ pagetable'[q] = pagetable[q]
                                 /\ sidetable'[q] = sidetable[q]
  BY <1>2, <1>7, <1>8, <1>9, <1>10, OwnValues, Zenon
<1>13. TypeOK'
  BY <1>2, <1>10, <1>11, <1>12, Zenon DEF TypeOK
<1>14. ~Foreign(p)'
  BY <1>8, <1>12, Zenon DEF Foreign
<1>15. ActOK(p)'
  <2>1. i + 1 <= act[p].end
    <3>1. i < act[p].end /\ i \in 0 .. MAX_TOTAL_PAGES /\ act[p].end \in 0 .. MAX_TOTAL_PAGES
      BY <1>1, <1>2, Zenon
    <3> HIDE DEF i
    <3> QED  BY <3>1
  <2> QED  BY <1>1, <1>4, <1>5, <1>7, <1>8, <1>10, <1>12, <1>14, <2>1 DEF ActOK
<1>16. TablesOK(p)'
  <2>1. /\ \A j \in Pages : j < i => j < i + 1
        /\ i < i + 1
    BY <1>3 DEF Pages
  <2>2. \A j \in Pages : (u[j].v => j < i + 1) /\ (u[j].pg => ~u[j].v)
    BY <1>1, <1>2, <1>4, <1>9, <2>1, Zenon DEF TablesOK, PageOK
  <2>3. \A j \in Pages : (t[j].v => j < sz[p]) /\ (t[j].pg => ~t[j].v)
    BY <1>1, <1>2, <1>4, Zenon DEF TablesOK, PageOK
  <2>4. /\ act'[p].op = "exec" /\ act'[p].then = "none" /\ act'[p].a = i + 1
        /\ pstate'[p] = "RUN" /\ pagetable'[p] = t /\ sidetable'[p] = u /\ sz'[p] = sz[p]
    BY <1>1, <1>8, <1>10, <1>12, Zenon
  <2> QED  BY <2>2, <2>3, <2>4, Zenon DEF TablesOK, PageOK
<1>17. MetaOK(p)'
  <2>1. Tracked(p)' = u
    BY <1>8, <1>12, Zenon DEF Tracked
  <2>2. \A j \in Used(m) : u[j].v
    BY <1>1, <1>2, <1>6, <1>7, <1>9, Zenon DEF MetaOK, Used
  <2> QED  BY <1>1, <1>7, <1>10, <1>12, <2>1, <2>2, Zenon DEF MetaOK, GoodMeta, Used
<1> QED
  BY <1>1, <1>10, <1>12, <1>13, <1>14, <1>15, <1>16, <1>17, LocalStep, Zenon

\* exec() commits.
LEMMA ExecCommitInv ==
  ASSUME Inv, NEW p \in Procs, ExecCommit(p)
  PROVE  Inv'
<1> DEFINE t == sidetable[p]
           u == pagetable[p]
           m == meta[p]
           b == [Idle EXCEPT !.op = "unmap", !.end = sz[p], !.who = p, !.then = "exec"]
<1>1. /\ pstate[p] = "RUN" /\ act[p].op = "exec" /\ act[p].a = act[p].end
  BY Zenon DEF ExecCommit, Running
<1>2. /\ TypeOK /\ ActOK(p) /\ TablesOK(p) /\ MetaOK(p) /\ GoodMeta(meta[p])
      /\ pagetable[p] \in [Pages -> Ptes] /\ sidetable[p] \in [Pages -> Ptes]
      /\ act[p] \in Acts /\ sz[p] \in 0 .. MAX_TOTAL_PAGES
      /\ act[p].a \in 0 .. MAX_TOTAL_PAGES /\ act[p].end \in 0 .. MAX_TOTAL_PAGES
      /\ act[p].buf \in Frames \cup {NoFrame}
  BY ProcFacts, Zenon
<1>3. act[p].then = "none" /\ Tracked(p) = sidetable[p] /\ m \in Metas
  BY <1>1, <1>2, Zenon DEF ActOK, Tracked, GoodMeta
<1>4. /\ b \in Acts /\ b.op = "unmap" /\ b.then = "exec" /\ b.who = p /\ b.a = 0
      /\ b.end = sz[p]
  <2>1. b \in Acts
    BY <1>2, IdleFacts, Zenon DEF Acts
  <2> QED  BY <2>1, Zenon DEF Idle
<1>5. /\ pagetable' = [pagetable EXCEPT ![p] = t]
      /\ sidetable' = [sidetable EXCEPT ![p] = u]
      /\ meta' = [meta EXCEPT ![p] = m] /\ act' = [act EXCEPT ![p] = b]
      /\ pstate' = pstate /\ parent' = parent
      /\ sz' = [sz EXCEPT ![p] = act[p].end]
  BY <1>2, Zenon DEF ExecCommit, TypeOK
<1>6. /\ UNCHANGED <<free, mem, swapFile, want>>
      /\ shadow' \in [Procs -> [Pages -> Contents]]
  BY <1>2, ContentsFacts, Zenon DEF ExecCommit, TypeOK
<1> HIDE DEF b
<1>7.  /\ pagetable' \in [Procs -> [Pages -> Ptes]]
       /\ sidetable' \in [Procs -> [Pages -> Ptes]]
       /\ meta' \in [Procs -> Metas] /\ act' \in [Procs -> Acts]
       /\ pagetable'[p] = t /\ sidetable'[p] = u /\ meta'[p] = m /\ act'[p] = b
       /\ \A q \in Procs \ {p} : /\ act'[q] = act[q] /\ meta'[q] = meta[q]
                                 /\ pagetable'[q] = pagetable[q]
                                 /\ sidetable'[q] = sidetable[q]
  BY <1>2, <1>3, <1>4, <1>5, OwnValues, Zenon
<1>8. /\ sz' \in [Procs -> 0 .. MAX_TOTAL_PAGES] /\ sz'[p] = act[p].end
      /\ \A q \in Procs \ {p} : sz'[q] = sz[q]
  BY <1>2, <1>5, Zenon DEF TypeOK
<1>9. TypeOK'
  BY <1>2, <1>5, <1>6, <1>7, <1>8, Zenon DEF TypeOK
<1>10. ~Foreign(p)'
  BY <1>4, <1>7, Zenon DEF Foreign
<1>11. ActOK(p)'
  BY <1>1, <1>4, <1>5, <1>7, <1>10, ZenonT(40) DEF ActOK
<1>12. TablesOK(p)'
  <2>1. \A j \in Pages : (t[j].v => j < act[p].end) /\ (t[j].pg => ~t[j].v)
    BY <1>1, <1>2, <1>3, Zenon DEF TablesOK, PageOK
  <2>2. \A j \in Pages : (u[j].v => 0 <= j /\ j < sz[p]) /\ (u[j].pg => ~u[j].v)
    <3>1. \A j \in Pages : 0 <= j
      BY DEF Pages
    <3> QED  BY <1>1, <1>2, <1>3, <3>1, Zenon DEF TablesOK, PageOK
  <2>3. /\ act'[p].op = "unmap" /\ act'[p].then = "exec" /\ act'[p].a = 0 /\ act'[p].end = sz[p]
        /\ pstate'[p] = "RUN" /\ pagetable'[p] = t /\ sidetable'[p] = u /\ sz'[p] = act[p].end
    BY <1>1, <1>4, <1>5, <1>7, <1>8, Zenon
  <2> HIDE DEF t, u
  <2> QED  BY <2>1, <2>2, <2>3, Zenon DEF TablesOK, PageOK
<1>13. MetaOK(p)'
  <2>1. Tracked(p)' = t
    BY <1>4, <1>7, Zenon DEF Tracked
  <2>2. \A j \in Used(meta[p]) : t[j].v
    BY <1>1, <1>2, <1>3, Zenon DEF MetaOK
  <2> QED  BY <1>1, <1>2, <1>5, <1>7, <2>1, <2>2, Zenon DEF MetaOK, GoodMeta, Used
<1> QED
  BY <1>1, <1>5, <1>7, <1>8, <1>9, <1>10, <1>11, <1>12, <1>13, LocalStep, Zenon

\* exec() fails and begins to free the new image.
LEMMA ExecBadInv ==
  ASSUME Inv, NEW p \in Procs, ExecBad(p)
  PROVE  Inv'
<1> DEFINE b == [Idle EXCEPT !.op = "unmap", !.end = act[p].a, !.who = p, !.then = "bad"]
<1>1. /\ pstate[p] = "RUN" /\ act[p].op = "exec"
      /\ TypeOK /\ ActOK(p) /\ TablesOK(p) /\ MetaOK(p)
  BY Zenon DEF ExecBad, Running, Inv
<1>2. sz[p] \in 0 .. MAX_TOTAL_PAGES /\ act[p].a \in 0 .. MAX_TOTAL_PAGES
  BY <1>1, Zenon DEF TypeOK, Acts
<1>3. b \in Acts
  BY <1>2, IdleFacts, Zenon DEF Acts
<1>4. act' = [act EXCEPT ![p] = b] /\ sz' = [sz EXCEPT ![p] = sz[p]]
  BY <1>1, Zenon DEF ExecBad, TypeOK
<1>5. b.op = "unmap" /\ b.then = "bad" /\ b.who = p /\ b.a = 0 /\ b.end = act[p].a
  BY Zenon DEF Idle
<1> HIDE DEF b
<1>6. /\ UNCHANGED <<pstate, parent, pagetable, sidetable, meta, swapFile, free, mem,
                     want, shadow>>
      /\ act'[p] = b /\ sz'[p] = sz[p]
  BY <1>1, <1>4, Zenon DEF ExecBad, pt, TypeOK
<1>7. ActOK(p)'
  BY <1>1, <1>2, <1>5, <1>6, ZenonT(40) DEF ActOK, Foreign
<1>8. TablesOK(p)'
  <2>1. \A i \in Pages : 0 <= i
    BY DEF Pages
  <2>2. \A i \in Pages : /\ pagetable[p][i].pg => ~pagetable[p][i].v
                         /\ sidetable[p][i].pg => ~sidetable[p][i].v
                         /\ pagetable[p][i].v => i < sz[p]
                         /\ sidetable[p][i].v => i < act[p].a
    BY <1>1, Zenon DEF TablesOK, PageOK, ActOK
  <2>3. /\ act'[p].op = "unmap" /\ act'[p].then = "bad" /\ act'[p].a = 0
        /\ act'[p].end = act[p].a /\ pstate'[p] = "RUN" /\ sz'[p] = sz[p]
        /\ pagetable'[p] = pagetable[p] /\ sidetable'[p] = sidetable[p]
    BY <1>1, <1>5, <1>6, Zenon
  <2> QED  BY <2>1, <2>2, <2>3, Zenon DEF TablesOK, PageOK
<1>9. MetaOK(p)'
  BY <1>1, <1>5, <1>6, Zenon DEF MetaOK, Tracked, GoodMeta, Used
<1> QED
  BY <1>1, <1>2, <1>3, <1>4, <1>5, <1>6, <1>7, <1>8, <1>9, ActStep, Zenon

\* An iteration of uvmunmap() for sbrk() and exec().
LEMMA UnmapOwnInv ==
  ASSUME Inv, NEW p \in Procs, UnmapPage(p), act[p].then # "freeproc", panic' = panic
  PROVE  Inv'
<1> DEFINE i == act[p].a
           side == act[p].then \in {"exec", "bad"}
           pte == IF side THEN sidetable[p][i] ELSE pagetable[p][i]
           t == IF side THEN pagetable[p] ELSE [pagetable[p] EXCEPT ![i] = NoPte]
           u == IF side THEN [sidetable[p] EXCEPT ![i] = NoPte] ELSE sidetable[p]
           m == IF pte.v THEN Unmapped(meta[p], i) ELSE SlotForgotten(meta[p], i)
           b == [act[p] EXCEPT !.a = i + 1]
<1>1. pstate[p] = "RUN" /\ act[p].op = "unmap" /\ i < act[p].end /\ panic = "none"
  BY Zenon DEF UnmapPage, Running
<1>2. /\ TypeOK /\ ActOK(p) /\ TablesOK(p) /\ MetaOK(p) /\ GoodMeta(meta[p])
      /\ pagetable[p] \in [Pages -> Ptes] /\ sidetable[p] \in [Pages -> Ptes]
      /\ act[p] \in Acts /\ sz[p] \in 0 .. MAX_TOTAL_PAGES
      /\ act[p].a \in 0 .. MAX_TOTAL_PAGES /\ act[p].end \in 0 .. MAX_TOTAL_PAGES
      /\ act[p].buf \in Frames \cup {NoFrame}
  BY ProcFacts, Zenon
<1>3. /\ act[p].lo \in 0 .. MAX_TOTAL_PAGES /\ act[p].then \in {"sbrk", "exec", "bad"}
      /\ act[p].who = p /\ (act[p].then = "sbrk" => act[p].lo <= i)
  <2>1. act[p].then \in {"none", "sbrk", "exec", "bad", "freeproc"}
    BY <1>2, Zenon DEF Acts
  <2>2. act[p].lo \in 0 .. MAX_TOTAL_PAGES
    BY ProcFacts, Zenon
  <2> QED  BY <1>1, <1>2, <2>1, <2>2, Zenon DEF ActOK
<1>4. i \in Pages /\ i + 1 \in 0 .. MAX_TOTAL_PAGES
  <2>1. i < act[p].end /\ i \in 0 .. MAX_TOTAL_PAGES /\ act[p].end \in 0 .. MAX_TOTAL_PAGES
    BY <1>1, <1>2, Zenon
  <2> HIDE DEF i
  <2> QED  BY <2>1 DEF Pages
<1>5. /\ ~(pte.v /\ ~pte.leaf) /\ ~(pte.v /\ pte.frame = NoFrame)
      /\ IF pte.v
         THEN /\ free' = free \cup {pte.frame}
              /\ mem' = [mem EXCEPT ![pte.frame] = Junk]
              /\ meta' = [meta EXCEPT ![p] = Unmapped(@, i)]
         ELSE /\ meta' = [meta EXCEPT ![p] = SlotForgotten(@, i)]
              /\ UNCHANGED <<free, mem>>
      /\ IF side
         THEN sidetable' = [sidetable EXCEPT ![p][i] = NoPte] /\ UNCHANGED pagetable
         ELSE pagetable' = [pagetable EXCEPT ![p][i] = NoPte] /\ UNCHANGED sidetable
      /\ act' = [act EXCEPT ![p].a = i + 1]
      /\ shadow' = IF side THEN shadow ELSE [shadow EXCEPT ![p][i] = Junk]
      /\ UNCHANGED <<pstate, parent, sz, swapFile, want>>
  BY <1>1, <1>3, Zenon DEF UnmapPage, Panic
<1>6. pte \in Ptes /\ pte.v \in BOOLEAN /\ pte.frame \in Frames \cup {NoFrame}
  <2>1. pte \in Ptes
    BY <1>2, <1>4, Zenon
  <2> HIDE DEF pte
  <2> QED  BY <2>1, Zenon DEF Ptes
<1>7. /\ pagetable' = [pagetable EXCEPT ![p] = t]
      /\ sidetable' = [sidetable EXCEPT ![p] = u]
      /\ meta' = [meta EXCEPT ![p] = m] /\ act' = [act EXCEPT ![p] = b]
      /\ pstate' = pstate /\ parent' = parent /\ sz' = sz
  <2>1. pagetable' = [pagetable EXCEPT ![p] = t] /\ sidetable' = [sidetable EXCEPT ![p] = u]
    <3>1. CASE side
      <4>1. pagetable' = pagetable /\ sidetable' = [sidetable EXCEPT ![p][i] = NoPte]
        BY <1>5, <3>1, Zenon
      <4>2. t = pagetable[p] /\ u = [sidetable[p] EXCEPT ![i] = NoPte]
        BY <3>1, Zenon
      <4> HIDE DEF t, u
      <4> QED  BY <1>2, <4>1, <4>2, Zenon DEF TypeOK
    <3>2. CASE ~side
      <4>1. sidetable' = sidetable /\ pagetable' = [pagetable EXCEPT ![p][i] = NoPte]
        BY <1>5, <3>2, Zenon
      <4>2. u = sidetable[p] /\ t = [pagetable[p] EXCEPT ![i] = NoPte]
        BY <3>2, Zenon
      <4> HIDE DEF t, u
      <4> QED  BY <1>2, <4>1, <4>2, Zenon DEF TypeOK
    <3> QED  BY <3>1, <3>2, Zenon
  <2>2. meta' = [meta EXCEPT ![p] = m]
    <3> HIDE DEF pte
    <3> QED  BY <1>5, Zenon
  <2> QED  BY <1>5, <2>1, <2>2, Zenon
<1>8. /\ free' \subseteq Frames /\ mem' \in [Frames -> Contents]
      /\ shadow' \in [Procs -> [Pages -> Contents]] /\ UNCHANGED <<swapFile, want>>
  <2>1. shadow' \in [Procs -> [Pages -> Contents]] /\ UNCHANGED <<swapFile, want>>
    BY <1>2, <1>4, <1>5, ContentsFacts, Zenon DEF TypeOK
  <2>2. free' \subseteq Frames /\ mem' \in [Frames -> Contents]
    <3> HIDE DEF pte
    <3>1. CASE pte.v
      <4>1. pte.frame \in Frames /\ free' = free \cup {pte.frame}
        BY <1>5, <1>6, <3>1, Zenon
      <4>2. mem' = [mem EXCEPT ![pte.frame] = Junk]
        BY <1>5, <3>1, Zenon
      <4> QED  BY <1>2, <4>1, <4>2, ContentsFacts, Zenon DEF TypeOK
    <3>2. CASE ~pte.v
      BY <1>2, <1>5, <3>2, Zenon DEF TypeOK
    <3> QED  BY <3>1, <3>2, Zenon
  <2> QED  BY <2>1, <2>2, Zenon
<1>9. /\ GoodMeta(m) /\ m \in Metas
      /\ Used(m) \subseteq Used(meta[p]) /\ (pte.v => i \notin Used(m))
  <2> HIDE DEF pte
  <2> QED  BY <1>2, <1>4, <1>6, UnmapMeta, Zenon
<1>10. /\ b \in Acts /\ b.op = "unmap" /\ b.then = act[p].then /\ b.a = i + 1
       /\ b.end = act[p].end /\ b.who = p /\ b.lo = act[p].lo
  BY <1>1, <1>2, <1>3, <1>4, ZenonT(40) DEF Acts
<1>11. /\ t \in [Pages -> Ptes] /\ u \in [Pages -> Ptes]
       /\ side => t = pagetable[p] /\ u[i] = NoPte /\ \A j \in Pages \ {i} : u[j] = sidetable[p][j]
       /\ ~side => u = sidetable[p] /\ t[i] = NoPte /\ \A j \in Pages \ {i} : t[j] = pagetable[p][j]
  <2>1. NoPte \in Ptes
    BY PteFacts, Zenon
  <2>2. i \in Pages /\ pagetable[p] \in [Pages -> Ptes] /\ sidetable[p] \in [Pages -> Ptes]
    BY <1>2, <1>4, Zenon
  <2>3. /\ [pagetable[p] EXCEPT ![i] = NoPte] \in [Pages -> Ptes]
        /\ [pagetable[p] EXCEPT ![i] = NoPte][i] = NoPte
        /\ \A j \in Pages \ {i} : [pagetable[p] EXCEPT ![i] = NoPte][j] = pagetable[p][j]
    BY <2>1, <2>2, Zenon
  <2>4. /\ [sidetable[p] EXCEPT ![i] = NoPte] \in [Pages -> Ptes]
        /\ [sidetable[p] EXCEPT ![i] = NoPte][i] = NoPte
        /\ \A j \in Pages \ {i} : [sidetable[p] EXCEPT ![i] = NoPte][j] = sidetable[p][j]
    BY <2>1, <2>2, Zenon
  <2>5. CASE side
    <3>1. t = pagetable[p] /\ u = [sidetable[p] EXCEPT ![i] = NoPte]
      BY <2>5, Zenon
    <3> HIDE DEF side, t, u
    <3> QED  BY <1>2, <2>4, <2>5, <3>1, Zenon
  <2>6. CASE ~side
    <3>1. u = sidetable[p] /\ t = [pagetable[p] EXCEPT ![i] = NoPte]
      BY <2>6, Zenon
    <3> HIDE DEF side, t, u
    <3> QED  BY <1>2, <2>3, <2>6, <3>1, Zenon
  <2> QED  BY <2>5, <2>6, Zenon
<1>12. side <=> act[p].then # "sbrk"
  BY <1>3, Zenon
<1>13. pte = IF side THEN sidetable[p][i] ELSE pagetable[p][i]
  BY Zenon
<1> HIDE DEF t, u, m, b, side, pte
<1>14. /\ pagetable' \in [Procs -> [Pages -> Ptes]]
       /\ sidetable' \in [Procs -> [Pages -> Ptes]]
       /\ meta' \in [Procs -> Metas] /\ act' \in [Procs -> Acts]
       /\ pagetable'[p] = t /\ sidetable'[p] = u /\ meta'[p] = m /\ act'[p] = b
       /\ \A q \in Procs \ {p} : /\ act'[q] = act[q] /\ meta'[q] = meta[q]
                                 /\ pagetable'[q] = pagetable[q]
                                 /\ sidetable'[q] = sidetable[q]
  BY <1>7, <1>9, <1>10, <1>11, OwnValues, Zenon
<1>15. TypeOK'
  BY <1>2, <1>7, <1>8, <1>14, Zenon DEF TypeOK
<1>16. ~Foreign(p)'
  BY <1>3, <1>10, <1>14, Zenon DEF Foreign
<1>17. ActOK(p)'
  <2>1. act[p].then = "sbrk" => act[p].lo <= i + 1
    <3>1. /\ i \in 0 .. MAX_TOTAL_PAGES /\ act[p].lo \in 0 .. MAX_TOTAL_PAGES
          /\ act[p].then = "sbrk" => act[p].lo <= i
      BY <1>2, <1>3, Zenon
    <3> HIDE DEF i
    <3> QED  BY <3>1
  <2> QED  BY <1>1, <1>3, <1>7, <1>10, <1>14, <1>16, <2>1, ZenonT(40) DEF ActOK
<1>18. TablesOK(p)'
  <2>1. \A j \in Pages \ {i} : i <= j => i + 1 <= j
    BY <1>4 DEF Pages
  <2>2. CASE act[p].then = "sbrk"
    <3>1. \A j \in Pages : t[j].v => j < act[p].lo \/ (i + 1 <= j /\ j < act[p].end)
      BY <1>2, <1>11, <1>12, <2>1, <2>2, PteFacts, Zenon DEF TablesOK, PageOK
    <3>2. \A j \in Pages : (t[j].pg => ~t[j].v) /\ (u[j].pg => ~u[j].v) /\ ~u[j].v
      BY <1>1, <1>2, <1>11, <1>12, <2>2, PteFacts, ZenonT(40) DEF TablesOK, PageOK
    <3>3. /\ act'[p].op = "unmap" /\ act'[p].then = "sbrk" /\ act'[p].a = i + 1
          /\ act'[p].lo = act[p].lo /\ act'[p].end = act[p].end
          /\ pstate'[p] = "RUN" /\ pagetable'[p] = t /\ sidetable'[p] = u
      BY <1>1, <1>7, <1>10, <1>14, <2>2, Zenon
    <3> QED  BY <3>1, <3>2, <3>3, Zenon DEF TablesOK, PageOK
  <2>3. CASE act[p].then # "sbrk"
    <3>1. \A j \in Pages : u[j].v => i + 1 <= j /\ j < act[p].end
      BY <1>1, <1>2, <1>11, <1>12, <2>1, <2>3, PteFacts, ZenonT(40) DEF TablesOK, PageOK
    <3>2. \A j \in Pages : /\ (t[j].pg => ~t[j].v) /\ (u[j].pg => ~u[j].v)
                           /\ (t[j].v => j < sz[p])
      BY <1>1, <1>2, <1>11, <1>12, <2>3, PteFacts, Zenon DEF TablesOK, PageOK
    <3>3. /\ act'[p].op = "unmap" /\ act'[p].then \in {"exec", "bad"} /\ act'[p].a = i + 1
          /\ act'[p].end = act[p].end /\ sz'[p] = sz[p]
          /\ pstate'[p] = "RUN" /\ pagetable'[p] = t /\ sidetable'[p] = u
      BY <1>1, <1>3, <1>7, <1>10, <1>14, <2>3, Zenon
    <3> QED  BY <3>1, <3>2, <3>3, Zenon DEF TablesOK, PageOK
  <2> QED  BY <2>2, <2>3, Zenon
<1>19. MetaOK(p)'
  <2>1. \A j \in Used(m) : j \in Pages /\ Tracked(p)[j].v
    BY <1>1, <1>2, <1>9, Zenon DEF MetaOK, Used
  <2>2. \A j \in Used(m) : Tracked(p)'[j].v
    <3>1. CASE act[p].then = "sbrk"
      <4>1. Tracked(p) = pagetable[p] /\ Tracked(p)' = t
        BY <1>1, <1>10, <1>14, <3>1, Zenon DEF Tracked
      <4> QED  BY <1>9, <1>11, <1>12, <1>13, <2>1, <3>1, <4>1, Zenon
    <3>2. CASE act[p].then = "bad"
      <4>1. Tracked(p) = sidetable[p] /\ Tracked(p)' = u
        BY <1>1, <1>10, <1>14, <3>2, Zenon DEF Tracked
      <4> QED  BY <1>9, <1>11, <1>12, <1>13, <2>1, <3>2, <4>1, Zenon
    <3>3. CASE act[p].then = "exec"
      <4>1. Tracked(p) = pagetable[p] /\ Tracked(p)' = t
        BY <1>1, <1>10, <1>14, <3>3, Zenon DEF Tracked
      <4> QED  BY <1>11, <1>12, <2>1, <3>3, <4>1, Zenon
    <3> QED  BY <1>3, <3>1, <3>2, <3>3, Zenon
  <2> QED  BY <1>1, <1>7, <1>9, <1>14, <2>2, Zenon DEF MetaOK, GoodMeta, Used
<1> QED
  BY <1>1, <1>7, <1>14, <1>15, <1>16, <1>17, <1>18, <1>19, LocalStep, Zenon

\* sbrk() or exec() returns after uvmunmap().
LEMMA UnmapDoneOwnInv ==
  ASSUME Inv, NEW p \in Procs, UnmapDone(p), act[p].then # "freeproc"
  PROVE  Inv'
<1> DEFINE s == IF act[p].then = "sbrk" THEN act[p].lo ELSE sz[p]
<1>1. pstate[p] = "RUN" /\ act[p].op = "unmap" /\ act[p].a >= act[p].end
  BY Zenon DEF UnmapDone, Running
<1>2. /\ TypeOK /\ ActOK(p) /\ TablesOK(p) /\ MetaOK(p) /\ GoodMeta(meta[p])
      /\ pagetable[p] \in [Pages -> Ptes] /\ sidetable[p] \in [Pages -> Ptes]
      /\ act[p] \in Acts /\ sz[p] \in 0 .. MAX_TOTAL_PAGES
      /\ act[p].a \in 0 .. MAX_TOTAL_PAGES /\ act[p].end \in 0 .. MAX_TOTAL_PAGES
      /\ act[p].buf \in Frames \cup {NoFrame}
  BY ProcFacts, Zenon
<1>3. /\ act[p].lo \in 0 .. MAX_TOTAL_PAGES /\ act[p].then \in {"sbrk", "exec", "bad"}
      /\ act[p].who = p
  <2>1. act[p].then \in {"none", "sbrk", "exec", "bad", "freeproc"}
    BY <1>2, Zenon DEF Acts
  <2>2. act[p].lo \in 0 .. MAX_TOTAL_PAGES
    BY ProcFacts, Zenon
  <2> QED  BY <1>1, <1>2, <2>1, <2>2, Zenon DEF ActOK
<1>4. /\ act' = [act EXCEPT ![p] = Idle] /\ sz' = [sz EXCEPT ![p] = s]
      /\ UNCHANGED <<pstate, parent, pagetable, sidetable, meta, swapFile, free, mem, want,
                     shadow>>
  BY <1>2, <1>3, Zenon DEF UnmapDone, TypeOK, pt
<1>5. s \in 0 .. MAX_TOTAL_PAGES /\ act'[p] = Idle /\ sz'[p] = s
  BY <1>2, <1>3, <1>4, Zenon DEF TypeOK
<1>6. ActOK(p)'
  BY <1>1, <1>4, <1>5, IdleFacts, Zenon DEF ActOK, Foreign
<1>7. \A j \in Pages : ~(act[p].a <= j /\ j < act[p].end)
  BY <1>1, <1>2 DEF Pages
<1>8. TablesOK(p)'
  BY <1>1, <1>2, <1>3, <1>4, <1>5, <1>7, IdleFacts, ZenonT(40) DEF TablesOK, PageOK
<1>9. MetaOK(p)'
  <2>1. Tracked(p)' = pagetable[p]
    BY <1>4, <1>5, IdleFacts, Zenon DEF Tracked
  <2>2. act[p].then # "bad" => Tracked(p) = pagetable[p]
    BY <1>1, Zenon DEF Tracked
  <2>3. act[p].then = "bad" => Used(meta[p]) = {}
    BY <1>1, <1>2, <1>7, Zenon DEF MetaOK, Tracked, TablesOK, PageOK, Used
  <2> QED  BY <1>1, <1>2, <1>4, <2>1, <2>2, <2>3, Zenon DEF MetaOK, GoodMeta, Used
<1> QED
  BY <1>1, <1>4, <1>5, <1>6, <1>8, <1>9, IdleFacts, ActStep, Zenon
=============================================================================
