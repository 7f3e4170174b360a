---------------------------- MODULE AddrSpaceProofs ----------------------------
(***************************************************************************)
(* Proofs of the safety properties of AddrSpace for any number of          *)
(* processes, threads, pages and frames.  MemInv is inductive: that a page *)
(* with a counter of at most one is private survives a fault because the   *)
(* frame the pool hands out is mapped nowhere (FramesOwned), and a fork    *)
(* because every page it shares leaves it with a counter of at least two   *)
(* (TypeOK: a mapped page has a counter of at least one).                  *)
(***************************************************************************)
EXTENDS AddrSpace, TLAPS

\* The inductive invariant.
MemInv ==
    /\ TypeOK
    /\ InPlaceIsPrivate
    /\ FramesOwned
    /\ SharedAtSamePage
    /\ RegionsDisjoint

USE AddrSpaceAssumption

\* The test of insert and remove_range tells exactly whether pages are shared.
LEMMA OverlapIsSharing ==
    ASSUME NEW r \in Regions, NEW s \in Regions, ~Overlap(r, s.base, s.base + s.len)
    PROVE  PagesOf(r) \cap PagesOf(s) = {}
  BY DEF Overlap, PagesOf, Regions, Pages

\* A new kernel, with no region and no page mapped, satisfies the invariant.
LEMMA InitEstablishesMemInv == Init => MemInv
  <1> SUFFICES ASSUME Init PROVE MemInv
    OBVIOUS
  <1>1. TypeOK
    BY DEF Init, TypeOK, Entries, NoEntry, NoFrame, Frames, Pages, Mapped
  <1>2. InPlaceIsPrivate /\ FramesOwned /\ SharedAtSamePage /\ RegionsDisjoint
    BY DEF Init, InPlaceIsPrivate, FramesOwned, SharedAtSamePage, RegionsDisjoint, Mapped, NoEntry
  <1>3. QED
    BY <1>1, <1>2 DEF MemInv

\* A step that leaves pages and frames alone and keeps the regions of every
\* process well formed and disjoint keeps the invariant on pages and frames.
LEMMA RegionStep ==
    ASSUME MemInv, UNCHANGED <<slots, cow, kheld>>
    PROVE  InPlaceIsPrivate' /\ FramesOwned' /\ SharedAtSamePage'
  BY DEF MemInv, InPlaceIsPrivate, FramesOwned, SharedAtSamePage, Mapped

\* insert: the new region shares no page with those it was compared with.
LEMMA InsertStep ==
    ASSUME MemInv, NEW p \in Procs, NEW b \in Pages, NEW l \in 1..NPages, NEW w \in BOOLEAN,
           Insert(p, b, l, w)
    PROVE  MemInv'
  <1> DEFINE n == [base |-> b, len |-> l, write |-> w]
  <1>1. n \in Regions /\ n.base = b /\ n.len = l
    BY DEF Regions
  <1>2. \A r \in regions[p] : r \in Regions /\ PagesOf(r) \cap PagesOf(n) = {}
    <2> SUFFICES ASSUME NEW r \in regions[p] PROVE r \in Regions /\ PagesOf(r) \cap PagesOf(n) = {}
      OBVIOUS
    <2>1. r \in Regions
      BY DEF MemInv, TypeOK
    <2>2. ~Overlap(r, n.base, n.base + n.len)
      BY <1>1 DEF Insert
    <2>3. QED
      BY <1>1, <2>1, <2>2, OverlapIsSharing
  <1>3. regions' = [regions EXCEPT ![p] = @ \cup {n}]
    BY DEF Insert
  <1> HIDE DEF n
  <1>4. RegionsDisjoint'
    BY <1>2, <1>3 DEF MemInv, TypeOK, RegionsDisjoint
  <1>5. TypeOK'
    BY <1>1, <1>3 DEF MemInv, TypeOK, Insert, calls, Mapped
  <1>6. QED
    BY <1>4, <1>5, RegionStep DEF MemInv, Insert

\* protect: flags change, bases and lengths do not.
LEMMA ProtectStep ==
    ASSUME MemInv, NEW p \in Procs, NEW b \in Pages, NEW l \in 1..NPages, NEW w \in BOOLEAN,
           Protect(p, b, l, w)
    PROVE  MemInv'
  <1> DEFINE F(r) == IF Overlap(r, b, b + l) THEN [r EXCEPT !.write = w] ELSE r
  <1>1. \A r \in Regions : F(r) \in Regions /\ PagesOf(F(r)) = PagesOf(r)
    BY DEF Regions, PagesOf
  <1>2. regions' = [regions EXCEPT ![p] = {F(r) : r \in @}]
    BY DEF Protect
  <1> HIDE DEF F
  <1>3. \A q \in Procs : regions[q] \subseteq Regions
    BY DEF MemInv, TypeOK
  <1>4. regions' \in [Procs -> SUBSET Regions]
    BY <1>1, <1>2, <1>3 DEF MemInv, TypeOK
  <1>5. RegionsDisjoint'
    <2> SUFFICES ASSUME NEW q \in Procs, NEW r \in regions'[q], NEW s \in regions'[q], r # s
                 PROVE  PagesOf(r) \cap PagesOf(s) = {}
      BY DEF RegionsDisjoint
    <2>1. CASE q # p
      BY <1>2, <2>1 DEF MemInv, TypeOK, RegionsDisjoint
    <2>2. CASE q = p
      <3>1. regions'[q] = {F(x) : x \in regions[p]}
        BY <1>2, <2>2 DEF MemInv, TypeOK
      <3>2. PICK x \in regions[p] : r = F(x)
        BY <3>1
      <3>3. PICK y \in regions[p] : s = F(y)
        BY <3>1
      <3>4. x # y /\ PagesOf(r) = PagesOf(x) /\ PagesOf(s) = PagesOf(y)
        BY <1>1, <1>3, <3>2, <3>3
      <3>5. QED
        BY <3>4 DEF MemInv, RegionsDisjoint
    <2>3. QED
      BY <2>1, <2>2
  <1>6. TypeOK'
    BY <1>4 DEF MemInv, TypeOK, Protect, calls, Mapped
  <1>7. QED
    BY <1>5, <1>6, RegionStep DEF MemInv, Protect

\* A step that only takes regions and pages away keeps the invariant.
LEMMA RemovalStep ==
    ASSUME MemInv, NEW p \in Procs, NEW R \in SUBSET regions[p],
           NEW kept \in SUBSET Pages,
           regions' = [regions EXCEPT ![p] = R],
           cow' = [cow EXCEPT ![p] = [v \in Pages |-> IF v \in kept THEN cow[p][v] ELSE NoEntry]],
           UNCHANGED <<slots, frame_data, kheld, calls>>,
           live' \subseteq live, cur \in live'
    PROVE  MemInv'
  <1>1. \A q \in Procs, v \in Pages :
           cow'[q][v] = cow[q][v] \/ cow'[q][v] = NoEntry
    BY DEF MemInv, TypeOK
  <1>2. NoEntry \in Entries /\ NoEntry.frame = NoFrame /\ NoEntry.rc = 0
    BY DEF NoEntry, Entries
  <1>3. cow' \in [Procs -> [Pages -> Entries]]
    BY <1>2 DEF MemInv, TypeOK
  <1>4. \A q \in Procs, v \in Pages : Mapped(q, v)' => cow'[q][v] = cow[q][v] /\ Mapped(q, v)
    BY <1>1, <1>2 DEF Mapped
  <1>5. \A q \in Procs, v \in Pages : Mapped(q, v)' <=> cow'[q][v].rc > 0
    BY <1>1, <1>2 DEF Mapped, MemInv, TypeOK
  <1>6. TypeOK'
    BY <1>3, <1>5 DEF MemInv, TypeOK, calls
  <1>7. \A p1, q \in Procs, v, u \in Pages :
           Mapped(p1, v)' /\ cow'[q][u].frame = cow'[p1][v].frame =>
               /\ Mapped(p1, v) /\ cow'[p1][v] = cow[p1][v]
               /\ cow[q][u].frame = cow[p1][v].frame
    BY <1>1, <1>2, <1>4 DEF Mapped
  <1>8. InPlaceIsPrivate' /\ SharedAtSamePage'
    BY <1>7 DEF MemInv, InPlaceIsPrivate, SharedAtSamePage
  <1>9. FramesOwned'
    BY <1>4 DEF MemInv, FramesOwned
  <1>10. RegionsDisjoint'
    BY DEF MemInv, TypeOK, RegionsDisjoint
  <1>11. QED
    BY <1>6, <1>8, <1>9, <1>10 DEF MemInv

\* unmap_range.
LEMMA UnmapStep ==
    ASSUME MemInv, NEW p \in Procs, NEW b \in Pages, NEW l \in 1..NPages, Unmap(p, b, l)
    PROVE  MemInv'
  <1> DEFINE R == {r \in regions[p] : ~Overlap(r, b, b + l)}
             kept == Pages \ (b..(b + l - 1))
  <1>1. R \in SUBSET regions[p] /\ kept \in SUBSET Pages
    OBVIOUS
  <1>2. regions' = [regions EXCEPT ![p] = R]
    BY DEF Unmap
  <1>3. cow' = [cow EXCEPT ![p] = [v \in Pages |-> IF v \in kept THEN cow[p][v] ELSE NoEntry]]
    BY Zenon DEF Unmap, MemInv, TypeOK
  <1> HIDE DEF R, kept
  <1>4. UNCHANGED <<slots, frame_data, kheld, calls>> /\ live' \subseteq live /\ cur \in live'
    BY DEF Unmap, MemInv, TypeOK
  <1>5. QED
    BY <1>1, <1>2, <1>3, <1>4, RemovalStep, Zenon

\* The end of a process.
LEMMA DropStep ==
    ASSUME MemInv, NEW p \in Procs, Drop(p)
    PROVE  MemInv'
  <1>1. regions' = [regions EXCEPT ![p] = {}] /\ {} \in SUBSET regions[p] /\ {} \in SUBSET Pages
    BY DEF Drop
  <1>2. cow' = [cow EXCEPT ![p] = [v \in Pages |-> IF v \in {} THEN cow[p][v] ELSE NoEntry]]
    BY DEF Drop, MemInv, TypeOK
  <1>3. UNCHANGED <<slots, frame_data, kheld, calls>> /\ live' \subseteq live /\ cur \in live'
    BY DEF Drop, MemInv, TypeOK
  <1>4. QED
    BY <1>1, <1>2, <1>3, RemovalStep, Zenon

\* do_fork: what parent and child share afterwards has counters of at least two.
LEMMA ForkStep ==
    ASSUME MemInv, NEW p \in Procs, NEW c \in Procs, Fork(p, c)
    PROVE  MemInv'
  <1>1. c # p /\ p \in live /\ c \notin live
    BY DEF Fork
  <1>2. \A v \in Pages : /\ Shared(cow[p][v]) \in Entries
                         /\ Shared(cow[p][v]).frame = cow[p][v].frame
                         /\ Mapped(p, v) => Shared(cow[p][v]).rc >= 2
                         /\ ~Mapped(p, v) => Shared(cow[p][v]).rc = 0
    <2> SUFFICES ASSUME NEW v \in Pages
                 PROVE  /\ Shared(cow[p][v]) \in Entries
                        /\ Shared(cow[p][v]).frame = cow[p][v].frame
                        /\ Mapped(p, v) => Shared(cow[p][v]).rc >= 2
                        /\ ~Mapped(p, v) => Shared(cow[p][v]).rc = 0
      OBVIOUS
    <2>1. cow[p][v] \in Entries /\ (Mapped(p, v) <=> cow[p][v].rc > 0)
      BY DEF MemInv, TypeOK
    <2>2. QED
      BY <2>1 DEF Shared, Entries, Mapped
  <1>3. cow' = [cow EXCEPT ![p] = [v \in Pages |-> Shared(cow[p][v])],
                           ![c] = [v \in Pages |-> Shared(cow[p][v])]]
    BY <1>1 DEF Fork, MemInv, TypeOK
  <1>4. /\ cow' \in [Procs -> [Pages -> Entries]]
        /\ \A q \in {p, c}, v \in Pages : cow'[q][v] = Shared(cow[p][v])
        /\ \A q \in Procs \ {p, c} : cow'[q] = cow[q]
    BY <1>1, <1>2, <1>3, SMTT(30) DEF MemInv, TypeOK
  <1>5. TypeOK'
    <2>1. ASSUME NEW q \in Procs, NEW v \in Pages PROVE Mapped(q, v)' <=> cow'[q][v].rc > 0
      <3>1. CASE q \in {p, c}
        <4>1. cow'[q][v] = Shared(cow[p][v]) /\ (Mapped(q, v)' <=> Mapped(p, v))
          BY <1>2, <1>4, <3>1 DEF Mapped
        <4>2. Shared(cow[p][v]).rc \in Nat
          BY <1>2 DEF Entries
        <4>3. QED
          BY <1>2, <4>1, <4>2
      <3>2. CASE q \notin {p, c}
        BY <1>4, <3>2 DEF Mapped, MemInv, TypeOK
      <3>3. QED
        BY <3>1, <3>2
    <2>2. regions' \in [Procs -> SUBSET Regions] /\ live' \subseteq Procs /\ cur' \in live'
      BY DEF Fork, MemInv, TypeOK, calls
    <2>3. QED
      BY <1>4, <2>1, <2>2, Zenon DEF Fork, MemInv, TypeOK, calls
  <1>6. \A q \in Procs, v \in Pages :
           /\ q \in {p, c} => cow'[q][v].frame = cow[p][v].frame
           /\ q \notin {p, c} => cow'[q][v] = cow[q][v]
    BY <1>2, <1>4
  <1>7. InPlaceIsPrivate'
    <2> SUFFICES ASSUME NEW q \in Procs, NEW s \in Procs, NEW v \in Pages, NEW u \in Pages,
                        Mapped(q, v)', cow'[q][v].rc <= 1, cow'[s][u].frame = cow'[q][v].frame
                 PROVE  q = s /\ v = u
      BY DEF InPlaceIsPrivate
    <2>1. q \notin {p, c}
      <3> SUFFICES ASSUME q \in {p, c} PROVE FALSE
        OBVIOUS
      <3>1. Mapped(p, v) /\ cow'[q][v] = Shared(cow[p][v]) /\ Shared(cow[p][v]) \in Entries
        BY <1>2, <1>4, <1>6 DEF Mapped
      <3>2. QED
        BY <1>2, <3>1 DEF Entries
    <2>2. Mapped(q, v) /\ cow[q][v].rc <= 1
      BY <1>6, <2>1 DEF Mapped
    <2>3. CASE s \in {p, c}
      BY <1>6, <2>1, <2>2, <2>3 DEF MemInv, InPlaceIsPrivate
    <2>4. CASE s \notin {p, c}
      BY <1>6, <2>1, <2>2, <2>4 DEF MemInv, InPlaceIsPrivate
    <2>5. QED
      BY <2>3, <2>4
  <1>8. SharedAtSamePage'
    BY <1>6 DEF MemInv, SharedAtSamePage, Mapped
  <1>9. FramesOwned'
    BY <1>6 DEF MemInv, FramesOwned, Mapped, Fork
  <1>10. RegionsDisjoint'
    BY DEF Fork, MemInv, TypeOK, RegionsDisjoint
  <1>11. QED
    BY <1>5, <1>7, <1>8, <1>9, <1>10 DEF MemInv

\* handle_cow_fault: the frame a page gets is mapped nowhere else.
LEMMA FaultStep ==
    ASSUME MemInv, NEW t \in Threads, NEW v \in Pages, Fault(t, v)
    PROVE  MemInv'
  <1>1. cur \in Procs /\ pc' \in [Threads -> {"run", "ensured"}] /\ page' \in [Threads -> Pages]
    BY DEF MemInv, TypeOK, Fault
  <1>2. RegionsDisjoint'
    BY DEF MemInv, RegionsDisjoint, Fault
  <1>3. CASE UNCHANGED <<slots, cow>>
    <2>1. TypeOK'
      BY <1>1, <1>3 DEF MemInv, TypeOK, Fault, Mapped
    <2>2. QED
      BY <1>2, <1>3, <2>1, RegionStep DEF MemInv, Fault
  <1>4. ASSUME NEW f \in Frames, Found(f), slots' = Taken(f),
               cow' = [cow EXCEPT ![cur][v] = NewEntry(f)]
        PROVE  MemInv'
    <2>1. f \in slots /\ slots' = slots \ {f} /\ f # NoFrame
      BY <1>4 DEF Found, Taken, Frames, NoFrame
    <2>2. NewEntry(f) \in Entries /\ NewEntry(f).frame = f /\ NewEntry(f).rc = 1
      BY DEF NewEntry, Entries
    <2>3. cow' \in [Procs -> [Pages -> Entries]]
      BY <1>1, <1>4, <2>2 DEF MemInv, TypeOK
    <2>4. \A q \in Procs, u \in Pages :
             cow'[q][u] = IF q = cur /\ u = v THEN NewEntry(f) ELSE cow[q][u]
      BY <1>1, <1>4 DEF MemInv, TypeOK
    <2>5. \A q \in Procs, u \in Pages : cow[q][u].frame # f
      BY <2>1 DEF MemInv, FramesOwned, Mapped
    <2>6. TypeOK'
      <3>1. \A q \in Procs, u \in Pages : Mapped(q, u)' <=> cow'[q][u].rc > 0
        BY <2>1, <2>2, <2>4 DEF Mapped, MemInv, TypeOK
      <3>2. QED
        BY <1>1, <2>1, <2>3, <3>1 DEF MemInv, TypeOK, Fault
    <2>7. InPlaceIsPrivate' /\ SharedAtSamePage'
      <3>1. ASSUME NEW q \in Procs, NEW r \in Procs, NEW u \in Pages, NEW w \in Pages,
                   Mapped(q, u)', cow'[r][w].frame = cow'[q][u].frame
            PROVE  /\ cow'[q][u].rc <= 1 => q = r /\ u = w
                   /\ u = w
        <4>1. CASE (q = cur /\ u = v) \/ (r = cur /\ w = v)
          BY <2>2, <2>4, <2>5, <3>1, <4>1
        <4>2. CASE ~(q = cur /\ u = v) /\ ~(r = cur /\ w = v)
          BY <2>4, <3>1, <4>2 DEF MemInv, InPlaceIsPrivate, SharedAtSamePage, Mapped
        <4>3. QED
          BY <4>1, <4>2
      <3>2. QED
        BY <3>1, Zenon DEF InPlaceIsPrivate, SharedAtSamePage
    <2>8. FramesOwned'
      BY <2>1, <2>2, <2>4, <2>5 DEF MemInv, FramesOwned, Mapped, Fault
    <2>9. QED
      BY <1>2, <2>6, <2>7, <2>8 DEF MemInv
  <1>5. QED
    BY <1>3, <1>4 DEF Fault

\* set_cur, copy_to_user, alloc_pages and free_pages map and unmap nothing.
LEMMA SetCurStep ==
    ASSUME MemInv, NEW p \in Procs, SetCur(p)
    PROVE  MemInv'
  <1>1. TypeOK' /\ RegionsDisjoint'
    BY SMTT(30) DEF MemInv, TypeOK, RegionsDisjoint, SetCur, Mapped
  <1>2. QED
    BY <1>1, RegionStep DEF MemInv, SetCur

\* copy_to_user writes into a frame of the pool.
LEMMA CopyToUserStep ==
    ASSUME MemInv, NEW t \in Threads, NEW x \in Values, CopyToUser(t, x)
    PROVE  MemInv'
  <1>1. cow[cur][page[t]] \in Entries
    BY DEF MemInv, TypeOK
  <1>2. frame_data' \in [Frames -> Values]
    BY <1>1 DEF MemInv, TypeOK, CopyToUser, write_frame, Mapped, Entries
  <1>3. pc' \in [Threads -> {"run", "ensured"}] /\ page' \in [Threads -> Pages]
    BY DEF MemInv, TypeOK, CopyToUser, Pages
  <1>4. TypeOK' /\ RegionsDisjoint'
    BY <1>2, <1>3 DEF MemInv, TypeOK, RegionsDisjoint, CopyToUser, Mapped
  <1>5. QED
    BY <1>4, RegionStep DEF MemInv, CopyToUser

\* alloc_pages and free_pages move a frame between the pool and the kernel.
LEMMA KernelFrameStep ==
    ASSUME MemInv, NEW f \in Frames, AllocPage(f) \/ FreePage(f)
    PROVE  MemInv'
  <1>1. UNCHANGED <<frame_data, live, regions, cow, cur, pc, page>>
    BY DEF AllocPage, FreePage, calls
  <1>2. /\ slots' \cup kheld' = slots \cup kheld
        /\ slots' \cap kheld' = {}
    BY DEF MemInv, FramesOwned, AllocPage, FreePage, Taken
  <1>3. TypeOK'
    BY <1>1, <1>2 DEF MemInv, TypeOK, Mapped
  <1>4. InPlaceIsPrivate' /\ SharedAtSamePage' /\ RegionsDisjoint'
    BY <1>1 DEF MemInv, InPlaceIsPrivate, SharedAtSamePage, RegionsDisjoint, Mapped
  <1>5. FramesOwned'
    BY <1>1, <1>2 DEF MemInv, FramesOwned, Mapped
  <1>6. QED
    BY <1>3, <1>4, <1>5 DEF MemInv

\* Every step keeps the invariant.
LEMMA NextKeepsMemInv == MemInv /\ [Next]_vars => MemInv'
  <1> SUFFICES ASSUME MemInv, [Next]_vars PROVE MemInv'
    OBVIOUS
  <1>1. ASSUME NEW p \in Procs, ProcStep(p) PROVE MemInv'
    BY <1>1, InsertStep, ProtectStep, UnmapStep, ForkStep, DropStep, SetCurStep DEF ProcStep
  <1>2. ASSUME NEW t \in Threads, NEW v \in Pages, Fault(t, v) PROVE MemInv'
    BY <1>2, FaultStep
  <1>3. ASSUME NEW t \in Threads, NEW x \in Values, CopyToUser(t, x) PROVE MemInv'
    BY <1>3, CopyToUserStep
  <1>4. ASSUME NEW f \in Frames, AllocPage(f) \/ FreePage(f) PROVE MemInv'
    BY <1>4, KernelFrameStep
  <1>5. CASE UNCHANGED vars
    <2>1. TypeOK' /\ RegionsDisjoint'
      BY <1>5 DEF vars, MemInv, TypeOK, RegionsDisjoint, Mapped
    <2>2. QED
      BY <1>5, <2>1, RegionStep DEF MemInv, vars
  <1>6. QED
    BY <1>1, <1>2, <1>3, <1>4, <1>5 DEF Next

\* The invariant holds in every state of every behaviour.
LEMMA MemInvariant == Spec => []MemInv
  BY InitEstablishesMemInv, NextKeepsMemInv, PTL DEF Spec

\* The fields of address spaces, pool and calls keep their types, and a page
\* has a counter above zero exactly when it has a frame.
THEOREM MemoryTypeCorrect == Spec => []TypeOK
  <1>1. MemInv => TypeOK
    BY DEF MemInv
  <1>2. QED
    BY <1>1, MemInvariant, PTL

\* What handle_cow_fault lets a process write in place is mapped by no other
\* process and at no other page.
THEOREM InPlaceIsPrivateHolds == Spec => []InPlaceIsPrivate
  <1>1. MemInv => InPlaceIsPrivate
    BY DEF MemInv
  <1>2. QED
    BY <1>1, MemInvariant, PTL

\* get_inner, alloc_pages and free_pages never give a frame two owners.
THEOREM FramesOwnedHolds == Spec => []FramesOwned
  <1>1. MemInv => FramesOwned
    BY DEF MemInv
  <1>2. QED
    BY <1>1, MemInvariant, PTL

\* Frames are shared only by fork, at the same page of both processes.
THEOREM SharedAtSamePageHolds == Spec => []SharedAtSamePage
  <1>1. MemInv => SharedAtSamePage
    BY DEF MemInv
  <1>2. QED
    BY <1>1, MemInvariant, PTL

\* The regions find searches are disjoint after any sequence of operations.
THEOREM RegionsDisjointHolds == Spec => []RegionsDisjoint
  <1>1. MemInv => RegionsDisjoint
    BY DEF MemInv
  <1>2. QED
    BY <1>1, MemInvariant, PTL
================================================================================
