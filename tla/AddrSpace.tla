------------------------------- MODULE AddrSpace -------------------------------
(***************************************************************************)
(* Copy-on-write memory: AddrSpace (address_space.rs) with its VmMap       *)
(* (vm.rs), the FramePool (memory.rs), and handle_pgfault, copy_to_user,   *)
(* alloc_pages and free_pages (kernel_struct.rs).  Addresses are page      *)
(* numbers and a page holds one value.  Every operation holds the lock of  *)
(* one address space throughout, so it is one step; a system call that     *)
(* writes user memory is two, ensure_user_range and copy_to_user, and each *)
(* works on whatever process is current when it takes the lock.            *)
(***************************************************************************)
EXTENDS Naturals, FiniteSets

CONSTANTS
    Procs,     \* the processes that may exist
    Root,      \* the first one, init, which is never reaped
    Threads,   \* the threads that make system calls
    NPages,    \* pages of an address space
    NFrames,   \* frames in the pool
    Values,    \* what user memory may hold; 0 is what a new frame holds
    MaxRc      \* bound: a process forks only while its counters are below this

ASSUME AddrSpaceAssumption ==
    /\ Root \in Procs
    /\ NPages \in Nat \ {0} /\ NFrames \in Nat
    /\ 0 \in Values
    /\ MaxRc \in Nat

VARIABLES
    slots,        \* the free frames of the pool
    frame_data,   \* the contents of each frame
    live,         \* the processes that have an address space
    regions,      \* vm_map: the list is sorted by base, so a set stands for it
    cow,          \* cow_pages: the frame and the counter of each page
    kheld,        \* the frames given out by alloc_pages and brk
    cur,          \* cpus[0]: the current process
    pc, page      \* each thread: inside a writing call, and on which page

vars == <<slots, frame_data, live, regions, cow, kheld, cur, pc, page>>
calls == <<cur, pc, page>>

Pages == 0..(NPages - 1)
Frames == 0..(NFrames - 1)
NoFrame == NFrames
NoEntry == [frame |-> NoFrame, rc |-> 0]

Init ==
    /\ slots = Frames
    /\ frame_data = [f \in Frames |-> 0]
    /\ live = {Root}
    /\ regions = [p \in Procs |-> {}]
    /\ cow = [p \in Procs |-> [v \in Pages |-> NoEntry]]
    /\ kheld = {}
    /\ cur = Root
    /\ pc = [t \in Threads |-> "run"]
    /\ page = [t \in Threads |-> 0]

Mapped(p, v) == cow[p][v].frame # NoFrame

--------------------------------------------------------------------------------
(* VmMap *)

\* Mutant: the end of the new region is not compared.
Overlap_OneSided(r, b, e) == b < r.base + r.len /\ b >= r.base

PagesOf(r) == r.base..(r.base + r.len - 1)

\* The tests of insert, protect and remove_range: r shares a page with b up to e.
Overlap(r, b, e) == b < r.base + r.len /\ r.base < e

\* insert refuses a region that overlaps another.
Insert(p, b, l, w) ==
    /\ p \in live
    /\ b + l <= NPages
    /\ \A r \in regions[p] : ~Overlap(r, b, b + l)
    /\ regions' = [regions EXCEPT ![p] = @ \cup {[base |-> b, len |-> l, write |-> w]}]
    /\ UNCHANGED <<slots, frame_data, live, cow, kheld, calls>>

\* protect changes the flags of every region the range touches, whole.
Protect(p, b, l, w) ==
    /\ p \in live
    /\ regions' = [regions EXCEPT ![p] =
                      {IF Overlap(r, b, b + l) THEN [r EXCEPT !.write = w] ELSE r : r \in @}]
    /\ UNCHANGED <<slots, frame_data, live, cow, kheld, calls>>

\* unmap_range drops the regions the range touches, whole, and the pages inside
\* it.  The counter goes down with the entry that held it.
Unmap(p, b, l) ==
    /\ p \in live
    /\ regions' = [regions EXCEPT ![p] = {r \in @ : ~Overlap(r, b, b + l)}]
    /\ cow' = [cow EXCEPT ![p] = [v \in Pages |-> IF v \in b..(b + l - 1) THEN NoEntry ELSE @[v]]]
    /\ UNCHANGED <<slots, frame_data, live, kheld, calls>>

--------------------------------------------------------------------------------
(* fork and exit *)

\* Mutant: the frame is shared without counting it up.
Shared_Uncounted(e) == e

\* frame.up(); the child starts with the same count.
Shared(e) == IF e.frame = NoFrame THEN e ELSE [e EXCEPT !.rc = @ + 1]

Fork(p, c) ==
    /\ p \in live /\ c \notin live
    /\ \A v \in Pages : cow[p][v].rc < MaxRc
    /\ live' = live \cup {c}
    /\ regions' = [regions EXCEPT ![c] = regions[p]]
    /\ cow' = [cow EXCEPT ![p] = [v \in Pages |-> Shared(@[v])],
                          ![c] = [v \in Pages |-> Shared(cow[p][v])]]
    /\ UNCHANGED <<slots, frame_data, kheld, calls>>

\* The last reference to a task goes, its address space with it.  Nothing is
\* counted down and no frame comes back.
Drop(p) ==
    /\ p \in live \ {Root, cur}
    /\ live' = live \ {p}
    /\ regions' = [regions EXCEPT ![p] = {}]
    /\ cow' = [cow EXCEPT ![p] = [v \in Pages |-> NoEntry]]
    /\ UNCHANGED <<slots, frame_data, kheld, calls>>

--------------------------------------------------------------------------------
(* A system call that writes user memory *)

SetCur(p) ==
    /\ p \in live
    /\ cur' = p
    /\ UNCHANGED <<slots, frame_data, live, regions, cow, kheld, pc, page>>

\* get_inner finds the first free frame of the pool.
Found(f) == f \in slots /\ \A g \in slots : f <= g

\* Mutant: the frame found is not marked as taken.
Taken_Unmarked(f) == slots

\* The frame that is returned is marked.
Taken(f) == slots \ {f}

\* Mutant: PgFrame::new, which leaves counting to its caller.
NewEntry_Uncounted(f) == [frame |-> f, rc |-> 0]

NewEntry(f) == [frame |-> f, rc |-> 1]

\* handle_pgfault: the page lies in a region that may be written.
Writable(p, v) == \E r \in regions[p] : v \in PagesOf(r) /\ r.write

\* handle_cow_fault: a frame that is not shared
\* is kept, otherwise the page gets a new one.  Its contents are not copied.
Fault(t, v) ==
    /\ pc[t] = "run"
    /\ Writable(cur, v)
    /\ pc' = [pc EXCEPT ![t] = "ensured"]
    /\ page' = [page EXCEPT ![t] = v]
    /\ IF Mapped(cur, v) /\ cow[cur][v].rc <= 1
         THEN UNCHANGED <<slots, cow>>
         ELSE \E f \in Frames :
                /\ Found(f)
                /\ slots' = Taken(f)
                /\ cow' = [cow EXCEPT ![cur][v] = NewEntry(f)]
    /\ UNCHANGED <<frame_data, live, regions, kheld, cur>>

write_frame(f, x) == [frame_data EXCEPT ![f] = x]

\* copy_to_user takes the lock again, of the process that is current now, and
\* writes the frame its page has, if it has one.
CopyToUser(t, x) ==
    /\ pc[t] = "ensured"
    /\ pc' = [pc EXCEPT ![t] = "run"]
    /\ page' = [page EXCEPT ![t] = 0]
    /\ frame_data' = IF Mapped(cur, page[t])
                       THEN write_frame(cow[cur][page[t]].frame, x)
                       ELSE frame_data
    /\ UNCHANGED <<slots, live, regions, cow, kheld, cur>>

--------------------------------------------------------------------------------
(* Frames for the kernel *)

\* alloc_pages takes the lowest free frame, the frame_alloc of brk another.
AllocPage(f) ==
    /\ f \in slots
    /\ slots' = Taken(f)
    /\ kheld' = kheld \cup {f}
    /\ UNCHANGED <<frame_data, live, regions, cow, calls>>

FreePage(f) ==
    /\ f \in kheld
    /\ slots' = slots \cup {f}
    /\ kheld' = kheld \ {f}
    /\ UNCHANGED <<frame_data, live, regions, cow, calls>>

--------------------------------------------------------------------------------
ProcStep(p) ==
    \/ \E b \in Pages, l \in 1..NPages :
         \/ \E w \in BOOLEAN : Insert(p, b, l, w) \/ Protect(p, b, l, w)
         \/ Unmap(p, b, l)
    \/ \E c \in Procs : Fork(p, c)
    \/ Drop(p)
    \/ SetCur(p)

Next ==
    \/ \E p \in Procs : ProcStep(p)
    \/ \E t \in Threads : (\E v \in Pages : Fault(t, v)) \/ (\E x \in Values : CopyToUser(t, x))
    \/ \E f \in Frames : AllocPage(f) \/ FreePage(f)

Spec == Init /\ [][Next]_vars

--------------------------------------------------------------------------------
(* Properties *)

Entries == [frame : Frames \cup {NoFrame}, rc : Nat]
Regions == [base : Pages, len : 1..NPages, write : BOOLEAN]

\* The fields keep their types.  A frame that is mapped has a counter of at
\* least one, and a page without a frame has none.
TypeOK ==
    /\ slots \subseteq Frames /\ kheld \subseteq Frames
    /\ frame_data \in [Frames -> Values]
    /\ live \subseteq Procs
    /\ regions \in [Procs -> SUBSET Regions]
    /\ cow \in [Procs -> [Pages -> Entries]]
    /\ cur \in live
    /\ pc \in [Threads -> {"run", "ensured"}]
    /\ page \in [Threads -> Pages]
    /\ \A p \in Procs, v \in Pages : Mapped(p, v) <=> cow[p][v].rc > 0

\* handle_cow_fault writes in place only what nobody else maps: parent and
\* child count a shared frame separately, and neither counter is ever too low.
InPlaceIsPrivate ==
    \A p, q \in Procs, v, u \in Pages :
        Mapped(p, v) /\ cow[p][v].rc <= 1 /\ cow[q][u].frame = cow[p][v].frame => p = q /\ v = u

\* The pool gives a frame to one owner: no frame of a process or of the kernel
\* is free, and none is held by both.
FramesOwned ==
    /\ slots \cap kheld = {}
    /\ \A p \in Procs, v \in Pages : Mapped(p, v) => cow[p][v].frame \notin slots \cup kheld

\* A frame is shared only at the same page: sharing comes from fork alone.
SharedAtSamePage ==
    \A p, q \in Procs, v, u \in Pages :
        Mapped(p, v) /\ cow[q][u].frame = cow[p][v].frame => v = u

\* insert, protect, unmap_range and fork_from keep the regions disjoint, which
\* the binary search of find relies on.
RegionsDisjoint ==
    \A p \in Procs : \A r, s \in regions[p] : r # s => PagesOf(r) \cap PagesOf(s) = {}

--------------------------------------------------------------------------------
(* What the comments say and the code does not ensure *)

\* The comment in handle_cow_fault: a page that parent and child share gets a
\* frame of its own before it is written.  So copy_to_user changes the memory of
\* no process but the current one.
WritesArePrivate ==
    [][\A q \in Procs \ {cur}, v \in Pages : Mapped(q, v) =>
          frame_data'[cow[q][v].frame] = frame_data[cow[q][v].frame]]_vars
================================================================================
