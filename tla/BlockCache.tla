------------------------------- MODULE BlockCache -------------------------------
(***************************************************************************)
(* BlockCache of cache.rs over Disk of io.rs, written back by sync_all and *)
(* by Kernel::tick, which do the same under the global kernel lock.  Each  *)
(* chain has a spin lock lk that is held across the disk accesses made for *)
(* the chain.  A step is one access to lk, the work under items, or one    *)
(* access to errs; a disk access that loads 0 goes on to blocks in the     *)
(* same step, as the spin lock keeps others from the block.                *)
(* KernLock shows that the lock gkl stands for is exclusive.               *)
(***************************************************************************)
EXTENDS Naturals, Sequences

CONSTANTS
    Threads,
    Keys,       \* block numbers
    Width,      \* the number of chains
    Mix(_),     \* k ^ (k >> 7)
    Values,     \* what put stores
    Fill,       \* 0xAA, read from a block never written
    Ops,        \* the operations the threads call
    MaxErrs,    \* injected disk faults
    UsizeMax    \* usize::MAX, a fault that is never counted off

None == "none"

ASSUME BlockCacheAssumption ==
    /\ Width \in Nat \ {0} /\ MaxErrs \in Nat /\ UsizeMax \in Nat
    /\ Keys \subseteq Nat
    /\ \A k \in Keys : Mix(k) \in Nat
    /\ Ops \subseteq {"fetch", "put", "sync", "invalidate", "evict_cold"}

VARIABLES
    items,    \* the slots of each chain
    lk,       \* the spin lock of each chain
    gkl,      \* who is inside GKL
    blocks,   \* the disk
    errs,     \* faults the disk still has to report
    pc,       \* where each thread is
    op, key, ci,   \* the call it makes, its block and its chain
    val,      \* the data argument of put; what fetch read and returned
    latest,   \* what was last put in each block and not discarded since
    lost      \* the blocks whose last write-back hit a fault

locals == <<op, key, ci>>
vars == <<items, lk, gkl, blocks, errs, pc, locals, val, latest, lost>>

Chains == 0..(Width - 1)
Data == Values \cup {Fill}
NoKey == CHOOSE k \in Keys : TRUE

Init ==
    /\ items = [c \in Chains |-> <<>>]
    /\ lk = [c \in Chains |-> FALSE]
    /\ gkl = None
    /\ blocks = [k \in Keys |-> Fill]
    /\ errs \in 0..MaxErrs \cup {UsizeMax}
    /\ pc = [t \in Threads |-> "idle"]
    /\ op = [t \in Threads |-> None]
    /\ key = [t \in Threads |-> NoKey]
    /\ val = [t \in Threads |-> Fill]
    /\ ci = [t \in Threads |-> 0]
    /\ latest = blocks
    /\ lost = {}

Step(t, from, to) ==
    /\ pc[t] = from
    /\ pc' = [pc EXCEPT ![t] = to]

\* A call returns: its variables are gone.
Return(t, from) ==
    /\ Step(t, from, "idle")
    /\ op' = [op EXCEPT ![t] = None]
    /\ key' = [key EXCEPT ![t] = NoKey]
    /\ ci' = [ci EXCEPT ![t] = 0]

--------------------------------------------------------------------------------
\* The chain a call starts with: fetch and put hash the block number, and
\* invalidate reduces it; sync and evict_cold go through all chains.
FirstChain(o, k) ==
    CASE o \in {"fetch", "put"} -> Mix(k) % Width
      [] o = "invalidate" -> k % Width
      [] OTHER -> 0

Call(t, o, k, v) ==
    /\ Step(t, "idle", IF o = "sync" THEN "enter" ELSE "lock")
    /\ op' = [op EXCEPT ![t] = o]
    /\ key' = [key EXCEPT ![t] = k]
    /\ val' = [val EXCEPT ![t] = v]
    /\ ci' = [ci EXCEPT ![t] = FirstChain(o, k)]
    /\ UNCHANGED <<items, lk, gkl, blocks, errs, latest, lost>>

\* Mutant: the spin lock is stored without being compared.
ChainFree_Blind(c) == TRUE

ChainFree(c) == ~lk[c]

Lock(t) ==
    /\ Step(t, "lock", op[t])
    /\ ChainFree(ci[t])
    /\ lk' = [lk EXCEPT ![ci[t]] = TRUE]
    /\ UNCHANGED <<items, gkl, blocks, errs, locals, val, latest, lost>>

Unlock(t) == lk' = [lk EXCEPT ![ci[t]] = FALSE]

\* The slots of the chain of t that hold its block.
Hits(t) == {i \in 1..Len(items[ci[t]]) : items[ci[t]][i].id = key[t]}

Earliest(S) == CHOOSE i \in S : \A j \in S : i <= j

--------------------------------------------------------------------------------
(* fetch *)

FetchHit(t) ==
    /\ Return(t, "fetch")
    /\ Hits(t) # {}
    /\ val' = [val EXCEPT ![t] = items[ci[t]][Earliest(Hits(t))].payload]
    /\ Unlock(t)
    /\ UNCHANGED <<items, gkl, blocks, errs, latest, lost>>

FetchMiss(t) ==
    /\ Step(t, "fetch", "read")
    /\ Hits(t) = {}
    /\ UNCHANGED <<items, lk, gkl, blocks, errs, locals, val, latest, lost>>

\* What a disk access loads from errs: a fault, or that there is none.
Faulty == errs # 0

\* read_block retries: a fault is counted off in a second access, and one that
\* is usize::MAX is there for ever.
ReadFault(t) ==
    /\ Step(t, "read", IF errs = UsizeMax THEN "read" ELSE "read_err")
    /\ Faulty
    /\ UNCHANGED <<items, lk, gkl, blocks, errs, locals, val, latest, lost>>

\* fetch_sub, which wraps when another access has counted the last fault off.
CountOff == errs' = IF errs = 0 THEN UsizeMax ELSE errs - 1

ReadCount(t) ==
    /\ Step(t, "read_err", "read")
    /\ CountOff
    /\ UNCHANGED <<items, lk, gkl, blocks, locals, val, latest, lost>>

ReadBlock(t) ==
    /\ Step(t, "read", "insert")
    /\ ~Faulty
    /\ val' = [val EXCEPT ![t] = blocks[key[t]]]
    /\ UNCHANGED <<items, lk, gkl, blocks, errs, locals, latest, lost>>

FetchInsert(t) ==
    /\ Return(t, "insert")
    /\ items' = [items EXCEPT ![ci[t]] =
                    Append(@, [id |-> key[t], payload |-> val[t], modified |-> FALSE])]
    /\ Unlock(t)
    /\ UNCHANGED <<gkl, blocks, errs, val, latest, lost>>

--------------------------------------------------------------------------------
(* put *)

\* Mutants of the chain after put: an update that is not marked, and a put that
\* always appends.
Stored_Unmarked(t) ==
    IF Hits(t) = {}
      THEN Append(items[ci[t]], [id |-> key[t], payload |-> val[t], modified |-> TRUE])
      ELSE [items[ci[t]] EXCEPT ![Earliest(Hits(t))].payload = val[t]]
Stored_Appended(t) ==
    Append(items[ci[t]], [id |-> key[t], payload |-> val[t], modified |-> TRUE])

\* The chain after put: the slot of the block updated, or a new one.
Stored(t) ==
    LET slot == [id |-> key[t], payload |-> val[t], modified |-> TRUE] IN
    IF Hits(t) = {}
      THEN Append(items[ci[t]], slot)
      ELSE [items[ci[t]] EXCEPT ![Earliest(Hits(t))] = slot]

\* Mutant: put returns with the spin lock taken.
Put_KeepsLock(t) ==
    /\ Return(t, "put")
    /\ val' = [val EXCEPT ![t] = Fill]
    /\ items' = [items EXCEPT ![ci[t]] = Stored(t)]
    /\ latest' = [latest EXCEPT ![key[t]] = val[t]]
    /\ UNCHANGED <<lk, gkl, blocks, errs, lost>>

Put(t) ==
    /\ Return(t, "put")
    /\ val' = [val EXCEPT ![t] = Fill]
    /\ items' = [items EXCEPT ![ci[t]] = Stored(t)]
    /\ latest' = [latest EXCEPT ![key[t]] = val[t]]
    /\ Unlock(t)
    /\ UNCHANGED <<gkl, blocks, errs, lost>>

--------------------------------------------------------------------------------
(* sync_all and tick *)

SyncEnter(t) ==
    /\ Step(t, "enter", "lock")
    /\ gkl = None
    /\ gkl' = t
    /\ UNCHANGED <<items, lk, blocks, errs, locals, val, latest, lost>>

Dirty(c) == {i \in 1..Len(items[c]) : items[c][i].modified}

\* The end of write_block for the next modified slot: its result is dropped and
\* the mark cleared either way.
WriteBack(t, ok) ==
    LET i == Earliest(Dirty(ci[t]))
        slot == items[ci[t]][i]
    IN
    /\ Dirty(ci[t]) # {}
    /\ items' = [items EXCEPT ![ci[t]][i].modified = FALSE]
    /\ IF ok THEN /\ blocks' = [blocks EXCEPT ![slot.id] = slot.payload]
                  /\ lost' = lost \ {slot.id}
             ELSE /\ lost' = lost \cup {slot.id}
                  /\ UNCHANGED blocks
    /\ UNCHANGED <<lk, gkl, locals, val, latest>>

\* write_block loads 0 and writes, or usize::MAX and fails.
SyncWrite(t) ==
    /\ Step(t, "sync", "sync")
    /\ errs \in {0, UsizeMax}
    /\ WriteBack(t, ~Faulty)
    /\ UNCHANGED errs

\* It loads a fault, counts it off in a second access and fails.
SyncFault(t) ==
    /\ Step(t, "sync", "sync_err")
    /\ Dirty(ci[t]) # {}
    /\ errs \notin {0, UsizeMax}
    /\ UNCHANGED <<items, lk, gkl, blocks, errs, locals, val, latest, lost>>

SyncCount(t) ==
    /\ Step(t, "sync_err", "sync")
    /\ CountOff
    /\ WriteBack(t, FALSE)

\* The chain is unlocked and the next one follows, or the call returns.
NextChain(t) ==
    /\ IF ci[t] + 1 < Width
         THEN /\ Step(t, op[t], "lock")
              /\ ci' = [ci EXCEPT ![t] = @ + 1]
              /\ UNCHANGED <<op, key>>
         ELSE Return(t, op[t])
    /\ Unlock(t)

SyncNext(t) ==
    /\ pc[t] = "sync"
    /\ Dirty(ci[t]) = {}
    /\ NextChain(t)
    /\ gkl' = IF ci[t] + 1 < Width THEN gkl ELSE None
    /\ UNCHANGED <<items, blocks, errs, val, latest, lost>>

--------------------------------------------------------------------------------
(* invalidate and evict_cold *)

InChain(t) == {items[ci[t]][i] : i \in 1..Len(items[ci[t]])}

\* retain: the slots of a chain that are not dropped, in their order.
Retained(slots, dropped) ==
    LET kept[n \in 0..Len(slots)] ==
            IF n = 0 THEN <<>>
            ELSE IF slots[n] \in dropped THEN kept[n - 1] ELSE Append(kept[n - 1], slots[n])
    IN  kept[Len(slots)]

\* Slots of the chain are dropped, modified or not; their blocks are again what
\* the disk has.
Discard(t, dropped) ==
    /\ items' = [items EXCEPT ![ci[t]] = Retained(@, dropped)]
    /\ latest' = [k \in Keys |->
                    IF \E s \in dropped : s.id = k THEN blocks[k] ELSE latest[k]]

Invalidate(t) ==
    /\ Return(t, "invalidate")
    /\ Discard(t, {s \in InChain(t) : s.id = key[t]})
    /\ Unlock(t)
    /\ UNCHANGED <<gkl, blocks, errs, val, lost>>

\* cold: the blocks whose estimated age has reached max_age.
EvictCold(t, cold) ==
    /\ pc[t] = "evict_cold"
    /\ Discard(t, {s \in InChain(t) : s.modified /\ s.id \in cold})
    /\ NextChain(t)
    /\ UNCHANGED <<gkl, blocks, errs, val, lost>>

--------------------------------------------------------------------------------
CallStep(t) ==
    \/ \E o \in Ops \cap {"fetch", "invalidate"}, k \in Keys : Call(t, o, k, Fill)
    \/ "put" \in Ops /\ \E k \in Keys, v \in Values : Call(t, "put", k, v)
    \/ \E o \in Ops \cap {"sync", "evict_cold"} : Call(t, o, NoKey, Fill)

Progress(t) ==
    \/ Lock(t)
    \/ FetchHit(t) \/ FetchMiss(t) \/ ReadFault(t) \/ ReadCount(t) \/ ReadBlock(t)
    \/ FetchInsert(t)
    \/ Put(t)
    \/ SyncEnter(t) \/ SyncWrite(t) \/ SyncFault(t) \/ SyncCount(t) \/ SyncNext(t)
    \/ Invalidate(t)
    \/ \E cold \in SUBSET Keys : EvictCold(t, cold)

Next == \E t \in Threads : CallStep(t) \/ Progress(t)

Spec == Init /\ [][Next]_vars

\* Calls in progress are executed.  The spin locks are not fair: nothing says
\* who of several threads gets one.
Fairness == \A t \in Threads : WF_vars(Progress(t))

FairSpec == Spec /\ Fairness

--------------------------------------------------------------------------------
(* Properties *)

\* A block has one slot in the whole cache: a fetch that misses keeps the spin
\* lock while it reads the disk, so no put or fetch of the block slips in.
OneSlotPerBlock ==
    \A c, d \in Chains : \A i \in 1..Len(items[c]), j \in 1..Len(items[d]) :
        items[c][i].id = items[d][j].id => c = d /\ i = j

\* fetch returns what was last put in its block and not discarded since, from the
\* cache or from the disk, however puts, fetches, write-backs and faults
\* interleave; invalidate and evict_cold discard what they drop.
FetchSeesLastPut ==
    [][\A t \in Threads :
          pc[t] \in {"fetch", "insert"} /\ pc'[t] = "idle" =>
              val'[t] = latest[key[t]]]_vars

\* The comment at the put of SimpleFS::write_data: tick and sync are in charge
\* of writing the block to disk.  Once its slot is clean the disk has it.
CleanMeansWritten ==
    \A c \in Chains : \A i \in 1..Len(items[c]) :
        ~items[c][i].modified => items[c][i].payload = blocks[items[c][i].id]

\* The only slots for which that fails are those whose own last write-back hit a
\* fault; puts, other faults, evictions and fetches never leave one clean and
\* unwritten.
WrittenUnlessFault ==
    \A c \in Chains : \A i \in 1..Len(items[c]) :
        ~items[c][i].modified /\ items[c][i].id \notin lost =>
            items[c][i].payload = blocks[items[c][i].id]

Starts(t) == pc[t] = "idle" /\ pc'[t] # "idle"

RetriesForEver(t) == pc[t] = "read" /\ errs = UsizeMax

\* A thread that writes back inside the kernel lock gets through all chains and
\* leaves, once no more calls start, unless a fetch has a chain and retries for
\* ever: no call returns with the spin lock of a chain taken, no two wait for each
\* other, and a fault that is counted off keeps nobody, whoever counts it.
KernelLockReleased ==
    (<>[][\A t \in Threads : ~Starts(t)]_vars) =>
        (gkl # None ~> gkl = None \/ \E t \in Threads : RetriesForEver(t))

\* The comment of Disk::failing: once its faults are used up the disk works again.
\* It never fails for ever when it was not made to.
DiskRecovers == errs # UsizeMax => [](errs # UsizeMax)
================================================================================
