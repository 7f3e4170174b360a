# Chaos kernel: TLA+ models and proofs

The program is the kernel under `src/kernel/src/kernel/`: the state and the
system calls of a small Unix-like kernel, written in Rust over the standard
library.  CPUs are threads, locks are `Mutex`, spin flags and a re-entrant kernel
lock, blocking is `thread::park`, the disk is a map with injected faults.  This
directory models its concurrent core, checks it with TLC and proves its safety
properties with TLAPS.  One module is about C code: the thread library in
`src/user/biscuit/c/libs/litc.c`.

## Inventory

| Part (source) | State | Operations | What is hard | What makes it correct |
|---|---|---|---|---|
| Kernel lock `GKL` (locking.rs) | flag, holder stack, depth, owner | enter, try_enter, leave | Relaxed fields behind one flag, re-entrance, overflow | exclusion, exact nesting, nothing left behind |
| `SyncQueue` (sync_queue.rs) | queue, epoch | five waits, signal, broadcast, signal_n | unpark before park, several queues, timeouts | no waiter is forgotten, one wakeup per park |
| Byte ring `CircBuf` (memory.rs) | cells, two counters, length | push, pop, peek, fill_from, drain_to | counters wrap at 2^64 | first in, first out |
| `Channel` (files.rs) | ring, spin guard, queue, shut | recv, try_recv, drain_all, send, send_batch, close | three locks taken in turn | guard exclusive, no sleep with data |
| `TaskTable` and process life (task.rs, kernel_struct.rs) | map, parents, children, status, signals | fork, exit, wait, reap, reclaim | all of them at once on one family | nobody is orphaned, wait gets the code |
| `BlockCache` over `Disk` (cache.rs, io.rs) | chains, spin locks, dirty marks, disk | fetch, put, sync_all/tick, invalidate, evict_cold | faults, locks held across disk reads | fetch sees the last put, one slot per block |
| Address spaces, COW, frame pool (address_space.rs, vm.rs, memory.rs) | regions, page table with counters, free frames | insert, protect, unmap, fork, fault, copy_to_user, alloc, free | fork between fault and write, exhausted pool | in-place writes are private, a frame has one owner |
| `FutexBucket` (futex.rs) | list of entries with flags | wait, wake, requeue | value tested outside the lock, entries of waits that gave up | no sleeper loses its entry, order of arrival |
| `SimpleFS` (fs.rs, kernel_struct.rs) | inode table, directories, block lists | lookup, create_file, create_dir, unlink, truncate, read_data, write_data | names and inodes in separate critical sections, alignment, holes | reads return what was written, names lead to inodes, blocks have one owner |
| Descriptors and pipes (files.rs, task.rs, kernel_struct.rs) | fd tables, end counts | pipe, read, write, dup, dup2, close, fork | copies of pipe ends | ends counts the open ends |
| Thread library (litc.c) | futex words, barrier count | mutex lock and unlock, cond wait, signal, broadcast, barrier wait | atomic instructions and futex calls interleave, sleepers moved between queues | exclusion, no lost wakeup, the barrier can be reused |
| Semaphores, keyed wait queue, epoll | counts, waiters, ready lists | acquire, sleep, wake | entries removed by key | no lost wakeup |
| Run queue, timer wheel, signals | ordered queue, slots, bit sets | enqueue, advance, raise, deliver | re-ordering in place, boundary ticks | order kept, timers fire |
| Page cache, object registry, I/O queue, mounts | maps and lists | evict, submit, resolve | eviction of dirty pages, batch limit | nothing unwritten is dropped |
| Traps, process groups, limits, network stubs, ELF, helpers | small records | getters, setters, pure functions | little | - |

The parts meet as follows.  System calls and `tick` run on several CPUs.  `tick`
and `sync_all` enter the kernel lock and then take the spin lock of every cache
chain; `fetch` and `put` take one spin lock without the kernel lock.  `Channel`
holds a `CircBuf`.  `SYS_READ` and `SYS_WRITE` first fault the user pages in and
then copy, each under a lock of its own.  `fork` copies the address space under
the lock of the parent's and then its descriptors.  `SimpleFS` reads and writes
blocks through the `BlockCache`.  Exit, wait and reclaim meet in the lists of children
and in the map of tasks.

The hazards, each at its line, are listed in `PROJECT.json`.

## Modules

A step of a model is one critical section, one atomic access that other threads
can see, or one park or unpark.  Log output is left out.  Each component module
has its operators next to single-change variants marked "Mutant"; they are not
part of the specification and show which mistake each property would catch.

| Module | Models | State and actions |
|---|---|---|
| `KernLock` | `KernLock::enter/try_enter/leave` | Fields of the struct, one action per store; `nest` records what a caller has open. |
| `ReentrantLock` | abstract: an owner and its nesting | `KernLock` is shown to implement it (`ImplementsReentrantLock`). |
| `SyncQueue` | the waits and signals | `q`, `epoch`, a token per thread for park; `batch` is what a signaler has popped. `Steady` threads wait on one queue, until they are woken. |
| `CircBuf`, `Fifo` | the ring; an abstract bounded queue | `Wrap` stands for 2^64; `IsFifo` maps the ring to the queue; the loops of `fill_from` and `drain_to` are recursive functions. |
| `Channel` | recv to close | The ring is its length. |
| `TaskTable` | fork to reclaim | Each task is an actor; actor 0 is `reclaim_zombies`. |
| `BlockCache` | cache, disk and write-back | The fault count `errs` is loaded in one step and counted down in another; `UsizeMax` is the fault that lasts. `latest` and `lost` are history: the last put of a block that was not discarded since, and blocks whose last write-back failed. |
| `AddrSpace` | COW memory and frame pool | Pages and frames are numbers, a page holds one value. |
| `Futex` | `FutexBucket::wait/wake/requeue` | One list for all addresses; an entry is `live` while the wait that pushed it goes on; `before` is history: which of two sleepers not woken yet came first. |
| `SimpleFS` | open, mkdir, unlink and file data | One action per critical section of the inode table; `done` is the number of blocks written before a fetch fails; `written` is history. |
| `Files` | descriptor tables and pipe ends | A pipe node is a pipe and a direction; `Drop` is `PipeNode::drop`. |
| `Pthreads` | mutex, condition variable and barrier of litc.c | One action per atomic instruction or futex call; the kernel's futex and the client program, which works once and then passes `Rounds` rounds of the barrier, are external. |
| `MC...` | instances for TLC | |
| `...Proofs` | theorems about every component but `Files` | `ChannelProofs` is also about `CircBuf`, `PthreadsProofs` also about `Futex`. |

`thread::park` and `unpark` are modelled from the library's contract: a token per
thread, and for threads that are not `Steady` a return without it.

Assumptions about callers, taken from how the code calls each part: every
`leave` passes the id of the enter it undoes, and a thread already inside does
not pass id 0; init never exits and is never reaped; `free_pages` gets what
`alloc_pages` returned; a chain of the block cache is chosen by the hash in
`MCBlockCache`.  A system call writes within one page.  In `AddrSpace`, a child
is visible only once `do_fork` has copied the address space, and every counter
of a shared page is bounded by `MaxRc` before a fork; the regions of a process
are a set, since insert keeps the list sorted; `ref_count` of a region, on
which no decision depends, and `split_region` are left out.  In `SimpleFS` a
block holds what was last put: this is what the run `blockcache` shows as long as
the disk takes the write-backs.  `Truncate` to any size is the public function;
the kernel itself truncates to 0 only; it takes directories too, whose size
nothing reads, so `MCSimpleFS` has a `VIEW` without it.  `write_data` returns early
when a fetch fails, and the model lets every fetch fail; `Disk::read_block` as it
stands retries and never returns an error, so today's kernel always goes on to the
end.  In `Pthreads` the barrier is used by as many threads as it was made for, two
or more.  Left out there are a process that ends in `err` or `errx` (they clear
`dolock`, and `pthread_mutex_lock` then returns at once) and errors and timeouts of
the futex call.

## Runs

| Run | Instance | Shows |
|---|---|---|
| `kernlock` | 3 threads, capacity 2, nesting 3 | exclusion, exact bookkeeping, the assert fires only when full, a released lock is clean, the abstract lock is implemented, waiters get in |
| `syncqueue` | 3 waiters and 2 signalers at 1 queue; 2 waiters and 1 signaler at 2 queues with timeouts and spurious returns | exactly one wakeup is due per park of a steady thread, no parked thread is forgotten, no steady thread is overtaken forever, epoch does not underflow |
| `circbuf` | capacity 4, counters of three bits, every start position | the ring is a bounded FIFO across the wrap of its counters |
| `channel` | 2 receivers, 2 senders, capacity 2 | guard exclusive and given back, no parked receiver forgotten by a pop |
| `tasktable` | 3 tasks and the reclaimer | no orphans, wait gets the code, SIGCHLD after done, zombies go when reclaimed |
| `blockcache` | 2 threads, blocks 0 and 128, 2 chains, no fault, 1 fault or a lasting one | fetch sees the last put, one slot per block, clean means written unless that write failed, a write-back ends unless a fetch retries for ever |
| `addrspace` | 2 processes, 2 threads, 2 pages, 2 frames | in-place writes are private, frames have one owner, sharing only at the same page, regions disjoint |
| `futex` | 2 waiters, 1 waker, 2 addresses, 1 stale entry | no sleeper loses its entry, wakeups in order of arrival across requeue, a woken thread returns |
| `simplefs` | 2 callers, 2 paths, 2 inodes, 2 blocks of 2 bytes, fetches that fail | reads return what was written, no block in two places, a name leads to an inode of its own |
| `pthreads` | 3 consumers, 1 producer, 3 rounds of the barrier | exclusion, no sleeper forgotten at the mutex, nobody passes the barrier early, everybody gets through |
| `addrspace_fork` | 2 processes, 1 page | violated: a fork between fault and copy makes a write visible in the child |
| `pipe_ends` | 2 tasks, 1 pipe | violated: a dup, read or write leaves the pipe marked closed with both ends open |

Why the bounds suffice.  In the lock, three threads give a holder, a waiter and
one arriving; one level past the capacity reaches the assert.  For `SyncQueue`,
one run starts in one of two scenes (`MCSyncQueue`): a crowd at one queue, where
threads overtake and two signalers pop at once, and a few threads at two queues,
where timeouts, spurious returns and `wait_events` leave stale entries.  Two sleepers at two addresses are what requeue can put out of
order.  In `SimpleFS` two callers race for a name in the root and one below it,
and three positions reach across a block border and leave a hole.  Three
consumers let one be woken by a broadcast while two are moved to the mutex, and
the producer may signal, broadcast again and meet new waiters before that is
done; with three rounds fast threads come again while slow ones leave; `m`,
2^31 in the code, only has to exceed the number of threads.  `Wrap` is a small multiple of the capacity, since
only the position relative to the wrap matters.  Three tasks are a parent, a
child that is itself a parent, and a grandchild.  Block 128 is the first for
which the two chain computations of the cache differ.  One fault is enough for two
accesses to load the same last fault, after which `errs` wraps to `UsizeMax`.  Two frames for two pages
of two processes let the pool run out in the middle of a COW break.  Epoch,
queue lengths, counters, stale futex entries, inode and block numbers are bounded
in guards (`MaxEpoch`, `MaxQueue`, `MaxRc`, `MaxStale`, `MaxIno`, `MaxBlk`): a step
that would pass the bound is not taken, so a signaler at `MaxEpoch`, a waiter at
`MaxQueue` or a creator at `MaxIno` may stay where it is, which only leaves out
behaviours beyond the bound.

Deadlock checking is off where the system may stop: a lock whose holder panicked,
waiters whose signalers have reached `MaxEpoch`, and callers that find no inode
number left.

Fairness.  Only steps inside a call are weakly fair: a thread that can go on is
scheduled again, which the operating system's threads give.  Nobody has to make
a call, spin locks are not fair among several spinners, and
`WaiterProgress`, `WokenInTurn` and `KernelLockReleased` are stated accordingly
(some waiter gets in; as long as signals find waiters; once no more calls start,
unless a fetch retries on a disk that never recovers).  `GuardReleased` says that
the guard is given back, not who gets it next.  `AllDone` needs only that some
thread goes on while one can.
`reclaim_zombies` is public and called by no code of the kernel itself, so
`ZombiesReclaimed` is about runs in which it is called again and again.

## Proofs

Eight modules about ten components, each theorem for every value of the
component's constants.  The only assumptions are the `ASSUME` of the component's
module, which TLC evaluates on its run, and for `RingIsFifo` the hypothesis that
`Cap` divides `Wrap`: without it the ring is not a queue (see below), and the
capacities in use (`RBUF_CAP`, and those of the tests) are powers of two.  Each
proof has an inductive invariant, checked by TLC on the bounds of the run before
it was proved, and one lemma per conjunct or per kind of step.

| Module | Theorems | Inductive invariant |
|---|---|---|
| `KernLockProofs` | the six safety properties of the run and the implementation of `ReentrantLock` | `LockInv` |
| `AddrSpaceProofs` | the five properties of the run `addrspace` | `MemInv` |
| `SyncQueueProofs` | `TypeOK`, `WakeAccounted`, `OneWakePerPark` | `QueueInv` |
| `ChannelProofs` | `TypeOK`, `GuardExclusive`, `WakeAccounted` | `ChannelInv` |
| | of `CircBuf`: the implementation of `Fifo` | `RingOK` |
| `TaskTableProofs` | `WaitGetsCode`, `SignalAfterDone`, `Adopted` | `TaskInv` |
| `BlockCacheProofs` | `OneSlotPerBlock`, `WrittenUnlessFault`, `FetchSeesLastPut` | `CacheInv` |
| `SimpleFSProofs` | `BlocksOwned`, `NamesLead`, `ReadBack` | `FSInv`; for `ReadBack` also `FreshInv`, `StoreInv`, `DataInv` |
| `PthreadsProofs` | `MutexExclusion`, `SleeperRemembered`, `BarrierTogether` | `PthreadsInv` |
| | of `Futex`: `SleeperReachable`, `WokenInArrivalOrder` | `FutexInv` |

Why the invariants are stronger than the properties:

- `KernLock`: mutual exclusion needs, for every place in enter and leave, who
  holds the flag, what `owner_tid` is (`ControlInv`), how `depth` relates to the
  open enters (`DepthInv`) and what the stack holds (`StackInv`).
- `AddrSpace`: that an in-place write is private needs that a free frame is
  mapped nowhere (for a fault) and that a mapped page has a counter of at least
  one (for a fork, after which both counters are at least two).
- `SyncQueue`: `OneWakePerPark` counts entries, and counting is not inductive
  step by step.  `OnePlace` says instead where a steady thread may stand: in one
  queue, or in what one signaler has popped, or with its token, once and in only
  one of them.  That a signaler holds popped threads exactly while it unparks
  (`BatchInv`) keeps a second signal from overwriting them.
- `CircBuf`: `RingOK` says that `wr` is `n` bytes ahead of `rd` modulo `Wrap`.
  That a push overwrites no byte still in the ring is `RestTwice`, where the
  divisibility enters, with `RestApart`; `FillIs` and `DrainIs` give what the two
  loops leave in the ring, in terms of its contents.
- `Channel`: `ChannelInv` adds only that a sender is never at a label of `recv`.
- `TaskTable`: `AdoptInv` says who is responsible for a task while calls are under
  way: the parent in the map that lists it, or an actor that has it in hand for
  init.  `ListInv` bounds where a task can be listed: a listed child that does not
  run yet is one its parent is about to register, and nobody has it in hand.
  `ForkInv` says that until it is registered a child is its parent's alone;
  `DoneInv` ties the status of a task to its place and the code it passed, and
  `ResultInv` carries it to the waiter.
- `BlockCache`: a fetch that missed reads the disk with the spin lock held.
  `LockInv` gives the lock one holder, `MissInv` says that such a fetch still
  misses and that what it read is on the disk, and `LatestInv` that a block
  without a slot has its last put on the disk.
- `SimpleFS`: a block is in one place because `next_blk` is above all of them
  (`TableInv`); a name leads to an inode of its own because an inode number is
  either named or held by one creator under way (`InoInv`), also after an unlink
  between the critical sections of another call.  `ReadBack` speaks of what
  `read_data` returns, which no step mentions.  `DataInv` says where each byte
  lies instead: below the size, in the block its position falls into, at its
  offset there; `StoreInv` gives the blocks their shape, and `FreshInv` keeps an
  insert from replacing a file that was written to.  Then `ReadIs` shows that the
  loop of `read_data` returns the bytes at consecutive positions, and
  `WriteBytes` that the loop of `write_data` puts each byte of the buffer at its
  position and changes no byte of another file, which is where `BlocksOwned` is
  needed.
- `Pthreads`: `QueuesInv` puts every sleeper in one futex queue; `MoveInv` says
  that a consumer told to move the others is on its way to do so; the barrier is at any
  time `Gathering` (everybody is in one round, the count is of those that came)
  or `Draining` (the bit is up, the count is of those still inside).
- `Futex`: that sleepers are woken in order of arrival speaks of the moment two
  of them stand at one address, to which requeue may have brought either.
  `OrderInv` says of all sleepers, wherever they are queued, that their entries
  stand in the one list in the order they came, and `EntryInv` that a sleeper has
  exactly one live entry.  Since requeue writes the new address in place and
  `retain` keeps the order, both survive; `WithoutIs` is the lemma about `retain`
  (what is left, and that positions only move down together), `AheadGrows` the one
  that makes the entries woken a prefix of those at the address.

Induction over the naturals is done by taking the least counterexample:
`LeastExists`, from the well-foundedness of the naturals, gives the facts about
`Retained`, the recursive function that stands for `Vec::retain`
(`BlockCacheProofs`), and about the loops of `read_data` and `write_data`
(`SimpleFSProofs`).  For these the function that solves the recursion is given in
closed form (`TotalIs`, `Rest`): it shows that there is one, and the least
counterexample that there is no other.  Where there is no closed form (`fill_from`
and `drain_to` of the ring, the `retain` of the futex list) the solution is built
up position by position (`FillsExist`, `PopsExist`, `ScanExists`, from `UpTo`).

Only model-checked: all liveness (`WaiterProgress`, `WokenInTurn`, `GuardReleased`,
`ZombiesReclaimed`, `KernelLockReleased`, `WokenReturns`, `AllDone`), which is out
of the prover's reach.

## Where comments and code disagree

Kept as runs: `addrspace_fork` (address_space.rs:99) and `pipe_ends`
(files.rs:370).  Five more are stated in the modules with a configuration of
their own, with which TLC finds the counterexample:

- `NoSleepWithData`, `MCChannelLost.cfg`: a receiver sleeps with a byte in the
  ring (files.rs:941).
- `WaitFindsZombie`, `MCTaskTableWait.cfg`: `do_wait` returns a child already
  reaped (kernel_struct.rs:1492).
- `CleanMeansWritten`, `MCBlockCacheFault.cfg`: a failed write-back marks the block
  clean (fs.rs:228).
- `DiskRecovers`, `MCBlockCacheWrap.cfg`: two concurrent disk accesses both count
  off the last fault; `errs` wraps to `usize::MAX`, which means failing for ever,
  though io.rs:188 says the disk recovers.
- `NoSleepAfterChange`, `MCFutexLost.cfg`: `wait` compares the word before it locks
  the list, so a wake in between is lost (futex.rs:37).

Stated in the modules or visible in the actions, without a configuration:

- `NoSleepPastSignal`: `signal` raises epoch after it has dropped the queue lock;
  sync_queue.rs:116 says epoch solves lost wakeups.
- `NoSleepAfterClose`, `NoneMeansClosed`: a receiver may queue after `close` has
  emptied the queue, and may return None from an open channel (files.rs:1048, 942).
- `TransferredOnce`: SYS_EXIT and reap both hand children to init
  (kernel_struct.rs:687).
- `PendingSeen`: `has_sig` skips a SIGCHLD sent by a child (task.rs:319).
- `CircBuf` with a capacity that does not divide 2^64 loses its order at the wrap
  (memory.rs:79).
- `invalidate` searches the chain `k % width`, not the one put and fetch use
  (cache.rs:677); `evict_cold` keeps clean slots and drops modified ones
  (cache.rs:737).
- `handle_cow_fault` does not copy the old contents into the new frame; the
  pages of a region that unmap_range removes stay mapped outside the range; no
  user frame is ever returned to the pool.
- Two opens with O_CREAT of one missing name both create it, with O_EXCL too; the
  second replaces the entry and the first file is left without a name
  (fs.rs:133).  `unlink` of a directory that is not empty leaves its contents in
  the table, out of reach (fs.rs:159).
- `truncate` keeps the old bytes of the last block; they come back when the file
  grows over them (fs.rs:245).
- SYS_READ and SYS_WRITE give a pipe an empty buffer, so no byte ever passes
  (kernel_struct.rs:333, 357).
- litc.c: `pthread_cond_timedwait` returns from a timeout without the mutex (1270);
  a barrier for one thread stays open with its bit set, so its second use spins
  for ever (1215); on targets other than x86_64 and aarch64 the loop at 1222 has
  no body of its own and takes the decrement at 1229 for it.

## Not modelled

The reasons are with each component in `PROJECT.json`.  In short: traps, process
groups, limits, network stubs, ELF and helpers are pure functions or plain
records; the upstream rCore base, user programs, boot loader and tools are not
this kernel's own logic.  Of the C code in the tree only the thread primitives of
`litc.c` are modelled.  That file comes from Biscuit, and the build links the
programs against musl instead (`src/user/README.md`): what `Pthreads` shows is
about the library as it stands there, not about a program the kernel runs.  The
rest of the C code is data tables, `dlmalloc`, printf, wrappers of system calls
and test programs.

## Plan

1. An abstract pipe with reference-counted ends as the specification of `Files`,
   and file handles, whose offset is read and advanced in separate steps.
2. Semaphores and the keyed wait queue: stale entries, undo at exit.
3. Run queue, timer wheel and signals: order after boost, rebalance and yield;
   timers against the clock; blocked and pending sets across exec.
4. Page cache, I/O queue, object registry; `set_errs` and `read_block_n` of the disk.
5. The rest of the address space: split_region, SharedPage, brk and mmap.
