-------------------------------- MODULE CircBuf --------------------------------
(***************************************************************************)
(* The byte ring of memory.rs.  rd and wr count the bytes read and written *)
(* modulo the width of usize and are reduced modulo cap at every access;   *)
(* n says how many bytes are in between.  All methods take &mut self, so   *)
(* every call is one step.                                                 *)
(***************************************************************************)
EXTENDS Naturals, Sequences

CONSTANTS
    Bytes,      \* the values stored
    Cap,        \* cap, which is also data.len()
    Wrap,       \* the modulus of rd and wr: 2^64 in the code
    Batches,    \* the slices given to fill_from
    MaxDrain    \* the largest max given to drain_to

ASSUME CircBufAssumption ==
    /\ Cap \in Nat \ {0} /\ Wrap \in Nat \ {0} /\ MaxDrain \in Nat
    /\ Batches \subseteq Seq(Bytes)

VARIABLES
    ring,    \* the fields data, rd, wr and n
    wrote,   \* how many bytes the last push or fill_from took
    got      \* the bytes the last pop or drain_to returned

ringVars == <<ring, wrote, got>>

Cells == 0..(Cap - 1)

\* new starts at 0; with_pos(c, r, r) starts an empty ring anywhere.
RingInit ==
    /\ \E r \in 0..(Wrap - 1), zero \in Bytes :
          ring = [data |-> [i \in Cells |-> zero], rd |-> r, wr |-> r, n |-> 0]
    /\ wrote = 0
    /\ got = <<>>

Full(r) == r.n >= Cap

\* push on a ring: the ring afterwards, the same one when it is full.
Pushed(r, v) ==
    LET w == (r.wr + 1) % Wrap IN
    IF Full(r) THEN r ELSE [r EXCEPT !.wr = w, !.data[w % Cap] = v, !.n = @ + 1]

\* Mutant: the byte is read before rd has moved.
Peeked_Stale(r) == r.data[r.rd % Cap]

\* The byte pop returns, and peek shows.
Peeked(r) == r.data[((r.rd + 1) % Wrap) % Cap]

\* pop on a ring that is not empty.
Popped(r) == [r EXCEPT !.rd = (@ + 1) % Wrap, !.n = @ - 1]

Push(v) ==
    /\ ring' = Pushed(ring, v)
    /\ wrote' = IF Full(ring) THEN 0 ELSE 1
    /\ got' = <<>>

Pop ==
    /\ IF ring.n = 0
         THEN got' = <<>> /\ UNCHANGED ring
         ELSE got' = <<Peeked(ring)>> /\ ring' = Popped(ring)
    /\ wrote' = 0

\* fill_from pushes until a push fails; from then on every push would.
Filled(r, src) ==
    LET fill[k \in 0..Len(src)] == IF k = 0 THEN r ELSE Pushed(fill[k - 1], src[k])
    IN  fill[Len(src)]

FillFrom(src) ==
    /\ ring' = Filled(ring, src)
    /\ wrote' = ring'.n - ring.n
    /\ got' = <<>>

\* drain_to pops min(max, n) times: the rings it goes through.
Drains(r, take) ==
    LET drain[k \in 0..take] == IF k = 0 THEN r ELSE Popped(drain[k - 1])
    IN  drain

DrainTo(max) ==
    LET take == IF max < ring.n THEN max ELSE ring.n
        seen == Drains(ring, take)
    IN  /\ ring' = seen[take]
        /\ got' = [i \in 1..take |-> Peeked(seen[i - 1])]
        /\ wrote' = 0

RingNext ==
    \/ \E v \in Bytes : Push(v)
    \/ Pop
    \/ \E src \in Batches : FillFrom(src)
    \/ \E max \in 0..MaxDrain : DrainTo(max)

RingSpec == RingInit /\ [][RingNext]_ringVars

--------------------------------------------------------------------------------
(* Properties *)

\* The bytes between rd and wr, oldest first.
Contents == [i \in 1..ring.n |-> ring.data[((ring.rd + i) % Wrap) % Cap]]

\* push, pop, fill_from and drain_to are the writes and reads of a bounded
\* first-in first-out queue, whatever the positions rd and wr have reached.
Queue == INSTANCE Fifo WITH items <- Contents
IsFifo == Queue!Spec
================================================================================
