---------------------------------- MODULE Fifo ----------------------------------
(***************************************************************************)
(* A bounded byte queue: what CircBuf promises.  A write appends as many   *)
(* of the bytes as fit, a read takes as many as asked for from the front.  *)
(***************************************************************************)
EXTENDS Naturals, Sequences

CONSTANTS Bytes, Cap, Batches, MaxDrain

VARIABLES
    items,   \* the bytes in the queue, oldest first
    wrote,   \* how many bytes the last write took
    got      \* the bytes the last read returned

Least(a, b) == IF a < b THEN a ELSE b

Init == items = <<>> /\ wrote = 0 /\ got = <<>>

Write(src) ==
    /\ wrote' = Least(Len(src), Cap - Len(items))
    /\ items' = items \o SubSeq(src, 1, wrote')
    /\ got' = <<>>

Read(max) ==
    /\ got' = SubSeq(items, 1, Least(max, Len(items)))
    /\ items' = SubSeq(items, Len(got') + 1, Len(items))
    /\ wrote' = 0

Next ==
    \/ \E src \in Batches \cup {<<v>> : v \in Bytes} : Write(src)
    \/ \E max \in 0..MaxDrain \cup {1} : Read(max)

Spec == Init /\ [][Next]_<<items, wrote, got>>
================================================================================
