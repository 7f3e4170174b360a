---------------------------- MODULE ReentrantLock ----------------------------
(***************************************************************************)
(* What a re-entrant kernel lock promises its callers, whatever it keeps   *)
(* inside: one thread at a time is inside, it may enter again, and every   *)
(* leave undoes the latest enter.                                          *)
(***************************************************************************)
EXTENDS Naturals, Sequences

CONSTANTS Threads, Ids   \* the ids callers pass to enter; 0 is an id too

VARIABLE nest            \* nest[t]: the ids t has entered and not yet left

Acquire(t, id) ==
    /\ \A u \in Threads : nest[u] = <<>>
    /\ nest' = [nest EXCEPT ![t] = <<id>>]

Reenter(t, id) ==
    /\ nest[t] # <<>>
    /\ nest' = [nest EXCEPT ![t] = Append(@, id)]

Leave(t) ==
    /\ nest[t] # <<>>
    /\ nest' = [nest EXCEPT ![t] = SubSeq(@, 1, Len(@) - 1)]

Init == nest = [t \in Threads |-> <<>>]

Next ==
    \E t \in Threads :
        \/ \E id \in Ids : Acquire(t, id) \/ Reenter(t, id)
        \/ Leave(t)

Spec == Init /\ [][Next]_nest
==============================================================================
