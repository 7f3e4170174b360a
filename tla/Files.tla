---------------------------------- MODULE Files --------------------------------
(***************************************************************************)
(* The descriptor tables of tasks and the pipes in them: SYS_PIPE, reads   *)
(* and writes, SYS_DUP, SYS_DUP2, SYS_CLOSE and fork.  Every holder of a   *)
(* pipe node, a table or a call that looked it up, has a PipeNode of its   *)
(* own; dropping one lowers the count of ends that read_at, can_read and   *)
(* can_write take for "both ends are open".  SYS_READ and SYS_WRITE give   *)
(* read_at and write_at an empty buffer, so no pipe ever holds a byte.     *)
(***************************************************************************)
EXTENDS Integers, Sequences, FiniteSets, FiniteSetsExt

CONSTANTS
    Threads,    \* threads inside calls of the kernel
    Tasks,      \* tasks that share no table
    First,      \* the task there is at the start
    Pipes,      \* pipes that can be made
    N_PROC,     \* most descriptors SYS_PIPE allows
    MaxFd       \* bound on descriptor numbers

VARIABLES
    files,      \* task -> its table: descriptor -> node
    alive,      \* the tasks there are
    ends,       \* pipe -> PipeBuf.ends, of the pipes that were made
    pc,         \* where each thread is
    call        \* [task, fd, nodes]: the nodes a thread holds and where they go

vars == <<files, alive, ends, pc, call>>

Fds == 0 .. MaxFd
Node(p, dir) == [pipe |-> p, dir |-> dir]
NoFiles == [fd \in {} |-> 0]
NoCall == [task |-> First, fd |-> 0, nodes |-> <<>>]

Init ==
    /\ files = [k \in Tasks |-> NoFiles]
    /\ alive = {First}
    /\ ends = [p \in {} |-> 2]
    /\ pc = [t \in Threads |-> "idle"]
    /\ call = [t \in Threads |-> NoCall]

Return(t) == pc' = [pc EXCEPT ![t] = "idle"] /\ call' = [call EXCEPT ![t] = NoCall]
GoOn(t, to, c) == pc' = [pc EXCEPT ![t] = to] /\ call' = [call EXCEPT ![t] = c]

\* The table with node at fd, and without fd.
With(k, fd, node) == [g \in DOMAIN files[k] \cup {fd} |-> IF g = fd THEN node ELSE files[k][g]]
Without(k, fd) == [g \in DOMAIN files[k] \ {fd} |-> files[k][g]]

\* Drop for PipeNode, of each node in the sequence.
Drop(nodes) ==
    ends' = [p \in DOMAIN ends |->
               ends[p] - Cardinality({i \in DOMAIN nodes : nodes[i].pipe = p})]

\* What a table loses when fd is overwritten or removed.
Old(k, fd) == IF fd \in DOMAIN files[k] THEN <<files[k][fd]>> ELSE <<>>

\* The least descriptor that is free, from fd up.
FreeFrom(k, fd) == Min({g \in fd .. MaxFd + 1 : g \notin DOMAIN files[k]})

\* SYS_PIPE: a pair is made, then given to add_file one node after the other.
Pipe(t, k, p) ==
    /\ pc[t] = "idle" /\ k \in alive /\ p \in Pipes \ DOMAIN ends
    /\ Cardinality(DOMAIN files[k]) + 2 <= N_PROC
    /\ ends' = [q \in DOMAIN ends \cup {p} |-> IF q = p THEN 2 ELSE ends[q]]
    /\ GoOn(t, "add", [task |-> k, fd |-> 0, nodes |-> <<Node(p, "Rd"), Node(p, "Wr")>>])
    /\ UNCHANGED <<files, alive>>

\* add_file takes the lock of the table twice: to find a free descriptor, and to
\* insert, over what another thread may have put there since.
GetFreeFd(t) ==
    LET fd == FreeFrom(call[t].task, 0) IN
    /\ pc[t] = "add" /\ fd <= MaxFd
    /\ GoOn(t, "insert", [call[t] EXCEPT !.fd = fd])
    /\ UNCHANGED <<files, alive, ends>>

Insert(t) ==
    LET c == call[t] IN
    /\ pc[t] = "insert"
    /\ files' = [files EXCEPT ![c.task] = With(c.task, c.fd, Head(c.nodes))]
    /\ Drop(Old(c.task, c.fd))
    /\ IF Len(c.nodes) = 1 THEN Return(t)
       ELSE GoOn(t, "add", [c EXCEPT !.fd = 0, !.nodes = Tail(@)])
    /\ UNCHANGED alive

\* get_file: the caller gets a clone of the node.
GetFile(t, k, fd) ==
    /\ pc[t] = "idle" /\ k \in alive /\ fd \in DOMAIN files[k]
    /\ GoOn(t, "use", [task |-> k, fd |-> 0, nodes |-> <<files[k][fd]>>])
    /\ UNCHANGED <<files, alive, ends>>

\* read and write through the clone, which is dropped at the end of the call.
Use(t) ==
    /\ pc[t] = "use"
    /\ Drop(call[t].nodes)
    /\ Return(t)
    /\ UNCHANGED <<files, alive>>

\* SYS_DUP under one lock: cloned is dropped at its end, the dup of it stays.
Dup(k, old_fd) ==
    LET fd == FreeFrom(k, old_fd) IN
    /\ k \in alive /\ old_fd \in DOMAIN files[k] /\ fd <= MaxFd
    /\ files' = [files EXCEPT ![k] = With(k, fd, files[k][old_fd])]
    /\ Drop(<<files[k][old_fd]>>)
    /\ UNCHANGED <<alive, pc, call>>

\* SYS_DUP2 closes new_fd before it looks at old_fd.
Dup2(k, old_fd, new_fd) ==
    /\ k \in alive /\ old_fd # new_fd
    /\ IF old_fd \in DOMAIN files[k]
       THEN /\ files' = [files EXCEPT ![k] = With(k, new_fd, files[k][old_fd])]
            /\ Drop(Old(k, new_fd) \o <<files[k][old_fd]>>)
       ELSE /\ files' = [files EXCEPT ![k] = Without(k, new_fd)]
            /\ Drop(Old(k, new_fd))
    /\ UNCHANGED <<alive, pc, call>>

Close(k, fd) ==
    /\ k \in alive /\ fd \in DOMAIN files[k]
    /\ files' = [files EXCEPT ![k] = Without(k, fd)]
    /\ Drop(Old(k, fd))
    /\ UNCHANGED <<alive, pc, call>>

\* fork_task gives the child a dup of every node and counts none of them.
Fork(k, child) ==
    /\ k \in alive /\ child \notin alive
    /\ alive' = alive \cup {child}
    /\ files' = [files EXCEPT ![child] = files[k]]
    /\ UNCHANGED <<ends, pc, call>>

Next ==
    \/ \E t \in Threads, k \in Tasks, p \in Pipes : Pipe(t, k, p)
    \/ \E t \in Threads : GetFreeFd(t) \/ Insert(t) \/ Use(t)
    \/ \E t \in Threads, k \in Tasks, fd \in Fds : GetFile(t, k, fd)
    \/ \E k \in Tasks, fd \in Fds : Dup(k, fd) \/ Close(k, fd)
    \/ \E k \in Tasks, old_fd, new_fd \in Fds : Dup2(k, old_fd, new_fd)
    \/ \E k, child \in Tasks : Fork(k, child)

Spec == Init /\ [][Next]_vars

--------------------------------------------------------------------------------
(* Properties *)

\* A descriptor of some task stands for that end of the pipe.
HasFd(p, dir) == \E k \in Tasks : \E fd \in DOMAIN files[k] : files[k][fd] = Node(p, dir)

\* ends tells, as its comment says, whether the pipe is closed: it is below two
\* only when one of the ends has no descriptor left, so that read_at reports the
\* end of the stream only to a reader whose writers are gone.
EndsAreLive ==
    \A p \in DOMAIN ends : ends[p] < 2 => ~(HasFd(p, "Rd") /\ HasFd(p, "Wr"))

================================================================================
