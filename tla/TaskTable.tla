------------------------------- MODULE TaskTable -------------------------------
(***************************************************************************)
(* The life of a process: fork_task and reap of TaskTable (task.rs) with   *)
(* exit_proc, SYS_EXIT, do_fork, do_wait and reclaim_zombies around them   *)
(* (kernel_struct.rs).  Every task is an actor that forks, waits and exits *)
(* in a thread of its own; actor 0 runs reclaim_zombies.  A step is one    *)
(* critical section, or several of which only the last is seen by others.  *)
(* Files, address spaces and the event buses are left out.                 *)
(***************************************************************************)
EXTENDS Naturals, Sequences

CONSTANTS
    MaxTasks,   \* how many ids seq may hand out
    Codes,      \* the codes passed to exit
    Reclaims    \* reclaim_zombies is running

ASSUME TaskTableAssumption ==
    /\ MaxTasks \in Nat \ {0}
    /\ Codes \subseteq Nat
    /\ Reclaims \in BOOLEAN

VARIABLES
    map,         \* the ids in TaskTable.map
    seq,         \* the next id
    parent,      \* parent of each task, 0 for None
    subtasks,    \* subtasks of each task
    done,        \* status.is_some()
    exit_code,   \* exit_code
    sig_queue,   \* the senders of the SIGCHLDs queued
    pc, target, todo,   \* each actor: its place, the task it handles, the ids left
    arg,         \* the code each task passed to exit
    result,      \* what the last do_wait of each task returned
    zombies      \* the ids reclaim_zombies has still to reap

table == <<map, seq, parent, subtasks, done, exit_code, sig_queue>>
vars == <<table, pc, target, todo, arg, result, zombies>>

Tasks == 1..MaxTasks
Actors == 0..MaxTasks
Root == 1
Reclaimer == 0
NoResult == <<0, 0>>

\* spawn_root has made init, which never exits.
Init ==
    /\ map = {Root} /\ seq = 2
    /\ parent = [t \in Tasks |-> 0]
    /\ subtasks = [t \in Tasks |-> <<>>]
    /\ done = [t \in Tasks |-> FALSE]
    /\ exit_code = [t \in Tasks |-> 0]
    /\ sig_queue = [t \in Tasks |-> {}]
    /\ pc = [a \in Actors |-> CASE a = Root -> "run" [] a = Reclaimer -> "idle" [] OTHER -> "none"]
    /\ target = [a \in Actors |-> 0]
    /\ todo = [a \in Actors |-> <<>>]
    /\ arg = [t \in Tasks |-> 0]
    /\ result = [t \in Tasks |-> NoResult]
    /\ zombies = {}

Step(a, from, to) ==
    /\ pc[a] = from
    /\ pc' = [pc EXCEPT ![a] = to]

--------------------------------------------------------------------------------
(* do_fork *)

\* The child is made and filled in while nobody else can see it.
Fork(t) ==
    /\ Step(t, "run", "push")
    /\ seq <= MaxTasks
    /\ seq' = seq + 1
    /\ target' = [target EXCEPT ![t] = seq]
    /\ parent' = [parent EXCEPT ![seq] = t]
    /\ UNCHANGED <<map, subtasks, done, exit_code, sig_queue, todo, arg, result, zombies>>

ForkPush(t) ==
    /\ Step(t, "push", "register")
    /\ subtasks' = [subtasks EXCEPT ![t] = Append(@, target[t])]
    /\ UNCHANGED <<map, seq, parent, done, exit_code, sig_queue, target, todo, arg, result,
                   zombies>>

\* register puts the child into the map; it runs from here on.
ForkRegister(t) ==
    /\ pc[t] = "register"
    /\ pc' = [pc EXCEPT ![t] = "run", ![target[t]] = "run"]
    /\ map' = map \cup {target[t]}
    /\ UNCHANGED <<seq, parent, subtasks, done, exit_code, sig_queue, target, todo, arg,
                   result, zombies>>

--------------------------------------------------------------------------------
(* SYS_EXIT: exit_proc, SIGCHLD, and the children handed to init *)

\* Mutant: status is set before the code is there.
Exit_StatusFirst(t, code) ==
    /\ Step(t, "run", "code")
    /\ t # Root
    /\ arg' = [arg EXCEPT ![t] = code]
    /\ done' = [done EXCEPT ![t] = TRUE]
    /\ UNCHANGED <<map, seq, parent, subtasks, exit_code, sig_queue, target, todo, result,
                   zombies>>

Exit(t, code) ==
    /\ Step(t, "run", "code")
    /\ t # Root
    /\ arg' = [arg EXCEPT ![t] = code]
    /\ UNCHANGED <<table, target, todo, result, zombies>>

\* Mutant: the parent gets its signal before the status is set.
ExitCode_SignalFirst(t) ==
    /\ Step(t, "code", "status")
    /\ exit_code' = [exit_code EXCEPT ![t] = arg[t]]
    /\ sig_queue' = [sig_queue EXCEPT ![parent[t]] = @ \cup {t}]
    /\ UNCHANGED <<map, seq, parent, subtasks, done, target, todo, arg, result, zombies>>

ExitCode(t) ==
    /\ Step(t, "code", "status")
    /\ exit_code' = [exit_code EXCEPT ![t] = arg[t]]
    /\ UNCHANGED <<map, seq, parent, subtasks, done, sig_queue, target, todo, arg, result,
                   zombies>>

ExitStatus(t) ==
    /\ Step(t, "status", "sigchld")
    /\ done' = [done EXCEPT ![t] = TRUE]
    /\ UNCHANGED <<map, seq, parent, subtasks, exit_code, sig_queue, target, todo, arg,
                   result, zombies>>

\* The parent of this moment is told; the lock of parent is held meanwhile.
ExitSignal(t) ==
    /\ Step(t, "sigchld", "children")
    /\ sig_queue' = [sig_queue EXCEPT ![parent[t]] = @ \cup {t}]
    /\ UNCHANGED <<map, seq, parent, subtasks, done, exit_code, target, todo, arg, result,
                   zombies>>

\* The children are copied; they stay in subtasks as well.
ExitChildren(t) ==
    /\ Step(t, "children", "adopt")
    /\ todo' = [todo EXCEPT ![t] = subtasks[t]]
    /\ UNCHANGED <<table, target, arg, result, zombies>>

\* Mutant: a child handed over is not entered in the list of init.
Adopt_Unlisted(a) ==
    /\ todo[a] # <<>>
    /\ todo' = [todo EXCEPT ![a] = Tail(@)]
    /\ parent' = [parent EXCEPT ![Head(todo[a])] = Root]
    /\ UNCHANGED subtasks

\* link_parent and link_child: the next child goes to init.
Adopt(a) ==
    /\ todo[a] # <<>>
    /\ todo' = [todo EXCEPT ![a] = Tail(@)]
    /\ parent' = [parent EXCEPT ![Head(todo[a])] = Root]
    /\ subtasks' = [subtasks EXCEPT ![Root] = Append(@, Head(todo[a]))]

ExitAdopt(t) ==
    /\ Step(t, "adopt", "adopt")
    /\ Adopt(t)
    /\ UNCHANGED <<map, seq, done, exit_code, sig_queue, target, arg, result, zombies>>

ExitEnd(t) ==
    /\ Step(t, "adopt", "dead")
    /\ todo[t] = <<>>
    /\ UNCHANGED <<table, target, todo, arg, result, zombies>>

--------------------------------------------------------------------------------
(* do_wait, reap, reclaim_zombies *)

Wait(t) ==
    /\ Step(t, "run", "scan")
    /\ subtasks[t] # <<>>
    /\ todo' = [todo EXCEPT ![t] = subtasks[t]]
    /\ result' = [result EXCEPT ![t] = NoResult]
    /\ UNCHANGED <<table, target, arg, zombies>>

\* A child that is not done, or that target_pid does not match.
WaitSkip(t) ==
    /\ Step(t, "scan", "scan")
    /\ todo[t] # <<>>
    /\ todo' = [todo EXCEPT ![t] = Tail(@)]
    /\ UNCHANGED <<table, target, arg, result, zombies>>

WaitFind(t) ==
    /\ Step(t, "scan", "reap")
    /\ todo[t] # <<>> /\ done[Head(todo[t])]
    /\ target' = [target EXCEPT ![t] = Head(todo[t])]
    /\ result' = [result EXCEPT ![t] = <<Head(todo[t]), exit_code[Head(todo[t])]>>]
    /\ todo' = [todo EXCEPT ![t] = <<>>]
    /\ UNCHANGED <<table, arg, zombies>>

\* Nothing found: 0 or echild, never a wait.
WaitNone(t) ==
    /\ Step(t, "scan", "run")
    /\ todo[t] = <<>>
    /\ UNCHANGED <<table, target, todo, arg, result, zombies>>

AfterReap(a) == IF a = Reclaimer THEN "reclaim" ELSE "run"

\* reap looks the task up and sets its status.
Reap(a) ==
    /\ Step(a, "reap", IF target[a] \in map THEN "drain" ELSE AfterReap(a))
    /\ done' = [done EXCEPT ![target[a]] = @ \/ target[a] \in map]
    /\ UNCHANGED <<map, seq, parent, subtasks, exit_code, sig_queue, target, todo, arg,
                   result, zombies>>

ReapDrain(a) ==
    /\ Step(a, "drain", "link")
    /\ todo' = [todo EXCEPT ![a] = subtasks[target[a]]]
    /\ subtasks' = [subtasks EXCEPT ![target[a]] = <<>>]
    /\ UNCHANGED <<map, seq, parent, done, exit_code, sig_queue, target, arg, result,
                   zombies>>

ReapLink(a) ==
    /\ Step(a, "link", "link")
    /\ Adopt(a)
    /\ UNCHANGED <<map, seq, done, exit_code, sig_queue, target, arg, result, zombies>>

\* Mutant: the task stays in the map.
ReapRemove_Kept(a) ==
    /\ Step(a, "link", AfterReap(a))
    /\ todo[a] = <<>>
    /\ UNCHANGED <<table, target, todo, arg, result, zombies>>

ReapRemove(a) ==
    /\ Step(a, "link", AfterReap(a))
    /\ todo[a] = <<>>
    /\ map' = map \ {target[a]}
    /\ UNCHANGED <<seq, parent, subtasks, done, exit_code, sig_queue, target, todo, arg,
                   result, zombies>>

Reclaim ==
    /\ Reclaims
    /\ Step(Reclaimer, "idle", "reclaim")
    /\ zombies' = {t \in map : done[t]}
    /\ UNCHANGED <<table, target, todo, arg, result>>

ReclaimNext ==
    /\ Step(Reclaimer, "reclaim", "reap")
    /\ \E z \in zombies :
          /\ \A y \in zombies : z <= y
          /\ target' = [target EXCEPT ![Reclaimer] = z]
          /\ zombies' = zombies \ {z}
    /\ UNCHANGED <<table, todo, arg, result>>

ReclaimEnd ==
    /\ Step(Reclaimer, "reclaim", "idle")
    /\ zombies = {}
    /\ UNCHANGED <<table, target, todo, arg, result, zombies>>

--------------------------------------------------------------------------------
ReapStep(a) == Reap(a) \/ ReapDrain(a) \/ ReapLink(a) \/ ReapRemove(a)

TaskStep(t) ==
    \/ ForkPush(t) \/ ForkRegister(t)
    \/ ExitCode(t) \/ ExitStatus(t) \/ ExitSignal(t) \/ ExitChildren(t) \/ ExitAdopt(t) \/ ExitEnd(t)
    \/ WaitSkip(t) \/ WaitFind(t) \/ WaitNone(t)
    \/ ReapStep(t)

Call(t) ==
    \/ Fork(t) \/ Wait(t)
    \/ \E code \in Codes : Exit(t, code)

ReclaimStep == ReclaimNext \/ ReclaimEnd \/ ReapStep(Reclaimer)

Next == (\E t \in Tasks : Call(t) \/ TaskStep(t)) \/ Reclaim \/ ReclaimStep

Spec == Init /\ [][Next]_vars

\* Calls in progress are executed; nobody has to make one.
Fairness ==
    /\ \A t \in Tasks : WF_vars(TaskStep(t))
    /\ WF_vars(ReclaimStep)

FairSpec == Spec /\ Fairness

--------------------------------------------------------------------------------
(* Properties *)

Listed(c, p) == \E i \in 1..Len(subtasks[p]) : subtasks[p][i] = c

Quiet == \A a \in Actors : pc[a] \in {"run", "idle", "none", "dead"}

\* No task is orphaned: between calls every task in the map except init has a
\* parent that is in the map and lists it, however exits and reaps of its
\* ancestors interleaved, so that someone can still wait for it.
Adopted ==
    Quiet => \A c \in map \ {Root} : parent[c] \in map /\ Listed(c, parent[c])

\* A parent collects the code its child exited with: exit_proc stores the code
\* before the status that makes the child visible to do_wait.
WaitGetsCode ==
    \A t \in Tasks : result[t] # NoResult => result[t][2] = arg[result[t][1]]

\* A SIGCHLD always comes from a child that do_wait would already find done.
SignalAfterDone ==
    \A p, c \in Tasks : c \in sig_queue[p] => done[c]

\* If reclaim_zombies is called again and again no task stays a zombie forever,
\* whether or not its parent waits for it.
ZombiesReclaimed ==
    ([]<>(pc[Reclaimer] = "reclaim")) =>
        \A t \in Tasks : (t \in map /\ done[t]) ~> (t \notin map)

\* The comments of reap and SYS_EXIT: children are transferred to init, so a
\* task is in one list of children, once.
TransferredOnce ==
    Quiet =>
        \A c \in map \ {Root} : \A p, r \in Tasks :
            \A i \in 1..Len(subtasks[p]), j \in 1..Len(subtasks[r]) :
                subtasks[p][i] = c /\ subtasks[r][j] = c => p = r /\ i = j

\* The comment of do_wait: it returns a zombie child, one that is still in the
\* map when it is found.
WaitFindsZombie ==
    \A t \in Tasks : pc[t] = "reap" => target[t] \in map

\* has_sig skips an entry whose sender is neither -1 nor the task itself.
HasSig(p) == p \in sig_queue[p]

\* The comment of has_sig: it tells whether a signal is pending that is not
\* masked, and nothing masks SIGCHLD here.
PendingSeen == \A p \in Tasks : sig_queue[p] # {} => HasSig(p)
================================================================================
