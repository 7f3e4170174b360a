---------------------------- MODULE TaskTableProofs ----------------------------
(***************************************************************************)
(* For any number of tasks and any exit codes: a wait returns the code its *)
(* child exited with, a SIGCHLD comes from a task that is done, and no     *)
(* task is orphaned by the exits and reaps of its ancestors.               *)
(***************************************************************************)
EXTENDS TaskTable, TLAPS

\* x is in the list s.
In(s, x) == \E i \in 1..Len(s) : s[i] = x

\* Labels of a task that has set its status, of one that copied the children it
\* hands to init, and of one that reaps.
DoneLabels == {"sigchld", "children", "adopt", "dead"}
Adopting == {"adopt", "link"}
Reaping == {"reap", "drain", "link"}
Forking == {"push", "register"}
Labels == {"none", "run", "code", "status", "scan", "idle", "reclaim"}
            \cup DoneLabels \cup Reaping \cup Forking

Types ==
    /\ map \subseteq Tasks
    /\ seq \in Nat /\ seq >= 2
    /\ parent \in [Tasks -> Nat]
    /\ subtasks \in [Tasks -> Seq(Tasks)]
    /\ DOMAIN done = Tasks
    /\ exit_code \in [Tasks -> Nat] /\ arg \in [Tasks -> Nat]
    /\ sig_queue \in [Tasks -> SUBSET Tasks]
    /\ pc \in [Actors -> Labels]
    /\ target \in [Actors -> Nat]
    /\ todo \in [Actors -> Seq(Tasks)]
    /\ result \in [Tasks -> Nat \X Nat]
    /\ zombies \subseteq Tasks

\* Only the reclaimer is at its labels, and init is never at those of an exit.
PlacesInv ==
    /\ pc[Reclaimer] \in {"idle", "reclaim"} \cup Reaping
    /\ pc[Root] \notin DoneLabels \cup {"code", "status", "none"}
    /\ \A t \in Tasks : t >= seq => pc[t] = "none"
    /\ \A t \in map : pc[t] # "none"
    /\ \A t \in Tasks : pc[t] \notin DoneLabels \cup {"none"} => t \in map

\* A child is its parent's alone until register shows it.
ForkInv ==
    \A t \in Tasks : pc[t] \in Forking =>
        /\ target[t] \in Tasks /\ pc[target[t]] = "none" /\ parent[target[t]] = t
        /\ target[t] < seq
        /\ pc[t] = "register" => In(subtasks[t], target[t])

\* A child that is listed and does not run yet is one its parent is about to
\* register, so that nobody hands it to init.
ListInv ==
    /\ \A p, c \in Tasks :
          In(subtasks[p], c) /\ pc[c] = "none" => pc[p] = "register" /\ target[p] = c
    /\ \A a \in Actors : pc[a] \in Adopting => \A c \in Tasks : In(todo[a], c) => pc[c] # "none"

\* status is set after the code, and what is reaped has its status set; a task
\* whose subtasks were drained gets no new ones.
DoneInv ==
    /\ \A t \in Tasks : done[t] <=> pc[t] \in DoneLabels
    /\ \A t \in Tasks : pc[t] \in DoneLabels \cup {"status"} => exit_code[t] = arg[t]
    /\ \A a \in Actors : pc[a] \in Reaping => target[a] \in Tasks /\ pc[target[a]] \in DoneLabels
    /\ \A z \in zombies : pc[z] \in DoneLabels
    /\ \A a \in Actors : pc[a] = "link" => subtasks[target[a]] = <<>>

\* What a wait returned is the id and the code of a task that is done.
ResultInv ==
    \A t \in Tasks : result[t] # NoResult =>
        /\ result[t][1] \in Tasks
        /\ pc[result[t][1]] \in DoneLabels
        /\ result[t][2] = exit_code[result[t][1]]

\* A task in the map is listed by its parent, or someone has it in hand for init.
AdoptInv ==
    \A c \in map \ {Root} :
        \/ parent[c] \in map /\ In(subtasks[parent[c]], c)
        \/ \E a \in Actors : pc[a] \in Adopting /\ In(todo[a], c)

\* The inductive invariant.
TaskInv ==
    /\ Types /\ PlacesInv /\ ForkInv /\ ListInv /\ DoneInv /\ ResultInv
    /\ SignalAfterDone
    /\ AdoptInv

--------------------------------------------------------------------------------
(* Lists and ids. *)

LEMMA EmptyList == \A S : <<>> \in Seq(S)
  OBVIOUS

LEMMA AppendIn ==
    ASSUME NEW S, NEW s \in Seq(S), NEW e \in S
    PROVE  /\ Append(s, e) \in Seq(S)
           /\ \A x : In(Append(s, e), x) <=> In(s, x) \/ x = e
  <1>1. /\ Append(s, e) \in Seq(S)
        /\ Len(Append(s, e)) = Len(s) + 1
        /\ \A i \in 1..Len(s) : Append(s, e)[i] = s[i]
        /\ Append(s, e)[Len(s) + 1] = e
        /\ Len(s) \in Nat
    OBVIOUS
  <1>2. \A i \in 1..(Len(s) + 1) : i \in 1..Len(s) \/ i = Len(s) + 1
    BY <1>1
  <1>3. ASSUME NEW x PROVE In(Append(s, e), x) <=> In(s, x) \/ x = e
    BY <1>1, <1>2 DEF In
  <1> QED BY <1>1, <1>3

LEMMA TailIn ==
    ASSUME NEW S, NEW s \in Seq(S), s # <<>>
    PROVE  /\ Head(s) \in S /\ In(s, Head(s))
           /\ Tail(s) \in Seq(S)
           /\ \A x : In(Tail(s), x) => In(s, x)
           /\ \A x : In(s, x) => x = Head(s) \/ In(Tail(s), x)
  <1>1. /\ Head(s) \in S
        /\ Tail(s) \in Seq(S)
        /\ Len(Tail(s)) = Len(s) - 1
        /\ \A i \in 1..(Len(s) - 1) : Tail(s)[i] = s[i + 1]
    OBVIOUS
  <1>2. Len(s) \in Nat /\ Len(s) >= 1 /\ Head(s) = s[1]
    OBVIOUS
  <1>3. In(s, Head(s))
    BY <1>2 DEF In
  <1>4. ASSUME NEW x, In(Tail(s), x) PROVE In(s, x)
    <2>1. PICK i \in 1..(Len(s) - 1) : Tail(s)[i] = x
      BY <1>1, <1>4 DEF In
    <2>2. i + 1 \in 1..Len(s) /\ s[i + 1] = x
      BY <1>1, <1>2, <2>1
    <2> QED BY <2>2 DEF In
  <1>5. ASSUME NEW x, In(s, x), x # Head(s) PROVE In(Tail(s), x)
    <2>1. PICK i \in 1..Len(s) : s[i] = x
      BY <1>5 DEF In
    <2>2. i - 1 \in 1..(Len(s) - 1) /\ (i - 1) + 1 = i
      BY <1>2, <1>5, <2>1
    <2>3. Tail(s)[i - 1] = x
      BY <1>1, <2>1, <2>2
    <2> QED BY <1>1, <2>2, <2>3 DEF In
  <1> QED BY <1>1, <1>3, <1>4, <1>5

LEMMA EmptyIn == ASSUME NEW x PROVE ~In(<<>>, x)
  BY DEF In

LEMMA Ids ==
    /\ Tasks \subseteq Actors /\ Tasks \subseteq Nat
    /\ Root \in Tasks /\ Reclaimer \in Actors \ Tasks
    /\ Actors = Tasks \cup {Reclaimer}
  BY TaskTableAssumption DEF Tasks, Actors, Root, Reclaimer

--------------------------------------------------------------------------------
(* TaskInv is inductive. *)

\* The child that a link gives to init is a task, and its list grows by it.
LEMMA AdoptFacts ==
    ASSUME Types, NEW a \in Actors, Adopt(a)
    PROVE  /\ Head(todo[a]) \in Tasks /\ In(todo[a], Head(todo[a]))
           /\ parent' = [parent EXCEPT ![Head(todo[a])] = Root]
           /\ subtasks' \in [Tasks -> Seq(Tasks)]
           /\ \A p \in Tasks \ {Root} : subtasks'[p] = subtasks[p]
           /\ \A x : In(subtasks'[Root], x) <=> In(subtasks[Root], x) \/ x = Head(todo[a])
           /\ todo' \in [Actors -> Seq(Tasks)]
           /\ \A b \in Actors \ {a} : todo'[b] = todo[b]
           /\ \A x : In(todo'[a], x) => In(todo[a], x)
           /\ \A x : In(todo[a], x) => x = Head(todo[a]) \/ In(todo'[a], x)
  <1>1. /\ todo \in [Actors -> Seq(Tasks)] /\ subtasks \in [Tasks -> Seq(Tasks)]
        /\ todo[a] \in Seq(Tasks) /\ todo[a] # <<>> /\ subtasks[Root] \in Seq(Tasks)
    BY Ids, Zenon DEF Types, Adopt
  <1> DEFINE c == Head(todo[a])
             s == Append(subtasks[Root], c)
             r == Tail(todo[a])
  <1>2. /\ c \in Tasks /\ In(todo[a], c) /\ r \in Seq(Tasks)
        /\ \A x : In(r, x) => In(todo[a], x)
        /\ \A x : In(todo[a], x) => x = c \/ In(r, x)
    BY <1>1, TailIn, Zenon
  <1>3. s \in Seq(Tasks) /\ \A x : In(s, x) <=> In(subtasks[Root], x) \/ x = c
    BY <1>1, <1>2, AppendIn, Zenon
  <1>4. /\ parent' = [parent EXCEPT ![c] = Root]
        /\ subtasks' = [subtasks EXCEPT ![Root] = s]
        /\ todo' = [todo EXCEPT ![a] = r]
    BY DEF Adopt
  <1> HIDE DEF c, s, r
  <1>5. /\ subtasks' \in [Tasks -> Seq(Tasks)] /\ subtasks'[Root] = s
        /\ \A p \in Tasks \ {Root} : subtasks'[p] = subtasks[p]
    BY <1>1, <1>3, <1>4, Ids
  <1>6. /\ todo' \in [Actors -> Seq(Tasks)] /\ todo'[a] = r
        /\ \A b \in Actors \ {a} : todo'[b] = todo[b]
    BY <1>1, <1>2, <1>4
  <1> QED BY <1>2, <1>3, <1>4, <1>5, <1>6 DEF c

LEMMA TypesStep == TaskInv /\ [Next]_vars => Types'
  <1> SUFFICES ASSUME Types, PlacesInv, ForkInv, DoneInv, [Next]_vars PROVE Types'
    BY DEF TaskInv
  <1> USE Ids DEF Types, Labels, DoneLabels, Reaping, Forking
  <1>1. ASSUME NEW t \in Tasks, Fork(t) PROVE Types'
    <2>1. seq \in Tasks
      BY <1>1 DEF Fork, Tasks
    <2>2. seq' \in Nat /\ seq' >= 2 /\ t \in Nat
      BY <1>1 DEF Fork
    <2> QED BY <1>1, <2>1, <2>2, Zenon DEF Fork, Step
  <1>2. ASSUME NEW t \in Tasks, ForkPush(t) PROVE Types'
    <2>1. target[t] \in Tasks /\ subtasks[t] \in Seq(Tasks)
      BY <1>2 DEF ForkPush, Step, ForkInv
    <2>2. Append(subtasks[t], target[t]) \in Seq(Tasks)
      BY <2>1, AppendIn, Zenon
    <2> QED BY <1>2, <2>2, Zenon DEF ForkPush, Step
  <1>3. ASSUME NEW t \in Tasks, ForkRegister(t) PROVE Types'
    <2>1. target[t] \in Tasks
      BY <1>3 DEF ForkRegister, ForkInv
    <2> QED BY <1>3, <2>1, Zenon DEF ForkRegister
  <1>4. ASSUME NEW t \in Tasks, NEW code \in Codes, Exit(t, code) PROVE Types'
    BY <1>4, TaskTableAssumption, Zenon DEF Exit, Step, table
  <1>5. ASSUME NEW t \in Tasks, ExitCode(t) \/ ExitStatus(t) \/ ExitChildren(t) \/ ExitEnd(t)
        PROVE  Types'
    <2>1. CASE ExitCode(t)
      BY <2>1, Zenon DEF ExitCode, Step
    <2>2. CASE ExitStatus(t)
      BY <2>2, Zenon DEF ExitStatus, Step
    <2>3. CASE ExitChildren(t)
      BY <2>3, Zenon DEF ExitChildren, Step, table
    <2>4. CASE ExitEnd(t)
      BY <2>4, Zenon DEF ExitEnd, Step, table
    <2> QED BY <1>5, <2>1, <2>2, <2>3, <2>4, Zenon
  <1>6. ASSUME NEW t \in Tasks, ExitSignal(t) PROVE Types'
    BY <1>6, Zenon DEF ExitSignal, Step
  <1>7. ASSUME NEW a \in Actors, ExitAdopt(a) \/ ReapLink(a) PROVE Types'
    <2>1. Adopt(a)
      BY <1>7 DEF ExitAdopt, ReapLink
    <2>2. /\ parent' = [parent EXCEPT ![Head(todo[a])] = Root] /\ Root \in Nat
          /\ subtasks' \in [Tasks -> Seq(Tasks)] /\ todo' \in [Actors -> Seq(Tasks)]
      BY <2>1, AdoptFacts, Zenon
    <2>3. CASE ExitAdopt(a)
      BY <2>2, <2>3, Zenon DEF ExitAdopt, Step
    <2>4. CASE ReapLink(a)
      BY <2>2, <2>4, Zenon DEF ReapLink, Step
    <2> QED BY <1>7, <2>3, <2>4, Zenon
  <1>8. ASSUME NEW t \in Tasks, Wait(t) \/ WaitNone(t) PROVE Types'
    <2>1. CASE Wait(t)
      <3>1. NoResult \in Nat \X Nat
        BY Zenon DEF NoResult
      <3> QED BY <2>1, <3>1, Zenon DEF Wait, Step, table
    <2>2. CASE WaitNone(t)
      BY <2>2, Zenon DEF WaitNone, Step, table
    <2> QED BY <1>8, <2>1, <2>2, Zenon
  <1>9. ASSUME NEW t \in Tasks, WaitSkip(t) PROVE Types'
    <2>1. Tail(todo[t]) \in Seq(Tasks)
      BY <1>9, TailIn DEF WaitSkip
    <2> QED BY <1>9, <2>1, Zenon DEF WaitSkip, Step, table
  <1>10. ASSUME NEW t \in Tasks, WaitFind(t) PROVE Types'
    <2>1. Head(todo[t]) \in Tasks
      BY <1>10, TailIn DEF WaitFind
    <2>2. <<Head(todo[t]), exit_code[Head(todo[t])]>> \in Nat \X Nat
      BY <2>1, Zenon
    <2> QED BY <1>10, <2>1, <2>2, EmptyList, Zenon DEF WaitFind, Step, table
  <1>11. ASSUME NEW a \in Actors, Reap(a) \/ ReapRemove(a) PROVE Types'
    <2>1. CASE Reap(a)
      BY <2>1, Zenon DEF Reap, AfterReap, Step
    <2>2. CASE ReapRemove(a)
      BY <2>2, Zenon DEF ReapRemove, AfterReap, Step
    <2> QED BY <1>11, <2>1, <2>2, Zenon
  <1>12. ASSUME NEW a \in Actors, ReapDrain(a) PROVE Types'
    <2>1. target[a] \in Tasks
      BY <1>12 DEF ReapDrain, Step, DoneInv
    <2> QED BY <1>12, <2>1, EmptyList, Zenon DEF ReapDrain, Step
  <1>13. ASSUME Reclaim \/ ReclaimNext \/ ReclaimEnd PROVE Types'
    <2>1. CASE Reclaim
      BY <2>1, Zenon DEF Reclaim, Step, table
    <2>2. CASE ReclaimNext
      <3>1. PICK z \in zombies : /\ target' = [target EXCEPT ![Reclaimer] = z]
                                 /\ zombies' = zombies \ {z}
        BY <2>2, Zenon DEF ReclaimNext
      <3>2. z \in Nat
        BY <3>1
      <3> QED BY <2>2, <3>1, <3>2, Zenon DEF ReclaimNext, Step, table
    <2>3. CASE ReclaimEnd
      BY <2>3, Zenon DEF ReclaimEnd, Step, table
    <2> QED BY <1>13, <2>1, <2>2, <2>3, Zenon
  <1>14. ASSUME UNCHANGED vars PROVE Types'
    BY <1>14, Zenon DEF vars, table
  <1> HIDE DEF Types
  <1> QED BY <1>1, <1>2, <1>3, <1>4, <1>5, <1>6, <1>7, <1>8, <1>9, <1>10, <1>11, <1>12, <1>13,
             <1>14 DEF Next, Call, TaskStep, ReapStep, ReclaimStep

\* Step moves one actor.
LEMMA Moved ==
    ASSUME Types, NEW a \in Actors, NEW from, NEW to, Step(a, from, to)
    PROVE  pc[a] = from /\ pc'[a] = to /\ \A b \in Actors \ {a} : pc'[b] = pc[b]
  BY Zenon DEF Types, Step

\* register moves the child as well.
LEMMA Registered ==
    ASSUME Types, ForkInv, NEW t \in Tasks, ForkRegister(t)
    PROVE  /\ pc[t] = "register" /\ target[t] \in Tasks /\ pc[target[t]] = "none"
           /\ target[t] # t
           /\ pc'[t] = "run" /\ pc'[target[t]] = "run"
           /\ \A b \in Actors \ {t, target[t]} : pc'[b] = pc[b]
  <1>1. /\ pc[t] = "register" /\ target[t] \in Tasks /\ pc[target[t]] = "none"
    BY DEF ForkRegister, ForkInv, Forking
  <1>2. target[t] # t
    BY <1>1
  <1>3. pc' = [pc EXCEPT ![t] = "run", ![target[t]] = "run"]
    BY DEF ForkRegister
  <1> QED BY <1>1, <1>2, <1>3, Ids, Zenon DEF Types

LEMMA PlacesStep == TaskInv /\ [Next]_vars => PlacesInv'
  <1> SUFFICES ASSUME Types, PlacesInv, ForkInv, DoneInv, [Next]_vars PROVE PlacesInv'
    BY DEF TaskInv
  <1> DEFINE Kept(a) ==
        /\ seq' = seq /\ map' = map
        /\ \A b \in Actors \ {a} : pc'[b] = pc[b]
        /\ a = Reclaimer => pc'[a] \in {"idle", "reclaim"} \cup Reaping
        /\ a # Reclaimer => /\ pc[a] # "none" /\ pc'[a] # "none"
                            /\ pc[a] \in DoneLabels => pc'[a] \in DoneLabels
        /\ a = Root => pc'[a] \notin DoneLabels \cup {"code", "status"}
  <1>t. map \subseteq Tasks /\ seq \in Nat
    BY DEF Types
  <1>0. ASSUME NEW a \in Actors, Kept(a) PROVE PlacesInv'
    <2>1. pc'[Reclaimer] \in {"idle", "reclaim"} \cup Reaping
      BY <1>0, Ids DEF PlacesInv
    <2>2. pc'[Root] \notin DoneLabels \cup {"code", "status", "none"}
      BY <1>0, Ids DEF PlacesInv
    <2>3. \A t \in Tasks : pc'[t] = pc[t] \/ (pc[t] # "none" /\ pc'[t] # "none")
      BY <1>0, Ids
    <2>4. \A t \in Tasks : pc'[t] \notin DoneLabels \cup {"none"} => pc[t] \notin DoneLabels \cup {"none"}
      <3> SUFFICES ASSUME NEW t \in Tasks, pc'[t] \notin DoneLabels \cup {"none"}
                   PROVE  pc[t] \notin DoneLabels \cup {"none"}
        OBVIOUS
      <3>1. CASE t = a
        BY <1>0, <3>1, Ids
      <3>2. CASE t # a
        BY <1>0, <3>2, Ids
      <3> QED BY <3>1, <3>2
    <2> QED BY <1>0, <1>t, <2>1, <2>2, <2>3, <2>4 DEF PlacesInv
  <1> USE Ids, Moved
  <1>1. ASSUME NEW t \in Tasks, Fork(t) PROVE PlacesInv'
    <2>1. /\ pc[t] = "run" /\ pc'[t] = "push" /\ \A b \in Actors \ {t} : pc'[b] = pc[b]
          /\ map' = map /\ seq' = seq + 1
      BY <1>1 DEF Fork
    <2>2. \A u \in Tasks : u >= seq' => u >= seq /\ u # t
      BY <1>t, <2>1 DEF PlacesInv
    <2>3. pc'[Reclaimer] = pc[Reclaimer] /\ (pc'[Root] = pc[Root] \/ pc'[Root] = "push")
      BY <2>1
    <2>4. \A u \in Tasks : u # t => pc'[u] = pc[u]
      BY <2>1
    <2> QED BY <1>t, <2>1, <2>2, <2>3, <2>4 DEF PlacesInv, DoneLabels
  <1>2. ASSUME NEW t \in Tasks, ForkPush(t) PROVE Kept(t)
    BY <1>2 DEF ForkPush, DoneLabels
  <1>3. ASSUME NEW t \in Tasks, ForkRegister(t) PROVE PlacesInv'
    <2>1. map' = map \cup {target[t]} /\ seq' = seq
      BY <1>3 DEF ForkRegister
    <2>2. target[t] \in Nat /\ target[t] < seq
      BY <1>3 DEF ForkRegister, ForkInv, Forking, Types
    <2>3. pc'[Reclaimer] = pc[Reclaimer]
      BY <1>3, Registered
    <2>4. \A u \in Tasks : u >= seq' => pc'[u] = "none"
      <3> SUFFICES ASSUME NEW u \in Tasks, u >= seq' PROVE pc'[u] = "none"
        OBVIOUS
      <3>1. pc[u] = "none" /\ u # target[t]
        BY <1>t, <2>1, <2>2 DEF PlacesInv
      <3> QED BY <1>3, <3>1, Registered
    <2>5. pc'[Root] \notin DoneLabels \cup {"code", "status", "none"}
      BY <1>3, Registered DEF PlacesInv, DoneLabels
    <2>6. \A u \in Tasks : pc'[u] = pc[u] \/ (pc'[u] = "run" /\ u \in map')
      <3>1. t \in map
        BY <1>3, Registered DEF PlacesInv, DoneLabels
      <3>2. \A u \in Tasks \ {t, target[t]} : pc'[u] = pc[u]
        BY <1>3, Registered
      <3>3. pc'[t] = "run" /\ pc'[target[t]] = "run"
        BY <1>3, Registered
      <3> QED BY <2>1, <3>1, <3>2, <3>3
    <2> QED BY <1>t, <1>3, <2>1, <2>3, <2>4, <2>5, <2>6, Registered DEF PlacesInv
  <1>4. ASSUME NEW t \in Tasks, NEW code \in Codes, Exit(t, code) PROVE Kept(t)
    BY <1>4 DEF Exit, DoneLabels, table
  <1>5. ASSUME NEW t \in Tasks, ExitCode(t) PROVE Kept(t)
    BY <1>5 DEF ExitCode, DoneLabels, PlacesInv
  <1>6. ASSUME NEW t \in Tasks, ExitStatus(t) PROVE Kept(t)
    BY <1>6 DEF ExitStatus, DoneLabels, PlacesInv
  <1>7. ASSUME NEW t \in Tasks, ExitSignal(t) PROVE Kept(t)
    BY <1>7 DEF ExitSignal, DoneLabels, PlacesInv
  <1>8. ASSUME NEW t \in Tasks, ExitChildren(t) PROVE Kept(t)
    BY <1>8 DEF ExitChildren, DoneLabels, PlacesInv, table
  <1>9. ASSUME NEW t \in Tasks, ExitAdopt(t) PROVE Kept(t)
    BY <1>9 DEF ExitAdopt, DoneLabels, PlacesInv
  <1>10. ASSUME NEW t \in Tasks, ExitEnd(t) PROVE Kept(t)
    BY <1>10 DEF ExitEnd, DoneLabels, PlacesInv, table
  <1>11. ASSUME NEW t \in Tasks, Wait(t) PROVE Kept(t)
    BY <1>11 DEF Wait, DoneLabels, table
  <1>12. ASSUME NEW t \in Tasks, WaitSkip(t) PROVE Kept(t)
    BY <1>12 DEF WaitSkip, DoneLabels, table
  <1>13. ASSUME NEW t \in Tasks, WaitFind(t) PROVE Kept(t)
    BY <1>13 DEF WaitFind, DoneLabels, table
  <1>14. ASSUME NEW t \in Tasks, WaitNone(t) PROVE Kept(t)
    BY <1>14, Moved DEF WaitNone, DoneLabels, table
  <1>15. ASSUME NEW a \in Actors, Reap(a) PROVE Kept(a)
    BY <1>15 DEF Reap, AfterReap, DoneLabels, Reaping
  <1>16. ASSUME NEW a \in Actors, ReapDrain(a) PROVE Kept(a)
    BY <1>16 DEF ReapDrain, DoneLabels, Reaping
  <1>17. ASSUME NEW a \in Actors, ReapLink(a) PROVE Kept(a)
    BY <1>17 DEF ReapLink, DoneLabels, Reaping
  <1>18. ASSUME NEW a \in Actors, ReapRemove(a) PROVE PlacesInv'
    <2>1. /\ pc[a] = "link" /\ pc'[a] = AfterReap(a) /\ \A b \in Actors \ {a} : pc'[b] = pc[b]
          /\ map' = map \ {target[a]} /\ seq' = seq
      BY <1>18 DEF ReapRemove
    <2>2. target[a] \in Tasks /\ pc[target[a]] \in DoneLabels
      BY <2>1 DEF DoneInv, Reaping
    <2>3. pc'[target[a]] \in DoneLabels
      BY <2>1, <2>2, Zenon DEF DoneLabels
    <2>4. /\ pc'[Reclaimer] \in {"idle", "reclaim"} \cup Reaping
          /\ pc'[Root] = pc[Root] \/ pc'[Root] = "run"
      BY <2>1 DEF PlacesInv, AfterReap
    <2>5. \A u \in Tasks : pc'[u] = pc[u] \/ (u = a /\ pc'[u] = "run")
      <3>1. a # Reclaimer => pc'[a] = "run"
        BY <2>1 DEF AfterReap
      <3>2. \A u \in Tasks \ {a} : pc'[u] = pc[u]
        BY <2>1
      <3> QED BY <3>1, <3>2
    <2> QED BY <1>t, <2>1, <2>3, <2>4, <2>5 DEF PlacesInv, DoneLabels
  <1>19. ASSUME Reclaim \/ ReclaimNext \/ ReclaimEnd PROVE Kept(Reclaimer)
    BY <1>19 DEF Reclaim, ReclaimNext, ReclaimEnd, Reaping, table
  <1>20. ASSUME UNCHANGED vars PROVE PlacesInv'
    BY <1>20 DEF vars, table, PlacesInv
  <1> HIDE DEF Kept
  <1> QED BY <1>0, <1>1, <1>2, <1>3, <1>4, <1>5, <1>6, <1>7, <1>8, <1>9, <1>10, <1>11, <1>12,
             <1>13, <1>14, <1>15, <1>16, <1>17, <1>18, <1>19, <1>20, Zenon
          DEF Next, Call, TaskStep, ReapStep, ReclaimStep

LEMMA ForkStep == TaskInv /\ [Next]_vars => ForkInv'
  <1> SUFFICES ASSUME Types, PlacesInv, ForkInv, ListInv, DoneInv, [Next]_vars PROVE ForkInv'
    BY DEF TaskInv
  <1> DEFINE Kept ==
        /\ seq' = seq /\ parent' = parent /\ subtasks' = subtasks
        /\ \A t \in Tasks : pc[t] = "none" => pc'[t] = "none"
        /\ \A t \in Tasks : pc'[t] \in Forking => pc'[t] = pc[t] /\ target'[t] = target[t]
  <1>0. ASSUME Kept PROVE ForkInv'
    BY <1>0 DEF ForkInv
  <1>t. /\ seq \in Nat /\ DOMAIN target = Actors /\ DOMAIN parent = Tasks
        /\ DOMAIN subtasks = Tasks /\ \A t \in Tasks : subtasks[t] \in Seq(Tasks)
    BY DEF Types
  <1>1. ASSUME NEW t \in Tasks, Fork(t) PROVE ForkInv'
    <2>1. /\ pc[t] = "run" /\ pc'[t] = "push" /\ \A b \in Actors \ {t} : pc'[b] = pc[b]
      BY <1>1, Ids, Moved DEF Fork
    <2>2. /\ target' = [target EXCEPT ![t] = seq] /\ parent' = [parent EXCEPT ![seq] = t]
          /\ seq' = seq + 1 /\ subtasks' = subtasks /\ seq \in Tasks
      BY <1>1, <1>t DEF Fork, Tasks, PlacesInv, Types
    <2>3. pc[seq] = "none" /\ pc'[seq] = "none"
      BY <1>t, <2>1, <2>2, Ids DEF PlacesInv
    <2>4. target'[t] = seq /\ parent'[seq] = t /\ seq < seq'
      BY <1>t, <2>2, Ids
    <2>5. ASSUME NEW u \in Tasks, u # t, pc'[u] \in Forking
          PROVE  /\ target'[u] = target[u] /\ target[u] \in Tasks
                 /\ parent'[target[u]] = u /\ pc'[target[u]] = "none" /\ target[u] < seq'
                 /\ pc'[u] = "register" => In(subtasks[u], target[u])
      <3>1. pc'[u] = pc[u] /\ target'[u] = target[u]
        BY <1>t, <2>1, <2>2, <2>5, Ids
      <3>2. /\ target[u] \in Tasks /\ pc[target[u]] = "none" /\ parent[target[u]] = u
            /\ target[u] < seq
            /\ pc[u] = "register" => In(subtasks[u], target[u])
        BY <2>5, <3>1 DEF ForkInv
      <3>3. pc'[target[u]] = "none"
        BY <2>1, <3>2, Ids, Zenon
      <3>4. target[u] # seq /\ target[u] < seq'
        <4>1. target[u] \in Nat /\ target[u] < seq /\ seq' = seq + 1
          BY <2>2, <3>2, Ids, Zenon
        <4>2. seq \in Nat
          BY <1>t
        <4> QED BY ONLY <4>1, <4>2
      <3> QED BY <1>t, <2>2, <3>1, <3>2, <3>3, <3>4
    <2> QED BY <2>1, <2>2, <2>3, <2>4, <2>5 DEF ForkInv
  <1>2. ASSUME NEW t \in Tasks, ForkPush(t) PROVE ForkInv'
    <2>1. /\ pc[t] = "push" /\ pc'[t] = "register" /\ \A b \in Actors \ {t} : pc'[b] = pc[b]
      BY <1>2, Ids, Moved DEF ForkPush
    <2>2. /\ UNCHANGED <<seq, parent, target>>
          /\ subtasks' = [subtasks EXCEPT ![t] = Append(@, target[t])]
      BY <1>2 DEF ForkPush
    <2>3. target[t] \in Tasks
      BY <2>1 DEF ForkInv, Forking
    <2>4. In(subtasks'[t], target[t]) /\ \A u \in Tasks \ {t} : subtasks'[u] = subtasks[u]
      BY <1>t, <2>2, <2>3, AppendIn
    <2>5. \A u \in Tasks : /\ pc[u] = "none" => pc'[u] = "none"
                           /\ pc'[u] \in Forking => pc[u] \in Forking
      BY <2>1, Ids DEF Forking
    <2>6. \A u \in Tasks \ {t} : pc'[u] = pc[u]
      BY <2>1, Ids
    <2> QED BY <2>2, <2>4, <2>5, <2>6 DEF ForkInv
  <1>3. ASSUME NEW t \in Tasks, ForkRegister(t) PROVE ForkInv'
    <2>1. UNCHANGED <<seq, parent, subtasks, target>>
      BY <1>3 DEF ForkRegister
    <2>2. ASSUME NEW u \in Tasks, pc'[u] \in Forking
          PROVE  pc'[u] = pc[u] /\ target[u] \notin {t, target[t]}
      <3>1. u # t /\ u # target[t]
        BY <1>3, <2>2, Registered DEF Forking
      <3>2. pc'[u] = pc[u]
        BY <1>3, <3>1, Ids, Registered
      <3>3. pc[target[u]] = "none" /\ parent[target[u]] = u /\ parent[target[t]] = t
        BY <1>3, <2>2, <3>2, Registered DEF ForkInv, Forking
      <3> QED BY <1>3, <3>1, <3>2, <3>3, Registered
    <2>3. \A u \in Tasks \ {t, target[t]} : pc'[u] = pc[u]
      BY <1>3, Ids, Registered
    <2> QED BY <2>1, <2>2, <2>3 DEF ForkInv
  <1>4. ASSUME NEW a \in Actors, ExitAdopt(a) \/ ReapLink(a) PROVE ForkInv'
    <2>1. Adopt(a) /\ pc[a] \in Adopting /\ UNCHANGED <<seq, target>>
      BY <1>4 DEF ExitAdopt, ReapLink, Step, Adopting
    <2>2. pc' = pc
      <3>1. pc' = [pc EXCEPT ![a] = pc[a]]
        BY <1>4, Zenon DEF ExitAdopt, ReapLink, Step
      <3> QED BY <3>1, Zenon DEF Types
    <2>3. PICK c \in Tasks : /\ c = Head(todo[a]) /\ In(todo[a], c)
                             /\ parent' = [parent EXCEPT ![c] = Root]
      BY <2>1, AdoptFacts
    <2>4. pc[c] # "none"
      BY <2>1, <2>3 DEF ListInv
    <2>5. \A p, x \in Tasks : In(subtasks[p], x) => In(subtasks'[p], x)
      BY <2>1, AdoptFacts, Zenon
    <2> QED BY <1>t, <2>1, <2>2, <2>3, <2>4, <2>5 DEF ForkInv
  <1>5. ASSUME NEW a \in Actors, ReapDrain(a) PROVE ForkInv'
    <2>1. /\ pc[a] = "drain" /\ pc'[a] = "link" /\ \A b \in Actors \ {a} : pc'[b] = pc[b]
      BY <1>5, Moved DEF ReapDrain
    <2>2. /\ UNCHANGED <<seq, parent, target>>
          /\ subtasks' = [subtasks EXCEPT ![target[a]] = <<>>]
      BY <1>5 DEF ReapDrain
    <2>3. pc[target[a]] \in DoneLabels
      BY <2>1 DEF DoneInv, Reaping
    <2>4. \A u \in Tasks : pc'[u] \in Forking =>
             pc'[u] = pc[u] /\ subtasks'[u] = subtasks[u]
      BY <1>t, <2>1, <2>2, <2>3, Ids DEF Forking, DoneLabels
    <2>5. \A u \in Tasks : pc[u] = "none" => pc'[u] = "none"
      BY <2>1, Ids
    <2> QED BY <2>2, <2>4, <2>5 DEF ForkInv
  <1> USE Ids DEF Forking
  <1>6. ASSUME NEW t \in Tasks, NEW code \in Codes, Exit(t, code) PROVE Kept
    BY <1>6, Moved DEF Exit, table
  <1>7. ASSUME NEW t \in Tasks, ExitCode(t) PROVE Kept
    BY <1>7, Moved DEF ExitCode
  <1>8. ASSUME NEW t \in Tasks, ExitStatus(t) PROVE Kept
    BY <1>8, Moved DEF ExitStatus
  <1>9. ASSUME NEW t \in Tasks, ExitSignal(t) PROVE Kept
    BY <1>9, Moved DEF ExitSignal
  <1>10. ASSUME NEW t \in Tasks, ExitChildren(t) PROVE Kept
    BY <1>10, Moved DEF ExitChildren, table
  <1>11. ASSUME NEW t \in Tasks, ExitEnd(t) PROVE Kept
    BY <1>11, Moved DEF ExitEnd, table
  <1>12. ASSUME NEW t \in Tasks, Wait(t) PROVE Kept
    BY <1>12, Moved DEF Wait, table
  <1>13. ASSUME NEW t \in Tasks, WaitSkip(t) PROVE Kept
    BY <1>13, Moved DEF WaitSkip, table
  <1>14. ASSUME NEW t \in Tasks, WaitFind(t) PROVE Kept
    BY <1>14, <1>t, Moved DEF WaitFind, table
  <1>15. ASSUME NEW t \in Tasks, WaitNone(t) PROVE Kept
    <2>1. pc[t] = "scan" /\ pc'[t] = "run" /\ \A b \in Actors \ {t} : pc'[b] = pc[b]
      BY <1>15, Moved, Zenon DEF WaitNone
    <2> QED BY <1>15, <2>1 DEF WaitNone, table
  <1>16. ASSUME NEW a \in Actors, Reap(a) PROVE Kept
    BY <1>16, Moved DEF Reap, AfterReap
  <1>17. ASSUME NEW a \in Actors, ReapRemove(a) PROVE Kept
    BY <1>17, Moved DEF ReapRemove, AfterReap
  <1>18. ASSUME Reclaim \/ ReclaimEnd PROVE Kept
    BY <1>18, Moved DEF Reclaim, ReclaimEnd, table
  <1>19. ASSUME ReclaimNext PROVE Kept
    BY <1>19, <1>t, Moved DEF ReclaimNext, table
  <1>20. ASSUME UNCHANGED vars PROVE Kept
    BY <1>20 DEF vars, table
  <1> HIDE DEF Kept
  <1> QED BY <1>0, <1>1, <1>2, <1>3, <1>4, <1>5, <1>6, <1>7, <1>8, <1>9, <1>10, <1>11, <1>12,
             <1>13, <1>14, <1>15, <1>16, <1>17, <1>18, <1>19, <1>20, Zenon
          DEF Next, Call, TaskStep, ReapStep, ReclaimStep

LEMMA ListStep == TaskInv /\ [Next]_vars => ListInv'
  <1> SUFFICES ASSUME Types, PlacesInv, ForkInv, ListInv, DoneInv, [Next]_vars PROVE ListInv'
    BY DEF TaskInv
  <1> DEFINE Kept ==
        /\ subtasks' = subtasks
        /\ \A c \in Tasks : pc'[c] = "none" => pc[c] = "none"
        /\ \A p \in Tasks : pc[p] = "register" => pc'[p] = "register" /\ target'[p] = target[p]
        /\ \A a \in Actors : pc'[a] \in Adopting => pc[a] \in Adopting /\ todo'[a] = todo[a]
  <1>0. ASSUME Kept PROVE ListInv'
    BY <1>0 DEF ListInv
  <1>t. /\ DOMAIN target = Actors /\ DOMAIN todo = Actors /\ DOMAIN subtasks = Tasks
        /\ \A t \in Tasks : subtasks[t] \in Seq(Tasks)
    BY DEF Types
  <1>1. ASSUME NEW t \in Tasks, ForkPush(t) PROVE ListInv'
    <2>1. /\ pc[t] = "push" /\ pc'[t] = "register" /\ \A b \in Actors \ {t} : pc'[b] = pc[b]
      BY <1>1, Ids, Moved DEF ForkPush
    <2>2. UNCHANGED <<target, todo>> /\ subtasks' = [subtasks EXCEPT ![t] = Append(@, target[t])]
      BY <1>1 DEF ForkPush
    <2>3. target[t] \in Tasks
      BY <2>1 DEF ForkInv, Forking
    <2>4. /\ \A x : In(subtasks'[t], x) => In(subtasks[t], x) \/ x = target[t]
          /\ \A u \in Tasks \ {t} : subtasks'[u] = subtasks[u]
      BY <1>t, <2>2, <2>3, AppendIn
    <2>5. /\ \A b \in Actors : pc'[b] \in Adopting => pc[b] \in Adopting
          /\ \A u \in Tasks : u # t => pc'[u] = pc[u]
          /\ \A u \in Tasks : pc[u] # "none" => pc'[u] # "none"
      BY <2>1, Ids DEF Adopting
    <2> QED BY <2>1, <2>2, <2>4, <2>5 DEF ListInv
  <1>2. ASSUME NEW t \in Tasks, ForkRegister(t) PROVE ListInv'
    <2>1. UNCHANGED <<subtasks, target, todo>>
      BY <1>2 DEF ForkRegister
    <2>2. /\ pc'[t] = "run" /\ pc'[target[t]] = "run" /\ pc[target[t]] = "none"
          /\ \A u \in Tasks \ {t, target[t]} : pc'[u] = pc[u]
          /\ \A b \in Actors \ {t, target[t]} : pc'[b] = pc[b]
      BY <1>2, Ids, Registered
    <2>3. ASSUME NEW p \in Tasks, NEW c \in Tasks, In(subtasks[p], c), pc'[c] = "none"
          PROVE  pc'[p] = "register" /\ target[p] = c
      <3>1. pc[c] = "none"
        BY <2>2, <2>3
      <3>2. pc[p] = "register" /\ target[p] = c
        BY <2>3, <3>1 DEF ListInv
      <3>3. p # t /\ p # target[t]
        BY <2>2, <2>3, <3>2
      <3> QED BY <2>2, <3>2, <3>3
    <2>4. \A b \in Actors : pc'[b] \in Adopting => pc[b] \in Adopting
      BY <2>2 DEF Adopting
    <2>5. \A u \in Tasks : pc[u] # "none" => pc'[u] # "none"
      BY <2>2
    <2> QED BY <2>1, <2>3, <2>4, <2>5 DEF ListInv
  <1>3. ASSUME NEW t \in Tasks, ExitChildren(t) PROVE ListInv'
    <2>1. /\ pc[t] = "children" /\ pc'[t] = "adopt" /\ \A b \in Actors \ {t} : pc'[b] = pc[b]
      BY <1>3, Ids, Moved DEF ExitChildren
    <2>2. UNCHANGED <<subtasks, target>> /\ todo' = [todo EXCEPT ![t] = subtasks[t]]
      BY <1>3 DEF ExitChildren, table
    <2>3. \A u \in Tasks : /\ pc'[u] = "none" <=> pc[u] = "none"
                           /\ pc'[u] = "register" <=> pc[u] = "register"
      BY <2>1, Ids
    <2>4. \A c \in Tasks : In(subtasks[t], c) => pc[c] # "none"
      BY <2>1 DEF ListInv
    <2>5. todo'[t] = subtasks[t] /\ \A b \in Actors \ {t} : todo'[b] = todo[b]
      BY <1>t, <2>2, Ids
    <2> QED BY <2>1, <2>2, <2>3, <2>4, <2>5 DEF ListInv
  <1>4. ASSUME NEW a \in Actors, ExitAdopt(a) \/ ReapLink(a) PROVE ListInv'
    <2>1. Adopt(a) /\ pc[a] \in Adopting /\ UNCHANGED target
      BY <1>4 DEF ExitAdopt, ReapLink, Step, Adopting
    <2>2. pc' = pc
      <3>1. pc' = [pc EXCEPT ![a] = pc[a]]
        BY <1>4, Zenon DEF ExitAdopt, ReapLink, Step
      <3> QED BY <3>1, Zenon DEF Types
    <2>3. PICK c \in Tasks : c = Head(todo[a]) /\ In(todo[a], c)
      BY <2>1, AdoptFacts
    <2>4. pc[c] # "none"
      BY <2>1, <2>3 DEF ListInv
    <2>5. \A p, x \in Tasks : In(subtasks'[p], x) => In(subtasks[p], x) \/ x = c
      BY <2>1, <2>3, AdoptFacts, Zenon
    <2>6. \A b \in Actors : \A x : In(todo'[b], x) => In(todo[b], x)
      BY <2>1, AdoptFacts, Zenon
    <2> QED BY <2>1, <2>2, <2>4, <2>5, <2>6 DEF ListInv
  <1>5. ASSUME NEW a \in Actors, ReapDrain(a) PROVE ListInv'
    <2>1. /\ pc[a] = "drain" /\ pc'[a] = "link" /\ \A b \in Actors \ {a} : pc'[b] = pc[b]
      BY <1>5, Moved DEF ReapDrain
    <2>2. /\ target' = target /\ todo' = [todo EXCEPT ![a] = subtasks[target[a]]]
          /\ subtasks' = [subtasks EXCEPT ![target[a]] = <<>>]
      BY <1>5 DEF ReapDrain
    <2>3. target[a] \in Tasks /\ pc[target[a]] \in DoneLabels
      BY <2>1 DEF DoneInv, Reaping
    <2>4. \A c \in Tasks : In(subtasks[target[a]], c) => pc[c] # "none"
      BY <2>3 DEF ListInv, DoneLabels
    <2>5. \A p, x \in Tasks : In(subtasks'[p], x) => In(subtasks[p], x)
      BY <1>t, <2>2, <2>3, EmptyIn
    <2>6. todo'[a] = subtasks[target[a]] /\ \A b \in Actors \ {a} : todo'[b] = todo[b]
      BY <1>t, <2>2
    <2>7. \A u \in Tasks : /\ pc'[u] = "none" <=> pc[u] = "none"
                           /\ pc'[u] = "register" <=> pc[u] = "register"
      BY <2>1, Ids
    <2> QED BY <2>1, <2>2, <2>4, <2>5, <2>6, <2>7 DEF ListInv
  <1> USE Ids DEF Adopting
  <1>6. ASSUME NEW t \in Tasks, NEW code \in Codes, Exit(t, code) PROVE Kept
    BY <1>6, Moved DEF Exit, table
  <1>7. ASSUME NEW t \in Tasks, ExitCode(t) PROVE Kept
    BY <1>7, Moved DEF ExitCode
  <1>8. ASSUME NEW t \in Tasks, ExitStatus(t) PROVE Kept
    BY <1>8, Moved DEF ExitStatus
  <1>9. ASSUME NEW t \in Tasks, ExitSignal(t) PROVE Kept
    BY <1>9, Moved DEF ExitSignal
  <1>10. ASSUME NEW t \in Tasks, Fork(t) PROVE Kept
    BY <1>10, <1>t, Moved DEF Fork
  <1>11. ASSUME NEW t \in Tasks, ExitEnd(t) PROVE Kept
    BY <1>11, Moved DEF ExitEnd, table
  <1>12. ASSUME NEW t \in Tasks, Wait(t) PROVE Kept
    <2>1. pc[t] = "run" /\ pc'[t] = "scan" /\ \A b \in Actors \ {t} : pc'[b] = pc[b]
      BY <1>12, Moved, Zenon DEF Wait
    <2>2. subtasks' = subtasks /\ target' = target /\ \A b \in Actors \ {t} : todo'[b] = todo[b]
      BY <1>12, <1>t, Zenon DEF Wait, table
    <2> QED BY <2>1, <2>2, Zenon
  <1>13. ASSUME NEW t \in Tasks, WaitSkip(t) PROVE Kept
    <2>1. pc[t] = "scan" /\ pc'[t] = "scan" /\ \A b \in Actors \ {t} : pc'[b] = pc[b]
      BY <1>13, Moved, Zenon DEF WaitSkip
    <2>2. subtasks' = subtasks /\ target' = target /\ \A b \in Actors \ {t} : todo'[b] = todo[b]
      BY <1>13, <1>t, Zenon DEF WaitSkip, table
    <2> QED BY <2>1, <2>2, Zenon
  <1>14. ASSUME NEW t \in Tasks, WaitFind(t) PROVE Kept
    BY <1>14, <1>t, Moved DEF WaitFind, table
  <1>15. ASSUME NEW t \in Tasks, WaitNone(t) PROVE Kept
    <2>1. pc[t] = "scan" /\ pc'[t] = "run" /\ \A b \in Actors \ {t} : pc'[b] = pc[b]
      BY <1>15, Moved, Zenon DEF WaitNone
    <2> QED BY <1>15, <2>1 DEF WaitNone, table
  <1>16. ASSUME NEW a \in Actors, Reap(a) PROVE Kept
    BY <1>16, Moved DEF Reap, AfterReap
  <1>17. ASSUME NEW a \in Actors, ReapRemove(a) PROVE Kept
    <2>1. pc[a] = "link" /\ pc'[a] = AfterReap(a) /\ \A b \in Actors \ {a} : pc'[b] = pc[b]
      BY <1>17, Moved, Zenon DEF ReapRemove
    <2>2. UNCHANGED <<subtasks, target, todo>>
      BY <1>17 DEF ReapRemove
    <2> QED BY <2>1, <2>2 DEF AfterReap
  <1>18. ASSUME Reclaim \/ ReclaimEnd PROVE Kept
    BY <1>18, Moved DEF Reclaim, ReclaimEnd, table
  <1>19. ASSUME ReclaimNext PROVE Kept
    BY <1>19, <1>t, Moved DEF ReclaimNext, table
  <1>20. ASSUME UNCHANGED vars PROVE Kept
    BY <1>20 DEF vars, table
  <1> HIDE DEF Kept
  <1> QED BY <1>0, <1>1, <1>2, <1>3, <1>4, <1>5, <1>6, <1>7, <1>8, <1>9, <1>10, <1>11, <1>12,
             <1>13, <1>14, <1>15, <1>16, <1>17, <1>18, <1>19, <1>20, Zenon
          DEF Next, Call, TaskStep, ReapStep, ReclaimStep

LEMMA DoneStep == TaskInv /\ [Next]_vars => DoneInv'
  <1> SUFFICES ASSUME Types, PlacesInv, ForkInv, DoneInv, [Next]_vars PROVE DoneInv'
    BY DEF TaskInv
  <1> DEFINE Kept ==
        /\ done' = done /\ exit_code' = exit_code /\ arg' = arg /\ zombies' = zombies
        /\ \A t \in Tasks : pc'[t] \in DoneLabels <=> pc[t] \in DoneLabels
        /\ \A t \in Tasks : pc'[t] = "status" => pc[t] = "status"
        /\ \A a \in Actors : pc'[a] \in Reaping =>
              pc[a] \in Reaping /\ target'[a] = target[a] /\ pc'[a] = pc[a]
        /\ \A t \in Tasks : pc[t] \in DoneLabels => subtasks'[t] = subtasks[t]
  <1>t. /\ zombies \subseteq Tasks /\ map \subseteq Tasks
        /\ DOMAIN target = Actors /\ DOMAIN todo = Actors /\ DOMAIN subtasks = Tasks
        /\ DOMAIN done = Tasks /\ DOMAIN exit_code = Tasks /\ DOMAIN arg = Tasks
        /\ \A a \in Actors : todo[a] \in Seq(Tasks)
    BY DEF Types
  <1>0. ASSUME Kept PROVE DoneInv'
    <2>1. \A a \in Actors : pc'[a] \in Reaping => target[a] \in Tasks /\ pc[target[a]] \in DoneLabels
      BY <1>0 DEF DoneInv
    <2>2. \A a \in Actors : pc'[a] = "link" => subtasks'[target'[a]] = <<>>
      BY <1>0, <2>1 DEF DoneInv, Reaping
    <2> QED BY <1>0, <1>t, <2>1, <2>2 DEF DoneInv
  <1>1. ASSUME NEW t \in Tasks, Fork(t) \/ ForkPush(t) PROVE Kept
    <2>1. /\ pc[t] \in {"run", "push"} /\ pc'[t] \in Forking
          /\ \A b \in Actors \ {t} : pc'[b] = pc[b]
      BY <1>1, Ids, Moved DEF Fork, ForkPush, Forking
    <2>2. UNCHANGED <<done, exit_code, arg, zombies>>
      BY <1>1 DEF Fork, ForkPush
    <2>3. \A b \in Actors \ {t} : target'[b] = target[b]
      BY <1>1, <1>t DEF Fork, ForkPush
    <2>4. \A u \in Tasks \ {t} : subtasks'[u] = subtasks[u]
      BY <1>1, <1>t, Zenon DEF Fork, ForkPush
    <2> QED BY <2>1, <2>2, <2>3, <2>4, Ids DEF Forking, DoneLabels, Reaping
  <1>2. ASSUME NEW t \in Tasks, ForkRegister(t) PROVE Kept
    <2>1. UNCHANGED <<done, exit_code, arg, zombies, subtasks, target>>
      BY <1>2 DEF ForkRegister
    <2>2. /\ pc[t] = "register" /\ pc[target[t]] = "none"
          /\ pc'[t] = "run" /\ pc'[target[t]] = "run"
          /\ \A b \in Actors \ {t, target[t]} : pc'[b] = pc[b]
      BY <1>2, Registered
    <2> QED BY <2>1, <2>2, Ids DEF DoneLabels, Reaping
  <1>3. ASSUME NEW t \in Tasks, NEW code \in Codes, Exit(t, code) PROVE DoneInv'
    <2>1. /\ pc[t] = "run" /\ pc'[t] = "code" /\ \A b \in Actors \ {t} : pc'[b] = pc[b]
      BY <1>3, Ids, Moved DEF Exit
    <2>2. UNCHANGED <<done, exit_code, zombies, target, subtasks>>
      BY <1>3 DEF Exit, table
    <2>3. \A u \in Tasks \ {t} : arg'[u] = arg[u]
      BY <1>3, <1>t DEF Exit
    <2>4. /\ \A u \in Tasks : pc'[u] \in DoneLabels <=> pc[u] \in DoneLabels
          /\ \A u \in Tasks : pc'[u] \in DoneLabels \cup {"status"} => u # t /\ pc'[u] = pc[u]
          /\ \A a \in Actors : pc'[a] \in Reaping => pc'[a] = pc[a]
      BY <2>1, Ids DEF DoneLabels, Reaping
    <2> QED BY <1>t, <2>2, <2>3, <2>4 DEF DoneInv, Reaping
  <1>4. ASSUME NEW t \in Tasks, ExitCode(t) PROVE DoneInv'
    <2>1. /\ pc[t] = "code" /\ pc'[t] = "status" /\ \A b \in Actors \ {t} : pc'[b] = pc[b]
      BY <1>4, Ids, Moved DEF ExitCode
    <2>2. UNCHANGED <<done, arg, zombies, target, subtasks>>
      BY <1>4 DEF ExitCode
    <2>3. exit_code'[t] = arg[t] /\ \A u \in Tasks \ {t} : exit_code'[u] = exit_code[u]
      BY <1>4, <1>t DEF ExitCode
    <2>4. /\ \A u \in Tasks : pc'[u] \in DoneLabels <=> pc[u] \in DoneLabels
          /\ \A u \in Tasks \ {t} : pc'[u] = pc[u]
          /\ \A a \in Actors : pc'[a] \in Reaping => pc'[a] = pc[a]
      BY <2>1, Ids DEF DoneLabels, Reaping
    <2> QED BY <1>t, <2>2, <2>3, <2>4, Zenon DEF DoneInv, Reaping
  <1>5. ASSUME NEW t \in Tasks, ExitStatus(t) PROVE DoneInv'
    <2>1. /\ pc[t] = "status" /\ pc'[t] = "sigchld" /\ \A b \in Actors \ {t} : pc'[b] = pc[b]
      BY <1>5, Ids, Moved DEF ExitStatus
    <2>2. UNCHANGED <<exit_code, arg, zombies, target, subtasks>>
      BY <1>5 DEF ExitStatus
    <2>3. done'[t] = TRUE /\ \A u \in Tasks \ {t} : done'[u] = done[u]
      BY <1>5, <1>t DEF ExitStatus
    <2>4. /\ \A u \in Tasks : pc[u] \in DoneLabels => pc'[u] \in DoneLabels
          /\ pc'[t] \in DoneLabels
          /\ \A u \in Tasks \ {t} : pc'[u] = pc[u]
          /\ \A a \in Actors : pc'[a] \in Reaping => pc'[a] = pc[a]
      BY <2>1, Ids DEF DoneLabels, Reaping
    <2>5. \A u \in Tasks : done'[u] <=> pc'[u] \in DoneLabels
      BY <2>3, <2>4 DEF DoneInv
    <2>6. \A u \in Tasks : pc'[u] \in DoneLabels \cup {"status"} => exit_code[u] = arg[u]
      BY <2>1, <2>4 DEF DoneInv
    <2> QED BY <1>t, <2>2, <2>4, <2>5, <2>6 DEF DoneInv, Reaping
  <1>6. ASSUME NEW t \in Tasks, ExitSignal(t) PROVE Kept
    BY <1>6, Ids, Moved DEF ExitSignal, DoneLabels, Reaping
  <1>7. ASSUME NEW t \in Tasks, ExitChildren(t) PROVE Kept
    BY <1>7, Ids, Moved DEF ExitChildren, table, DoneLabels, Reaping
  <1>8. ASSUME NEW a \in Actors, ExitAdopt(a) \/ ReapLink(a) PROVE Kept
    <2>1. Adopt(a) /\ UNCHANGED <<done, exit_code, arg, zombies, target>>
      BY <1>8 DEF ExitAdopt, ReapLink
    <2>2. pc' = pc
      <3>1. pc' = [pc EXCEPT ![a] = pc[a]]
        BY <1>8, Zenon DEF ExitAdopt, ReapLink, Step
      <3> QED BY <3>1, Zenon DEF Types
    <2>3. \A u \in Tasks \ {Root} : subtasks'[u] = subtasks[u]
      BY <2>1, AdoptFacts, Zenon
    <2> QED BY <2>1, <2>2, <2>3 DEF PlacesInv
  <1>9. ASSUME NEW t \in Tasks, ExitEnd(t) PROVE Kept
    BY <1>9, Ids, Moved DEF ExitEnd, table, DoneLabels, Reaping
  <1>10. ASSUME NEW t \in Tasks, Wait(t) \/ WaitSkip(t) \/ WaitNone(t) PROVE Kept
    <2>1. /\ pc[t] \in {"run", "scan"} /\ pc'[t] \in {"run", "scan"}
          /\ \A b \in Actors \ {t} : pc'[b] = pc[b]
      BY <1>10, Ids, Moved, Zenon DEF Wait, WaitSkip, WaitNone
    <2>2. UNCHANGED <<done, exit_code, arg, zombies, target, subtasks>>
      BY <1>10, Zenon DEF Wait, WaitSkip, WaitNone, table
    <2> QED BY <2>1, <2>2, Ids DEF DoneLabels, Reaping
  <1>11. ASSUME NEW t \in Tasks, WaitFind(t) PROVE DoneInv'
    <2>1. /\ pc[t] = "scan" /\ pc'[t] = "reap" /\ \A b \in Actors \ {t} : pc'[b] = pc[b]
      BY <1>11, Ids, Moved DEF WaitFind
    <2>2. UNCHANGED <<done, exit_code, arg, zombies, subtasks>>
      BY <1>11 DEF WaitFind, table
    <2>3. Head(todo[t]) \in Tasks /\ done[Head(todo[t])]
      BY <1>11, <1>t, Ids, TailIn, Zenon DEF WaitFind
    <2>4. target'[t] = Head(todo[t]) /\ \A b \in Actors \ {t} : target'[b] = target[b]
      BY <1>11, <1>t, Ids, Zenon DEF WaitFind
    <2>5. /\ \A u \in Tasks : pc'[u] \in DoneLabels <=> pc[u] \in DoneLabels
          /\ \A u \in Tasks : pc'[u] = "status" => pc[u] = "status"
          /\ \A a \in Actors \ {t} : pc'[a] \in Reaping => pc'[a] = pc[a]
          /\ pc'[t] # "link"
      BY <2>1, Ids DEF DoneLabels, Reaping
    <2>6. target'[t] \in Tasks /\ pc'[target'[t]] \in DoneLabels
      BY <2>3, <2>4, <2>5 DEF DoneInv
    <2>7. \A a \in Actors : pc'[a] \in Reaping =>
             target'[a] \in Tasks /\ pc'[target'[a]] \in DoneLabels
      BY <2>4, <2>5, <2>6 DEF DoneInv
    <2>8. \A a \in Actors : pc'[a] = "link" => subtasks'[target'[a]] = <<>>
      BY <2>2, <2>4, <2>5 DEF DoneInv, Reaping
    <2> QED BY <1>t, <2>2, <2>5, <2>7, <2>8 DEF DoneInv
  <1>12. ASSUME NEW a \in Actors, Reap(a) PROVE DoneInv'
    <2>1. /\ pc[a] = "reap" /\ pc'[a] \in {"drain", "reclaim", "run"}
          /\ \A b \in Actors \ {a} : pc'[b] = pc[b]
      BY <1>12, Moved DEF Reap, AfterReap
    <2>2. UNCHANGED <<exit_code, arg, zombies, target, subtasks>>
      BY <1>12 DEF Reap
    <2>3. target[a] \in Tasks /\ pc[target[a]] \in DoneLabels
      BY <2>1 DEF DoneInv, Reaping
    <2>4. /\ \A u \in Tasks : pc'[u] \in DoneLabels <=> pc[u] \in DoneLabels
          /\ \A u \in Tasks : pc'[u] = "status" => pc[u] = "status"
          /\ \A b \in Actors : pc'[b] \in Reaping => pc[b] \in Reaping
          /\ \A b \in Actors : pc'[b] = "link" => pc[b] = "link"
      BY <2>1, Ids DEF DoneLabels, Reaping
    <2>5. done[target[a]] /\ done' = [done EXCEPT ![target[a]] = @ \/ target[a] \in map]
      BY <1>12, <2>3 DEF Reap, DoneInv
    <2>6. \A u \in Tasks : done'[u] <=> done[u]
      BY <1>t, <2>5, Zenon
    <2> QED BY <1>t, <2>2, <2>4, <2>6 DEF DoneInv
  <1>13. ASSUME NEW a \in Actors, ReapDrain(a) PROVE DoneInv'
    <2>1. /\ pc[a] = "drain" /\ pc'[a] = "link" /\ \A b \in Actors \ {a} : pc'[b] = pc[b]
      BY <1>13, Moved DEF ReapDrain
    <2>2. UNCHANGED <<done, exit_code, arg, zombies, target>>
      BY <1>13 DEF ReapDrain
    <2>3. target[a] \in Tasks /\ pc[target[a]] \in DoneLabels
      BY <2>1 DEF DoneInv, Reaping
    <2>4. /\ \A u \in Tasks : pc'[u] \in DoneLabels <=> pc[u] \in DoneLabels
          /\ \A u \in Tasks : pc'[u] = "status" => pc[u] = "status"
          /\ \A b \in Actors : pc'[b] \in Reaping => pc[b] \in Reaping
      BY <2>1, Ids DEF DoneLabels, Reaping
    <2>5. subtasks'[target[a]] = <<>> /\ \A u \in Tasks \ {target[a]} : subtasks'[u] = subtasks[u]
      BY <1>13, <1>t, <2>3, Zenon DEF ReapDrain
    <2>6. \A b \in Actors : pc'[b] = "link" => subtasks'[target[b]] = <<>>
      BY <2>1, <2>5 DEF DoneInv, Reaping
    <2> QED BY <1>t, <2>2, <2>4, <2>6 DEF DoneInv
  <1>14. ASSUME NEW a \in Actors, ReapRemove(a) PROVE Kept
    <2>1. pc[a] = "link" /\ pc'[a] = AfterReap(a) /\ \A b \in Actors \ {a} : pc'[b] = pc[b]
      BY <1>14, Moved, Zenon DEF ReapRemove
    <2>2. UNCHANGED <<done, exit_code, arg, zombies, target, subtasks>>
      BY <1>14 DEF ReapRemove
    <2> QED BY <2>1, <2>2, Ids DEF AfterReap, DoneLabels, Reaping
  <1>15. ASSUME Reclaim PROVE DoneInv'
    <2>1. /\ pc[Reclaimer] = "idle" /\ pc'[Reclaimer] = "reclaim"
          /\ \A b \in Actors \ {Reclaimer} : pc'[b] = pc[b]
      BY <1>15, Ids, Moved DEF Reclaim
    <2>2. UNCHANGED <<done, exit_code, arg, target, subtasks>> /\ zombies' = {t \in map : done[t]}
      BY <1>15 DEF Reclaim, table
    <2>3. /\ \A u \in Tasks : pc'[u] = pc[u]
          /\ \A b \in Actors : pc'[b] \in Reaping => pc'[b] = pc[b]
      BY <2>1, Ids DEF Reaping
    <2>4. \A z \in zombies' : pc'[z] \in DoneLabels
      BY <1>t, <2>2, <2>3 DEF DoneInv
    <2> QED BY <2>2, <2>3, <2>4 DEF DoneInv, Reaping
  <1>16. ASSUME ReclaimNext PROVE DoneInv'
    <2>1. /\ pc[Reclaimer] = "reclaim" /\ pc'[Reclaimer] = "reap"
          /\ \A b \in Actors \ {Reclaimer} : pc'[b] = pc[b]
      BY <1>16, Ids, Moved DEF ReclaimNext
    <2>2. UNCHANGED <<done, exit_code, arg, subtasks>>
      BY <1>16 DEF ReclaimNext, table
    <2>3. PICK z \in zombies : target' = [target EXCEPT ![Reclaimer] = z] /\ zombies' = zombies \ {z}
      BY <1>16, Zenon DEF ReclaimNext
    <2>4. target'[Reclaimer] = z /\ \A b \in Actors \ {Reclaimer} : target'[b] = target[b]
      BY <1>t, <2>3, Ids
    <2>5. z \in Tasks /\ \A u \in Tasks : pc'[u] = pc[u]
      BY <1>t, <2>1, Ids
    <2>6. \A b \in Actors : pc'[b] \in Reaping =>
             target'[b] \in Tasks /\ pc'[target'[b]] \in DoneLabels
      BY <2>1, <2>4, <2>5 DEF DoneInv
    <2>7. \A b \in Actors : pc'[b] = "link" => subtasks'[target'[b]] = <<>>
      BY <2>1, <2>2, <2>4 DEF DoneInv
    <2> QED BY <1>t, <2>2, <2>3, <2>5, <2>6, <2>7 DEF DoneInv
  <1>17. ASSUME ReclaimEnd PROVE Kept
    BY <1>17, Ids, Moved DEF ReclaimEnd, table, DoneLabels, Reaping
  <1>18. ASSUME UNCHANGED vars PROVE Kept
    BY <1>18 DEF vars, table
  <1> HIDE DEF Kept
  <1> QED BY <1>0, <1>1, <1>2, <1>3, <1>4, <1>5, <1>6, <1>7, <1>8, <1>9, <1>10, <1>11, <1>12,
             <1>13, <1>14, <1>15, <1>16, <1>17, <1>18, Ids, Zenon
          DEF Next, Call, TaskStep, ReapStep, ReclaimStep

\* A task that is done stays so, and its code with it.
LEMMA DoneStays ==
    ASSUME TaskInv, [Next]_vars
    PROVE  \A u \in Tasks : pc[u] \in DoneLabels =>
              pc'[u] \in DoneLabels /\ exit_code'[u] = exit_code[u]
  <1> SUFFICES ASSUME Types, PlacesInv, ForkInv, [Next]_vars, NEW u \in Tasks, pc[u] \in DoneLabels
               PROVE  pc'[u] \in DoneLabels /\ exit_code'[u] = exit_code[u]
    BY DEF TaskInv
  <1> DEFINE Stays == pc'[u] \in DoneLabels /\ exit_code'[u] = exit_code[u]
  <1>t. DOMAIN exit_code = Tasks /\ u \in Actors
    BY Ids DEF Types
  <1>1. ASSUME NEW t \in Tasks, Fork(t) \/ ForkPush(t) PROVE Stays
    BY <1>1, <1>t, Ids, Moved DEF Fork, ForkPush, DoneLabels
  <1>2. ASSUME NEW t \in Tasks, ForkRegister(t) PROVE Stays
    <2>1. pc[t] = "register" /\ pc[target[t]] = "none"
          /\ \A b \in Actors \ {t, target[t]} : pc'[b] = pc[b]
      BY <1>2, Registered, Zenon
    <2>2. exit_code' = exit_code
      BY <1>2 DEF ForkRegister
    <2> QED BY <1>t, <2>1, <2>2 DEF DoneLabels
  <1>3. ASSUME NEW t \in Tasks, NEW code \in Codes, Exit(t, code) PROVE Stays
    BY <1>3, <1>t, Ids, Moved DEF Exit, table, DoneLabels
  <1>4. ASSUME NEW t \in Tasks, ExitCode(t) PROVE Stays
    BY <1>4, <1>t, Ids, Moved DEF ExitCode, DoneLabels
  <1>5. ASSUME NEW t \in Tasks, ExitStatus(t) PROVE Stays
    BY <1>5, <1>t, Ids, Moved DEF ExitStatus, DoneLabels
  <1>6. ASSUME NEW t \in Tasks, ExitSignal(t) PROVE Stays
    BY <1>6, <1>t, Ids, Moved DEF ExitSignal, DoneLabels
  <1>7. ASSUME NEW t \in Tasks, ExitChildren(t) PROVE Stays
    BY <1>7, <1>t, Ids, Moved DEF ExitChildren, table, DoneLabels
  <1>8. ASSUME NEW t \in Tasks, ExitAdopt(t) PROVE Stays
    BY <1>8, <1>t, Ids, Moved DEF ExitAdopt, DoneLabels
  <1>9. ASSUME NEW t \in Tasks, ExitEnd(t) PROVE Stays
    BY <1>9, <1>t, Ids, Moved DEF ExitEnd, table, DoneLabels
  <1>10. ASSUME NEW t \in Tasks, Wait(t) \/ WaitSkip(t) \/ WaitNone(t) \/ WaitFind(t) PROVE Stays
    <2>1. pc[t] \in {"run", "scan"} /\ \A b \in Actors \ {t} : pc'[b] = pc[b]
      BY <1>10, Ids, Moved, Zenon DEF Wait, WaitSkip, WaitNone, WaitFind
    <2>2. exit_code' = exit_code
      BY <1>10, Zenon DEF Wait, WaitSkip, WaitNone, WaitFind, table
    <2> QED BY <1>t, <2>1, <2>2 DEF DoneLabels
  <1>11. ASSUME NEW a \in Actors, ReapStep(a) PROVE Stays
    <2>1. pc[a] \in Reaping /\ \A b \in Actors \ {a} : pc'[b] = pc[b]
      BY <1>11, Moved, Zenon DEF ReapStep, Reap, ReapDrain, ReapLink, ReapRemove, Reaping
    <2>2. exit_code' = exit_code
      BY <1>11, Zenon DEF ReapStep, Reap, ReapDrain, ReapLink, ReapRemove
    <2> QED BY <1>t, <2>1, <2>2 DEF DoneLabels, Reaping
  <1>12. ASSUME Reclaim \/ ReclaimNext \/ ReclaimEnd PROVE Stays
    <2>1. \A b \in Actors \ {Reclaimer} : pc'[b] = pc[b]
      BY <1>12, Ids, Moved, Zenon DEF Reclaim, ReclaimNext, ReclaimEnd
    <2>2. exit_code' = exit_code
      BY <1>12, Zenon DEF Reclaim, ReclaimNext, ReclaimEnd, table
    <2> QED BY <1>t, <2>1, <2>2, Ids
  <1>13. ASSUME UNCHANGED vars PROVE Stays
    BY <1>13 DEF vars, table
  <1> HIDE DEF Stays
  <1>14. Stays
    BY <1>1, <1>2, <1>3, <1>4, <1>5, <1>6, <1>7, <1>8, <1>9, <1>10, <1>11, <1>12, <1>13, Ids,
       Zenon DEF Next, Call, TaskStep, ReclaimStep
  <1> QED BY <1>14 DEF Stays

LEMMA ResultStep == TaskInv /\ [Next]_vars => ResultInv'
  <1> SUFFICES ASSUME TaskInv, [Next]_vars PROVE ResultInv'
    OBVIOUS
  <1>t. /\ Types /\ ResultInv /\ DoneInv /\ DOMAIN result = Tasks
        /\ \A a \in Actors : todo[a] \in Seq(Tasks)
    BY DEF TaskInv, Types
  <1>1. \/ result' = result
        \/ \E t \in Tasks : Wait(t) \/ WaitFind(t)
    BY Zenon DEF Next, Call, TaskStep, ReapStep, ReclaimStep, vars, Fork, ForkPush, ForkRegister,
       Exit, ExitCode, ExitStatus, ExitSignal, ExitChildren, ExitAdopt, ExitEnd, WaitSkip,
       WaitNone, Reap, ReapDrain, ReapLink, ReapRemove, Reclaim, ReclaimNext, ReclaimEnd
  <1>2. ASSUME NEW u \in Tasks
        PROVE  \/ result'[u] = result[u] \/ result'[u] = NoResult
               \/ \E c \in Tasks : done[c] /\ result'[u] = <<c, exit_code[c]>>
    <2>1. ASSUME NEW t \in Tasks, Wait(t) PROVE <1>2!2
      BY <1>t, <2>1, Zenon DEF Wait
    <2>2. ASSUME NEW t \in Tasks, WaitFind(t) PROVE <1>2!2
      <3>1. PICK c \in Tasks : /\ c = Head(todo[t]) /\ done[c]
                               /\ result' = [result EXCEPT ![t] = <<c, exit_code[c]>>]
        BY <1>t, <2>2, Ids, TailIn, Zenon DEF WaitFind
      <3> QED BY <1>t, <3>1, Zenon
    <2> QED BY <1>1, <2>1, <2>2, Zenon
  <1>3. ASSUME NEW u \in Tasks, result'[u] # NoResult
        PROVE  /\ result'[u][1] \in Tasks /\ pc'[result'[u][1]] \in DoneLabels
               /\ result'[u][2] = exit_code'[result'[u][1]]
    <2>1. CASE result'[u] = result[u]
      BY <1>t, <1>3, <2>1, DoneStays DEF ResultInv
    <2>2. CASE \E c \in Tasks : done[c] /\ result'[u] = <<c, exit_code[c]>>
      <3>1. PICK c \in Tasks : done[c] /\ result'[u] = <<c, exit_code[c]>>
        BY <2>2
      <3>2. result'[u][1] = c /\ result'[u][2] = exit_code[c]
        BY <3>1
      <3>3. pc'[c] \in DoneLabels /\ exit_code'[c] = exit_code[c]
        BY <1>t, <3>1, DoneStays DEF DoneInv
      <3> QED BY <3>2, <3>3
    <2> QED BY <1>2, <1>3, <2>1, <2>2
  <1> QED BY <1>3 DEF ResultInv

LEMMA SignalStep == TaskInv /\ [Next]_vars => SignalAfterDone'
  <1> SUFFICES ASSUME TaskInv, [Next]_vars, NEW p \in Tasks, NEW c \in Tasks, c \in sig_queue'[p]
               PROVE  done'[c]
    BY DEF SignalAfterDone
  <1>t. Types /\ DoneInv /\ SignalAfterDone /\ DOMAIN sig_queue = Tasks
    BY Zenon DEF TaskInv, Types
  <1>1. \/ sig_queue' = sig_queue
        \/ \E t \in Tasks : ExitSignal(t)
    BY Zenon DEF Next, Call, TaskStep, ReapStep, ReclaimStep, vars, table, Fork, ForkPush,
       ForkRegister, Exit, ExitCode, ExitStatus, ExitChildren, ExitAdopt, ExitEnd, Wait, WaitSkip,
       WaitNone, WaitFind, Reap, ReapDrain, ReapLink, ReapRemove, Reclaim, ReclaimNext, ReclaimEnd
  <1>2. c \in sig_queue[p] \/ pc[c] \in DoneLabels
    <2>1. ASSUME NEW t \in Tasks, ExitSignal(t) PROVE c \in sig_queue[p] \/ pc[c] \in DoneLabels
      <3>1. pc[t] = "sigchld" /\ sig_queue' = [sig_queue EXCEPT ![parent[t]] = @ \cup {t}]
        BY <2>1 DEF ExitSignal, Step
      <3>2. c \in sig_queue[p] \/ c = t
        BY <1>t, <3>1, Zenon
      <3> QED BY <3>1, <3>2 DEF DoneLabels
    <2> QED BY <1>1, <2>1, Zenon
  <1>3. pc[c] \in DoneLabels
    BY <1>t, <1>2 DEF SignalAfterDone, DoneInv
  <1>4. pc'[c] \in DoneLabels
    BY <1>3, DoneStays
  <1> QED BY <1>4, DoneStep DEF DoneInv

LEMMA AdoptStep == TaskInv /\ [Next]_vars => AdoptInv'
  <1> SUFFICES ASSUME Types, PlacesInv, ForkInv, DoneInv, AdoptInv, [Next]_vars PROVE AdoptInv'
    BY DEF TaskInv
  <1>t. /\ map \subseteq Tasks /\ Root \in map
        /\ DOMAIN target = Actors /\ DOMAIN todo = Actors /\ DOMAIN subtasks = Tasks
        /\ DOMAIN parent = Tasks
        /\ \A t \in Tasks : subtasks[t] \in Seq(Tasks)
    BY Ids DEF Types, PlacesInv
  \* Who is listed stays listed, and who is in hand for init stays in hand.
  <1> DEFINE InHand(c) == \E a \in Actors : pc[a] \in Adopting /\ In(todo[a], c)
             Lists == \A p \in Tasks : \A x : In(subtasks[p], x) => In(subtasks'[p], x)
             Hands == \A a \in Actors : \A x : pc[a] \in Adopting /\ In(todo[a], x) =>
                         pc'[a] \in Adopting /\ In(todo'[a], x)
             Kept == map' = map /\ (\A c \in map : parent'[c] = parent[c]) /\ Lists /\ Hands
  <1>0. ASSUME Kept PROVE AdoptInv'
    <2> SUFFICES ASSUME NEW c \in map \ {Root}
                 PROVE  \/ parent'[c] \in map' /\ In(subtasks'[parent'[c]], c)
                        \/ \E a \in Actors : pc'[a] \in Adopting /\ In(todo'[a], c)
      BY <1>0 DEF AdoptInv
    <2>1. CASE parent[c] \in map /\ In(subtasks[parent[c]], c)
      BY <1>0, <1>t, <2>1
    <2>2. CASE InHand(c)
      BY <1>0, <2>2
    <2> QED BY <2>1, <2>2 DEF AdoptInv
  <1>1. ASSUME NEW t \in Tasks, Fork(t) PROVE Kept
    <2>1. pc[t] = "run" /\ \A b \in Actors \ {t} : pc'[b] = pc[b]
      BY <1>1, Ids, Moved, Zenon DEF Fork
    <2>2. /\ map' = map /\ subtasks' = subtasks /\ todo' = todo
          /\ parent' = [parent EXCEPT ![seq] = t]
      BY <1>1 DEF Fork
    <2>3. \A c \in map : c # seq
      BY <1>t, Ids DEF PlacesInv, Types
    <2>4. \A c \in map : parent'[c] = parent[c]
      BY <1>t, <2>2, <2>3
    <2> QED BY <2>1, <2>2, <2>4 DEF Adopting
  <1>2. ASSUME NEW t \in Tasks, ForkPush(t) PROVE Kept
    <2>1. pc[t] = "push" /\ \A b \in Actors \ {t} : pc'[b] = pc[b]
      BY <1>2, Ids, Moved, Zenon DEF ForkPush
    <2>2. /\ map' = map /\ parent' = parent /\ todo' = todo
          /\ subtasks' = [subtasks EXCEPT ![t] = Append(@, target[t])]
      BY <1>2 DEF ForkPush
    <2>3. target[t] \in Tasks
      BY <2>1 DEF ForkInv, Forking
    <2>4. /\ \A x : In(subtasks[t], x) => In(subtasks'[t], x)
          /\ \A u \in Tasks \ {t} : subtasks'[u] = subtasks[u]
      BY <1>t, <2>2, <2>3, AppendIn
    <2> QED BY <2>1, <2>2, <2>4 DEF Adopting
  <1>3. ASSUME NEW t \in Tasks, ForkRegister(t) PROVE AdoptInv'
    <2>1. /\ UNCHANGED <<parent, subtasks, todo>> /\ map' = map \cup {target[t]}
      BY <1>3 DEF ForkRegister
    <2>2. /\ pc[t] = "register" /\ pc[target[t]] = "none"
          /\ \A b \in Actors \ {t, target[t]} : pc'[b] = pc[b]
      BY <1>3, Registered
    <2>3. parent[target[t]] = t /\ In(subtasks[t], target[t])
      BY <2>2 DEF ForkInv, Forking
    <2>4. t \in map
      BY <2>2 DEF PlacesInv, DoneLabels
    <2>5. \A a \in Actors : pc[a] \in Adopting => pc'[a] = pc[a]
      BY <2>2 DEF Adopting
    <2> QED BY <2>1, <2>3, <2>4, <2>5 DEF AdoptInv
  <1>4. ASSUME NEW t \in Tasks, ExitChildren(t) PROVE Kept
    <2>1. pc[t] = "children" /\ \A b \in Actors \ {t} : pc'[b] = pc[b]
      BY <1>4, Ids, Moved, Zenon DEF ExitChildren
    <2>2. /\ UNCHANGED <<map, parent, subtasks>>
          /\ \A b \in Actors \ {t} : todo'[b] = todo[b]
      BY <1>4, <1>t, Zenon DEF ExitChildren, table
    <2> QED BY <2>1, <2>2 DEF Adopting
  <1>5. ASSUME NEW a \in Actors, ExitAdopt(a) \/ ReapLink(a) PROVE AdoptInv'
    <2>1. Adopt(a) /\ map' = map
      BY <1>5 DEF ExitAdopt, ReapLink
    <2>2. pc' = pc
      <3>1. pc' = [pc EXCEPT ![a] = pc[a]]
        BY <1>5, Zenon DEF ExitAdopt, ReapLink, Step
      <3> QED BY <3>1, Zenon DEF Types
    <2>3. PICK c \in Tasks : /\ c = Head(todo[a])
                             /\ parent' = [parent EXCEPT ![c] = Root]
      BY <2>1, AdoptFacts, Zenon
    <2>4. parent'[c] = Root /\ In(subtasks'[Root], c)
      BY <1>t, <2>1, <2>3, AdoptFacts, Zenon
    <2>5. \A u \in Tasks \ {c} : parent'[u] = parent[u]
      BY <1>t, <2>3
    <2>6. Lists
      BY <2>1, AdoptFacts, Ids, Zenon
    <2>7. \A b \in Actors : \A x : In(todo[b], x) => x = c \/ In(todo'[b], x)
      BY <2>1, <2>3, AdoptFacts, Zenon
    <2>8. ASSUME NEW u \in map \ {Root}, u # c
          PROVE  \/ parent'[u] \in map' /\ In(subtasks'[parent'[u]], u)
                 \/ \E b \in Actors : pc'[b] \in Adopting /\ In(todo'[b], u)
      <3>1. CASE parent[u] \in map /\ In(subtasks[parent[u]], u)
        BY <1>t, <2>1, <2>5, <2>6, <2>8, <3>1
      <3>2. CASE InHand(u)
        BY <2>2, <2>7, <2>8, <3>2
      <3> QED BY <3>1, <3>2 DEF AdoptInv
    <2> QED BY <1>t, <2>1, <2>4, <2>8 DEF AdoptInv
  <1>6. ASSUME NEW a \in Actors, ReapDrain(a) PROVE AdoptInv'
    <2>1. /\ pc[a] = "drain" /\ pc'[a] = "link" /\ \A b \in Actors \ {a} : pc'[b] = pc[b]
      BY <1>6, Moved, Zenon DEF ReapDrain
    <2>2. /\ UNCHANGED <<map, parent>>
          /\ todo' = [todo EXCEPT ![a] = subtasks[target[a]]]
          /\ subtasks' = [subtasks EXCEPT ![target[a]] = <<>>]
      BY <1>6 DEF ReapDrain
    <2>3. todo'[a] = subtasks[target[a]] /\ \A b \in Actors \ {a} : todo'[b] = todo[b]
      BY <1>t, <2>2, Zenon
    <2>4. \A u \in Tasks \ {target[a]} : subtasks'[u] = subtasks[u]
      BY <1>t, <2>2, Zenon
    <2>5. pc'[a] \in Adopting /\ \A b \in Actors : pc[b] \in Adopting => b # a
      BY <2>1 DEF Adopting
    <2> SUFFICES ASSUME NEW c \in map \ {Root}
                 PROVE  \/ parent[c] \in map /\ In(subtasks'[parent[c]], c)
                        \/ \E b \in Actors : pc'[b] \in Adopting /\ In(todo'[b], c)
      BY <2>2 DEF AdoptInv
    <2>6. CASE parent[c] \in map /\ In(subtasks[parent[c]], c)
      BY <1>t, <2>3, <2>4, <2>5, <2>6, Zenon
    <2>7. CASE InHand(c)
      BY <2>1, <2>3, <2>5, <2>7
    <2> QED BY <2>6, <2>7 DEF AdoptInv
  <1>7. ASSUME NEW a \in Actors, ReapRemove(a) PROVE AdoptInv'
    <2>1. /\ pc[a] = "link" /\ \A b \in Actors \ {a} : pc'[b] = pc[b]
      BY <1>7, Moved, Zenon DEF ReapRemove
    <2>2. UNCHANGED <<parent, subtasks, todo>> /\ map' = map \ {target[a]} /\ todo[a] = <<>>
      BY <1>7 DEF ReapRemove
    <2>3. \A x : ~In(subtasks[target[a]], x) /\ ~In(todo[a], x)
      <3>1. subtasks[target[a]] = <<>>
        BY <2>1 DEF DoneInv
      <3> QED BY <2>2, <3>1, EmptyIn, Zenon
    <2> SUFFICES ASSUME NEW c \in map' \ {Root}
                 PROVE  \/ parent[c] \in map' /\ In(subtasks[parent[c]], c)
                        \/ \E b \in Actors : pc'[b] \in Adopting /\ In(todo[b], c)
      BY <2>2 DEF AdoptInv
    <2>4. CASE parent[c] \in map /\ In(subtasks[parent[c]], c)
      BY <2>2, <2>3, <2>4
    <2>5. CASE InHand(c)
      BY <2>1, <2>3, <2>5
    <2> QED BY <2>2, <2>4, <2>5 DEF AdoptInv
  <1>8. ASSUME NEW t \in Tasks, ExitEnd(t) PROVE Kept
    <2>1. \A b \in Actors \ {t} : pc'[b] = pc[b]
      BY <1>8, Ids, Moved, Zenon DEF ExitEnd
    <2>2. UNCHANGED <<map, parent, subtasks, todo>> /\ todo[t] = <<>>
      BY <1>8, Zenon DEF ExitEnd, table
    <2> QED BY <2>1, <2>2, EmptyIn
  <1>9. ASSUME NEW t \in Tasks, Wait(t) \/ WaitSkip(t) \/ WaitNone(t) \/ WaitFind(t) PROVE Kept
    <2>1. pc[t] \in {"run", "scan"} /\ \A b \in Actors \ {t} : pc'[b] = pc[b]
      BY <1>9, Ids, Moved, Zenon DEF Wait, WaitSkip, WaitNone, WaitFind
    <2>2. /\ UNCHANGED <<map, parent, subtasks>>
          /\ \A b \in Actors \ {t} : todo'[b] = todo[b]
      BY <1>9, <1>t, Zenon DEF Wait, WaitSkip, WaitNone, WaitFind, table
    <2> QED BY <2>1, <2>2 DEF Adopting
  <1>10. ASSUME NEW t \in Tasks,
                \/ \E code \in Codes : Exit(t, code)
                \/ ExitCode(t) \/ ExitStatus(t) \/ ExitSignal(t)
         PROVE  Kept
    <2>1. /\ pc[t] \in {"run", "code", "status", "sigchld"}
          /\ \A b \in Actors \ {t} : pc'[b] = pc[b]
      BY <1>10, Ids, Moved, Zenon DEF Exit, ExitCode, ExitStatus, ExitSignal
    <2>2. UNCHANGED <<map, parent, subtasks, todo>>
      BY <1>10, Zenon DEF Exit, ExitCode, ExitStatus, ExitSignal, table
    <2> QED BY <2>1, <2>2 DEF Adopting
  <1>11. ASSUME NEW a \in Actors, Reap(a) PROVE Kept
    <2>1. pc[a] = "reap" /\ \A b \in Actors \ {a} : pc'[b] = pc[b]
      BY <1>11, Moved, Zenon DEF Reap
    <2>2. UNCHANGED <<map, parent, subtasks, todo>>
      BY <1>11 DEF Reap
    <2> QED BY <2>1, <2>2 DEF Adopting
  <1>12. ASSUME Reclaim \/ ReclaimNext \/ ReclaimEnd PROVE Kept
    <2>1. /\ pc[Reclaimer] \in {"idle", "reclaim"}
          /\ \A b \in Actors \ {Reclaimer} : pc'[b] = pc[b]
      BY <1>12, Ids, Moved, Zenon DEF Reclaim, ReclaimNext, ReclaimEnd
    <2>2. UNCHANGED <<map, parent, subtasks, todo>>
      BY <1>12, Zenon DEF Reclaim, ReclaimNext, ReclaimEnd, table
    <2> QED BY <2>1, <2>2 DEF Adopting
  <1>13. ASSUME UNCHANGED vars PROVE Kept
    BY <1>13 DEF vars, table
  <1> HIDE DEF Kept
  <1> QED BY <1>0, <1>1, <1>2, <1>3, <1>4, <1>5, <1>6, <1>7, <1>8, <1>9, <1>10, <1>11, <1>12,
             <1>13, Ids, Zenon DEF Next, Call, TaskStep, ReapStep, ReclaimStep

LEMMA InitInv == Init => TaskInv
  <1> SUFFICES ASSUME Init PROVE TaskInv
    OBVIOUS
  <1> USE Ids DEF Init
  <1>1. \A a \in Actors : pc[a] = IF a = Root THEN "run" ELSE
                                  IF a = Reclaimer THEN "idle" ELSE "none"
    OBVIOUS
  <1>2. Types
    <2>1. pc \in [Actors -> Labels]
      BY <1>1 DEF Labels
    <2>2. /\ map \subseteq Tasks /\ seq \in Nat /\ seq >= 2 /\ zombies \subseteq Tasks
          /\ DOMAIN done = Tasks
      OBVIOUS
    <2>3. /\ parent \in [Tasks -> Nat] /\ subtasks \in [Tasks -> Seq(Tasks)]
          /\ exit_code \in [Tasks -> Nat] /\ arg \in [Tasks -> Nat]
          /\ sig_queue \in [Tasks -> SUBSET Tasks] /\ target \in [Actors -> Nat]
          /\ todo \in [Actors -> Seq(Tasks)] /\ result \in [Tasks -> Nat \X Nat]
      BY EmptyList, Zenon DEF NoResult
    <2> QED BY <2>1, <2>2, <2>3 DEF Types
  <1>3. PlacesInv
    <2>1. \A t \in Tasks : t >= seq => t # Root
      BY DEF Root
    <2>2. pc[Root] = "run" /\ pc[Reclaimer] = "idle" /\ map = {Root}
      BY <1>1
    <2>3. \A t \in Tasks : t # Root => pc[t] = "none"
      BY <1>1
    <2> QED BY <2>1, <2>2, <2>3 DEF PlacesInv, DoneLabels, Reaping
  <1>4. ForkInv /\ ResultInv /\ SignalAfterDone /\ AdoptInv
    BY <1>1 DEF ForkInv, Forking, ResultInv, SignalAfterDone, AdoptInv
  <1>5. ListInv
    BY <1>1, EmptyIn DEF ListInv, Adopting
  <1>6. DoneInv
    BY <1>1 DEF DoneInv, DoneLabels, Reaping
  <1> QED BY <1>2, <1>3, <1>4, <1>5, <1>6 DEF TaskInv

LEMMA InvHolds == Spec => []TaskInv
  <1>1. TaskInv /\ [Next]_vars => TaskInv'
    BY TypesStep, PlacesStep, ForkStep, ListStep, DoneStep, ResultStep, SignalStep, AdoptStep
       DEF TaskInv
  <1> QED BY InitInv, <1>1, PTL DEF Spec

--------------------------------------------------------------------------------

\* exit_proc and do_wait: the code that a wait returned, whoever waited and
\* however late, is the one that the task it names passed to exit.
THEOREM CodeCollected == Spec => []WaitGetsCode
  <1>1. TaskInv => WaitGetsCode
    BY DEF TaskInv, ResultInv, DoneInv, WaitGetsCode
  <1> QED BY InvHolds, <1>1, PTL

\* SYS_EXIT: a task in the queue of SIGCHLDs of any other has set its status.
THEOREM SignalMeansDone == Spec => []SignalAfterDone
  <1>1. TaskInv => SignalAfterDone
    BY DEF TaskInv
  <1> QED BY InvHolds, <1>1, PTL

\* fork_task, SYS_EXIT and reap: when no call is under way every task in the map
\* but init is listed by a parent that is in the map, whatever exits, reaps and
\* reclaims of its ancestors came before.
THEOREM NoOrphan == Spec => []Adopted
  <1>1. TaskInv => Adopted
    BY DEF TaskInv, AdoptInv, Adopting, Adopted, Quiet, Listed, In
  <1> QED BY InvHolds, <1>1, PTL
================================================================================
