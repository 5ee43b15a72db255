----------------------------- MODULE TodoProofs -----------------------------
(***************************************************************************)
(* Theorems about the Todo app and the two services it is made of:         *)
(* TaskService for any number of tasks, SceneCoordinator for any number of *)
(* sheets and pushed screens, with or without the swipe gesture.           *)
(*                                                                         *)
(* That uids sort the live tasks by age is inductive together with the     *)
(* types: a new task gets the newest handle and a uid above all live ones. *)
(* CurrentOnTopLevel alone is not inductive: the completion of a dismissal *)
(* removes the level of the current view controller, which must still be a *)
(* presented one then, and the end of a drag the view controller above the *)
(* current one.  The app implements both services, which carries    *)
(* their theorems over; its own invariants need that a tasks screen alone  *)
(* on the screen edits nothing.                                            *)
(***************************************************************************)
EXTENDS TodoApp, SequenceTheorems, FiniteSetTheorems, TLAPS

-----------------------------------------------------------------------------
(* TaskService *)

TaskInv == TaskTypeOK /\ UidsFollowAge

\* A uid that is next is above every uid in use.
LEMMA NextUidAbove ==
    ASSUME TaskTypeOK, NEW u \in 1 .. created + 1, IsNextUid(u)
    PROVE  \A p \in live : tasks[p].uid < u
BY DEF IsNextUid

\* A new task with a uid of U is a task record over U.
LEMMA NewTaskTyped ==
    ASSUME NEW U, NEW u \in U, NEW b \in BOOLEAN
    PROVE  /\ NewTask(u, b) \in [uid : U, blank : BOOLEAN, checked : BOOLEAN]
           /\ NewTask(u, b).uid = u
<1>1. FALSE \in BOOLEAN
  OBVIOUS
<1> QED BY <1>1, Zenon DEF NewTask

\* The default tasks are numbered from 1 in the order of their handles.
LEMMA SeededTasks ==
    ASSUME NEW c \in Nat, NEW k \in Nat
    PROVE  /\ DOMAIN Seeded(c, k) = c + 1 .. c + k
           /\ \A o \in c + 1 .. c + k : Seeded(c, k)[o].uid = o - c
           /\ Seeded(c, k) \in [c + 1 .. c + k ->
                                   [uid : 1 .. c + k, blank : BOOLEAN,
                                    checked : BOOLEAN]]
<1>2. \A o \in c + 1 .. c + k : o - c \in 1 .. c + k
  OBVIOUS
<1>3. FALSE \in BOOLEAN
  OBVIOUS
<1>4. \A o \in c + 1 .. c + k :
        /\ NewTask(o - c, FALSE) \in [uid : 1 .. c + k, blank : BOOLEAN,
                                      checked : BOOLEAN]
        /\ NewTask(o - c, FALSE).uid = o - c
  BY <1>2, <1>3, NewTaskTyped, Zenon
<1> QED BY <1>4, Zenon DEF Seeded

\* Whatever writes fail, no more than the default tasks are created.
LEMMA SeedsBounded ==
    ASSUME NEW k \in SeedsWritten
    PROVE  k \in Nat /\ k <= Seeds /\ k <= MaxTasks
BY SeedsAssumption DEF SeedsWritten

\* An empty realm's default tasks, created after c others, satisfy the invariant.
LEMMA SeededInv ==
    ASSUME NEW c \in Nat, NEW k \in Nat, c + k <= MaxTasks,
           tasks' = Seeded(c, k), created' = c + k
    PROVE  TaskInv'
<1>1. MaxTasks \in Nat
  BY SeedsAssumption
<1>2. /\ live' = c + 1 .. c + k
      /\ \A o \in live' : tasks'[o].uid = o - c
      /\ tasks' \in [live' -> [uid : 1 .. created', blank : BOOLEAN,
                               checked : BOOLEAN]]
  BY SeededTasks, Zenon DEF live
<1>3. live' \subseteq 1 .. created' /\ created' \in 0 .. MaxTasks
  BY <1>1, <1>2
<1>4. TaskTypeOK'
  BY <1>2, <1>3, Zenon DEF TaskTypeOK
<1>5. UidsFollowAge'
  <2> SUFFICES ASSUME NEW o \in live', NEW p \in live', o < p
               PROVE  tasks'[o].uid < tasks'[p].uid
    BY Zenon DEF UidsFollowAge
  <2>1. tasks'[o].uid = o - c /\ tasks'[p].uid = p - c
    BY <1>2, Zenon
  <2>2. o - c < p - c
    BY <1>2
  <2> QED BY <2>1, <2>2
<1> QED BY <1>4, <1>5 DEF TaskInv

LEMMA InitTaskInv == TInit => TaskInv
<1> SUFFICES ASSUME TInit PROVE TaskInv
  OBVIOUS
<1>1. PICK k \in SeedsWritten : tasks = Seeded(0, k) /\ created = k
  BY DEF TInit
<1>k. k \in Nat /\ k <= MaxTasks /\ MaxTasks \in Nat
  BY SeedsBounded, SeedsAssumption
<1>2. /\ 0 \in Nat /\ 0 + 1 = 1 /\ 0 + k = k
      /\ \A o \in 1 .. k : o - 0 = o
  BY <1>k
<1>3. /\ DOMAIN Seeded(0, k) = 1 .. k
      /\ \A o \in 1 .. k : Seeded(0, k)[o].uid = o
      /\ Seeded(0, k) \in [1 .. k -> [uid : 1 .. k, blank : BOOLEAN,
                                      checked : BOOLEAN]]
  BY <1>k, <1>2, SeededTasks, Zenon
<1>4. /\ live = 1 .. k /\ created = k
      /\ \A o \in live : tasks[o].uid = o
      /\ tasks \in [live -> [uid : 1 .. created, blank : BOOLEAN,
                             checked : BOOLEAN]]
  BY <1>1, <1>3, Zenon DEF live
<1>5. live \subseteq 1 .. created /\ created \in 0 .. MaxTasks
  BY <1>k, <1>4
<1>6. TaskTypeOK
  BY <1>4, <1>5, Zenon DEF TaskTypeOK
<1>7. UidsFollowAge
  <2> SUFFICES ASSUME NEW o \in live, NEW p \in live, o < p
               PROVE  tasks[o].uid < tasks[p].uid
    BY Zenon DEF UidsFollowAge
  <2> QED BY <1>4
<1> QED BY <1>6, <1>7 DEF TaskInv

LEMMA NextTaskInv == TaskInv /\ [TNext]_storeVars => TaskInv'
<1> SUFFICES ASSUME TaskInv, [TNext]_storeVars PROVE TaskInv'
  OBVIOUS
<1> DEFINE Task(c) == [uid : 1 .. c, blank : BOOLEAN, checked : BOOLEAN]
<1>t. /\ created \in Nat /\ created <= MaxTasks /\ MaxTasks \in Nat
      /\ live \subseteq 1 .. created
      /\ tasks \in [live -> Task(created)]
      /\ \A o, p \in live : o < p => tasks[o].uid < tasks[p].uid
  BY SeedsAssumption DEF TaskInv, TaskTypeOK, UidsFollowAge
<1>0. CASE UNCHANGED storeVars
  BY <1>0, <1>t DEF storeVars, TaskInv, TaskTypeOK, UidsFollowAge, live
<1>1. ASSUME NEW b \in BOOLEAN, CreateTask(b) PROVE TaskInv'
  <2> DEFINE n == created + 1
  <2>f. CASE WriteFails
    BY <1>0, <2>f DEF WriteFails
  <2> SUFFICES ASSUME ~WriteFails PROVE TaskInv'
    BY <2>f
  <2>s. ~WriteFails
    OBVIOUS
  <2>1. PICK u \in 1 .. n :
            /\ IsNextUid(u)
            /\ tasks' = [o \in live \cup {n} |->
                            IF o = n THEN NewTask(u, b) ELSE tasks[o]]
    BY <1>1, <2>s DEF CreateTask, WriteFails
  <2>2. created' = n /\ n <= MaxTasks /\ n \in Nat /\ n \notin live
    BY <1>1, <1>t, <2>s DEF CreateTask
  <2>3. \A p \in live : tasks[p].uid < u
    BY <2>1, NextUidAbove DEF TaskInv
  <2>4. live' = live \cup {n}
    BY <2>1 DEF live
  <2>5. /\ tasks'[n] = NewTask(u, b) /\ tasks'[n].uid = u
        /\ \A o \in live : tasks'[o] = tasks[o]
    BY <2>1, <2>2, NewTaskTyped
  <2>6. tasks' \in [live' -> Task(n)]
    <3>1. \A o \in live : tasks[o] \in Task(n)
      BY <1>t, <2>2
    <3>2. tasks'[n] \in Task(n)
      BY <2>1, NewTaskTyped, Zenon
    <3> QED BY <2>1, <2>4, <2>5, <3>1, <3>2
  <2>7. TaskTypeOK'
    BY <1>t, <2>2, <2>4, <2>6 DEF TaskTypeOK
  <2>8. UidsFollowAge'
    <3> SUFFICES ASSUME NEW o \in live', NEW p \in live', o < p
                 PROVE  tasks'[o].uid < tasks'[p].uid
      BY DEF UidsFollowAge
    <3>1. CASE p = n
      BY <1>t, <2>2, <2>3, <2>4, <2>5, <3>1
    <3>2. CASE p # n
      <4>1. p \in live /\ o < created + 1
        BY <1>t, <2>4, <3>2, <2>2
      <4>2. o \in live
        BY <2>4, <4>1, <1>t
      <4> QED BY <1>t, <2>5, <4>1, <4>2
    <3> QED BY <3>1, <3>2
  <2> QED BY <2>7, <2>8 DEF TaskInv
<1>2. ASSUME NEW o \in live, Delete(o) PROVE TaskInv'
  <2>1. CASE /\ tasks' = [p \in live \ {o} |-> tasks[p]]
             /\ UNCHANGED created
    <3>1. live' = live \ {o}
      BY <2>1 DEF live
    <3>2. tasks' \in [live' -> Task(created')]
      BY <1>t, <2>1, <3>1
    <3> QED
      BY <1>t, <2>1, <3>1, <3>2 DEF TaskInv, TaskTypeOK, UidsFollowAge
  <2>2. CASE WriteFails
    BY <1>0, <2>2 DEF WriteFails
  <2> QED BY <1>2, <2>1, <2>2 DEF Delete
<1>3. ASSUME NEW o \in live, NEW b \in BOOLEAN, Update(o, b) PROVE TaskInv'
  <2>1. CASE /\ tasks' = [tasks EXCEPT ![o].blank = b]
             /\ UNCHANGED created
    <3>1. live' = live
      BY <1>t, <2>1 DEF live
    <3>2. \A p \in live : /\ tasks'[p] \in Task(created)
                          /\ tasks'[p].uid = tasks[p].uid
      BY <1>t, <2>1
    <3>3. tasks' \in [live' -> Task(created')]
      BY <1>t, <2>1, <3>1, <3>2
    <3> QED
      BY <1>t, <2>1, <3>1, <3>2, <3>3 DEF TaskInv, TaskTypeOK, UidsFollowAge
  <2>2. CASE WriteFails
    BY <1>0, <2>2 DEF WriteFails
  <2> QED BY <1>3, <2>1, <2>2 DEF Update
<1>4. ASSUME NEW o \in live, Toggle(o) PROVE TaskInv'
  <2>1. CASE /\ tasks' = [tasks EXCEPT ![o].checked = ~@]
             /\ UNCHANGED created
    <3>1. live' = live
      BY <1>t, <2>1 DEF live
    <3>2. \A p \in live : /\ tasks'[p] \in Task(created)
                          /\ tasks'[p].uid = tasks[p].uid
      BY <1>t, <2>1
    <3>3. tasks' \in [live' -> Task(created')]
      BY <1>t, <2>1, <3>1, <3>2
    <3> QED
      BY <1>t, <2>1, <3>1, <3>2, <3>3 DEF TaskInv, TaskTypeOK, UidsFollowAge
  <2>2. CASE WriteFails
    BY <1>0, <2>2 DEF WriteFails
  <2> QED BY <1>4, <2>1, <2>2 DEF Toggle
<1>5. CASE Restart
  <2>1. CASE live = {}
    <3>1. PICK k \in SeedsWritten : /\ created + k <= MaxTasks
                                    /\ tasks' = Seeded(created, k)
                                    /\ created' = created + k
      BY <1>5, <2>1 DEF Restart
    <3> QED BY <1>t, <3>1, SeedsBounded, SeededInv
  <2>2. CASE live # {}
    BY <1>0, <1>5, <2>2 DEF Restart
  <2> QED BY <2>1, <2>2
<1> QED
  BY <1>0, <1>1, <1>2, <1>3, <1>4, <1>5 DEF TNext

\* The store's inductive invariant holds, whatever is created, deleted, seeded
\* or fails to be written.
THEOREM TaskInvHolds == TaskSpec => []TaskInv
BY InitTaskInv, NextTaskInv, PTL DEF TaskSpec

\* Handles, uids and the created counter keep their ranges.
THEOREM TasksTyped == TaskSpec => []TaskTypeOK
<1>1. TaskInv => TaskTypeOK
  BY DEF TaskInv
<1> QED BY <1>1, TaskInvHolds, PTL

\* Uids are unique and sort the live tasks by age, for any number of tasks.
THEOREM UidsSorted == TaskSpec => []UidsFollowAge
<1>1. TaskInv => UidsFollowAge
  BY DEF TaskInv
<1> QED BY <1>1, TaskInvHolds, PTL

-----------------------------------------------------------------------------
(* SceneCoordinator *)

DismissesASheet == moving = "dismiss" => current # Gone /\ current[1] > 1

\* While the topmost view controller is dragged away the one below is current.
DragsFromCurrent ==
    moving = "drag" => /\ stacks[Levels] > 1
                       /\ current = <<Levels, stacks[Levels] - 1>>

SceneInv ==
    /\ SceneTypeOK /\ CurrentOnTopLevel
    /\ DismissesASheet /\ DragsFromCurrent

Positions == (1 .. MaxLevels) \X (1 .. MaxDepth)
Depths == Seq(1 .. MaxDepth)

\* Taking the topmost levels away keeps the others.
LEMMA LevelsBelow ==
    ASSUME NEW s \in Depths, NEW n \in 1 .. Len(s)
    PROVE  /\ SubSeq(s, 1, n) \in Depths
           /\ Len(SubSeq(s, 1, n)) = n
<1>1. 1 \in 1 .. Len(s) + 1 /\ n \in 0 .. Len(s) /\ s \in Seq(1 .. MaxDepth)
  BY DEF Depths
<1>2. ASSUME NEW i \in 1 .. n PROVE s[i] \in 1 .. MaxDepth
  <2>1. i \in 1 .. Len(s)
    BY <1>1
  <2>2. \A S : s \in Seq(S) => \A j \in 1 .. Len(s) : s[j] \in S
    OBVIOUS
  <2> QED BY <1>1, <2>1, <2>2, Zenon
<1> QED BY <1>1, <1>2, SubSeqProperties DEF Depths

LEMMA InitSceneInv == SInit => SceneInv
<1> SUFFICES ASSUME SInit PROVE SceneInv
  OBVIOUS
<1>1. MaxLevels \in Nat \ {0} /\ MaxDepth \in Nat \ {0}
  BY BoundsAssumption
<1>2. stacks \in Depths /\ Levels = 1 /\ stacks[1] = 1
  BY <1>1 DEF SInit, Levels, Depths
<1>3. current = <<1, 1>> /\ current \in Positions
  BY <1>1 DEF SInit, Positions
<1> QED
  BY <1>1, <1>2, <1>3
  DEF SInit, SceneInv, SceneTypeOK, CurrentOnTopLevel, DismissesASheet,
      DragsFromCurrent, Depths, Positions, Gone

\* What a state of SceneInv is in the words the steps use.
LEMMA SceneFacts ==
    ASSUME SceneInv
    PROVE  /\ MaxLevels \in Nat \ {0} /\ MaxDepth \in Nat \ {0}
           /\ stacks \in Depths /\ Levels \in 1 .. MaxLevels
           /\ stacks[Levels] \in 1 .. MaxDepth
           /\ current # Gone => /\ current \in Positions
                                /\ current = <<current[1], current[2]>>
                                /\ current[1] = Levels
                                /\ current[2] \in 1 .. stacks[Levels]
<1>1. MaxLevels \in Nat \ {0} /\ MaxDepth \in Nat \ {0}
  BY BoundsAssumption
<1>2. stacks \in Depths /\ Levels \in 1 .. MaxLevels
  BY DEF SceneInv, SceneTypeOK, Depths
<1>3. stacks[Levels] \in 1 .. MaxDepth
  BY <1>1, <1>2 DEF Levels, Depths
<1>4. current # Gone => /\ current \in Positions
                        /\ current[1] = Levels
                        /\ current[2] <= stacks[Levels]
  BY DEF SceneInv, SceneTypeOK, CurrentOnTopLevel, Positions
<1> QED BY <1>1, <1>2, <1>3, <1>4 DEF Positions

LEMMA NextSceneInv ==
    SceneInv /\ [SNext]_sceneVars
        => SceneInv' /\ (moving = "none" /\ moving' = "push" => current' = Top')
<1> SUFFICES ASSUME SceneInv, [SNext]_sceneVars
             PROVE  /\ SceneInv'
                    /\ moving = "none" /\ moving' = "push" => current' = Top'
  OBVIOUS
<1>f. /\ MaxLevels \in Nat \ {0} /\ MaxDepth \in Nat \ {0}
      /\ stacks \in Depths /\ Levels \in 1 .. MaxLevels
      /\ Levels = Len(stacks)
      /\ stacks[Levels] \in 1 .. MaxDepth
      /\ current # Gone => /\ current \in Positions
                           /\ current = <<current[1], current[2]>>
                           /\ current[1] = Levels
                           /\ current[2] \in 1 .. stacks[Levels]
  BY SceneFacts DEF Levels
<1> DEFINE Moves == {"none", "push", "present", "dismiss", "pop", "drag"}
           Fates == {"ok", "push", "pop", "invalidated"}
<1>m. moving \in Moves /\ fate \in Fates /\ DismissesASheet /\ DragsFromCurrent
  BY DEF SceneInv, SceneTypeOK
\* It is enough that the new levels and the new current position agree.
<1>s. ASSUME NEW n \in 1 .. MaxLevels, NEW k \in 1 .. MaxDepth,
             stacks' \in Depths, Len(stacks') = n, k <= stacks'[n],
             \/ current' = Gone
             \/ current' = <<n, k>>,
             moving' \in Moves, fate' \in Fates, DismissesASheet',
             DragsFromCurrent'
      PROVE  SceneInv'
  <2>1. Levels' = n
    BY <1>s DEF Levels
  <2>2. current' \in {Gone} \cup Positions
    BY <1>s DEF Positions
  <2>3. SceneTypeOK'
    BY <1>s, <2>1, <2>2 DEF SceneTypeOK, Depths, Positions
  <2>4. CurrentOnTopLevel'
    <3>1. CASE current' = Gone
      BY <3>1 DEF CurrentOnTopLevel, Gone
    <3>2. CASE current' = <<n, k>>
      BY <1>s, <2>1, <3>2 DEF CurrentOnTopLevel
    <3> QED BY <1>s, <3>1, <3>2
  <2> QED BY <1>s, <2>3, <2>4 DEF SceneInv
\* Nothing on the screen moves.
<1>u. ASSUME UNCHANGED <<stacks, current>>,
             moving' \in Moves, fate' \in Fates, DismissesASheet',
             DragsFromCurrent'
      PROVE  SceneInv'
  BY <1>u DEF SceneInv, SceneTypeOK, CurrentOnTopLevel, Levels, Gone
<1>0. CASE UNCHANGED sceneVars
  BY <1>0, <1>m, <1>u DEF sceneVars, DismissesASheet, DragsFromCurrent, Levels,
                          Gone
<1>c. ASSUME NEW f \in Fates, Crash(f), Still
      PROVE  SceneInv' /\ moving' = "none"
  BY <1>c, <1>u DEF Crash, Still, DismissesASheet, DragsFromCurrent
<1>1. CASE Push
  <2>1. CASE current = Gone
    BY <1>1, <1>c, <2>1 DEF Push
  <2>2. CASE current # Gone
    <3> DEFINE d == stacks[Levels] + 1
    <3>1. /\ stacks[Levels] < MaxDepth
          /\ stacks' = [stacks EXCEPT ![Levels] = d]
          /\ current' = <<Levels, d>>
          /\ moving' = "push" /\ fate' = fate
      BY <1>1, <1>f, <2>2 DEF Push
    <3>2. d \in 1 .. MaxDepth /\ Levels \in 1 .. Len(stacks)
      BY <1>f, <3>1
    <3>3. stacks' \in Depths /\ Len(stacks') = Levels /\ stacks'[Levels] = d
      <4>1. stacks' = [stacks EXCEPT ![Levels] = d]
        BY <3>1
      <4> HIDE DEF d
      <4> QED BY <1>f, <3>2, <4>1 DEF Depths
    <3>4. SceneInv'
      BY <1>f, <1>m, <1>s, <3>1, <3>2, <3>3 DEF DismissesASheet, DragsFromCurrent
    <3>5. Levels' = Levels
      BY <3>3 DEF Levels
    <3>6. current' = Top'
      BY <3>1, <3>3, <3>5 DEF Top
    <3> QED BY <3>4, <3>6
  <2> QED BY <2>1, <2>2
<1>2. CASE Present
  <2>1. /\ Levels < MaxLevels
        /\ stacks' = Append(stacks, 1)
        /\ current' = <<Levels + 1, 1>>
        /\ moving' = "present" /\ fate' = fate
    BY <1>2 DEF Present
  <2>2. /\ Levels + 1 \in 1 .. MaxLevels /\ 1 \in 1 .. MaxDepth
        /\ stacks' \in Depths /\ Len(stacks') = Levels + 1
        /\ stacks'[Levels + 1] = 1
    BY <1>f, <2>1 DEF Depths
  <2>3. SceneInv'
    BY <1>m, <1>s, <2>1, <2>2 DEF DismissesASheet, DragsFromCurrent
  <2> QED BY <2>1, <2>3
<1>3. CASE PresentRefused
  <2>1. /\ UNCHANGED <<stacks, moving, fate>> /\ current' = Gone
        /\ moving = "none"
    BY <1>3 DEF PresentRefused, Still
  <2>2. /\ 1 \in 1 .. MaxDepth /\ stacks' \in Depths /\ Len(stacks') = Levels
        /\ 1 <= stacks'[Levels]
    BY <1>f, <2>1
  <2> QED BY <1>f, <1>m, <1>s, <2>1, <2>2 DEF DismissesASheet, DragsFromCurrent
<1>4. CASE Dismiss
  BY <1>4, <1>m, <1>u DEF Dismiss, DismissesASheet, DragsFromCurrent, Gone
\* A pop of the topmost navigation controller.
<1>p. ASSUME stacks[Levels] > 1,
             stacks' = [stacks EXCEPT ![Levels] = @ - 1],
             current' = <<Levels, stacks[Levels] - 1>>,
             moving' = "pop", fate' = fate
      PROVE  SceneInv' /\ moving' = "pop"
  <2> DEFINE d == stacks[Levels] - 1
  <2>1. d \in 1 .. MaxDepth /\ Levels \in 1 .. Len(stacks)
    BY <1>f, <1>p
  <2>2. stacks' \in Depths /\ Len(stacks') = Levels /\ stacks'[Levels] = d
    <3>1. stacks' = [stacks EXCEPT ![Levels] = d]
      BY <1>p
    <3> HIDE DEF d
    <3> QED BY <1>f, <2>1, <3>1 DEF Depths
  <2> QED BY <1>f, <1>m, <1>p, <1>s, <2>1, <2>2 DEF DismissesASheet, DragsFromCurrent
<1>5. CASE PopViewController
  <2>1. CASE current = Gone \/ (Levels = 1 /\ stacks[1] = 1)
    BY <1>5, <1>c, <2>1 DEF PopViewController
  <2>2. CASE ~(current = Gone \/ (Levels = 1 /\ stacks[1] = 1))
    <3>1. Levels = 1 /\ stacks[Levels] > 1
      BY <1>5, <1>f, <2>2 DEF PopViewController
    <3> QED BY <1>5, <1>p, <2>2, <3>1 DEF PopViewController
  <2> QED BY <2>1, <2>2
<1>6. CASE Back
  BY <1>6, <1>p DEF Back
<1>12. CASE DragBack
  <2> DEFINE d == stacks[Levels] - 1
  <2>1. /\ UNCHANGED <<stacks, fate>> /\ moving' = "drag"
        /\ stacks[Levels] > 1 /\ current' = <<Levels, d>>
    BY <1>12 DEF DragBack
  <2>2. d \in 1 .. MaxDepth /\ d <= stacks[Levels] /\ Levels' = Levels
    BY <1>f, <2>1 DEF Levels
  <2>3. DragsFromCurrent' /\ DismissesASheet'
    BY <2>1, <2>2 DEF DragsFromCurrent, DismissesASheet
  <2> QED BY <1>f, <1>m, <1>s, <2>1, <2>2, <2>3
<1>13. CASE DragEnds
  <2> DEFINE d == stacks[Levels] - 1
  <2>1. /\ stacks[Levels] > 1 /\ current = <<Levels, d>>
        /\ current' = current /\ moving' = "none" /\ fate' = fate
    BY <1>13, <1>m DEF DragEnds, DragsFromCurrent
  <2>2. d \in 1 .. MaxDepth /\ Levels \in 1 .. Len(stacks)
    BY <1>f, <2>1
  <2>3. DragsFromCurrent' /\ DismissesASheet'
    BY <2>1 DEF DragsFromCurrent, DismissesASheet
  <2>4. CASE stacks' = [stacks EXCEPT ![Levels] = d]
    <3>1. stacks' \in Depths /\ Len(stacks') = Levels /\ stacks'[Levels] = d
      <4> HIDE DEF d
      <4> QED BY <1>f, <2>2, <2>4 DEF Depths
    <3> QED BY <1>f, <1>m, <1>s, <2>1, <2>2, <2>3, <3>1
  <2>5. CASE UNCHANGED stacks
    BY <1>f, <1>m, <1>s, <2>1, <2>2, <2>3, <2>5
  <2> QED BY <1>13, <2>4, <2>5 DEF DragEnds
<1>7. CASE Swipe
  <2>1. /\ Levels - 1 \in 1 .. Len(stacks) /\ Levels - 1 \in 1 .. MaxLevels
        /\ stacks' = SubSeq(stacks, 1, Levels - 1)
        /\ current' = Gone
        /\ UNCHANGED <<moving, fate>> /\ moving = "none"
    BY <1>7, <1>f DEF Swipe, Still
  <2>2. stacks' \in Depths /\ Len(stacks') = Levels - 1
    BY <1>f, <2>1, LevelsBelow
  <2>3. 1 \in 1 .. MaxDepth /\ 1 <= stacks'[Levels - 1]
    BY <1>f, <2>1, <2>2 DEF Depths
  <2> QED BY <1>m, <1>s, <2>1, <2>2, <2>3 DEF DismissesASheet, DragsFromCurrent
<1>8. CASE Shown
  BY <1>8, <1>m, <1>u DEF Shown, DismissesASheet, DragsFromCurrent
<1>9. CASE Dismissed
  <2>1. current # Gone /\ current[1] = Levels /\ Levels > 1
    BY <1>9, <1>f, <1>m DEF Dismissed, DismissesASheet
  <2>2. /\ Levels - 1 \in 1 .. Len(stacks) /\ Levels - 1 \in 1 .. MaxLevels
        /\ stacks' = SubSeq(stacks, 1, Levels - 1)
        /\ current' = <<Levels - 1, 1>>
        /\ moving' = "none" /\ fate' = fate
    BY <1>9, <1>f, <2>1 DEF Dismissed
  <2>3. stacks' \in Depths /\ Len(stacks') = Levels - 1
    BY <1>f, <2>2, LevelsBelow
  <2>4. 1 \in 1 .. MaxDepth /\ 1 <= stacks'[Levels - 1]
    BY <1>f, <2>2, <2>3 DEF Depths
  <2> QED BY <1>m, <1>s, <2>2, <2>3, <2>4 DEF DismissesASheet, DragsFromCurrent
<1>10. CASE Fail
  BY <1>10, <1>c DEF Fail
<1>11. CASE Root
  <2>1. /\ 1 \in 1 .. MaxLevels /\ 1 \in 1 .. MaxDepth
        /\ stacks' \in Depths /\ Len(stacks') = 1 /\ 1 <= stacks'[1]
    BY <1>11, <1>f DEF Root, Depths
  <2>2. SceneInv'
    BY <1>11, <1>s, <2>1 DEF Root, DismissesASheet, DragsFromCurrent
  <2> QED BY <1>11, <2>2 DEF Root
<1> QED
  BY <1>0, <1>1, <1>2, <1>3, <1>4, <1>5, <1>6, <1>7, <1>8, <1>9, <1>10, <1>11,
     <1>12, <1>13
  DEF SNext, sceneVars

\* The coordinator's inductive invariant holds after any calls, back taps and
\* swipes.
THEOREM SceneInvHolds == SceneSpec => []SceneInv
BY InitSceneInv, NextSceneInv, PTL DEF SceneSpec

\* What the coordinator keeps stays in range, however many calls were made.
THEOREM SceneTyped == SceneSpec => []SceneTypeOK
<1>1. SceneInv => SceneTypeOK
  BY DEF SceneInv
<1> QED BY <1>1, SceneInvHolds, PTL

\* The current view controller is in the topmost navigation controller, or it
\* is gone: a dismissal, a pop and a swipe all leave it so.
THEOREM CurrentStaysOnTop == SceneSpec => []CurrentOnTopLevel
<1>1. SceneInv => CurrentOnTopLevel
  BY DEF SceneInv
<1> QED BY <1>1, SceneInvHolds, PTL

\* A pushed scene is the one shown, for any number of levels and screens.
THEOREM PushesShowOnTop == SceneSpec => PushShowsOnTop
<1>1. SceneInv /\ [SNext]_sceneVars
        => [moving = "none" /\ moving' = "push" => current' = Top']_sceneVars
  BY NextSceneInv
<1> QED BY <1>1, SceneInvHolds, PTL DEF SceneSpec, PushShowsOnTop
-----------------------------------------------------------------------------
(* TodoApp implements the services *)

\* Every step of the app is a step of the task service or leaves it alone.
LEMMA StoreStep == [AppNext]_appVars => [TNext]_storeVars
<1> SUFFICES ASSUME [AppNext]_appVars PROVE [TNext]_storeVars
  OBVIOUS
<1> USE DEF TNext
<1>1. CASE New \/ NewFails
  BY <1>1 DEF New, NewFails
<1>2. ASSUME NEW o \in rows, Select(o) PROVE [TNext]_storeVars
  BY <1>2 DEF Select, Invalidated
<1>w. ASSUME WriteFails PROVE [TNext]_storeVars
  BY <1>w DEF WriteFails
<1>3. ASSUME NEW o \in rows, DeleteRow(o) PROVE [TNext]_storeVars
  BY <1>3 DEF DeleteRow, Invalidated
<1>4. ASSUME NEW o \in rows, ToggleRow(o) PROVE [TNext]_storeVars
  BY <1>4 DEF ToggleRow, Invalidated
<1>5. ASSUME NEW b \in BOOLEAN, Update(editing, b) PROVE [TNext]_storeVars
  BY <1>5, <1>w DEF Update
<1>6. CASE Cancel
  BY <1>6, <1>w DEF Cancel, Delete
<1>7. ASSUME UNCHANGED storeVars PROVE [TNext]_storeVars
  BY <1>7
<1>8. CASE Relaunch
  BY <1>8 DEF Relaunch
<1>9. CASE \E b \in BOOLEAN : Ok(b) \/ Type(b)
  BY <1>5, <1>9 DEF Ok, Type
<1>10. CASE SwipeEditor \/ LeavePushed \/ DragPushed \/ EndDrag \/ EndTransition
            \/ BeginTurn \/ NotifyRows \/ NotifyAll \/ NotifyTodo
  BY <1>7, <1>10
  DEF SwipeEditor, LeavePushed, DragPushed, EndDrag, EndTransition, BeginTurn,
      NotifyRows, NotifyAll, NotifyTodo
<1>11. CASE UNCHANGED appVars
  BY <1>7, <1>11 DEF appVars
<1> QED
  BY <1>1, <1>2, <1>3, <1>4, <1>6, <1>8, <1>9, <1>10, <1>11 DEF AppNext

\* Every step of the app is a step of the coordinator or leaves it alone.
LEMMA SceneStep == [AppNext]_appVars => [SNext]_sceneVars
<1> SUFFICES ASSUME [AppNext]_appVars PROVE [SNext]_sceneVars
  OBVIOUS
<1> USE DEF SNext
<1>1. CASE New \/ NewFails
  BY <1>1 DEF New, NewFails
<1>2. ASSUME NEW o \in rows, Select(o) \/ DeleteRow(o) \/ ToggleRow(o)
      PROVE  [SNext]_sceneVars
  BY <1>2 DEF Select, DeleteRow, ToggleRow, Invalidated
<1>3. CASE Cancel \/ SwipeEditor \/ LeavePushed \/ DragPushed \/ EndDrag
           \/ EndTransition \/ Relaunch
  BY <1>3 DEF Cancel, SwipeEditor, LeavePushed, DragPushed, EndDrag,
              EndTransition, Relaunch
<1>4. CASE \E b \in BOOLEAN : Ok(b) \/ Type(b)
  BY <1>4 DEF Ok, Type
<1>5. CASE BeginTurn \/ NotifyRows \/ NotifyAll \/ NotifyTodo
  BY <1>5 DEF BeginTurn, NotifyRows, NotifyAll, NotifyTodo
<1>6. CASE UNCHANGED appVars
  BY <1>6 DEF appVars
<1> QED
  BY <1>1, <1>2, <1>3, <1>4, <1>5, <1>6 DEF AppNext

\* The app is an implementation of the task service: whatever the screens do,
\* the store takes steps of TaskService only.
THEOREM AppImplementsTaskService == AppSpec => TaskSpec
<1>1. AppInit => TInit
  BY DEF AppInit
<1> QED BY <1>1, StoreStep, PTL DEF AppSpec, TaskSpec

\* The app is an implementation of the scene coordinator.
THEOREM AppImplementsSceneCoordinator == AppSpec => SceneSpec
<1>1. AppInit => SInit
  BY DEF AppInit
<1> QED BY <1>1, SceneStep, PTL DEF AppSpec, SceneSpec

\* In the running app uids are unique and sort the live tasks by age.
THEOREM AppUidsSorted == AppSpec => []UidsFollowAge
BY AppImplementsTaskService, UidsSorted, PTL

-----------------------------------------------------------------------------
(* The task of an edit screen *)

\* With nothing but the tasks screen on the screen no task is edited: that is
\* why no row can be deleted under an editor.
TasksScreenEditsNone == stacks = <<1>> => editing = None

EditInv == TasksScreenEditsNone /\ EditedTaskLives

LEMMA NextEditInv == SceneInv /\ EditInv /\ [AppNext]_appVars => EditInv'
<1> SUFFICES ASSUME SceneInv, EditInv, [AppNext]_appVars PROVE EditInv'
  OBVIOUS
<1> USE DEF EditInv, TasksScreenEditsNone, EditedTaskLives
<1>1. CASE New
  <2>1. stacks = <<1>> /\ editing = None /\ live' = live \cup {created'}
    BY <1>1 DEF New, OnTasks, CreateTask, WriteFails, storeVars, live
  <2>2. CASE Present /\ editing' = created'
    <3>1. stacks' # <<1>>
      BY <2>1, <2>2 DEF Present
    <3> QED BY <2>1, <2>2, <3>1
  <2>3. CASE PresentRefused /\ UNCHANGED editing
    BY <2>1, <2>3
  <2> QED BY <1>1, <2>2, <2>3 DEF New
<1>2. ASSUME NEW o \in rows, Select(o) PROVE EditInv'
  <2>1. stacks = <<1>> /\ editing = None
    BY <1>2 DEF Select, OnTasks
  <2>2. CASE Invalidated(o)
    BY <2>1, <2>2 DEF Invalidated, editVars
  <2>3. CASE ~Invalidated(o) /\ current = Gone
    BY <1>2, <2>1, <2>3 DEF Select
  <2>4. CASE ~Invalidated(o) /\ current # Gone
    <3>1. editing' = o /\ o \in live /\ live' = live
      BY <1>2, <2>4 DEF Select, storeVars, live
    <3>2. current[1] = 1
      BY <2>1, <2>4, SceneFacts DEF Levels
    <3>3. stacks' # <<1>>
      BY <1>2, <2>1, <2>4, <3>2 DEF Select, Push
    <3> QED BY <3>1, <3>3
  <2> QED BY <2>2, <2>3, <2>4
<1>3. ASSUME NEW o \in rows, DeleteRow(o) \/ ToggleRow(o) PROVE EditInv'
  <2>1. stacks = <<1>>
    BY <1>3 DEF DeleteRow, ToggleRow, OnTasks
  <2>2. UNCHANGED editVars
    BY <1>3 DEF DeleteRow, ToggleRow, Invalidated
  <2> QED BY <2>1, <2>2 DEF editVars
<1>4. ASSUME NEW b \in BOOLEAN, Ok(b) PROVE EditInv'
  BY <1>4 DEF Ok, Dismiss, editVars
<1>5. CASE Cancel
  BY <1>5 DEF Cancel, Dismiss, editVars
<1>6. ASSUME NEW b \in BOOLEAN, Type(b) PROVE EditInv'
  <2>1. live' = live
    BY <1>6 DEF Type, Update, WriteFails, storeVars, live
  <2> QED BY <1>6, <2>1 DEF Type, editVars, sceneVars
<1>7. CASE SwipeEditor \/ LeavePushed
  BY <1>7 DEF SwipeEditor, LeavePushed
<1>12. CASE NewFails
  BY <1>12 DEF NewFails, OnTasks, sceneVars, editVars
<1>13. CASE DragPushed
  <2>1. live' = live /\ editing' = editing /\ stacks' = stacks
        /\ moving = "none"
    BY <1>13 DEF DragPushed, DragBack, Still, storeVars, editVars, live
  <2> QED BY <1>13, <2>1 DEF DragPushed, DragBack
<1>14. CASE EndDrag
  <2>1. live' = live /\ fate' = fate /\ moving = "drag"
        /\ editing' = IF stacks' = stacks THEN editing ELSE None
    BY <1>14 DEF EndDrag, DragEnds, storeVars, live
  <2> QED BY <2>1
<1>8. CASE EndTransition
  <2>1. live' = live
    BY <1>8 DEF EndTransition, storeVars, live
  <2>2. CASE moving = "dismiss"
    BY <1>8, <2>2 DEF EndTransition
  <2>3. CASE moving # "dismiss"
    BY <1>8, <2>1, <2>3 DEF EndTransition, Shown, Dismissed
  <2> QED BY <2>2, <2>3
<1>9. CASE BeginTurn \/ NotifyRows \/ NotifyAll \/ NotifyTodo
  <2>1. UNCHANGED <<storeVars, sceneVars, editVars>>
    BY <1>9 DEF BeginTurn, NotifyRows, NotifyAll, NotifyTodo
  <2> QED BY <2>1 DEF storeVars, sceneVars, editVars, live
<1>10. CASE Relaunch
  BY <1>10 DEF Relaunch
<1>11. CASE UNCHANGED appVars
  BY <1>11 DEF appVars, storeVars, sceneVars, editVars, live
<1> QED
  BY <1>1, <1>2, <1>3, <1>4, <1>5, <1>6, <1>7, <1>8, <1>9, <1>10, <1>11,
     <1>12, <1>13, <1>14
  DEF AppNext

\* The task an edit screen shows is never deleted under it, for any number of
\* tasks, touches and notifications.
THEOREM AppEditsLiveTask == AppSpec => []EditedTaskLives
<1>1. AppInit => EditInv
  BY DEF AppInit, EditInv, TasksScreenEditsNone, EditedTaskLives
<1>2. EditInv => EditedTaskLives
  BY DEF EditInv
<1>3. AppSpec => []SceneInv
  BY AppImplementsSceneCoordinator, SceneInvHolds, PTL
<1> QED BY <1>1, <1>2, <1>3, NextEditInv, PTL DEF AppSpec

-----------------------------------------------------------------------------
(* The table and the statistics *)

NotifyInv == turn \subseteq Observers /\ NotifiedIsExact

LEMMA NextNotifyInv == NotifyInv /\ [AppNext]_appVars => NotifyInv'
<1> SUFFICES ASSUME NotifyInv, [AppNext]_appVars PROVE NotifyInv'
  OBVIOUS
<1>q. turn \subseteq Observers /\ NotifiedIsExact
  BY DEF NotifyInv
<1> USE DEF NotifyInv
<1>w. ASSUME Written PROVE NotifyInv'
  BY <1>q, <1>w DEF Written, tableVars, NotifiedIsExact
<1>u. ASSUME UNCHANGED <<storeVars, tableVars, dirty>> PROVE NotifyInv'
  BY <1>q, <1>u
  DEF storeVars, tableVars, NotifiedIsExact, live, due
<1>1. CASE New \/ NewFails \/ Cancel \/ \E b \in BOOLEAN : Ok(b) \/ Type(b)
  BY <1>1, <1>w DEF New, NewFails, Cancel, Ok, Type
<1>2. ASSUME NEW o \in rows, Select(o) \/ DeleteRow(o) \/ ToggleRow(o)
      PROVE  NotifyInv'
  BY <1>2, <1>w, <1>u DEF Select, DeleteRow, ToggleRow, Invalidated
<1>3. CASE SwipeEditor \/ LeavePushed \/ DragPushed \/ EndDrag \/ EndTransition
  BY <1>3, <1>u DEF SwipeEditor, LeavePushed, DragPushed, EndDrag, EndTransition
<1>4. CASE BeginTurn
  BY <1>4, <1>q DEF BeginTurn, NotifiedIsExact, Observers
<1>5. CASE NotifyRows \/ NotifyAll \/ NotifyTodo
  <2>1. UNCHANGED <<storeVars, dirty>>
    BY <1>5 DEF NotifyRows, NotifyAll, NotifyTodo
  <2>2. live' = live /\ due' = due
    BY <2>1 DEF storeVars, live, due
  <2> QED
    BY <1>5, <1>q, <2>1, <2>2
    DEF NotifyRows, NotifyAll, NotifyTodo, NotifiedIsExact, Count
<1>8. CASE Relaunch
  BY <1>8, <1>q DEF Relaunch, NotifiedIsExact
<1>9. CASE UNCHANGED appVars
  BY <1>9, <1>u DEF appVars
<1> QED
  BY <1>1, <1>2, <1>3, <1>4, <1>5, <1>8, <1>9 DEF AppNext

\* Counts of the statistics and the rows of the table are exact once their
\* observer was called, for any number of tasks and failing writes.
THEOREM AppNotifiedIsExact == AppSpec => []NotifiedIsExact
<1>1. AppInit => NotifyInv
  BY DEF AppInit, NotifyInv, NotifiedIsExact
<1>2. NotifyInv => NotifiedIsExact
  BY DEF NotifyInv
<1> QED BY <1>1, <1>2, NextNotifyInv, PTL DEF AppSpec

-----------------------------------------------------------------------------
(* Types *)

\* The live tasks are finite and no more than were created.
LEMMA CountBounded ==
    ASSUME TaskInv, NEW S \in SUBSET live
    PROVE  Count(S) \in 0 .. MaxTasks
<1>1. created \in Nat /\ created <= MaxTasks /\ MaxTasks \in Nat
      /\ live \subseteq 1 .. created
  BY SeedsAssumption DEF TaskInv, TaskTypeOK
<1>2. IsFiniteSet(1 .. created) /\ Cardinality(1 .. created) = created
  BY <1>1, FS_Interval
<1>3. IsFiniteSet(S) /\ Cardinality(S) <= created
  BY <1>1, <1>2, FS_Subset
<1>4. Cardinality(S) \in Nat
  BY <1>3, FS_CardinalityType
<1> QED BY <1>1, <1>3, <1>4 DEF Count

CountsOK == Count(live) \in 0 .. MaxTasks /\ Count(due) \in 0 .. MaxTasks

LEMMA CountsBounded == TaskInv => CountsOK
<1> SUFFICES ASSUME TaskInv PROVE CountsOK
  OBVIOUS
<1>1. live \in SUBSET live /\ due \in SUBSET live
  BY DEF due
<1> QED BY <1>1, CountBounded DEF CountsOK

\* The part of AppTypeOK that is about the app's own variables.
TableTypes ==
    /\ rows \subseteq 1 .. created
    /\ allSeen \in 0 .. MaxTasks /\ todoSeen \in 0 .. MaxTasks
ScreenTypes ==
    /\ dirty \in BOOLEAN /\ turn \subseteq Observers
    /\ editing \in {None} \cup 1 .. created
    /\ creating \in BOOLEAN /\ opening \in BOOLEAN

\* Handles are never taken back.
LEMMA CreatedGrows ==
    TaskInv /\ [TNext]_storeVars => created \in Nat /\ created' \in Nat
                                    /\ created <= created'
<1> SUFFICES ASSUME TaskInv, [TNext]_storeVars
             PROVE  created \in Nat /\ created' \in Nat /\ created <= created'
  OBVIOUS
<1>1. created \in Nat /\ Seeds \in Nat
  BY SeedsAssumption DEF TaskInv, TaskTypeOK
<1>2. \/ created' \in {created, created + 1}
      \/ \E k \in SeedsWritten : created' = created + k
  BY DEF TNext, CreateTask, Delete, Update, Toggle, Restart, WriteFails, storeVars
<1> QED BY <1>1, <1>2, SeedsBounded

LEMMA NextTableTypes ==
    TaskInv /\ TaskInv' /\ TableTypes /\ [AppNext]_appVars => TableTypes'
<1> SUFFICES ASSUME TaskInv, TaskInv', TableTypes, [AppNext]_appVars
             PROVE  TableTypes'
  OBVIOUS
<1>c. created \in Nat /\ created' \in Nat /\ created <= created'
  BY CreatedGrows, StoreStep
<1>l. live \subseteq 1 .. created /\ live' \subseteq 1 .. created'
  BY DEF TaskInv, TaskTypeOK
<1>q. rows \subseteq 1 .. created'
  BY <1>c DEF TableTypes
<1>n. CountsOK /\ CountsOK'
  <2>1. TaskInv => CountsOK
    BY CountsBounded
  <2>2. TaskInv' => CountsOK'
    BY CountsBounded, PTL
  <2> QED BY <2>1, <2>2
<1> USE DEF TableTypes
<1>1. ASSUME UNCHANGED tableVars PROVE TableTypes'
  BY <1>1, <1>q DEF tableVars
<1>2. CASE New \/ NewFails \/ Cancel \/ \E b \in BOOLEAN : Ok(b) \/ Type(b)
  BY <1>1, <1>2 DEF New, NewFails, Cancel, Ok, Type, Written
<1>3. ASSUME NEW o \in rows, Select(o) \/ DeleteRow(o) \/ ToggleRow(o)
      PROVE  TableTypes'
  BY <1>1, <1>3 DEF Select, DeleteRow, ToggleRow, Invalidated, Written
<1>4. CASE SwipeEditor \/ LeavePushed \/ DragPushed \/ EndDrag \/ EndTransition
  BY <1>1, <1>4 DEF SwipeEditor, LeavePushed, DragPushed, EndDrag, EndTransition
<1>5. CASE BeginTurn
  BY <1>5, <1>q DEF BeginTurn
<1>6. CASE NotifyRows
  BY <1>6, <1>l DEF NotifyRows, storeVars
<1>7. CASE NotifyAll
  BY <1>7, <1>n, <1>q DEF NotifyAll, CountsOK
<1>8. CASE NotifyTodo
  BY <1>8, <1>n, <1>q DEF NotifyTodo, CountsOK
<1>10. CASE Relaunch
  <2>1. /\ rows' = live'
        /\ allSeen' = Count(live') /\ todoSeen' = Count(due')
    BY <1>10 DEF Relaunch
  <2> QED BY <1>l, <1>n, <2>1 DEF CountsOK, Count
<1>11. CASE UNCHANGED appVars
  BY <1>1, <1>11 DEF appVars
<1> QED
  BY <1>2, <1>3, <1>4, <1>5, <1>6, <1>7, <1>8, <1>10, <1>11 DEF AppNext

LEMMA NextScreenTypes ==
    TaskInv /\ SceneInv /\ TaskInv' /\ TableTypes /\ ScreenTypes /\ [AppNext]_appVars
        => ScreenTypes'
<1> SUFFICES ASSUME TaskInv, SceneInv, TaskInv', TableTypes, ScreenTypes,
                    [AppNext]_appVars
             PROVE  ScreenTypes'
  OBVIOUS
<1>c. created \in Nat /\ created' \in Nat /\ created <= created'
  BY CreatedGrows, StoreStep
<1>e. editing \in {None} \cup 1 .. created'
  BY <1>c DEF ScreenTypes
<1>t. turn \subseteq Observers /\ dirty \in BOOLEAN /\ creating \in BOOLEAN
      /\ opening \in BOOLEAN
  BY DEF ScreenTypes
\* Most steps set some of the variables to known values and keep the others.
<1>k. ASSUME dirty' \in {dirty, TRUE, FALSE}, turn' \in SUBSET Observers,
             creating' \in {creating, TRUE, FALSE},
             opening' \in {opening, TRUE, FALSE},
             editing' \in {editing, None} \cup 1 .. created'
      PROVE  ScreenTypes'
  BY <1>e, <1>k, <1>t DEF ScreenTypes
<1>u. ASSUME UNCHANGED editVars, dirty' \in {dirty, TRUE, FALSE}, turn' \in SUBSET Observers
      PROVE  ScreenTypes'
  BY <1>k, <1>u DEF editVars
<1>1. CASE New
  <2>1. created' = created + 1
    BY <1>1 DEF New, CreateTask, WriteFails, storeVars
  <2>2. created' \in 1 .. created'
    BY <1>c, <2>1
  <2> QED BY <1>1, <1>k, <1>t, <2>2 DEF New, Written, tableVars
<1>2. ASSUME NEW o \in rows, Select(o) PROVE ScreenTypes'
  <2>1. o \in 1 .. created'
    BY <1>c DEF TableTypes
  <2> QED
    BY <1>2, <1>k, <1>t, <2>1
    DEF Select, Invalidated, Written, tableVars, editVars
<1>3. ASSUME NEW o \in rows, DeleteRow(o) \/ ToggleRow(o) PROVE ScreenTypes'
  BY <1>3, <1>t, <1>u DEF DeleteRow, ToggleRow, Invalidated, Written, tableVars
<1>4. CASE NewFails \/ Cancel \/ \E b \in BOOLEAN : Ok(b) \/ Type(b)
  BY <1>4, <1>t, <1>u DEF NewFails, Cancel, Ok, Type, Written, tableVars, editVars
<1>5. CASE SwipeEditor \/ LeavePushed \/ DragPushed \/ EndDrag
  BY <1>5, <1>k, <1>t DEF SwipeEditor, LeavePushed, DragPushed, EndDrag,
                          tableVars, editVars
<1>6. CASE EndTransition
  BY <1>6, <1>k, <1>t DEF EndTransition, tableVars
<1>7. CASE BeginTurn \/ NotifyRows \/ NotifyAll \/ NotifyTodo
  BY <1>7, <1>t, <1>u DEF BeginTurn, NotifyRows, NotifyAll, NotifyTodo
<1>8. CASE Relaunch
  BY <1>8, <1>k DEF Relaunch
<1>9. CASE UNCHANGED appVars
  BY <1>9, <1>t, <1>u DEF appVars, tableVars
<1> QED
  BY <1>1, <1>2, <1>3, <1>4, <1>5, <1>6, <1>7, <1>8, <1>9 DEF AppNext

\* Every variable of the app stays in its range, the counts of the statistics
\* included.
THEOREM AppTyped == AppSpec => []AppTypeOK
<1>1. AppInit /\ TaskInv => TableTypes /\ ScreenTypes
  <2> SUFFICES ASSUME AppInit, TaskInv PROVE TableTypes /\ ScreenTypes
    OBVIOUS
  <2>2. CountsOK
    BY CountsBounded
  <2>3. live \subseteq 1 .. created
    BY DEF TaskInv, TaskTypeOK
  <2>4. ScreenTypes
    BY Zenon DEF AppInit, ScreenTypes
  <2>5. TableTypes
    BY <2>2, <2>3 DEF AppInit, CountsOK, TableTypes
  <2> QED BY <2>4, <2>5
<1>2. TaskInv /\ SceneInv /\ TableTypes /\ ScreenTypes => AppTypeOK
  BY DEF TaskInv, SceneInv, TableTypes, ScreenTypes, AppTypeOK
<1>3. AppSpec => []TaskInv
  BY AppImplementsTaskService, TaskInvHolds, PTL
<1>4. AppSpec => []SceneInv
  BY AppImplementsSceneCoordinator, SceneInvHolds, PTL
<1> QED
  BY <1>1, <1>2, <1>3, <1>4, NextTableTypes, NextScreenTypes, PTL DEF AppSpec
-----------------------------------------------------------------------------
(* Where the user is *)

\* The app's screens are the tasks alone, a pushed editor over them, or a sheet
\* over them.  The coordinator is at the top but for two cases: a sheet was
\* swiped away, or the pushed editor is being, or was in vain, dragged away.
\* (A dismissal sets current to the presenter's first view controller, which
\* is its topmost one only because nothing was pushed under the sheet.)
Placed(s, c) ==
    \/ s = <<1>> /\ c \in {<<1, 1>>, Gone}
    \/ s = <<2>> /\ c \in {<<1, 1>>, <<1, 2>>}
    \/ s = <<1, 1>> /\ c = <<2, 1>>

ShapeInv == Placed(stacks, current) /\ (stacks # <<1>> => editing # None)

\* The topmost position of each of the three shapes.
LEMMA ShapeTops ==
    /\ stacks = <<1>> => Levels = 1 /\ Top = <<1, 1>>
    /\ stacks = <<2>> => Levels = 1 /\ Top = <<1, 2>>
    /\ stacks = <<1, 1>> => Levels = 2 /\ Top = <<2, 1>>
BY DEF Levels, Top

\* A sheet presented over the tasks, and dismissed.
LEMMA SheetOverTasks ==
    Append(<<1>>, 1) = <<1, 1>> /\ SubSeq(<<1, 1>>, 1, 1) = <<1>>
<1>1. <<1>> \in Seq(Nat) /\ <<1, 1>> \in Seq(Nat) /\ Len(<<1, 1>>) = 2
  OBVIOUS
<1>2. Append(<<1>>, 1) = <<1, 1>>
  <2>1. /\ Append(<<1>>, 1) \in Seq(Nat) /\ Len(Append(<<1>>, 1)) = 2
        /\ \A i \in 1 .. 2 : Append(<<1>>, 1)[i] = <<1, 1>>[i]
    OBVIOUS
  <2> QED BY <1>1, <2>1, SeqEqual
<1>3. SubSeq(<<1, 1>>, 1, 1) = <<1>>
  <2>1. /\ SubSeq(<<1, 1>>, 1, 1) \in Seq(Nat)
        /\ Len(SubSeq(<<1, 1>>, 1, 1)) = 1
        /\ SubSeq(<<1, 1>>, 1, 1)[1] = 1
    BY <1>1
  <2>2. \A i \in 1 .. 1 : SubSeq(<<1, 1>>, 1, 1)[i] = <<1>>[i]
    BY <2>1
  <2> QED BY <1>1, <2>1, <2>2, SeqEqual
<1> QED BY <1>2, <1>3

LEMMA NextShapeInv ==
    TaskInv /\ SceneInv /\ ShapeInv /\ [AppNext]_appVars => ShapeInv'
<1> SUFFICES ASSUME TaskInv, SceneInv, ShapeInv, [AppNext]_appVars
             PROVE  ShapeInv'
  OBVIOUS
<1>i. Placed(stacks, current) /\ (stacks # <<1>> => editing # None)
  BY DEF ShapeInv
<1>u. ASSUME UNCHANGED <<stacks, current>>, UNCHANGED editing PROVE ShapeInv'
  BY <1>i, <1>u DEF ShapeInv, Placed, Gone
<1>b. stacks' = <<1>> /\ current' \in {<<1, 1>>, Gone} => ShapeInv'
  BY DEF ShapeInv, Placed, Gone
<1>1. CASE New
  <2>1. stacks = <<1>> /\ Levels = 1
    BY <1>1, ShapeTops DEF New, OnTasks
  <2>2. CASE Present /\ editing' = created'
    <3>1. stacks' = <<1, 1>> /\ current' = <<2, 1>>
      BY <2>1, <2>2, SheetOverTasks DEF Present
    <3>2. created' \in 1 .. MaxTasks
      <4>1. created' = created + 1 /\ created < MaxTasks
        BY <1>1 DEF New, CreateTask, WriteFails, storeVars
      <4> QED BY <4>1, SeedsAssumption DEF TaskInv, TaskTypeOK
    <3> QED BY <2>2, <3>1, <3>2, NoneAssumption DEF ShapeInv, Placed
  <2>3. CASE PresentRefused
    BY <1>b, <2>1, <2>3 DEF PresentRefused
  <2> QED BY <1>1, <2>2, <2>3 DEF New
<1>2. ASSUME NEW o \in rows, Select(o) PROVE ShapeInv'
  <2>1. stacks = <<1>>
    BY <1>2 DEF Select, OnTasks
  <2>2. CASE Invalidated(o)
    BY <1>u, <2>2 DEF Invalidated, Fail, Crash, editVars
  <2>3. CASE ~Invalidated(o) /\ current = Gone
    <3>1. Push /\ editing' = editing
      BY <1>2, <2>3 DEF Select
    <3> QED BY <1>u, <2>3, <3>1 DEF Push, Crash
  <2>4. CASE ~Invalidated(o) /\ current # Gone
    <3>1. Push /\ current = <<1, 1>> /\ editing' = o /\ o \in live
      BY <1>2, <1>i, <2>1, <2>4 DEF Select, Placed
    <3>2. /\ stacks' = [stacks EXCEPT ![1] = @ + 1]
          /\ current' = <<1, stacks[1] + 1>>
      BY <2>4, <3>1 DEF Push
    <3>3. stacks' = <<2>> /\ current' = <<1, 2>>
      BY <2>1, <3>2
    <3>4. o \in 1 .. MaxTasks
      BY <3>1, SeedsAssumption DEF TaskInv, TaskTypeOK
    <3> QED BY <3>1, <3>3, <3>4, NoneAssumption DEF ShapeInv, Placed
  <2> QED BY <2>2, <2>3, <2>4
<1>3. ASSUME NEW o \in rows, DeleteRow(o) \/ ToggleRow(o) PROVE ShapeInv'
  BY <1>3, <1>u DEF DeleteRow, ToggleRow, Invalidated, Fail, Crash, sceneVars,
                    editVars
<1>4. CASE NewFails \/ Cancel \/ \E b \in BOOLEAN : Ok(b) \/ Type(b)
  BY <1>4, <1>u DEF NewFails, Cancel, Ok, Type, Dismiss, sceneVars, editVars
<1>5. CASE SwipeEditor
  <2>1. stacks = <<1, 1>> /\ Levels = 2 /\ current = <<2, 1>>
    BY <1>5, <1>i, ShapeTops DEF SwipeEditor, OnModal, Placed
  <2>2. stacks' = SubSeq(stacks, 1, 1) /\ current' = Gone
    BY <1>5, <2>1 DEF SwipeEditor, Swipe
  <2> QED BY <1>b, <2>1, <2>2, SheetOverTasks
<1>6. CASE LeavePushed
  <2>1. stacks = <<2>> /\ Levels = 1
    BY <1>6, ShapeTops DEF LeavePushed, OnPushed
  <2>2. /\ stacks' = [stacks EXCEPT ![1] = @ - 1]
        /\ current' = <<1, stacks[1] - 1>>
    BY <1>6, <2>1 DEF LeavePushed, Back
  <2>3. stacks' = <<1>> /\ current' = <<1, 1>>
    BY <2>1, <2>2
  <2> QED BY <1>b, <2>3
<1>11. CASE DragPushed
  <2>1. stacks = <<2>> /\ Levels = 1 /\ stacks' = stacks /\ editing' = editing
    BY <1>11, ShapeTops DEF DragPushed, DragBack, OnPushed, editVars
  <2>2. current' = <<1, stacks[1] - 1>>
    BY <1>11, <2>1 DEF DragPushed, DragBack
  <2>3. current' = <<1, 1>>
    BY <2>1, <2>2
  <2> QED BY <1>i, <2>1, <2>3 DEF ShapeInv, Placed
<1>12. CASE EndDrag
  <2>1. /\ stacks[Levels] > 1 /\ current = <<Levels, stacks[Levels] - 1>>
        /\ current' = current
    BY <1>12 DEF EndDrag, DragEnds, SceneInv, DragsFromCurrent
  <2>2. stacks = <<2>> /\ Levels = 1
    BY <1>i, <2>1, ShapeTops DEF Placed
  <2>3. CASE UNCHANGED stacks
    BY <1>12, <1>u, <2>1, <2>3 DEF EndDrag
  <2>4. CASE stacks' = [stacks EXCEPT ![Levels] = @ - 1]
    <3>1. stacks' = <<1>> /\ current' = <<1, 1>>
      BY <2>1, <2>2, <2>4
    <3> QED BY <1>b, <3>1
  <2> QED BY <1>12, <2>3, <2>4 DEF EndDrag, DragEnds
<1>7. CASE EndTransition
  <2>1. CASE Shown
    <3>1. UNCHANGED <<stacks, current, editing>>
      BY <1>7, <2>1 DEF EndTransition, Shown
    <3> QED BY <1>u, <3>1
  <2>2. CASE Dismissed
    <3>1. moving = "dismiss" /\ current[1] > 1 /\ current # Gone
      BY <2>2 DEF Dismissed, SceneInv, DismissesASheet
    <3>2. stacks = <<1, 1>> /\ current[1] = 2
      BY <1>i, <3>1 DEF Placed
    <3>3. stacks' = SubSeq(stacks, 1, 1) /\ current' = <<1, 1>>
      BY <2>2, <3>2 DEF Dismissed
    <3>4. stacks' = <<1>>
      BY <3>2, <3>3, SheetOverTasks
    <3> QED BY <1>b, <3>3, <3>4
  <2> QED BY <1>7, <2>1, <2>2 DEF EndTransition
<1>8. CASE BeginTurn \/ NotifyRows \/ NotifyAll \/ NotifyTodo
  BY <1>8, <1>u DEF BeginTurn, NotifyRows, NotifyAll, NotifyTodo, sceneVars,
                    editVars
<1>9. CASE Relaunch
  BY <1>9, <1>b DEF Relaunch, Root
<1>10. CASE UNCHANGED appVars
  BY <1>10, <1>u DEF appVars, sceneVars, editVars
<1> QED
  BY <1>1, <1>2, <1>3, <1>4, <1>5, <1>6, <1>7, <1>8, <1>9, <1>10, <1>11, <1>12
  DEF AppNext

\* Whatever is touched, fails, crashes, is dragged or swiped away: a sheet is
\* where the coordinator believes it is and edits a task, and otherwise the
\* current view controller is the one on the screen, or gone after a swipe, or
\* the tasks below a pushed editor whose drag has begun, cancelled or not.
THEOREM AppCurrentOnScreen == AppSpec => []CurrentOnScreen
<1>1. AppInit => ShapeInv
  BY DEF AppInit, SInit, ShapeInv, Placed
<1>2. ShapeInv => CurrentOnScreen
  <2> SUFFICES ASSUME ShapeInv PROVE CurrentOnScreen
    OBVIOUS
  <2>1. CASE stacks = <<1>>
    BY <2>1, ShapeTops DEF ShapeInv, Placed, CurrentOnScreen
  <2>2. CASE stacks = <<2>>
    BY <2>2, ShapeTops DEF ShapeInv, Placed, CurrentOnScreen
  <2>3. CASE stacks = <<1, 1>>
    BY <2>3, ShapeTops DEF ShapeInv, Placed, CurrentOnScreen
  <2> QED BY <2>1, <2>2, <2>3 DEF ShapeInv, Placed
<1>3. AppSpec => []TaskInv
  BY AppImplementsTaskService, TaskInvHolds, PTL
<1>4. AppSpec => []SceneInv
  BY AppImplementsSceneCoordinator, SceneInvHolds, PTL
<1> QED BY <1>1, <1>2, <1>3, <1>4, NextShapeInv, PTL DEF AppSpec
=============================================================================
