----------------------------- MODULE TaskService -----------------------------
(***************************************************************************)
(* Todo's TaskService over Realm.  A task is known to the rest of the app  *)
(* by the Realm object it got when it was created, here a handle that is   *)
(* never used again; its uid is the stored primary key.  A title is blank  *)
(* or not.                                                                 *)
(***************************************************************************)
EXTENDS Integers, FiniteSets

CONSTANTS
    Seeds,          \* number of default tasks
    MaxTasks,       \* bound on the tasks ever created
    WritesMayFail   \* realm.write may throw

ASSUME SeedsAssumption == Seeds \in Nat /\ MaxTasks \in Nat /\ Seeds <= MaxTasks
ASSUME WritesMayFailAssumption == WritesMayFail \in BOOLEAN

VARIABLES
    tasks,      \* the live tasks: handle -> uid, blank title, checked
    created     \* handles given out so far

storeVars == <<tasks, created>>

live == DOMAIN tasks
due == {o \in live : ~tasks[o].checked}

NewTask(u, b) == [uid |-> u, blank |-> b, checked |-> FALSE]

SeededFromZero(c, k) == [o \in c + 1 .. c + k |-> NewTask(o - c - 1, FALSE)]

\* k default tasks, created in an empty realm after c earlier handles.
Seeded(c, k) == [o \in c + 1 .. c + k |-> NewTask(o - c, FALSE)]

\* How many of the default tasks may have been created: init ignores the
\* writes that fail.
SeedsWritten == IF WritesMayFail THEN 0 .. Seeds ELSE {Seeds}

IsNextUidCounted(u) == u = Cardinality(live) + 1

\* (max(ofProperty: "uid") ?? 0) + 1
IsNextUid(u) ==
    \/ live = {} /\ u = 1
    \/ \E o \in live : /\ u = tasks[o].uid + 1
                       /\ \A p \in live : tasks[p].uid < u

\* withRealm returns nil when the write throws, and nothing has changed.
WriteFails == WritesMayFail /\ UNCHANGED storeVars

TInit ==
    \E k \in SeedsWritten : tasks = Seeded(0, k) /\ created = k

CreateTask(b) ==
    \/ /\ created < MaxTasks
       /\ created' = created + 1
       /\ \E u \in 1 .. created + 1 :
            /\ IsNextUid(u)
            /\ tasks' = [o \in live \cup {created + 1} |->
                            IF o = created + 1 THEN NewTask(u, b) ELSE tasks[o]]
    \/ WriteFails

Delete(o) ==
    \/ /\ o \in live
       /\ tasks' = [p \in live \ {o} |-> tasks[p]]
       /\ UNCHANGED created
    \/ WriteFails

Update(o, b) ==
    \/ /\ o \in live
       /\ tasks' = [tasks EXCEPT ![o].blank = b]
       /\ UNCHANGED created
    \/ WriteFails

Toggle(o) ==
    \/ /\ o \in live
       /\ tasks' = [tasks EXCEPT ![o].checked = ~@]
       /\ UNCHANGED created
    \/ WriteFails

\* The process starts again: an empty realm gets the default tasks.
Restart ==
    IF live = {}
    THEN \E k \in SeedsWritten :
            /\ created + k <= MaxTasks
            /\ tasks' = Seeded(created, k)
            /\ created' = created + k
    ELSE UNCHANGED storeVars

TNext ==
    \/ \E b \in BOOLEAN : CreateTask(b)
    \/ \E o \in live : Delete(o)
    \/ \E o \in live, b \in BOOLEAN : Update(o, b)
    \/ \E o \in live : Toggle(o)
    \/ Restart

TaskSpec == TInit /\ [][TNext]_storeVars

-----------------------------------------------------------------------------
\* Handles are those given out, uids are positive and never run ahead of the
\* number of tasks created.
TaskTypeOK ==
    /\ created \in 0 .. MaxTasks
    /\ live \subseteq 1 .. created
    /\ tasks \in [live -> [uid : 1 .. created, blank : BOOLEAN,
                            checked : BOOLEAN]]

\* Uids are unique, and they sort the live tasks by age although the uid of a
\* deleted newest task is given out again (createTask's max + 1).
UidsFollowAge ==
    \A o, p \in live : o < p => tasks[o].uid < tasks[p].uid
=============================================================================
