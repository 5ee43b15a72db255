------------------------------- MODULE TodoApp -------------------------------
(***************************************************************************)
(* The Todo app: TasksViewModel with its table and statistics, the modal   *)
(* and the pushed edit screens, composed of TaskService and                *)
(* SceneCoordinator.                                                       *)
(*                                                                         *)
(* Every write makes Realm notify the three observed collections (rows,    *)
(* all, todo) later, in one turn of the run loop, and the table and the    *)
(* labels are set by then.  Touches come before that turn.                 *)
(***************************************************************************)
EXTENDS TaskService, SceneCoordinator

CONSTANT None

ASSUME NoneAssumption == None \notin 1 .. MaxTasks

VARIABLES
    rows,       \* the handles in the data source's sections
    dirty,      \* something was written since the last notification
    turn,       \* the observers still to be notified in this turn
    allSeen,    \* statistics: the last count of all tasks
    todoSeen,   \* statistics: the last count of tasks to do
    editing,    \* the task of the edit screen shown, or None
    creating,   \* createAction is executing: the + button is disabled
    opening     \* editAction is executing

tableVars == <<rows, turn, allSeen, todoSeen>>
editVars == <<editing, creating, opening>>
appVars == <<storeVars, sceneVars, tableVars, dirty, editVars>>

Observers == {"rows", "all", "todo"}
Count(S) == Cardinality(S)

\* A touch on the tasks screen or an edit screen.
Touch == Still /\ turn = {}
OnTasks == Touch /\ stacks = <<1>>
OnModal == Touch /\ Levels = 2
OnPushed == Touch /\ stacks = <<2>>
Written == dirty' = TRUE /\ UNCHANGED tableVars

\* An operation on an invalidated Realm object raises an exception that no
\* do/catch catches.
Invalidated(o) ==
    /\ o \notin live
    /\ Fail
    /\ UNCHANGED <<storeVars, tableVars, dirty, editVars>>

AppInit ==
    /\ TInit
    /\ SInit
    /\ rows = live /\ dirty = FALSE /\ turn = {}
    /\ allSeen = Count(live) /\ todoSeen = Count(due)
    /\ editing = None /\ creating = FALSE /\ opening = FALSE

-----------------------------------------------------------------------------
(* TasksViewModel and its screen *)

\* +: createAction creates a blank task and presents its editor.
New ==
    /\ OnTasks /\ ~creating
    /\ CreateTask(TRUE)
    /\ created' # created
    /\ creating' = TRUE
    /\ \/ Present /\ editing' = created'
       \/ PresentRefused /\ UNCHANGED editing
    /\ Written
    /\ UNCHANGED opening

\* +, but the task is not written: createAction ends with the error, is enabled
\* again, and no editor comes.
NewFails ==
    /\ OnTasks /\ ~creating
    /\ CreateTask(TRUE)
    /\ created' = created
    /\ Written
    /\ UNCHANGED <<sceneVars, editVars>>

\* A row is selected: editAction pushes its editor, whose text binding writes
\* the title back at once.
Select(o) ==
    /\ OnTasks /\ ~opening /\ o \in rows
    /\ \/ Invalidated(o)
       \/ /\ o \in live
          /\ Push
          /\ opening' = TRUE
          /\ editing' = IF current = Gone THEN editing ELSE o
          /\ Written
          /\ UNCHANGED <<storeVars, creating>>

\* A row is swiped away: deleteAction.
DeleteRow(o) ==
    /\ OnTasks /\ o \in rows
    /\ \/ Invalidated(o)
       \/ o \in live /\ Delete(o) /\ Written /\ UNCHANGED <<sceneVars, editVars>>

\* The check box of a row.
ToggleRow(o) ==
    /\ OnTasks /\ o \in rows
    /\ \/ Invalidated(o)
       \/ o \in live /\ Toggle(o) /\ Written /\ UNCHANGED <<sceneVars, editVars>>

-----------------------------------------------------------------------------
(* EditTaskViewModel and PushedEditTaskViewModel *)

\* OK: the title is written, and the first execution pops, failed or not.
Ok(b) ==
    /\ OnModal /\ editing # None
    /\ Update(editing, b)
    /\ Dismiss
    /\ Written
    /\ UNCHANGED editVars

CancelWithoutPop ==
    /\ OnModal /\ editing # None
    /\ Delete(editing)
    /\ Written
    /\ UNCHANGED <<sceneVars, editVars>>

\* Cancel: deleteAction deletes the new task, then the editor is popped.
Cancel ==
    /\ OnModal /\ editing # None
    /\ Delete(editing)
    /\ Dismiss
    /\ Written
    /\ UNCHANGED editVars

\* The user swipes the editor down instead.
SwipeEditor ==
    /\ OnModal
    /\ Swipe
    /\ editing' = None
    /\ UNCHANGED <<storeVars, tableVars, dirty, creating, opening>>

\* Every change of the text in the pushed editor is written.
Type(b) ==
    /\ OnPushed /\ editing # None
    /\ Update(editing, b)
    /\ Written
    /\ UNCHANGED <<sceneVars, editVars>>

LeavePushed ==
    /\ OnPushed
    /\ Back
    /\ editing' = None
    /\ UNCHANGED <<storeVars, tableVars, dirty, creating, opening>>

\* The pushed editor is dragged away, ...
DragPushed ==
    /\ OnPushed
    /\ DragBack
    /\ UNCHANGED <<storeVars, tableVars, dirty, editVars>>

\* ... or comes back when the user lets it go.
EndDrag ==
    /\ DragEnds
    /\ editing' = IF stacks' = stacks THEN editing ELSE None
    /\ UNCHANGED <<storeVars, tableVars, dirty, creating, opening>>

EndTransitionUnheard ==
    /\ Shown \/ Dismissed
    /\ opening' = (opening /\ moving # "push")
    /\ editing' = IF moving = "dismiss" THEN None ELSE editing
    /\ UNCHANGED <<storeVars, tableVars, dirty, creating>>

\* A transition ends: the action that waited for its completion is enabled.
EndTransition ==
    /\ Shown \/ Dismissed
    /\ creating' = (creating /\ moving # "present")
    /\ opening' = (opening /\ moving # "push")
    /\ editing' = IF moving = "dismiss" THEN None ELSE editing
    /\ UNCHANGED <<storeVars, tableVars, dirty>>

-----------------------------------------------------------------------------
(* Notifications *)

\* Realm has computed the change: its observers are called in one turn.
BeginTurn ==
    /\ fate = "ok" /\ dirty /\ turn = {}
    /\ turn' = Observers
    /\ dirty' = FALSE
    /\ UNCHANGED <<storeVars, sceneVars, rows, allSeen, todoSeen, editVars>>

NotifyRowsDueOnly ==
    /\ "rows" \in turn
    /\ rows' = due
    /\ turn' = turn \ {"rows"}
    /\ UNCHANGED <<storeVars, sceneVars, dirty, allSeen, todoSeen, editVars>>

\* sectionedItems maps the live tasks to sections, which the data source takes
\* at once: a scheduler of the main thread runs what is given on it in place.
NotifyRows ==
    /\ "rows" \in turn
    /\ rows' = live
    /\ turn' = turn \ {"rows"}
    /\ UNCHANGED <<storeVars, sceneVars, dirty, allSeen, todoSeen, editVars>>

NotifyAll ==
    /\ "all" \in turn
    /\ allSeen' = Count(live)
    /\ turn' = turn \ {"all"}
    /\ UNCHANGED <<storeVars, sceneVars, dirty, rows, todoSeen, editVars>>

NotifyTodo ==
    /\ "todo" \in turn
    /\ todoSeen' = Count(due)
    /\ turn' = turn \ {"todo"}
    /\ UNCHANGED <<storeVars, sceneVars, dirty, rows, allSeen, editVars>>

\* The app is left or has crashed, and is started again.
Relaunch ==
    /\ Restart
    /\ Root
    /\ rows' = live' /\ dirty' = FALSE /\ turn' = {}
    /\ allSeen' = Count(live') /\ todoSeen' = Count(due')
    /\ editing' = None /\ creating' = FALSE /\ opening' = FALSE

AppNext ==
    \/ New
    \/ NewFails
    \/ \E o \in rows : Select(o)
    \/ \E o \in rows : DeleteRow(o)
    \/ \E o \in rows : ToggleRow(o)
    \/ \E b \in BOOLEAN : Ok(b)
    \/ Cancel
    \/ SwipeEditor
    \/ \E b \in BOOLEAN : Type(b)
    \/ LeavePushed
    \/ DragPushed
    \/ EndDrag
    \/ EndTransition
    \/ BeginTurn
    \/ NotifyRows \/ NotifyAll \/ NotifyTodo
    \/ Relaunch

AppSpec == AppInit /\ [][AppNext]_appVars

\* UIKit ends its transitions and Realm notifies; the user may stop doing
\* anything at any time, in the middle of a drag too.
AppFairness ==
    /\ WF_appVars(EndTransition)
    /\ WF_appVars(BeginTurn)
    /\ WF_appVars(NotifyRows) /\ WF_appVars(NotifyAll) /\ WF_appVars(NotifyTodo)

FairAppSpec == AppSpec /\ AppFairness

-----------------------------------------------------------------------------
AppTypeOK ==
    /\ TaskTypeOK /\ SceneTypeOK
    /\ rows \subseteq 1 .. created
    /\ dirty \in BOOLEAN /\ turn \subseteq Observers
    /\ allSeen \in 0 .. MaxTasks /\ todoSeen \in 0 .. MaxTasks
    /\ editing \in {None} \cup 1 .. created
    /\ creating \in BOOLEAN /\ opening \in BOOLEAN

\* The task an edit screen shows cannot be deleted under it: no sequence of
\* touches, transitions and notifications makes OK, Cancel or typing write to
\* an invalidated object.
EditedTaskLives ==
    editing # None /\ moving # "dismiss" /\ fate = "ok" => editing \in live

\* An observer that was called since the last change has the store as it is,
\* whatever was touched and notified in which order: both counts of the
\* statistics (so none is mixed once the turn ends) and the rows, so that only
\* before that turn can a touch reach a task that is deleted.
NotifiedIsExact ==
    ~dirty => /\ "all" \notin turn => allSeen = Count(live)
              /\ "todo" \notin turn => todoSeen = Count(due)
              /\ "rows" \notin turn => rows = live

\* The sheet on the screen is where the coordinator believes it is, so OK and
\* Cancel dismiss it and nothing else.  A sheet that was swiped away leaves the
\* coordinator with a view controller that is gone, and a pushed editor that is
\* dragged, also after the drag was cancelled, with the tasks below it, whose
\* navigation controller is the one on the screen: never with another one.
CurrentOnScreen ==
    /\ Levels = 2 => current = Top /\ editing # None
    /\ \/ current \in {Top, Gone}
       \/ stacks = <<2>> /\ current = <<1, 1>> /\ editing # None

\* The + button comes back: presenting the editor ends, unless it was refused
\* because a sheet had been swiped away before.
CreatingEnds == creating ~> (~creating \/ fate # "ok" \/ current = Gone)

\* "Can't push a view controller without a current navigation controller"
\* (SceneCoordinator.swift:57) is never reached.
NoPushCrash == fate # "push"
=============================================================================
