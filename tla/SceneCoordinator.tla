-------------------------- MODULE SceneCoordinator --------------------------
(***************************************************************************)
(* Todo's SceneCoordinator over UIKit.  What is on the screen is a stack   *)
(* of navigation controllers, the first the window's root and each other   *)
(* one presented modally over the one below; stacks[l] is the number of    *)
(* view controllers in navigation controller l.  currentViewController is  *)
(* a position in it, or Gone once its navigation controller was dismissed  *)
(* behind the coordinator's back.                                          *)
(*                                                                         *)
(* UIKit ignores touches while a transition runs, so no operation starts   *)
(* then.                                                                   *)
(***************************************************************************)
EXTENDS Integers, Sequences

CONSTANTS
    MaxLevels, MaxDepth,    \* bounds on stacks
    SwipeDismiss            \* a page sheet can be swiped away (iOS 13)

ASSUME BoundsAssumption == MaxLevels \in Nat \ {0} /\ MaxDepth \in Nat \ {0}
ASSUME SwipeDismissAssumption == SwipeDismiss \in BOOLEAN

VARIABLES
    stacks,     \* what is on the screen
    current,    \* currentViewController: <<level, position>> or Gone
    moving,     \* the transition that runs
    fate        \* "ok", or the failure that has ended the program

sceneVars == <<stacks, current, moving, fate>>

Gone == <<0, 0>>
Levels == Len(stacks)
Top == <<Levels, stacks[Levels]>>
Still == moving = "none" /\ fate = "ok"
Crash(f) == fate' = f /\ UNCHANGED <<stacks, current, moving>>

\* transition(to: .tasks, type: .root), when the scene is set up.
SInit ==
    /\ stacks = <<1>>
    /\ current = <<1, 1>>
    /\ moving = "none"
    /\ fate = "ok"

\* An exception elsewhere in the program ends it.
Fail == Still /\ Crash("invalidated")

\* The program is started again: transition(to: .tasks, type: .root).
Root ==
    /\ stacks' = <<1>>
    /\ current' = <<1, 1>>
    /\ moving' = "none"
    /\ fate' = "ok"

PushFromCurrent ==
    /\ Still
    /\ IF current = Gone THEN Crash("push")
       ELSE LET l == current[1] IN
            /\ stacks[l] < MaxDepth
            /\ stacks' = [stacks EXCEPT ![l] = @ + 1]
            /\ current' = <<l, current[2] + 1>>
            /\ moving' = "push"
            /\ UNCHANGED fate

\* transition(type: .push); willShow makes the new view controller current.
Push ==
    /\ Still
    /\ IF current = Gone THEN Crash("push")
       ELSE LET l == current[1] IN
            /\ stacks[l] < MaxDepth
            /\ stacks' = [stacks EXCEPT ![l] = @ + 1]
            /\ current' = <<l, stacks[l] + 1>>
            /\ moving' = "push"
            /\ UNCHANGED fate

\* transition(type: .modal) from a view controller on the screen.
Present ==
    /\ Still /\ current # Gone
    /\ Levels < MaxLevels
    /\ stacks' = Append(stacks, 1)
    /\ current' = <<Levels + 1, 1>>
    /\ moving' = "present"
    /\ UNCHANGED fate

\* transition(type: .modal) from one that is not, or is covered by another:
\* UIKit refuses, the completion never runs, and the scene that was not shown
\* is current all the same.
PresentRefused ==
    /\ Still /\ current # Top
    /\ current' = Gone
    /\ UNCHANGED <<stacks, moving, fate>>

\* pop in a modal: the presenter dismisses it.
Dismiss ==
    /\ Still /\ current # Gone /\ current[1] > 1
    /\ moving' = "dismiss"
    /\ UNCHANGED <<stacks, current, fate>>

\* pop in the root navigation controller; willShow makes the view controller
\* below current.  From anywhere else pop is a fatal error.
PopViewController ==
    /\ Still
    /\ IF current = Gone \/ (Levels = 1 /\ stacks[1] = 1) THEN Crash("pop")
       ELSE /\ current[1] = 1
            /\ stacks' = [stacks EXCEPT ![1] = @ - 1]
            /\ current' = <<1, stacks[1] - 1>>
            /\ moving' = "pop"
            /\ UNCHANGED fate

BackFromRoot ==
    /\ Still
    /\ stacks' = [stacks EXCEPT ![Levels] = @ - 1]
    /\ current' = <<Levels, stacks[Levels] - 1>>
    /\ moving' = "pop"
    /\ UNCHANGED fate

\* The user taps the back button of the navigation bar.
Back ==
    /\ Still /\ stacks[Levels] > 1
    /\ stacks' = [stacks EXCEPT ![Levels] = @ - 1]
    /\ current' = <<Levels, stacks[Levels] - 1>>
    /\ moving' = "pop"
    /\ UNCHANGED fate

\* The user begins to drag the topmost view controller away from the screen's
\* edge: willShow makes the one below current at once.
DragBack ==
    /\ Still /\ stacks[Levels] > 1
    /\ current' = <<Levels, stacks[Levels] - 1>>
    /\ moving' = "drag"
    /\ UNCHANGED <<stacks, fate>>

\* The gesture pops the view controller, or it is cancelled: then nothing sets
\* currentViewController back.
DragEnds ==
    /\ moving = "drag"
    /\ \/ stacks' = [stacks EXCEPT ![Levels] = @ - 1]
       \/ UNCHANGED stacks
    /\ moving' = "none"
    /\ UNCHANGED <<current, fate>>

\* The user swipes the sheet down: the coordinator is not told.
Swipe ==
    /\ SwipeDismiss /\ Still /\ Levels > 1
    /\ stacks' = SubSeq(stacks, 1, Levels - 1)
    /\ current' = IF current[1] = Levels THEN Gone ELSE current
    /\ UNCHANGED <<moving, fate>>

\* didShow, or the completion of present.
Shown ==
    /\ moving \in {"push", "present", "pop"}
    /\ moving' = "none"
    /\ UNCHANGED <<stacks, current, fate>>

DismissedToTop ==
    /\ moving = "dismiss"
    /\ stacks' = SubSeq(stacks, 1, current[1] - 1)
    /\ current' = current
    /\ moving' = "none"
    /\ UNCHANGED fate

\* The completion of dismiss: current becomes the presenter's first view
\* controller.
Dismissed ==
    /\ moving = "dismiss"
    /\ stacks' = SubSeq(stacks, 1, current[1] - 1)
    /\ current' = <<current[1] - 1, 1>>
    /\ moving' = "none"
    /\ UNCHANGED fate

SNext ==
    \/ Push \/ Present \/ PresentRefused \/ Dismiss \/ PopViewController
    \/ Back \/ DragBack \/ DragEnds \/ Swipe \/ Shown \/ Dismissed \/ Fail
    \/ Root

SceneSpec == SInit /\ [][SNext]_sceneVars

-----------------------------------------------------------------------------
SceneTypeOK ==
    /\ stacks \in Seq(1 .. MaxDepth) /\ Levels \in 1 .. MaxLevels
    /\ current \in {Gone} \cup ((1 .. MaxLevels) \X (1 .. MaxDepth))
    /\ moving \in {"none", "push", "present", "dismiss", "pop", "drag"}
    /\ fate \in {"ok", "push", "pop", "invalidated"}

\* Whatever calls come, the current view controller is in the topmost
\* navigation controller, though not always at its top, or it is gone.
CurrentOnTopLevel ==
    current # Gone => /\ current[1] = Levels
                      /\ current[2] <= stacks[Levels]

\* A scene that was pushed is the one on the screen, whatever was presented,
\* popped or swiped away before, and whatever drag was cancelled.
PushShowsOnTop ==
    [][moving = "none" /\ moving' = "push" => current' = Top']_sceneVars
=============================================================================
