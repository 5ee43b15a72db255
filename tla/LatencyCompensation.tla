------------------------ MODULE LatencyCompensation -------------------------
(***************************************************************************)
(* What the Firebase Database client promises to the observer of a list:   *)
(* it sees what the server last told, under the writes of this device that *)
(* the server has not settled, in the order they were made.  Writes settle *)
(* oldest first.  Nothing is seen before the server has told the list,     *)
(* unless a write replaces the whole of it.                                *)
(***************************************************************************)
EXTENDS SyncTree

VARIABLES
    open,   \* somebody observes the list
    told,   \* the list the server told, or None
    mine,   \* paths of the writes that are not settled
    shown   \* what the observer sees, or None

promise == <<open, told, mine, shown>>

Layers(paths) == LayerTree([i \in DOMAIN paths |-> [id |-> i, path |-> paths[i]]])

See(o, t, m) ==
    IF ~o \/ (t = None /\ Layers(m).top = None) THEN None
    ELSE IF Layers(m).top # None THEN Layers(m).top
    ELSE ApplyToNode(Layers(m), t)

NewWrite == \E p \in Paths : mine' = Append(mine, p) /\ UNCHANGED <<open, told>>
Settle == mine # <<>> /\ mine' = Tail(mine) /\ UNCHANGED <<open, told>>
Tell == open /\ (\E node \in Node : told' = node) /\ UNCHANGED <<open, mine>>
Observe == open' = TRUE /\ told' = None /\ UNCHANGED mine
Leave == open' = FALSE /\ told' = None /\ UNCHANGED mine

PromiseInit == open = FALSE /\ told = None /\ mine = <<>> /\ shown = None

PromiseNext ==
    /\ NewWrite \/ Settle \/ Tell \/ Observe \/ Leave
    /\ shown' = See(open', told', mine')

PromiseSpec == PromiseInit /\ [][PromiseNext]_promise
=============================================================================
