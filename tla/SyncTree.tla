------------------------------ MODULE SyncTree ------------------------------
(***************************************************************************)
(* The caches of the Firebase Database client behind RxGithub's comments:  *)
(* FWriteTree keeps the writes the server has not answered, FViewProcessor *)
(* keeps what the server told (the server snap) and what the observers see *)
(* (the event snap), and updates the latter step by step instead of        *)
(* computing it again.                                                     *)
(*                                                                         *)
(* A user's comments are one node of the database, whose children are the  *)
(* comments themselves, each with the value true.  CommentService.comment  *)
(* sets users/<name>/comments/<comment> to true; a text without any path   *)
(* component addresses the list's node itself, Top, which then becomes a   *)
(* Leaf.  Every write of the app is therefore "set this path to true".     *)
(***************************************************************************)
EXTENDS Naturals, SequencesExt

CONSTANTS
    Keys,   \* the children a list of comments may have
    Top,    \* the path of the list's node
    Leaf,   \* the value true
    None    \* no value (nil)

ASSUME TopAssumption == Top \notin Keys
ASSUME LeafAssumption == \A s \in SUBSET Keys : s # Leaf
ASSUME NoneAssumption == None # Leaf /\ \A s \in SUBSET Keys : s # None

Paths == Keys \cup {Top}
Node == {Leaf} \cup SUBSET Keys
Write == [id : Nat, path : Paths]
Cache == [node : Node, complete : BOOLEAN]
CompoundWrite == [top : {None} \cup Node, keys : SUBSET Keys]

-----------------------------------------------------------------------------
(* Nodes *)

Children(node) == IF node = Leaf THEN {} ELSE node

Child(node, k) == IF k \in Children(node) THEN Leaf ELSE {}

\* FLeafNode keeps its value when a child of it is removed.
UpdateChild(node, path, value) ==
    CASE path = Top                   -> value
      [] path # Top /\ value # {}     -> Children(node) \cup {path}
      [] path # Top /\ value = {}     -> IF node = Leaf THEN Leaf
                                                        ELSE node \ {path}

Covers(p, q) == p = Top \/ p = q

-----------------------------------------------------------------------------
(* FCompoundWrite: the visible writes, as a tree of at most two levels *)

EmptyWrite == [top |-> None, keys |-> {}]

AddWrite(vis, path) ==
    IF path = Top THEN [top |-> Leaf, keys |-> {}]
    ELSE IF vis.top # None
         THEN [vis EXCEPT !.top = UpdateChild(@, path, Leaf)]
         ELSE [vis EXCEPT !.keys = @ \cup {path}]

\* "This will not modify a write at a higher location."
RemoveWriteAtPath(vis, path) ==
    IF path = Top THEN EmptyWrite ELSE [vis EXCEPT !.keys = @ \ {path}]

CompleteNode(vis, path) ==
    IF path = Top THEN vis.top
    ELSE IF vis.top # None THEN Child(vis.top, path)
    ELSE IF path \in vis.keys THEN Leaf ELSE None

ApplyToNode(vis, node) ==
    IF vis.top # None THEN vis.top
    ELSE IF vis.keys = {} THEN node ELSE Children(node) \cup vis.keys

-----------------------------------------------------------------------------
(* FWriteTree *)

\* layerTreeFromWrites: the writes in order, each over the ones before it.
LayerTree(writes) ==
    LET tops  == {i \in DOMAIN writes : writes[i].path = Top}
        From(i) == {writes[j].path : j \in {k \in DOMAIN writes : k > i}}
    IN  IF tops = {} THEN [top |-> None, keys |-> From(0)]
        ELSE LET last == CHOOSE i \in tops : \A j \in tops : j <= i
             IN  [top |-> IF From(last) = {} THEN Leaf ELSE From(last),
                  keys |-> {}]

\* A later write covers the i-th one.
Shadowed(writes, i) ==
    \E j \in DOMAIN writes : j > i /\ Covers(writes[j].path, writes[i].path)

\* The i-th write covers another one.
Overlaps(writes, i) ==
    \E j \in DOMAIN writes : j # i /\ Covers(writes[i].path, writes[j].path)

\* Mutant: the tree is never built again.
VisibleUnlayered(vis, writes, i) ==
    IF Shadowed(writes, i) THEN vis ELSE RemoveWriteAtPath(vis, writes[i].path)

\* removeWriteId: the tree is built again only when the removed write covers
\* another one, and left alone when a later write covers it.
VisibleWithout(vis, writes, i) ==
    IF Shadowed(writes, i) THEN vis
    ELSE IF Overlaps(writes, i) THEN LayerTree(RemoveAt(writes, i))
    ELSE RemoveWriteAtPath(vis, writes[i].path)

-----------------------------------------------------------------------------
(* FViewProcessor: srv is the server snap, evt the event snap *)

CompleteForPath(cache, path) ==
    cache.complete \/ (path # Top /\ path \in Children(cache.node))

UserOverwrite(evt, path) ==
    [node |-> UpdateChild(evt.node, path, Leaf),
     complete |-> evt.complete \/ path = Top]

ServerSnapAfter(srv, path, value) ==
    [node |-> UpdateChild(srv.node, path, value),
     complete |-> srv.complete \/ path = Top]

\* generateEventCacheAfterServerEvent, srv being the new server snap.
EventAfterServer(srv, evt, vis, path) ==
    IF CompleteNode(vis, path) # None THEN evt
    ELSE IF path = Top
         THEN [node |-> ApplyToNode(vis, srv.node), complete |-> TRUE]
         ELSE [evt EXCEPT !.node = UpdateChild(@, path, Child(srv.node, path))]

\* Mutant: the writes still pending are not put over what the server has.
EventAfterAckBare(srv, evt, vis, path) ==
    IF CompleteNode(vis, path) # None \/ ~CompleteForPath(srv, path) THEN evt
    ELSE EventAfterServer(srv, evt, EmptyWrite, path)

\* ackUserWriteOn: what the server snap holds is applied once more, now that
\* the write no longer shadows it; the merge of an incomplete server snap adds
\* the children no write shadows.
EventAfterAck(srv, evt, vis, path) ==
    LET merged == Children(srv.node) \ vis.keys
    IN  IF CompleteNode(vis, path) # None THEN evt
        ELSE IF CompleteForPath(srv, path) THEN EventAfterServer(srv, evt, vis, path)
        ELSE IF path = Top /\ merged # {}
             THEN [evt EXCEPT !.node = Children(@) \cup merged]
        ELSE evt

\* revertUserWriteOn: "We might have reverted all child writes.  Maybe the old
\* event was a leaf node."
EventAfterRevert(srv, evt, vis, path) ==
    LET full  == IF srv.complete THEN ApplyToNode(vis, srv.node)
                 ELSE Children(srv.node) \cup vis.keys
        child == UpdateChild(evt.node, path, Child(srv.node, path))
    IN  IF CompleteNode(vis, path) # None THEN evt
        ELSE [node |-> IF path = Top THEN full
                       ELSE IF child = {} /\ srv.complete /\ full = Leaf
                            THEN Leaf ELSE child,
              complete |-> srv.complete \/ vis.top # None]

\* FSyncPoint.addEventRegistration: the snaps of a new view, for which there
\* is no server data yet.
NewServerSnap == [node |-> {}, complete |-> FALSE]

NewEventSnap(vis) ==
    IF vis.top # None THEN [node |-> vis.top, complete |-> TRUE]
    ELSE [node |-> vis.keys, complete |-> FALSE]

\* maybeAddValueFromOldViewCache: the change is worth a value event.
RaisesValue(old, new) ==
    new.complete /\ (~old.complete \/ new.node # old.node)
=============================================================================
