----------------------------- MODULE UserCells -----------------------------
(***************************************************************************)
(* The cells of RxGithub's table of users: UserCell, UserCellViewModel and *)
(* Network.image under RxSwift's observeOn(MainScheduler).                 *)
(*                                                                         *)
(* A cell that leaves the screen is kept, with its subscription, until the *)
(* table takes it for another row.  A picture is loaded on another thread  *)
(* and waits for the main queue, so it may arrive long after its cell was  *)
(* given to another user.  Subscriptions are numbered as they are made.    *)
(***************************************************************************)
EXTENDS Naturals, Sequences

CONSTANTS
    Cells,
    Users,          \* a user stands for his picture too
    Placeholder,    \* the picture shown while another is loaded
    None,           \* no user, or a picture never set
    MaxBindings     \* bound on the subscriptions made

ASSUME PictureAssumption ==
    Placeholder \notin Users /\ None \notin Users /\ Placeholder # None
ASSUME BindingsAssumption == MaxBindings \in Nat

VARIABLES
    shown,      \* the user whose row each cell is, or None
    binding,    \* the subscription in each cell's bag, 0 for none
    picture,    \* what each cell's image view shows
    subs,       \* whose picture each subscription loads, for which cell
    loading,    \* subscriptions whose request is not answered
    fetched,    \* those whose request brought a picture
    queue       \* events waiting for the main queue

cellVars == <<shown, binding, picture, subs, loading, fetched, queue>>

Event(n, p) == [sub |-> n, picture |-> p]

-----------------------------------------------------------------------------

\* Mutant: the bag is not replaced when the cell is used again.
DisposedNever(n) == FALSE

\* prepareForReuse has thrown the subscription's bag away.
Disposed(n) == binding[subs[n].cell] # n

AppearUncounted(c, u) ==
    /\ shown[c] = None /\ Len(subs) < MaxBindings
    /\ LET n == Len(subs) + 1
       IN  /\ shown' = [shown EXCEPT ![c] = u]
           /\ binding' = [binding EXCEPT ![c] = n]
           /\ loading' = loading \cup {n}
           /\ picture' = [picture EXCEPT ![c] = Placeholder]
    /\ UNCHANGED <<subs, fetched, queue>>

\* The table takes a cell for a row: prepareForReuse, then bindViewModel.  The
\* MainScheduler runs the placeholder's event at once when nothing waits in
\* it, be it of another cell or of the search, and queues it otherwise.
Appear(c, u) ==
    /\ shown[c] = None /\ Len(subs) < MaxBindings
    /\ LET n == Len(subs) + 1
       IN  /\ shown' = [shown EXCEPT ![c] = u]
           /\ binding' = [binding EXCEPT ![c] = n]
           /\ subs' = Append(subs, [cell |-> c, user |-> u])
           /\ loading' = loading \cup {n}
           /\ \/ /\ queue = <<>>
                 /\ picture' = [picture EXCEPT ![c] = Placeholder]
                 /\ UNCHANGED queue
              \/ /\ queue' = Append(queue, Event(n, Placeholder))
                 /\ UNCHANGED picture
    /\ UNCHANGED fetched

\* The row is scrolled away or the table reloaded.
Disappear(c) ==
    /\ shown[c] # None
    /\ shown' = [shown EXCEPT ![c] = None]
    /\ UNCHANGED <<binding, picture, subs, loading, fetched, queue>>

\* Mutant: events may overtake each other, as on a concurrent queue.
AnsweredAhead(n, p) ==
    /\ n \in loading
    /\ loading' = loading \ {n}
    /\ fetched' = IF p = Placeholder THEN fetched ELSE fetched \cup {n}
    /\ queue' = <<Event(n, p)>> \o queue
    /\ UNCHANGED <<shown, binding, picture, subs>>

\* A request is answered on Network's queue.  If its subscription is disposed
\* the answer is dropped, unless the check came before the disposal.
Answered(n, p) ==
    /\ n \in loading
    /\ loading' = loading \ {n}
    /\ fetched' = IF p = Placeholder THEN fetched ELSE fetched \cup {n}
    /\ \/ queue' = Append(queue, Event(n, p))
       \/ Disposed(n) /\ UNCHANGED queue
    /\ UNCHANGED <<shown, binding, picture, subs>>

\* A failure, or data that is no picture, becomes the placeholder again
\* (catchErrorJustReturn).
Answer(n) == Answered(n, subs[n].user) \/ Answered(n, Placeholder)

\* The main queue: a disposed subscription's event does nothing.
Deliver ==
    /\ queue # <<>>
    /\ queue' = Tail(queue)
    /\ LET e == Head(queue)
       IN  picture' = IF Disposed(e.sub) THEN picture
                      ELSE [picture EXCEPT ![subs[e.sub].cell] = e.picture]
    /\ UNCHANGED <<shown, binding, subs, loading, fetched>>

-----------------------------------------------------------------------------

CellsInit ==
    /\ shown = [c \in Cells |-> None]
    /\ binding = [c \in Cells |-> 0]
    /\ picture = [c \in Cells |-> None]
    /\ subs = <<>> /\ loading = {} /\ fetched = {} /\ queue = <<>>

CellsNext ==
    \/ \E c \in Cells : Disappear(c) \/ \E u \in Users : Appear(c, u)
    \/ \E n \in loading : Answer(n)
    \/ Deliver

CellsSpec == CellsInit /\ [][CellsNext]_cellVars

\* A request is answered or times out, and the main queue is served.
CellsFairness ==
    /\ \A n \in 1 .. MaxBindings : WF_cellVars(Answer(n))
    /\ WF_cellVars(Deliver)

FairCellsSpec == CellsSpec /\ CellsFairness

-----------------------------------------------------------------------------
Pictures == Users \cup {Placeholder}

CellsTypeOK ==
    /\ shown \in [Cells -> Users \cup {None}]
    /\ picture \in [Cells -> Pictures \cup {None}]
    /\ subs \in Seq([cell : Cells, user : Users])
    /\ binding \in [Cells -> 0 .. Len(subs)]
    /\ loading \subseteq 1 .. Len(subs) /\ fetched \subseteq 1 .. Len(subs)
    /\ queue \in Seq([sub : 1 .. Len(subs), picture : Pictures])

\* The placeholder of the cell's present subscription has not arrived.
PlaceholderWaits(c) ==
    \E i \in DOMAIN queue : queue[i] = Event(binding[c], Placeholder)

\* A row never shows somebody else's picture, however late the pictures of the
\* users its cell was of before arrive: only until the placeholder, which may
\* have to wait in the main queue, is there the previous picture left.
PictureIsOwn ==
    \A c \in Cells :
        shown[c] # None /\ ~PlaceholderWaits(c)
            => picture[c] \in {Placeholder, shown[c]}

\* A row that stays on the screen ends with its user's picture if the request
\* of its present subscription brought it, and with the placeholder otherwise:
\* none is lost, and the placeholder never comes last.
PictureSettles ==
    \A c \in Cells :
        <>[](shown[c] # None)
            => <>[](picture[c] = IF binding[c] \in fetched THEN shown[c]
                                 ELSE Placeholder)
=============================================================================
