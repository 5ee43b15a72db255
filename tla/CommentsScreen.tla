--------------------------- MODULE CommentsScreen ---------------------------
(***************************************************************************)
(* RxGithub's comments screen: CommentsViewController, CommentsViewModel   *)
(* and CommentService over the RealtimeDatabase client.                    *)
(*                                                                         *)
(* The text field emits its text at every editing event; emptying it from  *)
(* the code emits nothing.  A tap on the submit button runs two handlers,  *)
(* the storyboard's (which ends the editing) and Rx's, in either order.    *)
(***************************************************************************)
EXTENDS RealtimeDatabase

CONSTANTS
    Empty,      \* the empty text
    Slashes,    \* a text of separators only, which has no path component
    Numerals,   \* comments that are small integers, children of an array
    MaxCalls    \* screens opened and comments submitted, together

Texts == Keys \cup {Empty, Slashes}

ASSUME TextAssumption ==
    Empty \notin Paths /\ Slashes \notin Paths /\ Empty # Slashes
ASSUME NumeralsAssumption == Numerals \subseteq Keys
ASSUME CallsAssumption == MaxCalls \in Nat

VARIABLES
    screen,     \* number of the open screen, 0 for none
    opened,     \* screens opened so far
    submits,    \* comments submitted so far
    field,      \* what the text field shows
    focused,    \* it is being edited
    latest,     \* latest text the field emitted
    enabled,    \* the submit button is enabled
    rows        \* comments the table shows

input == <<field, focused, latest, enabled>>
ui == <<screen, opened, submits, input, rows>>
allVars == <<vars, ui>>

-----------------------------------------------------------------------------
(* CommentService *)

\* The path of users/<name>/comments/<text>, for the texts modelled: one path
\* component, or none.  A text with one of . # $ [ ] ends the program in child:,
\* and one with an inner slash names a path below a comment.
PathOf(text) == IF text \in Keys THEN text ELSE Top

\* snapshot.value is a dictionary: not nil, not a value, and not the array
\* that small integer keys are turned into.
IsDictionary(node) == node # Leaf /\ ~(node \subseteq Numerals)

-----------------------------------------------------------------------------
(* The field and the button *)

\* Mutant: the button is never disabled.
SubmitAlwaysEnabled(text) == TRUE

SubmitEnabled(text) == text # Empty

Emit(text) == latest' = text /\ enabled' = SubmitEnabled(text)

BeginEditing ==
    /\ screen # 0 /\ ~focused /\ opened + submits < MaxCalls
    /\ focused' = TRUE
    /\ Emit(field)
    /\ UNCHANGED <<vars, screen, opened, submits, field, rows>>

Edit(text) ==
    /\ screen # 0 /\ focused /\ text # field /\ opened + submits < MaxCalls
    /\ field' = text
    /\ Emit(text)
    /\ UNCHANGED <<vars, screen, opened, submits, focused, rows>>

\* touchesBegan, tableViewDidTap
EndEditing ==
    /\ screen # 0 /\ focused
    /\ focused' = FALSE
    /\ Emit(field)
    /\ UNCHANGED <<vars, screen, opened, submits, field, rows>>

Comment(text) == work' = Append(work, [op |-> "set", path |-> PathOf(text), text |-> text])

jobless == <<events, caches, writeIdCounter, connection, pending, acking,
             server, faults>>

\* The storyboard's handler runs first: the field still has its text when the
\* end of the editing emits it.
SubmitAfterResign ==
    /\ screen # 0 /\ enabled /\ opened + submits < MaxCalls
    /\ LET text == IF focused THEN field ELSE latest
       IN  /\ Comment(text)
           /\ latest' = text
           /\ enabled' = SubmitEnabled(text)
    /\ focused' = FALSE /\ field' = Empty
    /\ submits' = submits + 1
    /\ UNCHANGED <<jobless, screen, opened, rows>>

\* Rx's handler runs first: the end of the editing emits the emptied field.
SubmitBeforeResign ==
    /\ screen # 0 /\ enabled /\ opened + submits < MaxCalls
    /\ Comment(latest)
    /\ field' = Empty /\ focused' = FALSE
    /\ IF focused THEN Emit(Empty) ELSE UNCHANGED <<latest, enabled>>
    /\ submits' = submits + 1
    /\ UNCHANGED <<jobless, screen, opened, rows>>

-----------------------------------------------------------------------------
(* The screen *)

\* viewDidLoad: the field emits its text to commentText before the button is
\* bound, then comments(for:) registers the observer.
Open ==
    /\ screen = 0 /\ opened + submits < MaxCalls
    /\ screen' = opened + 1 /\ opened' = opened + 1
    /\ field' = Empty /\ focused' = FALSE /\ latest' = Empty /\ enabled' = FALSE
    /\ rows' = {}
    /\ work' = Append(work, [op |-> "observe", screen |-> screen'])
    /\ UNCHANGED <<jobless, submits>>

\* The dispose bag is released: removeObserver(withHandle:).
Close ==
    /\ screen # 0
    /\ screen' = 0
    /\ field' = Empty /\ focused' = FALSE /\ latest' = Empty /\ enabled' = FALSE
    /\ rows' = {}
    /\ work' = Append(work, [op |-> "remove", screen |-> screen])
    /\ UNCHANGED <<jobless, opened, submits>>

\* A value event on the main queue: the observer drops what is not a
\* dictionary; a disposed observer drops everything.
Deliver ==
    /\ events # <<>>
    /\ events' = Tail(events)
    /\ LET e == Head(events)
       IN  rows' = IF e.to = screen /\ IsDictionary(e.node) THEN e.node ELSE rows
    /\ UNCHANGED <<work, caches, writeIdCounter, connection, pending, acking,
                   server, faults, screen, opened, submits, input>>

-----------------------------------------------------------------------------

CommentsInit ==
    /\ DatabaseInit
    /\ screen = 0 /\ opened = 0 /\ submits = 0
    /\ field = Empty /\ focused = FALSE /\ latest = Empty /\ enabled = FALSE
    /\ rows = {}

User ==
    \/ BeginEditing \/ EndEditing \/ \E text \in Texts : Edit(text)
    \/ SubmitAfterResign \/ SubmitBeforeResign
    \/ Open \/ Close

CommentsNext ==
    \/ DatabaseNext /\ UNCHANGED ui
    \/ Deliver
    \/ User

(* The worker queue, the main queue and the server never stop serving, and a
   lost connection is tried again for ever while nothing interrupts the client
   (from "interrupted" no action of Connecting leads).  The user owes nothing. *)
Fairness ==
    /\ WF_allVars(Worker /\ UNCHANGED ui)
    /\ WF_allVars(Connecting /\ UNCHANGED ui)
    /\ WF_allVars(Serving /\ UNCHANGED ui)
    /\ WF_allVars(Deliver)

CommentsSpec == CommentsInit /\ [][CommentsNext]_allVars /\ Fairness

-----------------------------------------------------------------------------
Screens == Nat \ {0}

Jobs ==
    [op : {"set"}, path : Paths, text : Texts]
        \cup [op : {"observe", "remove"}, screen : Screens]
Requests ==
    [op : {"put"}, write : Write]
        \cup [op : {"listen"}, listen : Screens, hash : Node]
        \cup [op : {"unlisten"}]
Answers ==
    [kind : {"data"}, path : Paths, value : Node]
        \cup [kind : {"listen"}, listen : Screens, ok : BOOLEAN]
        \cup [kind : {"put"}, id : Nat, ok : BOOLEAN]

\* Types of the screen, of the client, of its two queues and of the connection.
RTypeOK ==
    /\ work \in Seq(Jobs) /\ events \in Seq([to : Nat, node : Node])
    /\ connectionState \in {"disconnected", "gettingToken", "connecting", "connected",
                           "interrupted"}
    /\ allWrites \in Seq(Write) /\ visibleWrites \in CompoundWrite
    /\ view \in Nat /\ serverSnap \in Cache /\ eventSnap \in Cache
    /\ outstandingPuts \subseteq Nat /\ putsToAck \in Seq([id : Nat, ok : BOOLEAN])
    /\ {writeIdCounter, listens, unackedListensCount} \subseteq Nat
    /\ toServer \in Seq(Requests) /\ toClient \in Seq(Answers)
    /\ data \in Node /\ {acking, watched, focused, enabled} \subseteq BOOLEAN
    /\ {screen, opened, submits, faults, remote} \subseteq Nat
    /\ {field, latest} \subseteq Texts /\ rows \subseteq Keys

\* The button never submits the empty text, whose path is the whole list: its
\* state follows the text that is submitted, not the text the field shows,
\* which the code empties without an event.
EmptyNeverSubmitted ==
    \A i \in DOMAIN work : work[i].op = "set" => work[i].text # Empty

\* FPersistentConnection and FWriteTree agree: a write the tree still layers is
\* either waiting for an answer or has one held back, never both, and no held
\* answer is about a write that is gone.
WritesAccounted ==
    LET held == {putsToAck[i].id : i \in DOMAIN putsToAck}
    IN  /\ {allWrites[i].id : i \in DOMAIN allWrites} = outstandingPuts \cup held
        /\ outstandingPuts \cap held = {}
        /\ \A i, j \in DOMAIN putsToAck : putsToAck[i].id = putsToAck[j].id => i = j

\* Answers that were held back on a connection now lost, while the list has no
\* view any more: the next connection has no listen whose answer frees them.
Stranded == Connected /\ putsToAck # <<>> /\ ~acking /\ unackedListensCount = 0

\* Writes are settled oldest first, though puts are sent again after a lost
\* connection and their answers may be held back: the order of restoreState, of
\* the server and of ackPuts is that of the write ids.  Only answers that are
\* stranded can be overtaken.
SettledInOrder ==
    [][Len(allWrites') < Len(allWrites) /\ ~Stranded
       => allWrites' = Tail(allWrites)]_allVars

\* "A tree tracking the results of applying all visible writes" (FWriteTree):
\* updating it write by write gives what layering the pending writes gives.
VisibleIsLayered == visibleWrites = LayerTree(allWrites)

\* A comment, the only write that is pending, was accepted over a list that the
\* client takes for a leaf: it has missed the change that made room for it.
Misled ==
    /\ view # 0 /\ serverSnap.node = Leaf
    /\ Len(allWrites) = 1 /\ allWrites[1].path # Top
    /\ IF acking THEN Head(putsToAck).ok
       ELSE /\ unackedListensCount = 0 /\ toClient # <<>>
            /\ Head(toClient).kind = "put" /\ Head(toClient).ok

\* The data of an accepted write arrives before its acknowledgement is settled,
\* so the write is forgotten without a flicker: what the observer sees does
\* not change (unless another client has changed the list meanwhile).  Like
\* Compensates this lasts until a state is Stranded.
AckIsInvisible ==
    [][Len(allWrites') < Len(allWrites) /\ remote = 0
       /\ (IF acking THEN Head(putsToAck).ok ELSE Head(toClient).ok)
           => eventSnap' = eventSnap]_allVars

Compensation == INSTANCE LatencyCompensation WITH
    open  <- view # 0,
    told  <- IF serverSnap.complete THEN serverSnap.node ELSE None,
    mine  <- [i \in DOMAIN allWrites |-> allWrites[i].path],
    shown <- IF view # 0 /\ eventSnap.complete THEN eventSnap.node ELSE None

\* The client's step-by-step caches implement the promise of LatencyCompensation
\* through lost connections, refused and repeated puts and held-back answers:
\* the event snap is what the server told under the pending writes, and writes
\* are settled oldest first.  The promise is kept until a state is Stranded or
\* Misled, which takes more calls than MaxCalls gives the run that checks it.
Compensates == Compensation!PromiseSpec

\* A screen that stays open is right in the end, unless the server has killed
\* the connection: the client then waits for ever.  Every comment is settled
\* (with no screen open a held-back answer can stay so: only a listen's answer
\* frees it).  And unless its listen was refused it shows the server's list
\* whenever that is a dictionary: no refused comment stays in the table, and
\* no comment of another client is missed.
ScreenSettles ==
    <>[](screen # 0) /\ [](connectionState # "interrupted")
        => <>[](/\ allWrites = <<>>
                /\ view = screen /\ IsDictionary(data) => rows = data)
=============================================================================
