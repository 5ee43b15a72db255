# TLA+ models of the MVVM + RxSwift sample apps

The repository holds four iOS applications written as MVVM view models over RxSwift:
**Tweetie** (a Twitter reader), **Todo** (tasks in Realm with a scene coordinator),
**RxGithub** (user search and comments) and **Match App** (football scores). They are small,
and what is hard in them is not an algorithm but order: a timer, the network, Realm
notifications, UIKit transitions and touches all meet in an order nobody wrote down, most of them on
the main thread and some on queues of their own. The modules here model that order: which event runs which handler, what the
handler changes, and what the next event finds.

## 1. Inventory

### Tweetie

| Component | State | Operations | Interacts with |
|---|---|---|---|
| `TimelineFetcher`, `TimelineCursor` | last timer tick, reachability, token, paused; `feedCursor`; the one request in flight | tick, reachability, account, pause; answer, empty completion, failure; fold of a page into the cursor | `TwitterApi`, `TwitterAccount`, `Reachability`, both timeline view models |
| `TwitterApi` | none | a request per list, user or members; bundled files in local mode | Alamofire |
| `TwitterAccount` | status, token in `UserDefaults` | token request, grant, refusal | every view model |
| `ListTimelineViewModel` + controller | Realm's tweets, rows | write a page, take a change set | fetcher, Realm, table |
| `PersonTimelineViewModel` + controller | accumulated tweets, title | append a page, end after an error | its own fetcher |
| `ListMembersViewModel` | members | one request per token | `TwitterApi` |
| `Navigator`, app delegates | the screens | open anew, relaunch | all view models |
| `ImageView.setImage`, cells | the picture of a cell | load in the background | `URLSession` |

Hard: four sources start requests and each cancels the one in flight; reachability does so on a queue of its
own, and only RxSwift's locks keep it from a reply that the main thread is in the middle of; an answer's cursor shapes
the next request; Realm's writes may fail after the cursor has moved; the cursor is lost at a
relaunch and Realm is not; the stream may end for good.
Correct when: the cursor brackets what was emitted, no request is made with an older cursor and no stale answer is taken, what was emitted
is stored and what is stored is shown, a ready app fills its list, the title does not lie.

### Todo

| Component | State | Operations | Interacts with |
|---|---|---|---|
| `TaskService` | tasks with a uid each | create, delete, update, toggle, seed; statistics | Realm |
| `SceneCoordinator` | UIKit's controllers, `currentViewController` | root, push, modal, pop; delegate callbacks | UIKit |
| `TasksViewModel`, controller, cell | rows, counts, executing actions | +, select, delete, check box, notifications | both of the above |
| `EditTaskViewModel`, `PushedEditTaskViewModel` and controllers | the task edited | OK, cancel, typing | both of the above |
| `Action` (vendored) | executing or not | run once at a time | the buttons |

Hard: rows are live Realm objects refreshed when Realm notifies, some time after a write, so touches come
in between; three observers of one change are called one after the other; the coordinator keeps
its own idea of what is on the screen while the user has back buttons, drags that may be cancelled, and swipes.
Correct when: no handler reaches a deleted object through an editor, the counts and the rows are
exactly the store's once notified, uids sort tasks by age, the coordinator acts on the screen
the user sees, buttons come back.

### RxGithub

| Component | State | Operations | Interacts with |
|---|---|---|---|
| `SearchViewModel` + controller | throttle window, last text, query in flight, results on their way, rows | type, end editing, answer, failure, show, select | `GithubService`, `Network` |
| `Network`, `GithubService` | requests | answer on `Network.Queue` | Alamofire |
| `ProfileViewModel` + controller | the user | show comments | search, comments |
| `CommentsViewModel`, `CommentService` + controller | field, latest text, button, rows | edit, submit, open, close, snapshots | Firebase client |
| Firebase Database client (vendored, `Pods/FirebaseDatabase`) | pending writes, server snap, event snap, listens, outstanding puts, held-back answers, connection | set, observe, remove; connect, lose, restore; data, answers | the worker queue, the main queue, the server |
| `UserCellViewModel`, `UserCell` | subscription and picture of a cell | bind, reuse, load | `Network`, the main queue |

Hard: answers come on a background queue and are shown later on the main queue; a touch comes in
between, and a row is looked up by its index. A comment is shown before the server has it: its
acknowledgement or refusal, data of other clients, lost connections and screens that close come in
any order, on two queues. A cell is another row's while its old picture is still loading.
Correct when: results come in the order of the queries, the last one arrives, and the user whose
row was touched is the one whose profile opens; the list of comments is what the server told under
the writes it has not settled, and in the end what the server has; the empty text is never posted;
no row shows another user's picture.

### Match App

`MatchesViewModel` (all matches, the filtered ones, favourites, a loading flag), `MatchcastViewModel`
(the comments of one match), `MatchesDao` (favourites in Realm), `MatchesService` (requests).
The target does not compile at this commit (for example `MatchesViewModel.swift:22`, `:60`,
`:73`, `:175`). Hard: late live scores after a filter has changed, a loading flag shared by two
requests, favourites that are only saved on a notification nothing posts.

Vendored code under `Pods` is, but for the Firebase client, not a component of its own: what its operators
do was read from their source and is part of the action of the app that calls them. A few of its files
(`Throttle.swift`, `ObserveOn.swift`, `MainScheduler.swift`, `UISearchBar+Rx.swift`, `Action.swift`,
`RxTableViewSectionedAnimatedDataSource.swift`) are the place where an app's behaviour is decided
and are named as such.

## 2. Modules

| Module | Models | Extended by |
|---|---|---|
| `TimelineFetcher` | the fetcher, its cursor and requests | `ListTimeline`, `PersonTimeline`, `TimelineFetcherProofs`, `MCTimelineFetcher` |
| `ListTimeline` | account, Realm and table over a list's fetcher | `ListTimelineProofs`, `MCListTimeline` |
| `PersonTimeline` | the person screen over a user's fetcher | `PersonTimelineProofs`, `MCPersonTimeline` |
| `TaskService` | the task store | `TodoApp` |
| `SceneCoordinator` | the coordinator over UIKit | `TodoApp`, `MCSceneCoordinator` |
| `TodoApp` | all screens of Todo, composing the two | `TodoProofs`, `MCTodoApp` |
| `SearchScreen` | RxGithub's search and profile | `SearchScreenProofs`, `MCSearchScreen` |
| `UserCells` | the pictures in the cells of the users found | `UserCellsProofs`, `MCUserCells` |
| `SyncTree` | the Firebase client's caches, as operators | `RealtimeDatabase`, `LatencyCompensation`, `SyncTreeProofs` |
| `RealtimeDatabase` | the Firebase client, its queues and connection, and the server | `CommentsScreen` |
| `CommentsScreen` | RxGithub's comments over that client | `CommentsProofs`, `MCCommentsScreen` |
| `LatencyCompensation` | the abstract promise of the client to an observer | instantiated by `CommentsScreen` |

`MC*` modules are the instances TLC runs; `*Proofs` modules hold the theorems. An operator whose
name extends that of another (`AdvanceKeepsLast` beside `Advance`) is the same code with a plausible
bug; no specification uses it, it is there to see that the properties notice.

### TimelineFetcher

`combineLatest` keeps the last value of the timer (`ticked`), `Reachability` (`reach`), the token
(`token`: its presence) and `paused`. Any of them emitting runs `Refetch`: if all are there,
reachable and not paused, `withLatestFrom(feedCursor)` and `flatMapLatest` put a request with the
current cursor in flight in place of the old one. `Respond` is `responseJSON` with `unboxMany`
(`Garbled` tweets are dropped), `Reduce` one step of `currentCursor`'s reduce, `Deliver` the
emission with `bind(to: feedCursor)`; a reply is split into steps so that the fold is checked in every order
of the page.

Timer, token, pause and replies are the main thread's. Reachability is not: its blocks run on a private serial queue
(`Reachability.m:182`), and `Reachability+Rx.swift:29` passes them on from there. Three recursive locks meet: that of `combineLatest`
(held by an event until it is passed on), of `withLatestFrom` (held from reading `feedCursor` until `flatMapLatest` has switched; taken
by the bind of a reply to `feedCursor`), and of `flatMapLatest` (held by a reply from its arrival until `timeline`'s subscribers have run;
taken by `nextElementArrived` in order to switch). So an event of the reachability queue is two steps: `ReachabilityChanged` may come at any
time, in the middle of a reply too, and takes the first two locks with the cursor it has read (`refetching`; `SourcesFree` says they are free); `Switch`
needs the third (`Idle` says the main thread is in no reply). A reply in turn can only be delivered when `SourcesFree`. If both have begun, each
waits for the other for ever: `Stuck`, which is reachable in the model as in the code. From there only a relaunch leads on. An event of the main
thread takes all three locks without meeting a reply of its own (`Refetch`); if it has to wait for the queue's, it is the later event of the two.

In local mode a bundled file answers within the request, on the thread that makes it and under the locks it holds. That is one of the histories of the model
(the reply's steps follow the switch at once); those in which such an answer meets the other thread are more than the code can do, which only makes the safety properties stronger.

`CompleteEmpty` is a bundled file that is missing in local mode, `RequestFails` an
error: nothing catches it and the stream is dead (`live`) until the screen or the app is opened
again (`Reopen`). This is the release build; a debug build stops in `bind(to:)` at the same point, which
differs only in what cannot be done before `Reopen`. `Window` is the difference between
the two providers: `timeline(of: list)` sends `max_id` and `since_id` together, `timeline(of: username)`
sends neither. `maxId` is an Int64: `MaxInt64` bounds the cursors, and the type invariant says
neither end leaves it.

### ListTimeline and PersonTimeline

`ListTimeline` adds `TwitterAccount` (`oauth` in flight, `saved` token, `account` status; a refusal is
never retried), `Realm.rx.add(update: true)` after the cursor (`DeliverAndStore`; once the disk is full the write may be
lost, with no handler for its error) and the change notification (`Notify`). `Relaunch`
keeps Realm and `UserDefaults` only. `PersonTimeline` appends each page (`scan`), drives title and table, and ends
after an error with an empty page (`asDriver(onErrorJustReturn:)`).

### TaskService, SceneCoordinator, TodoApp

A task is a handle (the Realm object, never used again) with its uid; titles are blank or not. The
uid of a new task is the largest plus one, so the uid of a deleted newest task is given out again,
and an empty realm is seeded at the next launch, by one write per default task whose error is dropped
(`SeedsWritten`). `withRealm` swallows a failing write (`WriteFails`); `createTask` then answers with an error.

`stacks` is UIKit: one entry per navigation controller, each presented over the one before, with
its number of view controllers. `current` is `currentViewController` as a position, `Gone`
when it is no longer on the screen. `Push`, `Present`, `Dismiss` and `PopViewController` are the coordinator's,
`Back`, `DragBack` and `Swipe` the user's (the delegate is told of the first two and nobody of the third), `Shown` and `Dismissed` the
completions. `DragBack` is the begin of an interactive pop: `willShow` makes the lower controller current at once; `DragEnds` pops or, when the gesture is
cancelled, does not, and then `current` stays below what is on the screen. A fatal error ends the program (`fate`). UIKit ignores touches while a transition
runs, so no operation starts then.

`TodoApp` composes the two: each of its actions is a whole handler, for example `Cancel` deletes the task,
pops and marks the change for notification. After a write (`dirty`) Realm calls its three observers in one
turn (`BeginTurn`, then `NotifyRows`, `NotifyAll`, `NotifyTodo` in any order); the sections reach the data source in the same call, since `observeOn(MainScheduler())`
runs in place on the main thread when nothing waits in that scheduler. `NewFails` is the + whose write fails: no editor comes. `DragPushed` and `EndDrag` are the drag of the pushed editor. A touch on a row of a deleted task raises Realm's exception (`Invalidated`), which ends the program. `creating` and `opening` are
the executing states of the two `Action`s that wait for a transition.

### SearchScreen

`Emit` is the throttle with `latest: false` (what comes within the 300 ms window is dropped, what passes opens
it) followed by `distinctUntilChanged` and `flatMapLatest` (`SearchUser`: the answer to the query before is no
longer taken). The bar's first text is lost, as it is bound before anything has subscribed. `Answer` runs on `Network.Queue`
and only appends to the main queue's work; `Show` is one turn of it, for the table, the label and the look-up of `presentProfile`. `AnswerFails` is
`catchErrorJustReturn`. Tapping the comments button ends the program: `Main.storyboard:334` connects an outlet,
`inserCommentField`, that `CommentsViewController` does not have. `CommentsScreen` models what the code does once
that line is out of the way; it is not composed with the search.

### UserCells

A cell keeps its subscription (`binding`) when it leaves the screen; `Appear` is `prepareForReuse`, which replaces the bag, and
`bindViewModel`, which subscribes to `just(placeholder).concat(network.image)` on the `MainScheduler`. That scheduler runs an event at
once if nothing waits in it, and queues it otherwise: both are in `Appear`. `Answered` is the end of a request on `Network`'s
queue: its event goes to the main queue, and if the subscription is disposed at that moment it is dropped or not, since the check and the
disposal race. `Deliver` is one turn of the main queue, where a disposed subscription's event does nothing. A failure ends with
the placeholder (`catchErrorJustReturn`).

### SyncTree, RealtimeDatabase, CommentsScreen, LatencyCompensation

A user's comments are one node of the database; each comment is a child with the value `true`. So every write of the app sets a path to
`true`, and a write to the node itself (a text of slashes only) replaces the list by a leaf. `SyncTree` has what
`FCompoundWrite`, `FWriteTree`, `FViewProcessor` and `FSyncTree` compute: the tree of visible writes (`AddWrite`, `VisibleWithout`,
`LayerTree`) and the event snap after a write, after data, after an acknowledgement and after a revert, each in the code's own way, by steps.

`RealtimeDatabase` gives them their order. The app's calls are jobs of the serial queue `FirebaseWorker` (`work`: `SetValue`, `AddObserver`,
`RemoveObserver`), on which the connection's callbacks run too (`OnDataUpdate`, `OnPutAnswer`, `OnListenAnswer`, `AckPuts`); value events go
to the main queue (`events`). `Retry`, `TokenFetched`, `TokenFailed`, `Ready`, `Disconnect` and `Kill` are the states of `FPersistentConnection`: a lost connection
loses both channels; one that the server shuts down (`onKill`) leaves the client "interrupted", disconnected with a reason that `shouldReconnect` never loses. Else it connects again, and `RestoreState` listens again and sends every outstanding put again, in order. An answer to a put that comes while a listen is
unanswered is held back (`putsToAck`) until the listen's answer (`acking`). The server is not in the repository: `Serve*` and `RemoteChange`
say no more than what the client relies on (requests in order, a change told before the put that made it is answered, data for a listener whose hash
differs), and it may refuse any put or listen.

`CommentsScreen` is the field, the button and the table. Emptying the field from the code emits no text, so `latest` and `enabled` may
be older than what the field shows; a tap runs two handlers in either order (`SubmitAfterResign`, `SubmitBeforeResign`); the observer drops a snapshot
that is not a dictionary (`IsDictionary`: an empty list, a value, or the array Firebase makes of small integer keys).

`LatencyCompensation` is the abstract specification: an observer sees what the server told under the pending writes in their order, computed
from nothing (`See`), and writes settle oldest first. `Compensates` is the refinement (`INSTANCE ... WITH`) that maps the client's caches to it.

## 3. Runs

| Run | Instance | States | Shows |
|---|---|---|---|
| `list_refetch` | `TimelineRefetch.cfg` | | a new tweet is never fetched after the first page (expected violation) |
| `list_screen` | `ListTimeline.cfg` | 76 000 | cursor, page and request invariants with two threads; account, Realm and table; refusals, full disk, relaunches; the list fills |
| `list_write_lost` | `ListTimelineLost.cfg` | | a page whose write failed is gone (expected violation) |
| `person_screen` | `PersonTimeline.cfg` | 7 200 | rows, repetition of older tweets, title |
| `person_duplicates` | `PersonTimelineDuplicates.cfg` | | rows repeat (expected violation) |
| `scene_coordinator` | `SceneCoordinator.cfg` | 3 900 | the current controller is on the topmost level or gone; a push is seen |
| `todo_app` | `TodoApp.cfg` | 832 000 | with swipes, cancelled drags and failing writes: editors and live tasks, exact notifications, uids by age, the coordinator's idea of the screen; + comes back |
| `todo_push_crash` | `TodoAppPush.cfg` | | after a swipe the next selection is fatal (expected violation) |
| `search_screen` | `SearchScreen.cfg` | 63 000 | order of results, profile of the row touched, the last query arrives |
| `comments_screen` | `CommentsScreen.cfg` | 795 000 | no empty comment, writes accounted for and settled oldest first, no flicker, latency compensation, a screen that stays open is right in the end |
| `comments_stranded` | `CommentsStranded.cfg` | | an answer held back for a listen that is lost spoils the tree of visible writes (expected violation) |
| `user_cells` | `UserCells.cfg` | 294 000 | no foreign picture in a row; a row that stays ends with its own |

Bounds and why they are enough:

- *Fetcher*: six identifiers with gaps and neighbours (1 2 4 5 7 8; `maxId` is the oldest minus one, so both matter), one that
  does not parse, pages of three, so that a page can be full, partial, all garbled or empty. `MaxInt64` is only
  larger than every identifier. The person screen has four identifiers: its variables multiply the states. `MaxRows` = 7 admits a first page, a repeated one and part of a third.
- *Coordinator*: four levels and depth four, two more than the app reaches.
- *Todo*: two seeds and `MaxTasks` = 4, so that seeds are written in full, in part or not at all, tasks are created, the newest deleted and its uid given
  out again, and an emptied realm is seeded anew and added to.
- *Search*: three texts (empty, two others), four queries, answers of up to two users: a query can be typed again after
  another, be in flight, on its way and shown at once.
- *Cells*: two cells, two users, `MaxBindings` = 3: a cell is taken again while its first picture loads, with another cell's events in the
  queue before and behind.
- *Comments*: two comments, one of them a numeral; three screens opened or comments submitted (`MaxCalls`), one fault, one change by another client. So a
  comment can be pending over another, over the whole list replaced, be refused, sent twice, held back and overtaken. What the bound hides is known, for the
  theorems of section 4 say what alone can break `Compensates` and `AckIsInvisible`. With four calls the history of `comments_stranded` fits in (open, submit, close,
  submit after a lost connection): a state is `Stranded`, writes no longer settle oldest first, and `Compensates` fails by the same defect; `AckIsInvisible` follows
  with five. A `Misled` client takes about six: a list replaced by a leaf, a refused listen and another client's change, so that a new view takes
  an old message for its own. TLC also went, once, through the states that are neither: with four calls, one fault and one change by another client (12.3 million states) for `SnapInv` and
  `Compensates`, and with four calls, two faults and no other client (3.3 million) for the invariants of `AckIsInvisible`.

`CHECK_DEADLOCK FALSE` is set where the program can really stop: after a fatal error, or when a bound
is used up.

Fairness, and why the code justifies it:

- the timer of the fetcher repeats for ever (weak);
- a request in flight ends if there is one again and again (strong, `RequestEnds`): each tick replaces the request, and an answer slower than 30 s
  is lost, but not always. It may end in an answer, an error or, if a bundled file is missing, in nothing: that it ends in an answer is not assumed, and the
  properties that need it have the premise `<>[][~CompleteEmpty]`. A Realm notification gets its turn between replies (strong);
- the reachability queue goes on when `flatMapLatest`'s lock is free (weak, `Switch`). Nothing is assumed about `Stuck`: no fairness leads out of it, and the liveness properties
  of both screens have the premise `[]<>~Stuck`;
- the main thread finishes what it has started: the reduce, the delivery (weak);
- UIKit ends its transitions, Realm calls its observers, a search is answered or times out (weak);
- the token request is answered one way or the other (weak);
- a picture's request is answered or fails, and the main queue is served (weak);
- the Firebase worker, the main queue and the server never stop serving, and a lost connection is tried again for ever while nothing interrupts the client (weak, one condition each:
  the worker is a serial queue, so its jobs and messages need no fairness among themselves). After `Kill` no action of `Connecting` is enabled, so nothing is assumed there, and
  `ScreenSettles` has the premise that the connection is not interrupted. Faults are bounded, so a connection lasts in the end.

Nothing the user does is fair, the end of a drag included.

The five expected violations are what the code does against what the repository says of it; PROJECT.json quotes the lines. In short:
a list never re-fetches anything new; a failed write loses a page for the session; a person's rows repeat
every 30 s although the data source needs them unique; a sheet swiped away (the default for iOS 13) leaves
the coordinator with a controller that is gone, so that the next push is fatal; and `onDisconnect` forgets that a listen was unanswered but keeps
the answers held back for it, so that, the screen being closed, a later write settles first and `FWriteTree` keeps a comment in its tree that no
pending write makes.

## 4. Proofs

Every theorem is proved for all values of the constants that satisfy the named assumptions beside them. No module uses a `RECURSIVE` operator.

- `TimelineFetcherProofs`. The inductive invariant is `IInv`: types, `CursorBrackets`, `ReplyBrackets`, `RequestIsCurrent` and
  `OnlyPublished` together. `CursorBrackets` alone is not inductive: `Deliver` sets the cursor from the accumulator, so one
  must know that the accumulator brackets what was emitted and what has been reduced so far, and that needs the reply to have
  come from a request made with the current cursor. `RequestIsCurrent` speaks of the request in flight and of the one
  the reachability queue is making (`refetching`): that the second stays current is what the lock of `withLatestFrom` gives, for `Deliver` waits for it, and that `ReplyBrackets` sees no
  request is what the lock of `flatMapLatest` gives, for `Switch` waits for that. Lemmas on `Advance` and `Window` carry the arithmetic.
  `OnePage` follows, under `CursorSent`: since the window of a cursor lies strictly between its own ends, a second page is empty.
- `ListTimelineProofs`. `ListImplementsFetcher`: every step of the screen is one of the fetcher's or leaves it alone, so the fetcher's `IInv` holds in the screen.
  With `AccountInv` (`FetchNeedsAccount`, and no token while one is asked for) it gives `ListInv` and from it `FetchNeedsAccount`, `RealmHolds` and `RealmFrozen`,
  the last by `OnePage`: Realm is only written by a delivery that brings a page.
- `PersonTimelineProofs`. `PersonImplementsFetcher` is as for the list. `RowsAreDelivered` and `OlderShownAsOften` are about sequences that grow by a whole page. A page is put in order by
  rank (`NewestFirst`), and `NewestFirstEnumerates` shows by a pigeonhole argument on ranks that it shows each of its tweets exactly once; so a delivery adds one to the count of each
  tweet of the page (`ShownTimes`). `OlderShownAsOften` is not inductive: one must know that a page in flight that shows a tweet shows every older one (`PagesReachBack`),
  which holds when the whole timeline fits in a page.
- `TodoProofs`. For the store, `TaskInv` = types and `UidsFollowAge`: the next uid is above every live uid and at most the number of tasks created.
  For the coordinator, `SceneInv` = types, `CurrentOnTopLevel`, `DismissesASheet` (a dismissal runs only over a presenter; a
  `Dismissed` needs it to land on an existing level) and `DragsFromCurrent` (while a drag runs, the topmost navigation controller has a controller to lose and `current` is below it). Every step of the app is one of `TaskSpec` or leaves the store alone, and one of `SceneSpec` or leaves the screen alone:
  `AppImplementsTaskService` and `AppImplementsSceneCoordinator`. The app inherits `UidsFollowAge` by the first. `EditedTaskLives` needs
  `TasksScreenEditsNone`: on the tasks screen nothing is edited, so a deletion there cannot hit the editor's task. `NotifiedIsExact` is inductive as it stands, with the type of `turn` (`NotifyInv`).
  `CurrentOnScreen` needs `ShapeInv`: the screen is the tasks alone, a pushed editor over them, or a sheet with an editor, the coordinator's controller is gone only over the tasks alone,
  and over a pushed editor it is the editor or, from a drag on, the tasks below it.
- `SearchScreenProofs`. `SearchInv` = types, `Ordered` (shown, on their way and in flight in the order of their numbers, the one in flight the newest) and
  `LookedUp` (look-up and table hold the same result). `ResultsInOrder` and `ProfileIsTapped` follow step by step.
- `UserCellsProofs`. `CellsInv` = types, `PictureIsOwn`, `Bound` (the subscription in a shown cell's bag loads the picture of the cell's user) and `EventsAreOwn` (an event
  carries the placeholder or its subscription's picture). Neither of the last two is about a picture, and without them `Deliver` could bring any.
- `SyncTreeProofs`. For any list of comments and any sequence of pending writes: the tree after a new write is what layering all of them gives (`AddWriteLayers`),
  and so is the tree after the oldest was settled (`OldestWriteLeaves`), whether `removeWriteId` leaves it alone, cuts one path or builds it again. The key lemma
  is the position of the last write of the whole list: only what comes after it counts (`LayersOf`, `TailLayers`). And the event snap, which `FViewProcessor` updates by steps, is
  what computing it again from the server snap and the visible writes gives (`Derived`): after a write (`OverwriteDerives`), after data (`ServerDerives`), after a listen's
  answer (`ListenDerives`), after a refused write (`RevertDerives`, the case of the old leaf included) and after an accepted one (`AckDerives`), here except for a comment that is the only write over a
  leaf: the code then removes a child where nothing tells it to go back to the leaf.
- `CommentsProofs`. `InputInv` (an enabled button is over a text, a focused field shows the latest text, no job in the queue posts the empty one) gives `EmptyNeverSubmitted`.
  `WritesInv` (ids are distinct and below the counter; pending = outstanding plus held back, without overlap) gives `WritesAccounted`, through reconnections and answers that come
  twice. `LayeredWhileOldestFirst` combines the two with the lemmas on trees: in every behaviour where writes settle oldest first, `VisibleIsLayered` holds. On these rest, one
  on the other:
  - `ClientInv` adds the types and `LinkInv`: `unackedListensCount` is the number of listens and answers to listens on the two channels, a lost connection has nothing on
    its way, held-back answers are settled only on a connection with no unanswered listen. Without it `RTypeOK` is not inductive: the counter could fall below 0 (`CommentsTyped`). `AscendingEnumerates`
    shows that `restoreState` sends every outstanding put once, in order.
  - `OrderInv` (the ids in the two channels, in `putsToAck` and in the write tree ascend, those held back below those outstanding, and every outstanding put is asked for or answered exactly once
    on a connection) gives `SettledInOrder` with `Stranded` as its one exception (`WritesSettleInOrder`), and with the lemmas on trees `LayeredUnlessStranded`: the violation in
    `comments_stranded` has no other cause.
  - `ListenInv` (a view that has not been told the list has its listen, or the answer to it, under way on every connection) and `SnapInv` (the event snap is `Derived`, and empty without a
    view) give the refinement `CachesCompensate`: until a state is `Stranded` or `Misled`, every step of client, screen, channels and server is a step of the promise or leaves it alone.
    Both conditions are needed, as TLC's counterexamples beyond the run's bounds show.
  - `AckIsInvisible` is about data that must overtake an answer (`AckUnseenUnlessStranded`). `WatchInv` says when the server watches for the view's own listen; `HashInv` and `EmptyInv` why a
    hash that equals the server's list is that of a list the client has in full, though its view may have been replaced since; `AcceptInv`
    that the server's list shows each write it has accepted, as far as later ones let it be seen (`Kept`); and `HearInv` that from there the messages on the channel lead the
    client's server snap, one by one, to the server's list, each accepted write shown before its answer comes (`Tracked`: the nodes in between are its witness). The theorem follows by
    `ShownWithout`: the oldest write, once the server's data shows it, leaves nothing to see when it goes. The same invariants exclude `Misled` (`NeverMisled`), hence
    `AloneCompensates`: with no other client only stranded answers break the promise.

Model-checked only: every liveness property (`StoredIsShown`, `ListFills`, `TitleSettles`, `CreatingEnds`, `LastQueryShown`, `PictureSettles`, `ScreenSettles`), since the prover does not do
fairness or ENABLED. Every other property of a passing run is stated by a theorem. Two of them have a condition, which the properties need beyond the run's bounds: `Compensates` holds until a state is
`Stranded` or `Misled`, `AckIsInvisible` until one is `Stranded`.

## 5. Not modelled

- Match App does not compile at this commit, so there is no program a model could be faithful to.
- Tweetie's pictures (`ImageView.setImage`): a load is neither cancelled nor checked, the last to end wins. There is no handler that keeps an order and no text that promises one.
- Tweetie's list members: one request per token, one relay; after a failure the binding has ended and no step is left.
- The Mac target of Tweetie: the same view models under AppKit views.
- The parts of the Firebase client the app does not use: merges, transactions, filtered queries, persistence, `onDisconnect` operations.
- A listen the server revokes after it has accepted it (`onListenRevoked`, `FPersistentConnection.m:638-643`, `953-956`): the model's server refuses a listen only when it is asked.
- Comments whose text is more than one path component: one with `.`, `#`, `$`, `[` or `]` makes `child:` throw, which ends the program (`FIRDatabaseReference.m:101-107`, `FValidation.m:26`,
  `76-85`), and one with a slash inside writes below a comment. `PathOf` has the texts of one component and of none.
- What follows a killed connection (`onKill`): the client does not reconnect as long as it lives; the model has the state, and `ScreenSettles` claims nothing about it.
- A deadlock of the two threads of Tweetie is modelled up to the point where both wait (`Stuck`); it is reachable, and the liveness properties claim nothing if it lasts.
- The end of RxGithub's process: its state is in memory only, nothing survives about which a property could be stated.
- With no screen open, a held-back answer stays held back: nothing frees it but a listen's answer, and `ScreenSettles` does not claim otherwise.
- Identities of rows: two deleted rows share the identity 0 and the data source falls back to a reload.
- Dates, titles, texts and layout: only that a title is blank or a text differs matters to what happens.
- A second, simultaneous fetcher: each screen has its own, with no state shared but Realm.

## 6. Order of work

1. `TimelineFetcher` with proofs; 2. `ListTimeline`, `PersonTimeline`; 3. `TaskService`, `SceneCoordinator`, `TodoApp` with proofs and both refinements;
4. `SearchScreen` with proofs; 5. `SyncTree`, `RealtimeDatabase`, `CommentsScreen`, the promise `LatencyCompensation` and its refinement, with proofs; 6. `UserCells` with proofs;
7. `ListTimelineProofs` and `CurrentOnScreen`; 8. `PersonTimelineProofs`, the event snap in `SyncTreeProofs`, and in `CommentsProofs` the types, the order of writes, the refinement
`CachesCompensate` and `AckIsInvisible`.

What would add most next: the server's promises as an abstract specification of their own, refined by `Serving`, so that the proofs about the client cite only those; a smaller `CommentsProofs`, its lemmas on
channels moved to a module of their own; and Match App once its target compiles.
The runs of a component are merged with those of the module that composes it where the questions are the same.
