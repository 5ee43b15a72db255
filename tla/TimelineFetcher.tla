--------------------------- MODULE TimelineFetcher ---------------------------
(***************************************************************************)
(* Tweetie's TimelineFetcher: four sources (a 30 s timer, reachability,    *)
(* the account's token, the paused relay) are combined; every combined     *)
(* emission that is reachable and not paused starts a request with the     *)
(* current feedCursor, cancelling the request in flight (flatMapLatest).   *)
(* A reply is parsed, folded into the cursor and emitted by timeline.      *)
(*                                                                         *)
(* Timer, token, pause and replies run on the main thread, reachability on *)
(* its own queue, and three locks keep them apart:                         *)
(*   - combineLatest's, held by an event of a source until it is passed on,*)
(*   - withLatestFrom's, held from reading feedCursor until flatMapLatest  *)
(*     has switched, and wanted by the bind of a reply to feedCursor,      *)
(*   - flatMapLatest's, held by a reply from its arrival until timeline's  *)
(*     subscribers have run, and wanted by the switch to a new request.    *)
(* An event of the main thread takes the first two and switches in one     *)
(* step; one of the reachability queue may meet a reply in between.  (In   *)
(* local mode the answer comes within the request, on the thread that      *)
(* makes it and under its locks: such histories are among those below.)    *)
(*                                                                         *)
(* The reduce over the reply's tweets is one step per tweet, in any order. *)
(***************************************************************************)
EXTENDS Integers, FiniteSets

CONSTANTS
    Ids,        \* tweet identifiers the server may publish
    Garbled,    \* identifiers of tweets whose JSON Unbox rejects
    PageSize,   \* tweets in one server response at most
    MaxInt64,   \* Int64.max, the maxId of the empty cursor
    CursorSent, \* TRUE: timeline(of: list); FALSE: timeline(of: username)
    NoRequest, NoReply

ASSUME IdsAssumption == /\ MaxInt64 \in Nat
                        /\ Ids \subseteq 1 .. (MaxInt64 - 1)
                        /\ IsFiniteSet(Ids)
ASSUME GarbledAssumption == Garbled \subseteq Ids
ASSUME PageSizeAssumption == PageSize \in Nat \ {0}
ASSUME CursorSentAssumption == CursorSent \in BOOLEAN

Cursors == [maxId : 0 .. MaxInt64, sinceId : 0 .. MaxInt64]

ASSUME NoRequestAssumption == NoRequest \notin Cursors
ASSUME NoReplyAssumption ==
    NoReply \notin [left : SUBSET Ids, page : SUBSET Ids, acc : Cursors]

VARIABLES
    published,  \* the server's timeline
    ticked,     \* the timer has fired since the subscription
    reach,      \* latest value of Reachability.rx.reachable
    token,      \* the account has emitted an .authorized status
    paused,     \* value of the paused relay
    live,       \* timeline has not terminated with an error
    cursor,     \* feedCursor
    request,    \* cursor of the request in flight, or NoRequest
    refetching, \* cursor the reachability queue has read and carries to
                \* flatMapLatest, or NoRequest: while it is set the queue
                \* holds the locks of combineLatest and withLatestFrom
    reply,      \* the reply being reduced, or NoReply
    delivered   \* tweets timeline has emitted since the fetcher was made

sources == <<ticked, reach, token, paused>>
vars == <<published, sources, live, cursor, request, refetching, reply,
          delivered>>

-----------------------------------------------------------------------------
(* TimelineCursor and currentCursor *)

NoCursorNegative == [maxId |-> MaxInt64, sinceId |-> -1]

NoCursor == [maxId |-> MaxInt64, sinceId |-> 0]

AdvanceKeepsLast(c, t) ==
    [maxId |-> IF t < c.maxId THEN t - 1 ELSE c.maxId, sinceId |-> t]

\* The closure of currentCursor's reduce.
Advance(c, t) ==
    [maxId   |-> IF t < c.maxId THEN t - 1 ELSE c.maxId,
     sinceId |-> IF t > c.sinceId THEN t ELSE c.sinceId]

WindowSinceOnly(c) ==
    IF CursorSent /\ c # NoCursor
    THEN {t \in published : c.sinceId < t} ELSE published

WindowInclusive(c) ==
    IF c # NoCursor THEN {t \in published : c.sinceId <= t} ELSE published

\* The tweets a request with cursor c asks for.
Window(c) ==
    IF CursorSent /\ c # NoCursor
    THEN {t \in published : c.sinceId < t /\ t <= c.maxId}
    ELSE published

\* A response holds the newest tweets asked for.
Newest(W) == {t \in W : Cardinality({u \in W : u > t}) < PageSize}

UnboxManyAll(P) == P

\* Tweet.unboxMany with allowInvalidElements.
UnboxMany(P) == P \ Garbled

-----------------------------------------------------------------------------
\* The main thread is not in a reply: flatMapLatest's lock is free.
Idle == reply = NoReply

\* The reachability queue is not in the combined stream: the locks of
\* combineLatest and withLatestFrom are free.
SourcesFree == refetching = NoRequest

Ready == ticked /\ token /\ reach /\ ~paused

Init ==
    /\ published \in SUBSET Ids
    /\ ticked = FALSE
    /\ reach \in BOOLEAN
    /\ token \in BOOLEAN
    /\ paused = FALSE
    /\ live \in BOOLEAN
    /\ cursor = NoCursor
    /\ request = NoRequest
    /\ refetching = NoRequest
    /\ reply = NoReply
    /\ delivered = {}

\* Someone tweets: identifiers increase with time.
Publish(t) ==
    /\ \A u \in published : u < t
    /\ published' = published \cup {t}
    /\ UNCHANGED <<sources, live, cursor, request, refetching, reply,
                   delivered>>

\* An event of the main thread: the combined stream passes it on to
\* flatMapLatest, if it may, before the thread does anything else.
Refetch ==
    /\ Idle /\ SourcesFree
    /\ request' = IF live /\ Ready' THEN cursor ELSE request
    /\ UNCHANGED <<published, live, cursor, refetching, reply, delivered>>

TickOnce ==
    /\ live /\ ~ticked
    /\ ticked' = TRUE
    /\ UNCHANGED <<reach, token, paused>>
    /\ Refetch

Tick ==
    /\ live
    /\ ticked' = TRUE
    /\ UNCHANGED <<reach, token, paused>>
    /\ Refetch

AccountAuthorized ==
    /\ token' = TRUE
    /\ UNCHANGED <<ticked, reach, paused>>
    /\ Refetch

SetPaused(p) ==
    /\ paused' = p
    /\ UNCHANGED <<ticked, reach, token>>
    /\ Refetch

\* The queue of Reachability calls its block, whatever the main thread does:
\* an event that passes the filter reads the cursor and goes on.
ReachabilityChanged(r) ==
    /\ live /\ SourcesFree
    /\ reach' = r
    /\ UNCHANGED <<ticked, token, paused>>
    /\ refetching' = IF Ready' THEN cursor ELSE NoRequest
    /\ UNCHANGED <<published, live, cursor, request, reply, delivered>>

SwitchInReply ==
    /\ ~SourcesFree
    /\ request' = IF live THEN refetching ELSE request
    /\ refetching' = NoRequest
    /\ UNCHANGED <<published, sources, live, cursor, reply, delivered>>

\* nextElementArrived gets flatMapLatest's lock: the request is sent, unless
\* the stream has failed meanwhile.
Switch ==
    /\ ~SourcesFree /\ Idle
    /\ request' = IF live THEN refetching ELSE request
    /\ refetching' = NoRequest
    /\ UNCHANGED <<published, sources, live, cursor, reply, delivered>>

\* responseJSON hands over an array of tweets.
Respond ==
    /\ Idle /\ request # NoRequest
    /\ LET page == UnboxMany(Newest(Window(request)))
       IN  reply' = [left |-> page, page |-> page, acc |-> cursor]
    /\ request' = NoRequest
    /\ UNCHANGED <<published, sources, live, cursor, refetching, delivered>>

\* No bundled file for the request: it completes without an element.
CompleteEmpty ==
    /\ Idle /\ request # NoRequest
    /\ request' = NoRequest
    /\ UNCHANGED <<published, sources, live, cursor, refetching, reply,
                   delivered>>

\* requestFailed errors the whole stream: nothing catches it.  (A debug build
\* stops in bind(to: feedCursor), which here is the same until Reopen.)
RequestFails ==
    /\ Idle /\ request # NoRequest
    /\ request' = NoRequest
    /\ live' = FALSE
    /\ UNCHANGED <<published, sources, cursor, refetching, reply, delivered>>

Reduce(t) ==
    /\ ~Idle /\ t \in reply.left
    /\ reply' = [left |-> reply.left \ {t}, page |-> reply.page,
                 acc  |-> Advance(reply.acc, t)]
    /\ UNCHANGED <<published, sources, live, cursor, request, refetching,
                   delivered>>

DeliverUnlocked ==
    /\ ~Idle /\ reply.left = {}
    /\ cursor' = reply.acc
    /\ delivered' = delivered \cup reply.page
    /\ reply' = NoReply
    /\ UNCHANGED <<published, sources, live, request, refetching>>

\* scan emits into feedCursor, which needs withLatestFrom's lock, then
\* timeline's other subscribers run.
Deliver ==
    /\ ~Idle /\ reply.left = {} /\ SourcesFree
    /\ cursor' = reply.acc
    /\ delivered' = delivered \cup reply.page
    /\ reply' = NoReply
    /\ UNCHANGED <<published, sources, live, request, refetching>>

\* The view model is dropped and made anew, or the app is relaunched: the
\* cursor lives in memory only.
Reopen ==
    /\ ticked' = FALSE
    /\ reach' \in BOOLEAN
    /\ token' = token
    /\ paused' = FALSE
    /\ live' \in BOOLEAN
    /\ cursor' = NoCursor
    /\ request' = NoRequest
    /\ refetching' = NoRequest
    /\ reply' = NoReply
    /\ delivered' = {}
    /\ UNCHANGED published

Next ==
    \/ \E t \in Ids : Publish(t)
    \/ Tick
    \/ \E r \in BOOLEAN : ReachabilityChanged(r)
    \/ Switch
    \/ AccountAuthorized
    \/ \E p \in BOOLEAN : SetPaused(p)
    \/ Respond
    \/ CompleteEmpty
    \/ RequestFails
    \/ \E t \in Ids : Reduce(t)
    \/ Deliver
    \/ Reopen

Spec == Init /\ [][Next]_vars

RequestEnds == Respond \/ CompleteEmpty \/ RequestFails

\* The timer keeps firing, and a thread that waits for nothing goes on.  A
\* request ends if one is in flight again and again: responses may be slower
\* than the timer, but not for ever.
Fairness ==
    /\ WF_vars(Tick)
    /\ WF_vars(Switch)
    /\ SF_vars(RequestEnds)
    /\ WF_vars(\E t \in Ids : Reduce(t))
    /\ WF_vars(Deliver)

FairSpec == Spec /\ Fairness

-----------------------------------------------------------------------------
(* Properties *)

\* Every variable has the type the Swift declarations give it.
TypeOK ==
    /\ published \subseteq Ids
    /\ ticked \in BOOLEAN /\ reach \in BOOLEAN /\ token \in BOOLEAN
    /\ paused \in BOOLEAN /\ live \in BOOLEAN
    /\ cursor \in Cursors
    /\ request \in Cursors \cup {NoRequest}
    /\ refetching \in Cursors \cup {NoRequest}
    /\ reply \in [left : SUBSET Ids, page : SUBSET Ids, acc : Cursors]
                    \cup {NoReply}
    /\ delivered \subseteq Ids

\* c is the cursor of the tweets in S: its sinceId is the newest of them, its
\* maxId the oldest or the identifier just below it.
Brackets(c, S) ==
    IF S = {} THEN c = NoCursor
    ELSE /\ c.sinceId \in S
         /\ \A t \in S : t <= c.sinceId /\ c.maxId <= t
         /\ c.maxId \in S \/ c.maxId + 1 \in S
         /\ c.maxId < c.sinceId

\* feedCursor always brackets exactly what timeline has emitted, whatever the
\* order of the tweets in the replies, cancellations and re-entries
\* (TimelineFetcher.currentCursor with scan and bind).
CursorBrackets == Brackets(cursor, delivered)

\* Half-way through a reply the accumulator brackets the tweets emitted so far
\* and those of the reply already reduced, no request has been started on any
\* thread, and a list's second reply is empty.
ReplyBrackets ==
    reply # NoReply =>
        /\ request = NoRequest /\ live
        /\ reply.left \subseteq reply.page
        /\ reply.page \subseteq published \ Garbled
        /\ Brackets(reply.acc, delivered \cup (reply.page \ reply.left))
        /\ CursorSent /\ delivered # {} => reply.page = {}

\* A request in flight was made with the cursor of now, and so is the one the
\* reachability queue is about to make, even one that began to be made while a
\* reply was under way: no answer to a question about an older cursor is ever
\* delivered (flatMapLatest, withLatestFrom).
RequestIsCurrent ==
    /\ request # NoRequest => request = cursor /\ Idle /\ live
    /\ refetching # NoRequest => refetching = cursor

\* Both threads wait for each other: the main thread is in a reply, whose bind
\* to feedCursor wants withLatestFrom's lock, and the reachability queue holds
\* that lock and wants flatMapLatest's.
Stuck == ~Idle /\ ~SourcesFree

\* Once a list's first non-empty page is in, no request returns anything and
\* the timeline emits no further tweet until the fetcher is made anew: max_id
\* and since_id are sent together and exclude everything (TwitterApi:105).
OnePagePerFetcher ==
    [][delivered # {} /\ delivered' # {} => delivered' = delivered]_vars

\* timeline emits only tweets the server has published and Unbox accepts.
OnlyPublished == delivered \subseteq published \ Garbled

\* "re-fetch the timeline" (TimelineFetcher.swift:78): a tweet published while
\* the app is ready for good, its requests are answered and no lock is waited
\* for in vain is eventually emitted.
NewTweetsArrive ==
    (<>[](Ready /\ live) /\ <>[][~Reopen /\ ~CompleteEmpty]_vars /\ []<>~Stuck) =>
        \A t \in Ids \ Garbled : t \in published ~> t \in delivered
=============================================================================
