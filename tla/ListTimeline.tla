---------------------------- MODULE ListTimeline ----------------------------
(***************************************************************************)
(* The list screen of Tweetie: TwitterAccount feeds a TimelineFetcher, its *)
(* timeline is written to Realm by ListTimelineViewModel, and the table    *)
(* follows Realm's change notifications.                                   *)
(***************************************************************************)
EXTENDS TimelineFetcher

CONSTANT IsLocal    \* TwitterAccount.isLocal: no key was configured

ASSUME IsLocalAssumption == IsLocal \in BOOLEAN
ASSUME ListAssumption == CursorSent

VARIABLES
    account,    \* the last AccountStatus emitted, "pending" before the first
    oauth,      \* the oAuth2 request is in flight
    saved,      \* UserDefaults holds a token
    diskFull,   \* Realm writes may throw
    stored,     \* the tweets in Realm
    shown       \* the rows of the table

accountVars == <<account, oauth, saved>>
realmVars == <<diskFull, stored, shown>>
lvars == <<vars, accountVars, realmVars>>

\* What a subscription to TwitterAccount.default emits at once.
Subscribed ==
    /\ account' = IF IsLocal \/ saved THEN "authorized" ELSE "pending"
    /\ oauth' = ~(IsLocal \/ saved)
    /\ saved' = saved

LInit ==
    /\ Init
    /\ saved \in BOOLEAN
    /\ token = (IsLocal \/ saved)
    /\ account = IF token THEN "authorized" ELSE "pending"
    /\ oauth = ~token
    /\ diskFull = FALSE
    /\ stored = {}
    /\ shown = {}

TokenGrantedUnsaved ==
    /\ oauth
    /\ AccountAuthorized
    /\ oauth' = FALSE
    /\ account' = "authorized"
    /\ UNCHANGED <<saved, realmVars>>

\* The token arrives: it is saved and emitted.
TokenGranted ==
    /\ oauth
    /\ AccountAuthorized
    /\ oauth' = FALSE
    /\ saved' = TRUE
    /\ account' = "authorized"
    /\ UNCHANGED realmVars

\* The token request fails: .unavailable is emitted, nothing retries.
TokenRefused ==
    /\ oauth /\ Idle
    /\ oauth' = FALSE
    /\ account' = "unavailable"
    /\ UNCHANGED <<vars, saved, realmVars>>

DeliverAndInsert ==
    /\ Deliver
    /\ stored' = IF stored \cap reply.page = {} THEN stored \cup reply.page
                 ELSE stored
    /\ UNCHANGED <<accountVars, diskFull, shown>>

\* timeline's two subscribers: the cursor first, then Realm.rx.add, whose
\* errors nobody handles.
DeliverAndStore ==
    /\ Deliver
    /\ \/ stored' = stored \cup reply.page
       \/ diskFull /\ stored' = stored
    /\ UNCHANGED <<accountVars, diskFull, shown>>

NotifyOnce ==
    /\ Idle /\ shown = {} /\ shown # stored
    /\ shown' = stored
    /\ UNCHANGED <<vars, accountVars, diskFull, stored>>

\* Realm notifies the changeset observable of everything written so far.
Notify ==
    /\ Idle /\ shown # stored
    /\ shown' = stored
    /\ UNCHANGED <<vars, accountVars, diskFull, stored>>

\* The app is relaunched: only Realm and UserDefaults survive.
Relaunch ==
    /\ Reopen
    /\ Subscribed
    /\ shown' = stored
    /\ UNCHANGED <<diskFull, stored>>

\* The disk fills up.
DiskFills ==
    /\ ~diskFull
    /\ diskFull' = TRUE
    /\ UNCHANGED <<vars, accountVars, stored, shown>>

Aside == UNCHANGED <<accountVars, realmVars>>

FetcherStep ==
    /\ \/ \E t \in Ids : Publish(t)
       \/ Tick
       \/ \E r \in BOOLEAN : ReachabilityChanged(r)
       \/ Switch
       \/ \E p \in BOOLEAN : SetPaused(p)
       \/ Respond
       \/ CompleteEmpty
       \/ RequestFails
       \/ \E t \in Ids : Reduce(t)
    /\ Aside

LNext ==
    \/ FetcherStep
    \/ TokenGranted
    \/ TokenRefused
    \/ DeliverAndStore
    \/ Notify
    \/ DiskFills
    \/ Relaunch

ListSpec == LInit /\ [][LNext]_lvars

\* As in TimelineFetcher; the token request is answered, and a notification
\* queued on the main thread gets its turn between two replies.
LFairness ==
    /\ WF_lvars(Tick /\ Aside)
    /\ WF_lvars(Switch /\ Aside)
    /\ SF_lvars(RequestEnds /\ Aside)
    /\ WF_lvars((\E t \in Ids : Reduce(t)) /\ Aside)
    /\ WF_lvars(DeliverAndStore)
    /\ WF_lvars(TokenGranted \/ TokenRefused)
    /\ SF_lvars(Notify)

FairListSpec == ListSpec /\ LFairness

-----------------------------------------------------------------------------
LTypeOK ==
    /\ TypeOK
    /\ account \in {"pending", "unavailable", "authorized"}
    /\ oauth \in BOOLEAN /\ saved \in BOOLEAN /\ diskFull \in BOOLEAN
    /\ stored \subseteq Ids /\ shown \subseteq Ids

\* A request for tweets is only ever made or in flight while the account is
\* authorized, and an authorized account can be authorized again after a
\* relaunch without asking (TwitterAccount.remoteAccount).
FetchNeedsAccount ==
    /\ request # NoRequest \/ refetching # NoRequest => account = "authorized"
    /\ token <=> account = "authorized"
    /\ token <=> IsLocal \/ saved

\* As long as the disk works every tweet emitted is in Realm, and Realm and
\* the table hold only tweets that were published and parsed.
RealmHolds ==
    /\ ~diskFull => delivered \subseteq stored
    /\ stored \subseteq published \ Garbled
    /\ shown \subseteq stored

\* The list on the screen is frozen once a page is in: Realm does not change
\* again before the next launch, even when the write of that page failed.
RealmFrozen ==
    [][delivered # {} /\ delivered' # {} => stored' = stored]_lvars

\* Whatever is in Realm reaches the table, unless the main thread and the
\* reachability queue wait for each other for ever.
StoredIsShown ==
    []<>~Stuck => \A t \in Ids : t \in stored ~> t \in shown

\* "fetch and store tweets" (ListTimelineViewModel.swift:42): a tweet that was
\* fetched is stored before the app is left.
FetchedIsStored == \A t \in Ids : t \in delivered ~> (t \in stored \/ delivered = {})

\* In a session whose token was granted and that stays ready, with a disk that
\* works, no bundled file missing and the threads not waiting for each other for
\* ever, published tweets lead to a list that is not empty.
ListFills ==
    (/\ <>[](reach /\ ~paused /\ live /\ account = "authorized")
     /\ <>[][~Relaunch /\ ~CompleteEmpty]_lvars
     /\ []~diskFull /\ []<>~Stuck
     /\ <>(published \ Garbled # {})) => <>(shown # {})

=============================================================================
