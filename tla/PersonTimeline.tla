--------------------------- MODULE PersonTimeline ---------------------------
(***************************************************************************)
(* The person screen of Tweetie: PersonTimelineViewModel appends every     *)
(* emission of its fetcher to the tweets shown.  The provider for a        *)
(* username ignores the cursor.                                            *)
(***************************************************************************)
EXTENDS TimelineFetcher, SequencesExt

CONSTANT MaxRows    \* bound on the rows: no reply is taken beyond it

ASSUME PersonAssumption == ~CursorSent
ASSUME MaxRowsAssumption == MaxRows \in Nat

VARIABLES
    tweets,     \* what the tweets driver has accumulated: the table's rows
    title,      \* "Loading...", "None Found" or the user's name
    completed   \* the driver completed after an error

personVars == <<tweets, title, completed>>
pvars == <<vars, personVars>>

DriveReplaces(new) ==
    /\ tweets' = new
    /\ title' = IF tweets' = <<>> THEN "None Found" ELSE "@username"

\* Both subscribers of the tweets driver: the title and the table.
Drive(new) ==
    /\ tweets' = tweets \o new
    /\ title' = IF tweets' = <<>> THEN "None Found" ELSE "@username"

\* Without reachability the stream has failed when the driver subscribes.
PInit ==
    /\ Init
    /\ tweets = <<>>
    /\ title = IF live THEN "Loading..." ELSE "None Found"
    /\ completed = ~live

\* A response lists the newest tweet first.
NewestFirst(page) ==
    [i \in 1 .. Cardinality(page) |->
        CHOOSE t \in page : Cardinality({u \in page : u > t}) = i - 1]

\* scan appends the page.
DeliverAndAppend ==
    /\ Deliver
    /\ Drive(NewestFirst(reply.page))
    /\ UNCHANGED completed

FailSilently ==
    /\ RequestFails
    /\ completed' = TRUE
    /\ UNCHANGED <<tweets, title>>

\* asDriver(onErrorJustReturn: []) emits an empty page and completes.
FailAndComplete ==
    /\ RequestFails
    /\ Drive(<<>>)
    /\ completed' = TRUE

\* A reply is taken while the bound allows another page.
RespondBounded ==
    /\ Len(tweets) < MaxRows
    /\ Respond
    /\ UNCHANGED personVars

\* The screen is closed and opened again for the same person.
ReopenScreen ==
    /\ Reopen
    /\ tweets' = <<>>
    /\ title' = IF live' THEN "Loading..." ELSE "None Found"
    /\ completed' = ~live'

Aside == UNCHANGED personVars

OtherFetcherStep ==
    /\ \/ \E t \in Ids : Publish(t)
       \/ Tick
       \/ \E r \in BOOLEAN : ReachabilityChanged(r)
       \/ Switch
       \/ AccountAuthorized
       \/ \E t \in Ids : Reduce(t)
       \/ CompleteEmpty
    /\ Aside

PNext ==
    \/ OtherFetcherStep
    \/ RespondBounded
    \/ DeliverAndAppend
    \/ FailAndComplete
    \/ ReopenScreen

PersonSpec == PInit /\ [][PNext]_pvars

\* As in TimelineFetcher.
PFairness ==
    /\ WF_pvars(Tick /\ Aside)
    /\ WF_pvars(Switch /\ Aside)
    /\ SF_pvars(RespondBounded \/ (CompleteEmpty /\ Aside) \/ FailAndComplete)
    /\ WF_pvars((\E t \in Ids : Reduce(t)) /\ Aside)
    /\ WF_pvars(DeliverAndAppend)

FairPersonSpec == PersonSpec /\ PFairness

-----------------------------------------------------------------------------
PTypeOK ==
    /\ TypeOK
    /\ tweets \in Seq(Ids)
    /\ title \in {"Loading...", "None Found", "@username"}
    /\ completed \in BOOLEAN

\* The rows are the tweets the fetcher has emitted, all of them and no other,
\* and the title says "None Found" or names the person accordingly.
RowsAreDelivered ==
    /\ ToSet(tweets) = delivered
    /\ title = "@username" <=> tweets # <<>>
    /\ completed <=> ~live

\* How many of the rows r show t.
Times(r, t) == Cardinality({i \in DOMAIN r : r[i] = t})

\* Every fetch that found a tweet once finds it again while it is on the
\* newest page: an older tweet is never shown less often than a newer one.
OlderShownAsOften ==
    PageSize >= Cardinality(Ids) =>
        \A t, u \in delivered : t < u => Times(tweets, t) >= Times(tweets, u)

\* The title does not stay "Loading..." for a reachable authorized user: an
\* answer or an error replaces it.  Two things do leave it there for good: a
\* bundled file that is missing, whose request completes without an answer,
\* and the two threads waiting for each other.
TitleSettles ==
    (/\ <>[](reach /\ token) /\ []<>~Stuck
     /\ <>[][~ReopenScreen /\ ~CompleteEmpty]_pvars)
        => <>(title # "Loading...")

\* "the algorithm has the assumption that all sections and items are unique"
\* (RxDataSources README:9): the table's rows are pairwise different.
RowsUnique == IsInjective(tweets)
=============================================================================
