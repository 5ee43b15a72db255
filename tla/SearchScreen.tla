---------------------------- MODULE SearchScreen ----------------------------
(***************************************************************************)
(* RxGithub's search: SearchViewModel with the search bar and the table    *)
(* above it and GithubService below it, and the profile a row opens.       *)
(*                                                                         *)
(* Queries are numbered in the order they are sent.  Network answers on a  *)
(* queue of its own, an answer waits for the main queue, and only there do *)
(* the rows and what a selection is looked up in change.                   *)
(***************************************************************************)
EXTENDS Integers, Sequences

CONSTANTS
    Texts,          \* what may stand in the search bar
    Empty,          \* the empty text
    NoText,         \* no text has passed the throttle yet
    NoUser,
    MaxQueries,     \* bound on the queries sent
    MaxFound        \* bound on the users of an answer

ASSUME TextsAssumption == Empty \in Texts /\ NoText \notin Texts
ASSUME MaxAssumption == MaxQueries \in Nat /\ MaxFound \in Nat \ {0}
ASSUME NoUserAssumption == NoUser \notin (0 .. MaxQueries) \X (1 .. MaxFound)

VARIABLES
    text,       \* the search bar's text
    focused,    \* the search bar is the first responder
    window,     \* less than 300 ms have passed since the throttle let one through
    last,       \* the last text that did, for distinctUntilChanged
    sent,       \* the number of queries sent
    inflight,   \* the queries whose answer will be taken
    pending,    \* results on their way to the main queue
    rows,       \* the result in the table
    latest,     \* the result kept for cellDidSelect
    profile,    \* the user on the profile screen, or NoUser
    fate        \* "ok", or the failure that has ended the program

queryVars == <<window, last, sent, inflight>>
resultVars == <<pending, rows, latest>>
searchVars == <<text, focused, queryVars, resultVars, profile, fate>>

\* The n-th query's answer; users only differ by query and position.
Result(n, c) == [query |-> n, count |-> c]
Results == [query : 0 .. MaxQueries, count : 0 .. MaxFound]
NoResult == Result(0, 0)

OnSearch == profile = NoUser /\ fate = "ok"

\* The text the bar has when it is bound is lost: nothing has subscribed yet.
SearchInit ==
    /\ text = Empty /\ focused = FALSE
    /\ window = FALSE /\ last = NoText /\ sent = 0 /\ inflight = {}
    /\ pending = <<>> /\ rows = NoResult /\ latest = NoResult
    /\ profile = NoUser /\ fate = "ok"

-----------------------------------------------------------------------------
(* The bar, the throttle and the queries *)

SearchUserAhead(t) ==
    /\ last' = t
    /\ sent' = sent + 1
    /\ inflight' = {sent' + 1}

SearchUserMerged(t) ==
    /\ last' = t
    /\ sent' = sent + 1
    /\ inflight' = inflight \cup {sent'}

SearchUserIfIdle(t) ==
    /\ last' = t
    /\ sent' = sent + 1
    /\ inflight' = IF inflight = {} THEN {sent'} ELSE inflight

\* flatMapLatest: the answer to the query before is no longer taken.
SearchUser(t) ==
    /\ last' = t
    /\ sent' = sent + 1
    /\ inflight' = {sent'}

\* throttle(latest: false) drops what comes while its window is open; what it
\* lets through opens the window, be it a new text or not.
Emit(t) ==
    \/ window /\ UNCHANGED queryVars
    \/ /\ ~window
       /\ window' = TRUE
       /\ \/ t = last /\ UNCHANGED <<last, sent, inflight>>
          \/ t # last /\ sent < MaxQueries /\ SearchUser(t)

Focus ==
    /\ OnSearch /\ ~focused
    /\ focused' = TRUE
    /\ UNCHANGED <<text, queryVars, resultVars, profile, fate>>

\* textDidChange
Type(t) ==
    /\ OnSearch /\ focused /\ t # text
    /\ text' = t
    /\ Emit(t)
    /\ UNCHANGED <<focused, resultVars, profile, fate>>

\* The table is scrolled, or another screen pushed: the bar emits its text
\* once more when it ends editing.
EndEditing ==
    /\ focused /\ fate = "ok"
    /\ focused' = FALSE
    /\ Emit(text)
    /\ UNCHANGED <<text, resultVars, profile, fate>>

WindowEnds ==
    /\ window /\ fate = "ok"
    /\ window' = FALSE
    /\ UNCHANGED <<text, focused, last, sent, inflight, resultVars, profile, fate>>

-----------------------------------------------------------------------------
(* Answers *)

AnswerLooksUp(n, c) ==
    /\ fate = "ok" /\ n \in inflight
    /\ inflight' = inflight \ {n}
    /\ pending' = Append(pending, Result(n, c))
    /\ latest' = Result(n, c)
    /\ UNCHANGED <<text, focused, window, last, sent, rows, profile, fate>>

\* Network's queue: the answer to query n lists c users.
Answer(n, c) ==
    /\ fate = "ok" /\ n \in inflight
    /\ inflight' = inflight \ {n}
    /\ pending' = Append(pending, Result(n, c))
    /\ UNCHANGED <<text, focused, window, last, sent, rows, latest, profile, fate>>

\* The request fails, or its answer does not decode: catchErrorJustReturn.
AnswerFails(n) == Answer(n, 0)

\* The main queue: every subscriber of searchResults in one turn.
Show ==
    /\ fate = "ok" /\ pending # <<>>
    /\ rows' = Head(pending)
    /\ latest' = Head(pending)
    /\ pending' = Tail(pending)
    /\ UNCHANGED <<text, focused, queryVars, profile, fate>>

-----------------------------------------------------------------------------
(* Rows and profile *)

\* Row i is selected: its user is looked up in the latest result, and its
\* profile is pushed.
Select(i) ==
    /\ OnSearch /\ i \in 1 .. rows.count
    /\ IF i <= latest.count
       THEN profile' = <<latest.query, i>> /\ UNCHANGED fate
       ELSE fate' = "index" /\ UNCHANGED profile
    /\ UNCHANGED <<text, focused, queryVars, resultVars>>

Back ==
    /\ profile # NoUser /\ fate = "ok"
    /\ profile' = NoUser
    /\ UNCHANGED <<text, focused, queryVars, resultVars, fate>>

\* The comments screen does not load: its storyboard connects an outlet,
\* inserCommentField, that CommentsViewController does not have.
ShowComments ==
    /\ profile # NoUser /\ fate = "ok"
    /\ fate' = "outlet"
    /\ UNCHANGED <<text, focused, queryVars, resultVars, profile>>

SearchNext ==
    \/ Focus
    \/ \E t \in Texts : Type(t)
    \/ EndEditing
    \/ WindowEnds
    \/ \E n \in inflight : AnswerFails(n) \/ \E c \in 0 .. MaxFound : Answer(n, c)
    \/ Show
    \/ \E i \in 1 .. MaxFound : Select(i)
    \/ Back
    \/ ShowComments

SearchSpec == SearchInit /\ [][SearchNext]_searchVars

\* A request is answered or times out, and the main queue is served.
SearchFairness ==
    /\ \A n \in 1 .. MaxQueries :
          WF_searchVars(AnswerFails(n) \/ \E c \in 0 .. MaxFound : Answer(n, c))
    /\ WF_searchVars(Show)

FairSearchSpec == SearchSpec /\ SearchFairness

-----------------------------------------------------------------------------
SearchTypeOK ==
    /\ text \in Texts /\ focused \in BOOLEAN
    /\ window \in BOOLEAN /\ last \in Texts \cup {NoText}
    /\ sent \in 0 .. MaxQueries /\ inflight \subseteq 1 .. sent
    /\ pending \in Seq(Results) /\ rows \in Results /\ latest \in Results
    /\ profile \in {NoUser} \cup ((0 .. MaxQueries) \X (1 .. MaxFound))
    /\ fate \in {"ok", "index", "outlet"}

\* However fast is typed and however late queries are answered, the answer to
\* an earlier query never replaces that to a later one (flatMapLatest and the
\* order of the main queue).
ResultsInOrder == [][rows' # rows => rows'.query > rows.query]_searchVars

\* The profile that opens is that of the row touched, whatever answers arrive
\* around the touch, and the look-up by row never runs out of the result.
ProfileIsTapped ==
    [][/\ fate' # "index"
       /\ profile' \notin {profile, NoUser} =>
             profile' \in {rows.query} \X (1 .. rows.count)]_searchVars

\* The last query is answered in the table: none is cancelled, dropped or
\* overtaken for ever.
LastQueryShown ==
    \A n \in 1 .. MaxQueries :
        (sent = n) ~> (rows.query = n \/ sent > n \/ fate # "ok")
=============================================================================
