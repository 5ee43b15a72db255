------------------------- MODULE ListTimelineProofs -------------------------
(***************************************************************************)
(* Theorems about the list screen.  The screen is a refinement of its      *)
(* fetcher, so what TimelineFetcherProofs shows of the cursor holds of the *)
(* screen too; on that rests what the screen keeps in Realm.  What it asks *)
(* the server for rests on the account: AccountInv adds that no token is   *)
(* awaited once there is one.                                              *)
(***************************************************************************)
EXTENDS ListTimeline, TimelineFetcherProofs

AccountInv == FetchNeedsAccount /\ (oauth => ~token)

ListInv == IInv /\ LTypeOK /\ AccountInv /\ RealmHolds

-----------------------------------------------------------------------------
(* The screen implements the fetcher *)

LEMMA ListInit == LInit => Init
BY DEF LInit, Init

LEMMA ListStep == [LNext]_lvars => [Next]_vars
<1> SUFFICES ASSUME [LNext]_lvars PROVE [Next]_vars
  OBVIOUS
<1>1. CASE FetcherStep
  BY <1>1 DEF FetcherStep, Next
<1>2. CASE TokenGranted
  BY <1>2 DEF TokenGranted, Next
<1>3. CASE TokenRefused \/ Notify \/ DiskFills
  BY <1>3 DEF TokenRefused, Notify, DiskFills
<1>4. CASE DeliverAndStore
  BY <1>4 DEF DeliverAndStore, Next
<1>5. CASE Relaunch
  BY <1>5 DEF Relaunch, Next
<1>6. CASE UNCHANGED lvars
  BY <1>6 DEF lvars
<1> QED
  BY <1>1, <1>2, <1>3, <1>4, <1>5, <1>6 DEF LNext

\* Every behaviour of the list screen is one of its fetcher: account, Realm
\* and table drive it only by the operations it offers.
THEOREM ListImplementsFetcher == ListSpec => Spec
<1>1. LInit => Init
  BY ListInit
<1>2. [LNext]_lvars => [Next]_vars
  BY ListStep
<1> QED BY <1>1, <1>2, PTL DEF ListSpec, Spec

-----------------------------------------------------------------------------
(* The account *)

LEMMA InitAccount == LInit => LTypeOK /\ AccountInv
<1> SUFFICES ASSUME LInit PROVE LTypeOK /\ AccountInv
  OBVIOUS
<1>1. TypeOK
  BY ListInit, InitIInv DEF IInv
<1> QED
  BY <1>1, IsLocalAssumption
     DEF LInit, Init, LTypeOK, AccountInv, FetchNeedsAccount

LEMMA NextAccount ==
    ASSUME LTypeOK, TypeOK', AccountInv, [LNext]_lvars
    PROVE  LTypeOK' /\ AccountInv'
<1> USE DEF LTypeOK, AccountInv, FetchNeedsAccount
<1>1. CASE FetcherStep
  <2>1. UNCHANGED <<account, oauth, saved, diskFull, stored, shown>>
    BY <1>1 DEF FetcherStep, Aside, accountVars, realmVars
  <2>2. token' = token
    BY <1>1 DEF FetcherStep, Publish, Tick, ReachabilityChanged, Switch, SetPaused,
                Respond, CompleteEmpty, RequestFails, Reduce, sources
  <2>3. /\ request' # NoRequest => \/ request # NoRequest
                                   \/ refetching # NoRequest
                                   \/ token'
        /\ refetching' # NoRequest => refetching # NoRequest \/ token'
    BY <1>1 DEF FetcherStep, SourcesFree, Publish, Tick, ReachabilityChanged, Switch, SetPaused,
                Respond, CompleteEmpty, RequestFails, Reduce, Refetch, Ready
  <2> QED BY <2>1, <2>2, <2>3
<1>2. CASE TokenGranted
  <2>1. token' = TRUE
    BY <1>2 DEF TokenGranted, AccountAuthorized
  <2> QED
    BY <1>2, <2>1 DEF TokenGranted, realmVars
<1>3. CASE TokenRefused
  BY <1>3 DEF TokenRefused, vars, sources, realmVars
<1>4. CASE DeliverAndStore
  <2>1. UNCHANGED <<account, oauth, saved, diskFull, shown, request,
                    refetching, token>>
    BY <1>4 DEF DeliverAndStore, Deliver, accountVars, sources
  <2>2. reply.page \subseteq Ids
    BY <1>4 DEF DeliverAndStore, Deliver, Idle, TypeOK
  <2>3. stored' \subseteq Ids
    BY <1>4, <2>2 DEF DeliverAndStore
  <2> QED BY <2>1, <2>3
<1>5. CASE Notify \/ DiskFills
  <2>1. UNCHANGED <<account, oauth, saved, request, refetching, token, stored>>
    BY <1>5 DEF Notify, DiskFills, vars, sources, accountVars
  <2>2. diskFull' \in BOOLEAN /\ shown' \subseteq Ids
    BY <1>5 DEF Notify, DiskFills
  <2> QED BY <2>1, <2>2
<1>6. CASE Relaunch
  <2>1. request' = NoRequest /\ refetching' = NoRequest /\ token' = token
    BY <1>6 DEF Relaunch, Reopen
  <2> QED
    BY <1>6, <2>1, IsLocalAssumption DEF Relaunch, Subscribed
<1>7. CASE UNCHANGED lvars
  BY <1>7 DEF lvars, vars, sources, accountVars, realmVars
<1> QED
  BY <1>1, <1>2, <1>3, <1>4, <1>5, <1>6, <1>7 DEF LNext

-----------------------------------------------------------------------------
(* Realm *)

LEMMA NextRealm ==
    ASSUME IInv, RealmHolds, [LNext]_lvars
    PROVE  RealmHolds'
<1> USE DEF RealmHolds
<1>1. CASE FetcherStep
  <2>1. UNCHANGED <<diskFull, stored, shown>>
    BY <1>1 DEF FetcherStep, Aside, realmVars
  <2>2. delivered' = delivered /\ published \subseteq published'
    BY <1>1 DEF FetcherStep, Publish, Tick, ReachabilityChanged, Switch, SetPaused,
                Respond, CompleteEmpty, RequestFails, Reduce, Refetch
  <2> QED BY <2>1, <2>2
<1>2. CASE TokenGranted
  BY <1>2 DEF TokenGranted, AccountAuthorized, Refetch, realmVars
<1>3. CASE TokenRefused
  BY <1>3 DEF TokenRefused, vars, realmVars
<1>4. CASE DeliverAndStore
  <2>1. /\ UNCHANGED <<diskFull, shown, published>>
        /\ delivered' = delivered \cup reply.page
        /\ stored' = stored \cup reply.page \/ (diskFull /\ stored' = stored)
    BY <1>4 DEF DeliverAndStore, Deliver
  <2>2. reply.page \subseteq published \ Garbled
    BY <1>4 DEF DeliverAndStore, Deliver, Idle, IInv, ReplyBrackets
  <2> QED BY <2>1, <2>2
<1>5. CASE Notify \/ DiskFills
  BY <1>5 DEF Notify, DiskFills, vars
<1>6. CASE Relaunch
  BY <1>6 DEF Relaunch, Reopen
<1>7. CASE UNCHANGED lvars
  BY <1>7 DEF lvars, vars, realmVars
<1> QED
  BY <1>1, <1>2, <1>3, <1>4, <1>5, <1>6, <1>7 DEF LNext

\* What TwitterAccount, Realm, the table and the fetcher know of each other
\* holds after any steps of theirs.
THEOREM ListInvHolds == ListSpec => []ListInv
<1>1. LInit => ListInv
  <2> SUFFICES ASSUME LInit PROVE ListInv
    OBVIOUS
  <2>1. RealmHolds
    BY DEF LInit, Init, RealmHolds
  <2> QED BY <2>1, ListInit, InitIInv, InitAccount DEF ListInv
<1>2. ListInv /\ [LNext]_lvars => ListInv'
  <2> SUFFICES ASSUME ListInv, [LNext]_lvars PROVE ListInv'
    OBVIOUS
  <2>1. IInv'
    BY ListStep, NextIInv DEF ListInv
  <2>2. LTypeOK' /\ AccountInv'
    BY <2>1, NextAccount DEF ListInv, IInv
  <2>3. RealmHolds'
    BY NextRealm DEF ListInv
  <2> QED BY <2>1, <2>2, <2>3 DEF ListInv
<1> QED BY <1>1, <1>2, PTL DEF ListSpec

-----------------------------------------------------------------------------
(* The theorems *)

\* The variables of the screen and of its fetcher keep their types.
THEOREM ListTyped == ListSpec => []LTypeOK
<1>1. ListInv => LTypeOK
  BY DEF ListInv
<1> QED BY <1>1, ListInvHolds, PTL

\* The screen's cursor brackets what its timeline emitted, half-way through a
\* reply too: TwitterAccount, Realm and relaunches do not disturb the fetcher.
THEOREM ListReplyCorrect == ListSpec => [](CursorBrackets /\ ReplyBrackets)
<1>1. ListInv => CursorBrackets /\ ReplyBrackets
  BY DEF ListInv, IInv
<1> QED BY <1>1, ListInvHolds, PTL

\* Tweets are only requested for an authorized account, and an account is
\* authorized exactly when its token survives a relaunch.
THEOREM ListAuthorized == ListSpec => []FetchNeedsAccount
<1>1. ListInv => FetchNeedsAccount
  BY DEF ListInv, AccountInv
<1> QED BY <1>1, ListInvHolds, PTL

\* While the disk has room all that timeline emitted is in Realm; Realm and
\* the table hold nothing else than tweets of the server.
THEOREM ListStored == ListSpec => []RealmHolds
<1>1. ListInv => RealmHolds
  BY DEF ListInv
<1> QED BY <1>1, ListInvHolds, PTL

\* After its first page the list does not change until the next launch.
THEOREM ListFrozen == ListSpec => RealmFrozen
<1> DEFINE A == delivered # {} /\ delivered' # {} => stored' = stored
<1>1. ListInv /\ [LNext]_lvars => [A]_lvars
  <2> SUFFICES ASSUME ListInv, [LNext]_lvars, stored' # stored, delivered # {}
               PROVE  FALSE
    OBVIOUS
  <2>1. DeliverAndStore
    BY DEF LNext, lvars, realmVars, FetcherStep, Aside, TokenGranted,
           TokenRefused, Notify, DiskFills, Relaunch
  <2>2. reply # NoReply /\ stored' = stored \cup reply.page
    BY <2>1 DEF DeliverAndStore, Deliver, Idle
  <2>3. reply.page = {}
    BY <2>2, ListAssumption DEF ListInv, IInv, ReplyBrackets
  <2> QED BY <2>2, <2>3
<1> QED BY <1>1, ListInvHolds, PTL DEF ListSpec, RealmFrozen
=============================================================================
