------------------------ MODULE PersonTimelineProofs ------------------------
(***************************************************************************)
(* Theorems about the person screen, for every set of tweets, page size    *)
(* and bound on the rows.  The screen is a refinement of its fetcher; what *)
(* it shows rests on what a page is: PagesReachBack says that a page that  *)
(* holds everything published holds, with a tweet, every older one, and    *)
(* that the rows repeat tweets that way too.                               *)
(***************************************************************************)
EXTENDS PersonTimeline, TimelineFetcherProofs, FiniteSetTheorems,
        SequenceTheorems

\* A page that may hold everything reaches back without a gap, and so do the
\* rows: tweets are published in the order of their identifiers.
PagesReachBack ==
    PageSize >= Cardinality(Ids) =>
        \A t, u \in published \ Garbled :
            t < u => /\ reply # NoReply /\ u \in reply.page => t \in reply.page
                     /\ Times(tweets, t) >= Times(tweets, u)

PersonInv == IInv /\ PTypeOK /\ RowsAreDelivered /\ PagesReachBack

-----------------------------------------------------------------------------
(* Lemmas about pages *)

\* NewestFirst lists every tweet of a page once.
LEMMA NewestFirstEnumerates ==
    ASSUME NEW page, page \subseteq Int, IsFiniteSet(page)
    PROVE  LET s == NewestFirst(page)
               n == Cardinality(page)
           IN  /\ n \in Nat
               /\ s \in [1 .. n -> page]
               /\ \A t \in page : \E i \in 1 .. n : s[i] = t
               /\ \A i, j \in 1 .. n : s[i] = s[j] => i = j
<1> DEFINE n == Cardinality(page)
           Above(t) == {u \in page : u > t}
           rank == [t \in page |-> Cardinality(Above(t)) + 1]
<1>n. n \in Nat
  BY FS_CardinalityType
<1>1. ASSUME NEW t \in page
      PROVE  /\ IsFiniteSet(Above(t))
             /\ Cardinality(Above(t)) \in Nat
             /\ Cardinality(Above(t)) < n
  <2>1. t \in Int /\ Above(t) \subseteq page \ {t}
    OBVIOUS
  <2>2. IsFiniteSet(page \ {t}) /\ Cardinality(page \ {t}) = n - 1
    BY FS_RemoveElement
  <2>3. IsFiniteSet(Above(t)) /\ Cardinality(Above(t)) <= n - 1
    BY <2>1, <2>2, FS_Subset
  <2>4. Cardinality(Above(t)) \in Nat
    BY <2>3, FS_CardinalityType
  <2> QED BY <1>n, <2>3, <2>4
<1>2. ASSUME NEW t \in page, NEW u \in page, t < u
      PROVE  Cardinality(Above(u)) < Cardinality(Above(t))
  <2>1. \A v \in page : v \in Int
    OBVIOUS
  <2>2. u \in Above(t) /\ Above(u) \subseteq Above(t) \ {u}
    <3>1. u > t
      BY <1>2, <2>1
    <3>2. ASSUME NEW v \in page, v > u PROVE v > t /\ v # u
      BY <1>2, <2>1, <3>2
    <3> QED BY <3>1, <3>2
  <2>3. /\ IsFiniteSet(Above(t) \ {u})
        /\ Cardinality(Above(t) \ {u}) = Cardinality(Above(t)) - 1
    BY <1>1, <2>2, FS_RemoveElement
  <2>4. Cardinality(Above(u)) <= Cardinality(Above(t)) - 1
    BY <2>2, <2>3, FS_Subset
  <2> QED BY <1>1, <2>4
<1>3. \A t \in page : rank[t] = Cardinality(Above(t)) + 1 /\ rank[t] \in 1 .. n
  BY <1>n, <1>1
<1>4. \A t, u \in page : rank[t] = rank[u] => t = u
  <2>1. \A t, u \in page : t \in Int /\ u \in Int /\ (t # u => t < u \/ u < t)
    OBVIOUS
  <2>2. \A t, u \in page : t < u => rank[u] < rank[t]
    BY <1>1, <1>2, <1>3
  <2>3. \A t \in page : rank[t] \in Int
    BY <1>3
  <2> HIDE DEF rank
  <2> QED BY <2>1, <2>2, <2>3
<1>5. rank \in [page -> 1 .. n]
  BY <1>3
<1> HIDE DEF rank
<1>6. rank \in Injection(page, 1 .. n)
  BY <1>4, <1>5 DEF Injection, IsInjective
<1>7. IsFiniteSet(1 .. n) /\ Cardinality(1 .. n) = n
  BY <1>n, FS_Interval
<1>8. rank \in Surjection(page, 1 .. n)
  BY <1>6, <1>7, FS_Injection
<1>9. \A i \in 1 .. n : \E t \in page : rank[t] = i
  BY <1>8 DEF Surjection
<1> DEFINE s == NewestFirst(page)
<1>10. ASSUME NEW i \in 1 .. n
       PROVE  s[i] \in page /\ rank[s[i]] = i
  <2>1. s[i] = CHOOSE t \in page : Cardinality(Above(t)) = i - 1
    BY DEF NewestFirst
  <2>2. PICK t \in page : rank[t] = i
    BY <1>9
  <2>3. i \in Int /\ Cardinality(Above(t)) = i - 1
    BY <1>1, <1>3, <2>2
  <2>4. s[i] \in page /\ Cardinality(Above(s[i])) = i - 1
    BY <2>1, <2>3
  <2>5. Cardinality(Above(s[i])) + 1 = i
    BY <2>3, <2>4
  <2> QED BY <1>3, <2>4, <2>5
<1>11. s \in [1 .. n -> page]
  BY <1>10 DEF NewestFirst
<1>12. \A t \in page : \E i \in 1 .. n : s[i] = t
  BY <1>3, <1>4, <1>10
<1>13. \A i, j \in 1 .. n : s[i] = s[j] => i = j
  BY <1>10
<1> HIDE DEF s
<1> QED BY <1>n, <1>11, <1>12, <1>13 DEF s

\* Appending a page adds one row for each of its tweets and no other.
LEMMA PageAppended ==
    ASSUME NEW r \in Seq(Ids), NEW page, page \subseteq Ids
    PROVE  LET s == r \o NewestFirst(page)
           IN  /\ s \in Seq(Ids)
               /\ ToSet(s) = ToSet(r) \cup page
               /\ \A t \in Ids :
                     /\ Times(r, t) \in Nat
                     /\ Times(s, t)
                          = Times(r, t) + (IF t \in page THEN 1 ELSE 0)
<1> DEFINE q == NewestFirst(page)
           n == Cardinality(page)
           s == r \o q
           At(x, t) == {i \in DOMAIN x : x[i] = t}
<1>1. IsFiniteSet(page) /\ page \subseteq Int
  <2>1. Ids \subseteq Int /\ page \in SUBSET Ids /\ IsFiniteSet(Ids)
    BY IdsAssumption
  <2>2. IsFiniteSet(page)
    BY <2>1, FS_Subset
  <2> QED BY <2>1, <2>2
<1>2. /\ n \in Nat
      /\ q \in [1 .. n -> page]
      /\ \A t \in page : \E i \in 1 .. n : q[i] = t
      /\ \A i, j \in 1 .. n : q[i] = q[j] => i = j
  BY <1>1, NewestFirstEnumerates
<1> HIDE DEF q, n
<1>3. q \in Seq(Ids) /\ Len(q) = n /\ DOMAIN q = 1 .. n
  BY <1>2
<1>4. /\ s \in Seq(Ids) /\ Len(s) = Len(r) + n
      /\ \A i \in 1 .. Len(s) : s[i] = IF i <= Len(r) THEN r[i] ELSE q[i - Len(r)]
      /\ DOMAIN r = 1 .. Len(r) /\ DOMAIN s = 1 .. Len(s) /\ Len(r) \in Nat
  BY <1>3, ConcatProperties, LenProperties
<1> HIDE DEF s
<1>5. /\ \A i \in DOMAIN r : i \in DOMAIN s /\ s[i] = r[i]
      /\ \A i \in 1 .. n : Len(r) + i \in DOMAIN s /\ s[Len(r) + i] = q[i]
      /\ \A i \in DOMAIN s : i \in DOMAIN r
                              \/ \E j \in 1 .. n : i = Len(r) + j
  <2>1. ASSUME NEW i \in DOMAIN r PROVE i \in DOMAIN s /\ s[i] = r[i]
    BY <1>2, <1>4
  <2>2. ASSUME NEW i \in 1 .. n
        PROVE  Len(r) + i \in DOMAIN s /\ s[Len(r) + i] = q[i]
    <3>1. /\ Len(r) + i \in 1 .. Len(s) /\ ~(Len(r) + i <= Len(r))
          /\ (Len(r) + i) - Len(r) = i
      BY <1>2, <1>4
    <3> QED BY <1>4, <3>1
  <2>3. ASSUME NEW i \in DOMAIN s, i \notin DOMAIN r
        PROVE  \E j \in 1 .. n : i = Len(r) + j
    <3>1. i - Len(r) \in 1 .. n /\ i = Len(r) + (i - Len(r))
      BY <1>2, <1>4, <2>3
    <3> QED BY <3>1
  <2> QED BY <2>1, <2>2, <2>3
<1>6. ToSet(s) = ToSet(r) \cup page
  <2>1. ASSUME NEW t \in page PROVE t \in ToSet(s)
    BY <1>2, <1>5 DEF ToSet
  <2>2. ToSet(r) \subseteq ToSet(s)
    BY <1>5 DEF ToSet
  <2>3. ASSUME NEW i \in DOMAIN s PROVE s[i] \in ToSet(r) \cup page
    <3>1. CASE i \in DOMAIN r
      BY <1>5, <3>1 DEF ToSet
    <3>2. ASSUME NEW j \in 1 .. n, i = Len(r) + j PROVE s[i] \in page
      BY <1>2, <1>5, <3>2
    <3> QED BY <1>5, <3>1, <3>2
  <2> QED BY <2>1, <2>2, <2>3 DEF ToSet
<1>7. ASSUME NEW t \in Ids
      PROVE  /\ Cardinality(At(r, t)) \in Nat
             /\ Cardinality(At(s, t))
                  = Cardinality(At(r, t)) + (IF t \in page THEN 1 ELSE 0)
  <2>1. IsFiniteSet(At(r, t)) /\ Cardinality(At(r, t)) \in Nat
    <3>1. IsFiniteSet(1 .. Len(r))
      BY <1>4, FS_Interval
    <3> QED BY <1>4, <3>1, FS_Subset, FS_CardinalityType
  <2>2. CASE t \in page
    <3>1. PICK i \in 1 .. n : q[i] = t
      BY <1>2, <2>2
    <3>2. \A j \in 1 .. n : q[j] = t => j = i
      BY <1>2, <3>1
    <3>3. At(s, t) = At(r, t) \cup {Len(r) + i}
      BY <1>5, <3>1, <3>2
    <3>4. Len(r) + i \notin At(r, t)
      BY <1>2, <1>4
    <3> QED BY <2>1, <2>2, <3>3, <3>4, FS_AddElement
  <2>3. CASE t \notin page
    <3>1. \A j \in 1 .. n : q[j] # t
      BY <1>2, <2>3
    <3>2. At(s, t) = At(r, t)
      BY <1>5, <3>1
    <3>3. Cardinality(At(s, t)) = Cardinality(At(r, t))
      BY <3>2
    <3> HIDE DEF At
    <3> QED BY <2>1, <2>3, <3>3
  <2> QED BY <2>1, <2>2, <2>3
<1> QED BY <1>4, <1>6, <1>7 DEF s, q, Times

\* Without rows nothing is shown any number of times.
LEMMA NoRows ==
    ASSUME NEW r, r = <<>>
    PROVE  /\ r \in Seq(Ids) /\ ToSet(r) = {}
           /\ \A t : Times(r, t) = 0
<1>1. r \in Seq(Ids) /\ DOMAIN r = {}
  <2>1. r \in Seq(Ids) /\ Len(r) = 0
    OBVIOUS
  <2>2. DOMAIN r = 1 .. 0
    BY <2>1, LenProperties
  <2> QED BY <2>1, <2>2
<1>2. \A t : {i \in DOMAIN r : r[i] = t} = {}
  BY <1>1
<1> QED BY <1>1, <1>2, FS_EmptySet DEF ToSet, Times

\* What has no row is shown no time.
LEMMA ShownTimes ==
    ASSUME tweets \in Seq(Ids), NEW t
    PROVE  Times(tweets, t) \in Nat /\ (t \notin ToSet(tweets) => Times(tweets, t) = 0)
<1> DEFINE At == {i \in DOMAIN tweets : tweets[i] = t}
<1>1. DOMAIN tweets = 1 .. Len(tweets) /\ Len(tweets) \in Nat
  BY LenProperties
<1>2. IsFiniteSet(At) /\ Cardinality(At) \in Nat
  <2>1. IsFiniteSet(1 .. Len(tweets))
    BY <1>1, FS_Interval
  <2>2. At \in SUBSET (1 .. Len(tweets))
    BY <1>1
  <2> QED BY <2>1, <2>2, FS_Subset, FS_CardinalityType
<1>3. t \notin ToSet(tweets) => At = {}
  BY DEF ToSet
<1> QED BY <1>2, <1>3, FS_EmptySet DEF Times

\* A server whose pages are large enough answers with all it has published.
LEMMA WholePage ==
    ASSUME TypeOK, PageSize >= Cardinality(Ids), NEW c
    PROVE  UnboxMany(Newest(Window(c))) = published \ Garbled
<1>1. /\ \A t \in published : t \in Int
      /\ IsFiniteSet(Ids) /\ Cardinality(Ids) \in Nat /\ PageSize \in Nat
      /\ published \in SUBSET Ids
  BY IdsAssumption, PageSizeAssumption, FS_CardinalityType DEF TypeOK
<1>2. Window(c) = published
  BY PersonAssumption DEF Window
<1>3. ASSUME NEW t \in published
      PROVE  Cardinality({u \in published : u > t}) < PageSize
  <2> DEFINE newer == {u \in published : u > t}
  <2>1. newer \in SUBSET (Ids \ {t})
    BY <1>1
  <2>2. /\ IsFiniteSet(Ids \ {t})
        /\ Cardinality(Ids \ {t}) = Cardinality(Ids) - 1
    BY <1>1, FS_RemoveElement
  <2>3. Cardinality(newer) <= Cardinality(Ids) - 1 /\ IsFiniteSet(newer)
    BY <2>1, <2>2, FS_Subset
  <2>4. Cardinality(newer) \in Nat
    BY <2>3, FS_CardinalityType
  <2> HIDE DEF newer
  <2>5. Cardinality(newer) < PageSize
    BY <1>1, <2>3, <2>4
  <2> QED BY <2>5 DEF newer
<1> QED BY <1>2, <1>3 DEF UnboxMany, Newest

-----------------------------------------------------------------------------
(* The screen implements the fetcher *)

LEMMA PersonStep == [PNext]_pvars => [Next]_vars
<1> SUFFICES ASSUME [PNext]_pvars PROVE [Next]_vars
  OBVIOUS
<1>1. CASE OtherFetcherStep
  BY <1>1 DEF OtherFetcherStep, Next
<1>2. CASE RespondBounded
  BY <1>2 DEF RespondBounded, Next
<1>3. CASE DeliverAndAppend
  BY <1>3 DEF DeliverAndAppend, Next
<1>4. CASE FailAndComplete
  BY <1>4 DEF FailAndComplete, Next
<1>5. CASE ReopenScreen
  BY <1>5 DEF ReopenScreen, Next
<1>6. CASE UNCHANGED pvars
  BY <1>6 DEF pvars
<1> QED
  BY <1>1, <1>2, <1>3, <1>4, <1>5, <1>6 DEF PNext

\* Every behaviour of the person screen is one of its fetcher: the screen only
\* subscribes, is closed and is opened again.
THEOREM PersonImplementsFetcher == PersonSpec => Spec
<1>1. PInit => Init
  BY DEF PInit
<1>2. [PNext]_pvars => [Next]_vars
  BY PersonStep
<1> QED BY <1>1, <1>2, PTL DEF PersonSpec, Spec

-----------------------------------------------------------------------------
(* The invariant *)

LEMMA InitPersonInv == PInit => PersonInv
<1> SUFFICES ASSUME PInit PROVE PersonInv
  OBVIOUS
<1>1. IInv
  BY InitIInv DEF PInit
<1>e. /\ tweets = <<>> /\ delivered = {} /\ reply = NoReply
      /\ live \in BOOLEAN /\ completed = ~live
      /\ title = IF live THEN "Loading..." ELSE "None Found"
  BY DEF PInit, Init
<1>n. tweets \in Seq(Ids) /\ ToSet(tweets) = {} /\ \A t : Times(tweets, t) = 0
  BY <1>e, NoRows
<1>c. completed \in BOOLEAN /\ (completed <=> ~live)
  BY <1>e, Zenon
<1>2. PTypeOK
  BY <1>1, <1>c, <1>e, <1>n DEF PTypeOK, IInv
<1>3. RowsAreDelivered
  BY <1>c, <1>e, <1>n DEF RowsAreDelivered
<1>4. PagesReachBack
  <2>1. ASSUME NEW t, NEW u PROVE Times(tweets, t) >= Times(tweets, u)
    BY <1>n
  <2> QED BY <1>e, <2>1 DEF PagesReachBack
<1> QED BY <1>1, <1>2, <1>3, <1>4 DEF PersonInv

LEMMA NextPersonInv ==
    ASSUME PersonInv, [PNext]_pvars
    PROVE  PersonInv'
<1> USE DEF PersonInv
<1>i. IInv' /\ TypeOK /\ TypeOK'
  BY PersonStep, NextIInv DEF IInv
<1>k. ASSUME UNCHANGED <<delivered, live, personVars>>, published \subseteq published',
             PageSize >= Cardinality(Ids) =>
                \A t, u \in published' \ Garbled :
                    t < u => /\ reply' # NoReply /\ u \in reply'.page => t \in reply'.page
                             /\ Times(tweets, t) >= Times(tweets, u)
      PROVE  PersonInv'
  <2>1. \A t : Times(tweets', t) = Times(tweets, t)
    BY <1>k DEF personVars
  <2>2. PTypeOK' /\ RowsAreDelivered'
    BY <1>i, <1>k DEF PTypeOK, RowsAreDelivered, personVars
  <2> QED BY <1>i, <1>k, <2>1, <2>2 DEF PagesReachBack
<1>1. ASSUME NEW t \in Ids, Publish(t), UNCHANGED personVars PROVE PersonInv'
  <2>1. /\ \A u \in published : u < t
        /\ published' = published \cup {t}
        /\ UNCHANGED <<live, reply, delivered>>
    BY <1>1 DEF Publish
  <2>2. t \notin published /\ t \in Int /\ \A u \in published : u \in Int
    BY <1>i, <2>1, IdsAssumption DEF TypeOK
  <2>3. t \notin ToSet(tweets) /\ (reply # NoReply => t \notin reply.page)
    BY <2>2 DEF RowsAreDelivered, IInv, OnlyPublished, ReplyBrackets
  <2>4. Times(tweets, t) = 0 /\ \A u : Times(tweets, u) \in Nat
    BY <2>3, ShownTimes DEF PTypeOK
  <2>5. ASSUME PageSize >= Cardinality(Ids),
               NEW u \in published' \ Garbled, NEW v \in published' \ Garbled, u < v
        PROVE  /\ reply' # NoReply /\ v \in reply'.page => u \in reply'.page
               /\ Times(tweets, u) >= Times(tweets, v)
    <3>1. CASE v = t
      BY <2>1, <2>3, <2>4, <3>1
    <3>2. CASE v # t
      <4>1. u # t
        BY <2>1, <2>2, <2>5, <3>2
      <4> QED BY <2>1, <2>5, <3>2, <4>1 DEF PagesReachBack
    <3> QED BY <3>1, <3>2
  <2> QED BY <1>1, <1>k, <2>1, <2>5
<1>2. ASSUME UNCHANGED <<published, delivered, live, personVars>>,
             reply' = NoReply \/ reply' = reply
                \/ (reply # NoReply /\ reply'.page = reply.page)
      PROVE  PersonInv'
  BY <1>k, <1>2 DEF PagesReachBack
<1>3. CASE OtherFetcherStep
  <2>1. ASSUME NEW t \in Ids, Reduce(t) PROVE PersonInv'
    <3>1. UNCHANGED <<published, delivered, live>> /\ reply # NoReply
            /\ reply'.page = reply.page
      BY <2>1 DEF Reduce, Idle
    <3> QED BY <1>2, <1>3, <3>1 DEF OtherFetcherStep, Aside
  <2>2. CASE Tick \/ (\E r \in BOOLEAN : ReachabilityChanged(r))
               \/ AccountAuthorized \/ CompleteEmpty \/ Switch
    BY <1>2, <1>3, <2>2
       DEF OtherFetcherStep, Aside, Tick, ReachabilityChanged, Switch,
           Refetch, AccountAuthorized, CompleteEmpty
  <2> QED BY <1>1, <1>3, <2>1, <2>2 DEF OtherFetcherStep, Aside
<1>4. CASE RespondBounded
  <2> DEFINE page == UnboxMany(Newest(Window(request)))
  <2>1. /\ UNCHANGED <<published, delivered, live, personVars>>
        /\ reply' = [left |-> page, page |-> page, acc |-> cursor]
    BY <1>4 DEF RespondBounded, Respond
  <2>2. reply'.page = page
    BY <2>1
  <2>3. PageSize >= Cardinality(Ids) => page = published \ Garbled
    BY <1>i, WholePage
  <2> HIDE DEF page
  <2> QED BY <1>k, <2>1, <2>2, <2>3 DEF PagesReachBack
<1>5. CASE DeliverAndAppend
  <2>1. /\ reply # NoReply
        /\ delivered' = delivered \cup reply.page
        /\ reply' = NoReply
        /\ UNCHANGED <<published, live, completed>>
        /\ tweets' = tweets \o NewestFirst(reply.page)
        /\ title' = IF tweets' = <<>> THEN "None Found" ELSE "@username"
    BY <1>5 DEF DeliverAndAppend, Deliver, Idle, Drive
  <2>2. reply.page \subseteq Ids /\ tweets \in Seq(Ids)
    BY <1>i, <2>1 DEF TypeOK, PTypeOK
  <2>3. /\ tweets' \in Seq(Ids)
        /\ ToSet(tweets') = ToSet(tweets) \cup reply.page
        /\ \A t \in Ids :
              /\ Times(tweets, t) \in Nat
              /\ Times(tweets', t) = Times(tweets, t) + (IF t \in reply.page THEN 1 ELSE 0)
    <3> DEFINE page == reply.page
               s == tweets \o NewestFirst(page)
    <3>1. page \subseteq Ids /\ tweets' = s
      BY <2>1, <2>2
    <3> HIDE DEF page
    <3>2. /\ s \in Seq(Ids)
          /\ ToSet(s) = ToSet(tweets) \cup page
          /\ \A t \in Ids :
               /\ Times(tweets, t) \in Nat
               /\ Times(s, t) = Times(tweets, t) + (IF t \in page THEN 1 ELSE 0)
      BY <2>2, <3>1, PageAppended
    <3> HIDE DEF s
    <3> QED BY <3>1, <3>2 DEF page
  <2>4. PTypeOK' /\ RowsAreDelivered'
    BY <1>i, <2>1, <2>3 DEF PTypeOK, RowsAreDelivered
  <2>5. ASSUME PageSize >= Cardinality(Ids), NEW t \in published \ Garbled,
               NEW u \in published \ Garbled, t < u
        PROVE  Times(tweets', t) >= Times(tweets', u)
    <3>1. /\ u \in reply.page => t \in reply.page
          /\ Times(tweets, t) >= Times(tweets, u)
      BY <2>1, <2>5 DEF PagesReachBack
    <3>2. t \in Ids /\ u \in Ids
      BY <1>i DEF TypeOK
    <3> QED BY <2>3, <3>1, <3>2
  <2>6. PagesReachBack'
    BY <2>1, <2>5 DEF PagesReachBack
  <2> QED BY <1>i, <2>4, <2>6
<1>6. CASE FailAndComplete
  <2>1. /\ live' = FALSE /\ completed' = TRUE
        /\ UNCHANGED <<published, reply, delivered>>
        /\ tweets' = tweets \o <<>>
        /\ title' = IF tweets' = <<>> THEN "None Found" ELSE "@username"
    BY <1>6 DEF FailAndComplete, RequestFails, Drive
  <2>2. tweets' = tweets
    BY <2>1, ConcatEmptySeq DEF PTypeOK
  <2>3. \A t : Times(tweets', t) = Times(tweets, t)
    BY <2>2
  <2>4. PTypeOK' /\ RowsAreDelivered'
    BY <1>i, <2>1, <2>2 DEF PTypeOK, RowsAreDelivered
  <2> QED BY <1>i, <2>1, <2>3, <2>4 DEF PagesReachBack
<1>7. CASE ReopenScreen
  <2>1. /\ tweets' = <<>> /\ delivered' = {} /\ reply' = NoReply
        /\ title' = IF live' THEN "Loading..." ELSE "None Found"
        /\ completed' = ~live' /\ live' \in BOOLEAN
    BY <1>7 DEF ReopenScreen, Reopen
  <2>2. /\ tweets' \in Seq(Ids) /\ ToSet(tweets') = {}
        /\ \A t : Times(tweets', t) = 0
    BY <2>1, NoRows
  <2>3. completed' \in BOOLEAN /\ (completed' <=> ~live')
    BY <2>1, Zenon
  <2>4. PTypeOK'
    BY <1>i, <2>1, <2>2, <2>3 DEF PTypeOK
  <2>5. RowsAreDelivered'
    BY <2>1, <2>2, <2>3 DEF RowsAreDelivered
  <2>6. ASSUME NEW t, NEW u PROVE Times(tweets', t) >= Times(tweets', u)
    BY <2>2
  <2>7. PagesReachBack'
    BY <2>1, <2>6 DEF PagesReachBack
  <2> QED BY <1>i, <2>4, <2>5, <2>7
<1>8. CASE UNCHANGED pvars
  BY <1>2, <1>8 DEF pvars, vars
<1> QED
  BY <1>3, <1>4, <1>5, <1>6, <1>7, <1>8 DEF PNext

\* What the screen and the fetcher know of each other holds after any steps.
THEOREM PersonInvHolds == PersonSpec => []PersonInv
<1>1. PInit => PersonInv
  BY InitPersonInv
<1>2. PersonInv /\ [PNext]_pvars => PersonInv'
  BY NextPersonInv
<1> QED BY <1>1, <1>2, PTL DEF PersonSpec

-----------------------------------------------------------------------------
(* The theorems *)

\* The variables of the screen and of its fetcher keep their types.
THEOREM PersonTyped == PersonSpec => []PTypeOK
<1>1. PersonInv => PTypeOK
  BY DEF PersonInv
<1> QED BY <1>1, PersonInvHolds, PTL

\* The cursor of the screen's fetcher brackets what the timeline emitted.
THEOREM PersonCursorCorrect == PersonSpec => []CursorBrackets
<1>1. PersonInv => CursorBrackets
  BY DEF PersonInv, IInv
<1> QED BY <1>1, PersonInvHolds, PTL

\* The table shows what the timeline emitted, all of it and nothing else; the
\* title says whether there is any row, also after the error that completes
\* the driver.
THEOREM PersonRowsCorrect == PersonSpec => []RowsAreDelivered
<1>1. PersonInv => RowsAreDelivered
  BY DEF PersonInv
<1> QED BY <1>1, PersonInvHolds, PTL

\* However often the pages repeat tweets, an older tweet is shown at least as
\* often as a newer one, as long as a page may hold everything.
THEOREM PersonOlderShown == PersonSpec => []OlderShownAsOften
<1>1. PersonInv => OlderShownAsOften
  <2> SUFFICES ASSUME PersonInv PROVE OlderShownAsOften
    OBVIOUS
  <2>1. delivered \subseteq published \ Garbled
    BY DEF PersonInv, IInv, OnlyPublished
  <2> QED BY <2>1 DEF PersonInv, PagesReachBack, OlderShownAsOften
<1> QED BY <1>1, PersonInvHolds, PTL
=============================================================================
