----------------------- MODULE TimelineFetcherProofs -----------------------
(***************************************************************************)
(* Theorems about TimelineFetcher for every set of identifiers, page size  *)
(* and kind of provider.  The inductive invariant joins what the variables *)
(* are between two handlers (CursorBrackets, RequestIsCurrent,             *)
(* OnlyPublished) to what they are inside the reduce (ReplyBrackets).      *)
(***************************************************************************)
EXTENDS TimelineFetcher, TLAPS

IInv ==
    /\ TypeOK
    /\ CursorBrackets
    /\ ReplyBrackets
    /\ RequestIsCurrent
    /\ OnlyPublished

-----------------------------------------------------------------------------
(* Lemmas about the cursor *)

\* Folding one more tweet into a bracketing cursor gives a cursor that
\* brackets the tweets and the new one, in whatever order they come.
LEMMA AdvanceBrackets ==
    ASSUME NEW c \in Cursors, NEW S, S \subseteq Ids, NEW t \in Ids,
           Brackets(c, S)
    PROVE  /\ Advance(c, t) \in Cursors
           /\ Brackets(Advance(c, t), S \cup {t})
<1>1. /\ t \in Int /\ 0 < t /\ t < MaxInt64 /\ MaxInt64 \in Nat
      /\ \A u \in S : u \in Int /\ 0 < u /\ u < MaxInt64
  BY IdsAssumption
<1>2. c.maxId \in 0 .. MaxInt64 /\ c.sinceId \in 0 .. MaxInt64
  BY DEF Cursors
<1> DEFINE d == Advance(c, t)
<1>3. /\ d.maxId = IF t < c.maxId THEN t - 1 ELSE c.maxId
      /\ d.sinceId = IF t > c.sinceId THEN t ELSE c.sinceId
  BY DEF Advance
<1>4. d \in Cursors
  BY <1>1, <1>2 DEF Advance, Cursors
<1>5. CASE S = {}
  <2>1. c.maxId = MaxInt64 /\ c.sinceId = 0
    BY <1>5 DEF Brackets, NoCursor
  <2>2. d.maxId = t - 1 /\ d.sinceId = t
    BY <1>1, <1>3, <2>1
  <2>3. S \cup {t} = {t}
    BY <1>5
  <2> QED
    BY <1>1, <1>4, <2>2, <2>3 DEF Brackets
<1>6. CASE S # {}
  <2>1. /\ c.sinceId \in S
        /\ \A u \in S : u <= c.sinceId /\ c.maxId <= u
        /\ c.maxId \in S \/ c.maxId + 1 \in S
        /\ c.maxId < c.sinceId
    BY <1>6 DEF Brackets
  <2>2. d.sinceId \in S \cup {t} /\ \A u \in S \cup {t} : u <= d.sinceId
    BY <1>1, <1>2, <1>3, <2>1
  <2>3. /\ \A u \in S \cup {t} : d.maxId <= u
        /\ d.maxId \in S \cup {t} \/ d.maxId + 1 \in S \cup {t}
    <3>1. CASE t < c.maxId
      BY <1>1, <1>2, <1>3, <2>1, <3>1
    <3>2. CASE ~(t < c.maxId)
      BY <1>1, <1>2, <1>3, <2>1, <3>2
    <3> QED BY <3>1, <3>2
  <2>4. d.maxId < d.sinceId
    BY <1>1, <1>2, <1>3, <2>1
  <2> QED
    BY <1>4, <2>2, <2>3, <2>4 DEF Brackets
<1> QED BY <1>5, <1>6

\* A cursor that brackets some tweets is not the empty one, and it asks a
\* list for nothing.
LEMMA BracketingWindowEmpty ==
    ASSUME NEW c \in Cursors, NEW S, S \subseteq Ids, S # {}, Brackets(c, S),
           TypeOK, CursorSent
    PROVE  Window(c) = {}
<1>1. c.sinceId \in S /\ c.maxId < c.sinceId
  BY DEF Brackets
<1>2. c # NoCursor
  BY <1>1, IdsAssumption DEF NoCursor
<1>3. \A t \in published : t \in Int
  BY IdsAssumption DEF TypeOK
<1>4. c.maxId \in Int /\ c.sinceId \in Int
  BY DEF Cursors
<1> QED
  BY <1>1, <1>2, <1>3, <1>4 DEF Window

-----------------------------------------------------------------------------
(* The invariant *)

LEMMA InitIInv == Init => IInv
<1> SUFFICES ASSUME Init PROVE IInv
  OBVIOUS
<1>1. NoCursor \in Cursors
  BY IdsAssumption DEF NoCursor, Cursors
<1> QED
  BY <1>1 DEF Init, IInv, TypeOK, CursorBrackets, Brackets, ReplyBrackets,
              RequestIsCurrent, OnlyPublished, Idle

LEMMA NextIInv == IInv /\ [Next]_vars => IInv'
<1> SUFFICES ASSUME IInv, [Next]_vars PROVE IInv'
  OBVIOUS
<1> USE DEF IInv
<1>t. NoCursor \in Cursors
  BY IdsAssumption DEF NoCursor, Cursors
<1>1. ASSUME NEW t \in Ids, Publish(t) PROVE IInv'
  BY <1>1 DEF Publish, sources, TypeOK, CursorBrackets, Brackets,
              ReplyBrackets, RequestIsCurrent, OnlyPublished, Idle
<1>2. ASSUME Refetch, sources' \in BOOLEAN \X BOOLEAN \X BOOLEAN \X BOOLEAN
      PROVE  IInv'
  <2>1. ticked' \in BOOLEAN /\ reach' \in BOOLEAN /\ token' \in BOOLEAN
          /\ paused' \in BOOLEAN
    BY <1>2 DEF sources
  <2> QED
    BY <1>2, <2>1 DEF Refetch, TypeOK, CursorBrackets, Brackets,
              ReplyBrackets, RequestIsCurrent, OnlyPublished, Idle, SourcesFree
<1>3. CASE Tick
  BY <1>2, <1>3 DEF Tick, TypeOK, sources
<1>4. ASSUME NEW r \in BOOLEAN, ReachabilityChanged(r) PROVE IInv'
  BY <1>4 DEF ReachabilityChanged, TypeOK, CursorBrackets, Brackets,
              ReplyBrackets, RequestIsCurrent, OnlyPublished, Idle
<1>5. CASE AccountAuthorized
  BY <1>2, <1>5 DEF AccountAuthorized, TypeOK, sources
<1>6. ASSUME NEW p \in BOOLEAN, SetPaused(p) PROVE IInv'
  BY <1>2, <1>6 DEF SetPaused, TypeOK, sources
<1>14. CASE Switch
  BY <1>14 DEF Switch, SourcesFree, sources, TypeOK, CursorBrackets, Brackets,
              ReplyBrackets, RequestIsCurrent, OnlyPublished, Idle
<1>7. CASE Respond
  <2> DEFINE page == UnboxMany(Newest(Window(request)))
  <2>1. /\ request = cursor /\ live /\ cursor \in Cursors
        /\ reply' = [left |-> page, page |-> page, acc |-> cursor]
        /\ request' = NoRequest
        /\ UNCHANGED <<published, sources, live, cursor, refetching, delivered>>
    BY <1>7 DEF Respond, RequestIsCurrent, TypeOK
  <2>2. page \subseteq published \ Garbled
    BY DEF UnboxMany, Newest, Window
  <2>3. CursorSent /\ delivered # {} => page = {}
    <3> SUFFICES ASSUME CursorSent, delivered # {} PROVE page = {}
      OBVIOUS
    <3>1. Window(request) = {}
      BY <2>1, BracketingWindowEmpty DEF CursorBrackets, TypeOK
    <3> QED BY <3>1 DEF UnboxMany, Newest
  <2>4. reply'.left = page /\ reply'.page = page /\ reply'.acc = cursor
    BY <2>1
  <2>5. ReplyBrackets'
    <3>1. delivered' \cup (reply'.page \ reply'.left) = delivered
      BY <2>1, <2>4
    <3>2. Brackets(reply'.acc, delivered' \cup (reply'.page \ reply'.left))
      BY <2>4, <3>1 DEF CursorBrackets
    <3> QED
      BY <2>1, <2>2, <2>3, <2>4, <3>2 DEF ReplyBrackets, Brackets
  <2>6. TypeOK'
    <3>1. page \subseteq Ids
      BY <2>2 DEF TypeOK
    <3>2. reply' \in [left : SUBSET Ids, page : SUBSET Ids, acc : Cursors]
      BY <2>1, <3>1
    <3> QED
      BY <2>1, <3>2 DEF TypeOK, sources
  <2> QED
    BY <2>1, <2>5, <2>6 DEF CursorBrackets, Brackets, RequestIsCurrent,
                            OnlyPublished
<1>8. CASE CompleteEmpty
  BY <1>8 DEF CompleteEmpty, sources, TypeOK, CursorBrackets, Brackets,
              ReplyBrackets, RequestIsCurrent, OnlyPublished, Idle
<1>9. CASE RequestFails
  BY <1>9 DEF RequestFails, sources, TypeOK, CursorBrackets, Brackets,
              ReplyBrackets, RequestIsCurrent, OnlyPublished, Idle
<1>10. ASSUME NEW t \in Ids, Reduce(t) PROVE IInv'
  <2>1. /\ reply \in [left : SUBSET Ids, page : SUBSET Ids, acc : Cursors]
        /\ t \in reply.left /\ reply.left \subseteq reply.page
        /\ Brackets(reply.acc, delivered \cup (reply.page \ reply.left))
    BY <1>10 DEF Reduce, Idle, TypeOK, ReplyBrackets
  <2>2. /\ reply' = [left |-> reply.left \ {t}, page |-> reply.page,
                     acc  |-> Advance(reply.acc, t)]
        /\ UNCHANGED <<published, sources, live, cursor, request, refetching,
                       delivered>>
    BY <1>10 DEF Reduce
  <2>3. /\ reply'.left = reply.left \ {t}
        /\ reply'.page = reply.page
        /\ reply'.acc = Advance(reply.acc, t)
    BY <2>1, <2>2
  <2>4. delivered \cup (reply.page \ reply.left) \subseteq Ids
    BY <2>1 DEF TypeOK
  <2>5. /\ reply'.acc \in Cursors
        /\ Brackets(reply'.acc,
                    (delivered \cup (reply.page \ reply.left)) \cup {t})
    BY <2>1, <2>3, <2>4, AdvanceBrackets
  <2>6. delivered' \cup (reply'.page \ reply'.left)
          = (delivered \cup (reply.page \ reply.left)) \cup {t}
    BY <2>1, <2>2, <2>3
  <2>7. reply' \in [left : SUBSET Ids, page : SUBSET Ids, acc : Cursors]
    BY <2>1, <2>2, <2>3, <2>5
  <2>8. ReplyBrackets'
    <3>1. Brackets(reply'.acc, delivered' \cup (reply'.page \ reply'.left))
      BY <2>5, <2>6
    <3> QED
      BY <1>10, <2>1, <2>2, <2>3, <3>1
         DEF ReplyBrackets, Brackets, Reduce, Idle
  <2> QED
    BY <1>10, <2>2, <2>7, <2>8
       DEF Reduce, Idle, sources, TypeOK, CursorBrackets, Brackets,
           RequestIsCurrent, OnlyPublished
<1>11. CASE Deliver
  <2>1. /\ reply # NoReply /\ reply.left = {}
        /\ reply \in [left : SUBSET Ids, page : SUBSET Ids, acc : Cursors]
        /\ cursor' = reply.acc
        /\ delivered' = delivered \cup reply.page
        /\ reply' = NoReply
        /\ refetching = NoRequest
        /\ UNCHANGED <<published, sources, live, request, refetching>>
    BY <1>11 DEF Deliver, Idle, SourcesFree, TypeOK
  <2>2. Brackets(reply.acc, delivered \cup reply.page)
    <3>1. delivered \cup (reply.page \ reply.left) = delivered \cup reply.page
      BY <2>1
    <3> QED BY <2>1, <3>1 DEF ReplyBrackets
  <2>3. CursorBrackets'
    BY <2>1, <2>2 DEF CursorBrackets, Brackets
  <2>4. request = NoRequest /\ reply.page \subseteq published \ Garbled
    BY <2>1 DEF ReplyBrackets
  <2> QED
    BY <2>1, <2>3, <2>4 DEF sources, TypeOK, ReplyBrackets,
                            RequestIsCurrent, OnlyPublished
<1>12. CASE Reopen
  BY <1>12, <1>t DEF Reopen, TypeOK, CursorBrackets, Brackets,
              ReplyBrackets, RequestIsCurrent, OnlyPublished, Idle
<1>13. CASE UNCHANGED vars
  BY <1>13 DEF vars, sources, TypeOK, CursorBrackets, Brackets,
              ReplyBrackets, RequestIsCurrent, OnlyPublished, Idle
<1> QED
  BY <1>1, <1>3, <1>4, <1>5, <1>6, <1>7, <1>8, <1>9, <1>10, <1>11, <1>12,
     <1>13, <1>14 DEF Next

\* The fetcher's inductive invariant holds, within a reply being reduced too.
THEOREM IInvHolds == Spec => []IInv
<1>1. Init => IInv
  BY InitIInv
<1>2. IInv /\ [Next]_vars => IInv'
  BY NextIInv
<1> QED BY <1>1, <1>2, PTL DEF Spec

-----------------------------------------------------------------------------
(* The theorems *)

\* The fetcher's variables keep their types.
THEOREM TypeCorrect == Spec => []TypeOK
<1>1. IInv => TypeOK
  BY DEF IInv
<1> QED BY <1>1, IInvHolds, PTL

\* feedCursor always brackets exactly the tweets timeline has emitted.
THEOREM CursorCorrect == Spec => []CursorBrackets
<1>1. IInv => CursorBrackets
  BY DEF IInv
<1> QED BY <1>1, IInvHolds, PTL

\* A request in flight, and one the reachability queue is starting while a
\* reply is under way on the main thread, carries the cursor of now.
THEOREM RequestCorrect == Spec => []RequestIsCurrent
<1>1. IInv => RequestIsCurrent
  BY DEF IInv
<1> QED BY <1>1, IInvHolds, PTL

\* timeline emits only published tweets whose JSON is accepted.
THEOREM DeliveredCorrect == Spec => []OnlyPublished
<1>1. IInv => OnlyPublished
  BY DEF IInv
<1> QED BY <1>1, IInvHolds, PTL

\* A list's fetcher emits the tweets of one page in its life and no other.
THEOREM OnePage == ASSUME CursorSent PROVE Spec => OnePagePerFetcher
<1> DEFINE A == delivered # {} /\ delivered' # {} => delivered' = delivered
<1>1. ASSUME IInv, [Next]_vars PROVE [A]_vars
  <2>1. CASE Deliver
    <3>1. /\ reply # NoReply
          /\ delivered' = delivered \cup reply.page
      BY <2>1 DEF Deliver, Idle
    <3>2. delivered # {} => reply.page = {}
      BY <1>1, <3>1 DEF IInv, ReplyBrackets
    <3> QED BY <3>1, <3>2
  <2>2. CASE Reopen
    BY <2>2 DEF Reopen
  <2>3. CASE UNCHANGED vars
    BY <2>3
  <2>4. CASE ~Deliver /\ ~Reopen /\ Next
    <3>1. delivered' = delivered
      BY <2>4 DEF Next, Publish, Tick, ReachabilityChanged,
         AccountAuthorized, SetPaused, Refetch, Switch, Respond,
         CompleteEmpty, RequestFails, Reduce
    <3> QED BY <3>1
  <2> QED BY <1>1, <2>1, <2>2, <2>3, <2>4
<1>2. IInv /\ [Next]_vars => [A]_vars
  BY <1>1
<1> QED BY <1>2, IInvHolds, PTL DEF Spec, OnePagePerFetcher
=============================================================================
