-------------------------- MODULE UserCellsProofs --------------------------
(***************************************************************************)
(* Theorems about the cells of the table of users, for any cells, users    *)
(* and number of subscriptions.  That a row shows no foreign picture rests *)
(* on what a subscription is bound to (Bound) and on what its events may   *)
(* carry (EventsAreOwn): the rest of the queue belongs to others.          *)
(***************************************************************************)
EXTENDS UserCells, SequenceTheorems, TLAPS

Sub == [cell : Cells, user : Users]
Events(n) == [sub : 1 .. n, picture : Pictures]

\* The subscription in a cell's bag loads the picture of the cell's user.
Bound ==
    \A c \in Cells :
        shown[c] # None => /\ binding[c] # 0
                           /\ subs[binding[c]] = [cell |-> c, user |-> shown[c]]

\* A subscription's events carry the placeholder or its user's picture.
EventsAreOwn ==
    \A i \in 1 .. Len(queue) :
        queue[i].picture \in {Placeholder, subs[queue[i].sub].user}

CellsInv == CellsTypeOK /\ Bound /\ EventsAreOwn /\ PictureIsOwn

-----------------------------------------------------------------------------

\* A queue keeps its type when a subscription is made.
LEMMA EventsGrow ==
    ASSUME NEW n \in Nat PROVE Seq(Events(n)) \subseteq Seq(Events(n + 1))
<1>1. Events(n) \subseteq Events(n + 1)
  BY DEF Events
<1> QED BY <1>1, SeqMonotonic

\* What the variables are, in the form the steps use.
LEMMA CellFacts ==
    ASSUME CellsTypeOK
    PROVE  /\ Len(subs) \in Nat /\ DOMAIN queue = 1 .. Len(queue)
           /\ subs \in Seq(Sub) /\ queue \in Seq(Events(Len(subs)))
           /\ \A n \in 1 .. Len(subs) :
                subs[n] \in Sub /\ subs[n].cell \in Cells /\ subs[n].user \in Users
           /\ \A i \in 1 .. Len(queue) :
                queue[i].sub \in 1 .. Len(subs) /\ queue[i].picture \in Pictures
<1>1. subs \in Seq(Sub) /\ queue \in Seq(Events(Len(subs)))
  BY DEF CellsTypeOK, Sub, Events
<1>2. \A n \in 1 .. Len(subs) : subs[n] \in Sub
  BY <1>1, ElementOfSeq
<1>3. \A i \in 1 .. Len(queue) : queue[i] \in Events(Len(subs))
  BY <1>1, ElementOfSeq
<1> QED BY <1>1, <1>2, <1>3 DEF Sub, Events

-----------------------------------------------------------------------------
(* The steps *)

\* A cell is taken for a row: what was bound to it before is disposed.
LEMMA AppearKeeps ==
    ASSUME CellsInv, NEW c \in Cells, NEW u \in Users, Appear(c, u)
    PROVE  CellsInv'
<1> DEFINE n == Len(subs) + 1
           e == Event(n, Placeholder)
           s == [cell |-> c, user |-> u]
<1>0. CellsTypeOK /\ Bound /\ EventsAreOwn /\ PictureIsOwn
  BY DEF CellsInv
<1>f. /\ Len(subs) \in Nat /\ DOMAIN queue = 1 .. Len(queue)
      /\ subs \in Seq(Sub) /\ queue \in Seq(Events(Len(subs)))
      /\ \A i \in 1 .. Len(queue) :
           queue[i].sub \in 1 .. Len(subs) /\ queue[i].picture \in Pictures
  BY <1>0, CellFacts
<1>t. /\ shown \in [Cells -> Users \cup {None}]
      /\ picture \in [Cells -> Pictures \cup {None}]
      /\ binding \in [Cells -> 0 .. Len(subs)]
      /\ loading \subseteq 1 .. Len(subs) /\ fetched \subseteq 1 .. Len(subs)
  BY <1>0 DEF CellsTypeOK
<1>1. /\ shown' = [shown EXCEPT ![c] = u] /\ binding' = [binding EXCEPT ![c] = n]
      /\ subs' = Append(subs, s) /\ loading' = loading \cup {n}
      /\ fetched' = fetched /\ shown[c] = None
  BY DEF Appear
<1>2. \/ queue' = queue /\ queue = <<>> /\ picture' = [picture EXCEPT ![c] = Placeholder]
      \/ queue' = Append(queue, e) /\ picture' = picture
  BY DEF Appear
<1>s. s \in Sub /\ s.cell = c /\ s.user = u
  BY DEF Sub
<1>e. e \in Events(n) /\ e.sub = n /\ e.picture = Placeholder
  BY <1>f DEF Event, Events, Pictures
<1> HIDE DEF s, e
<1>3. /\ subs' \in Seq(Sub) /\ Len(subs') = n /\ subs'[n] = s
      /\ \A i \in 1 .. Len(subs) : subs'[i] = subs[i]
  BY <1>1, <1>f, <1>s, AppendProperties
<1>4. queue \in Seq(Events(n))
  BY <1>f, EventsGrow
<1>5. /\ queue' \in Seq(Events(n))
      /\ \A i \in 1 .. Len(queue') :
           (i \in 1 .. Len(queue) /\ queue'[i] = queue[i]) \/ queue'[i] = e
      /\ \A i \in 1 .. Len(queue) : i \in 1 .. Len(queue') /\ queue'[i] = queue[i]
  <2>1. CASE queue' = queue
    BY <1>4, <2>1
  <2>2. CASE queue' = Append(queue, e)
    BY <1>4, <1>e, <2>2, AppendProperties
  <2> QED BY <1>2, <2>1, <2>2
<1>6. CellsTypeOK'
  <2>1. n \in Nat /\ n \in 1 .. n /\ 0 .. Len(subs) \subseteq 0 .. n
        /\ 1 .. Len(subs) \subseteq 1 .. n
    BY <1>f
  <2>2. shown' \in [Cells -> Users \cup {None}]
    BY <1>1, <1>t
  <2>3. picture' \in [Cells -> Pictures \cup {None}]
    BY <1>2, <1>t DEF Pictures
  <2>4. binding' \in [Cells -> 0 .. n]
    BY <1>1, <1>t, <2>1
  <2> QED
    BY <1>1, <1>3, <1>5, <1>t, <2>1, <2>2, <2>3, <2>4 DEF CellsTypeOK, Sub, Events
<1>7. Bound'
  <2> SUFFICES ASSUME NEW d \in Cells, shown'[d] # None
               PROVE  binding'[d] # 0 /\ subs'[binding'[d]] = [cell |-> d, user |-> shown'[d]]
    BY DEF Bound
  <2>1. CASE d = c
    <3>1. binding'[d] = n /\ shown'[d] = u /\ n # 0
      BY <1>1, <1>f, <1>t, <2>1
    <3> QED BY <1>3, <2>1, <3>1 DEF s
  <2>2. CASE d # c
    <3>1. binding'[d] = binding[d] /\ shown'[d] = shown[d]
      BY <1>1, <1>t, <2>2
    <3>2. binding[d] # 0 /\ subs[binding[d]] = [cell |-> d, user |-> shown[d]]
      BY <1>0, <3>1 DEF Bound
    <3>3. binding[d] \in 0 .. Len(subs)
      BY <1>t
    <3>4. binding[d] \in 1 .. Len(subs)
      BY <1>f, <3>2, <3>3
    <3> QED BY <1>3, <3>1, <3>2, <3>4
  <2> QED BY <2>1, <2>2
<1>8. EventsAreOwn'
  <2> SUFFICES ASSUME NEW i \in 1 .. Len(queue')
               PROVE  queue'[i].picture \in {Placeholder, subs'[queue'[i].sub].user}
    BY DEF EventsAreOwn
  <2>1. CASE queue'[i] = e
    BY <1>e, <2>1
  <2>2. CASE i \in 1 .. Len(queue) /\ queue'[i] = queue[i]
    BY <1>0, <1>3, <1>f, <2>2 DEF EventsAreOwn
  <2> QED BY <1>5, <2>1, <2>2
<1>9. PictureIsOwn'
  <2> SUFFICES ASSUME NEW d \in Cells, shown'[d] # None, ~PlaceholderWaits(d)'
               PROVE  picture'[d] \in {Placeholder, shown'[d]}
    BY DEF PictureIsOwn
  <2>d. DOMAIN queue' = 1 .. Len(queue')
    BY <1>5
  <2>1. CASE d = c /\ queue' = queue
    <3>1. CASE picture' = [picture EXCEPT ![c] = Placeholder]
      BY <1>t, <2>1, <3>1
    <3>2. CASE queue' = Append(queue, e)
      BY <1>f, <2>1, <3>2
    <3> QED BY <1>2, <3>1, <3>2
  <2>2. CASE d = c /\ queue' = Append(queue, e)
    <3>1. Len(queue') = Len(queue) + 1 /\ queue'[Len(queue) + 1] = e
          /\ Len(queue) \in Nat
      BY <1>4, <1>e, <2>2, AppendProperties
    <3>2. binding'[d] = n
      BY <1>1, <1>t, <2>2
    <3>3. PlaceholderWaits(d)'
      BY <2>d, <3>1, <3>2 DEF PlaceholderWaits, e
    <3> QED BY <3>3
  <2>3. CASE d # c
    <3>1. /\ binding'[d] = binding[d] /\ shown'[d] = shown[d]
          /\ picture'[d] = picture[d]
      BY <1>1, <1>2, <1>t, <2>3
    <3>2. ~PlaceholderWaits(d)
      BY <1>5, <1>f, <2>d, <3>1 DEF PlaceholderWaits
    <3> QED BY <1>0, <3>1, <3>2 DEF PictureIsOwn
  <2> QED BY <1>2, <2>1, <2>2, <2>3
<1> QED BY <1>6, <1>7, <1>8, <1>9 DEF CellsInv

LEMMA DisappearKeeps ==
    ASSUME CellsInv, NEW c \in Cells, Disappear(c) PROVE CellsInv'
<1>0. CellsTypeOK /\ Bound /\ EventsAreOwn /\ PictureIsOwn
  BY DEF CellsInv
<1>1. /\ shown' = [shown EXCEPT ![c] = None]
      /\ UNCHANGED <<binding, picture, subs, loading, fetched, queue>>
  BY DEF Disappear
<1>2. shown \in [Cells -> Users \cup {None}]
  BY <1>0 DEF CellsTypeOK
<1>3. /\ shown' \in [Cells -> Users \cup {None}]
      /\ \A d \in Cells : shown'[d] # None => shown'[d] = shown[d] /\ shown[d] # None
  BY <1>1, <1>2
<1>4. CellsTypeOK'
  BY <1>0, <1>1, <1>3 DEF CellsTypeOK
<1>5. Bound'
  BY <1>0, <1>1, <1>3 DEF Bound
<1>6. EventsAreOwn'
  BY <1>0, <1>1 DEF EventsAreOwn
<1>7. PictureIsOwn'
  BY <1>0, <1>1, <1>3 DEF PictureIsOwn, PlaceholderWaits
<1> QED BY <1>4, <1>5, <1>6, <1>7 DEF CellsInv

\* An answer brings the placeholder or its user's picture, or is dropped.
LEMMA AnsweredKeeps ==
    ASSUME CellsInv, NEW n \in loading, NEW p \in {Placeholder, subs[n].user},
           Answered(n, p)
    PROVE  CellsInv'
<1> DEFINE e == Event(n, p)
<1>0. CellsTypeOK /\ Bound /\ EventsAreOwn /\ PictureIsOwn
  BY DEF CellsInv
<1>f. /\ Len(subs) \in Nat /\ DOMAIN queue = 1 .. Len(queue)
      /\ queue \in Seq(Events(Len(subs)))
      /\ \A i \in 1 .. Len(subs) : subs[i].user \in Users
  BY <1>0, CellFacts
<1>n. n \in 1 .. Len(subs)
  BY <1>0 DEF CellsTypeOK
<1>1. /\ loading' = loading \ {n} /\ fetched' \in {fetched, fetched \cup {n}}
      /\ queue' = queue \/ queue' = Append(queue, e)
      /\ UNCHANGED <<shown, binding, picture, subs>>
  BY DEF Answered
<1>e. e \in Events(Len(subs)) /\ e.sub = n /\ e.picture = p
  BY <1>f, <1>n DEF Event, Events, Pictures
<1> HIDE DEF e
<1>2. /\ queue' \in Seq(Events(Len(subs)))
      /\ \A i \in 1 .. Len(queue') :
           (i \in 1 .. Len(queue) /\ queue'[i] = queue[i]) \/ queue'[i] = e
      /\ \A i \in 1 .. Len(queue) : i \in 1 .. Len(queue') /\ queue'[i] = queue[i]
  <2>1. CASE queue' = queue
    BY <1>f, <2>1
  <2>2. CASE queue' = Append(queue, e)
    BY <1>f, <1>e, <2>2, AppendProperties
  <2> QED BY <1>1, <2>1, <2>2
<1>3. CellsTypeOK'
  <2>1. loading' \subseteq 1 .. Len(subs) /\ fetched' \subseteq 1 .. Len(subs)
    BY <1>0, <1>1, <1>n DEF CellsTypeOK
  <2> QED BY <1>0, <1>1, <1>2, <2>1 DEF CellsTypeOK, Events
<1>4. Bound'
  BY <1>0, <1>1 DEF Bound
<1>5. EventsAreOwn'
  <2> SUFFICES ASSUME NEW i \in 1 .. Len(queue')
               PROVE  queue'[i].picture \in {Placeholder, subs[queue'[i].sub].user}
    BY <1>1 DEF EventsAreOwn
  <2>1. CASE queue'[i] = e
    BY <1>e, <2>1
  <2>2. CASE i \in 1 .. Len(queue) /\ queue'[i] = queue[i]
    BY <1>0, <2>2 DEF EventsAreOwn
  <2> QED BY <1>2, <2>1, <2>2
<1>6. PictureIsOwn'
  <2>d. DOMAIN queue' = 1 .. Len(queue')
    BY <1>2
  <2>1. \A d \in Cells : PlaceholderWaits(d) => PlaceholderWaits(d)'
    BY <1>1, <1>2, <1>f, <2>d DEF PlaceholderWaits
  <2> QED BY <1>0, <1>1, <2>1 DEF PictureIsOwn
<1> QED BY <1>3, <1>4, <1>5, <1>6 DEF CellsInv

\* The first event of the queue reaches its cell unless the cell is another
\* row's by now.
LEMMA DeliverKeeps == ASSUME CellsInv, Deliver PROVE CellsInv'
<1> DEFINE e == Head(queue)
           c == subs[e.sub].cell
           rest == Tail(queue)
<1>0. CellsTypeOK /\ Bound /\ EventsAreOwn /\ PictureIsOwn
  BY DEF CellsInv
<1>f. /\ Len(subs) \in Nat /\ DOMAIN queue = 1 .. Len(queue)
      /\ queue \in Seq(Events(Len(subs)))
      /\ \A n \in 1 .. Len(subs) : subs[n].cell \in Cells /\ subs[n].user \in Users
      /\ \A i \in 1 .. Len(queue) :
           queue[i].sub \in 1 .. Len(subs) /\ queue[i].picture \in Pictures
  BY <1>0, CellFacts
<1>1. /\ queue' = rest /\ queue # <<>>
      /\ UNCHANGED <<shown, binding, subs, loading, fetched>>
      /\ picture' = IF Disposed(e.sub) THEN picture
                    ELSE [picture EXCEPT ![c] = e.picture]
  BY DEF Deliver
<1>2. /\ 1 \in 1 .. Len(queue) /\ e = queue[1]
      /\ rest \in Seq(Events(Len(subs))) /\ Len(rest) = Len(queue) - 1
      /\ \A i \in 1 .. Len(rest) :
           i + 1 \in 1 .. Len(queue) /\ rest[i] = queue[i + 1]
      /\ \A i \in 1 .. Len(queue) : i = 1 \/ (i - 1 \in 1 .. Len(rest)
                                              /\ rest[i - 1] = queue[i])
  BY <1>1, <1>f
<1>3. /\ e.sub \in 1 .. Len(subs) /\ c \in Cells /\ e.picture \in Pictures
      /\ e.picture \in {Placeholder, subs[e.sub].user}
  BY <1>0, <1>2, <1>f DEF EventsAreOwn
<1> HIDE DEF e, rest
<1>4. CellsTypeOK'
  <2>1. picture' \in [Cells -> Pictures \cup {None}]
    BY <1>0, <1>1, <1>3 DEF CellsTypeOK
  <2> QED BY <1>0, <1>1, <1>2, <2>1 DEF CellsTypeOK, Events
<1>5. Bound'
  BY <1>0, <1>1 DEF Bound
<1>6. EventsAreOwn'
  BY <1>0, <1>1, <1>2 DEF EventsAreOwn
<1>7. PictureIsOwn'
  <2> SUFFICES ASSUME NEW d \in Cells, shown[d] # None, ~PlaceholderWaits(d)'
               PROVE  picture'[d] \in {Placeholder, shown[d]}
    BY <1>1 DEF PictureIsOwn
  <2>d. DOMAIN rest = 1 .. Len(rest)
    BY <1>2
  <2>1. CASE ~Disposed(e.sub) /\ d = c
    <3>1. binding[d] = e.sub
      BY <2>1 DEF Disposed
    <3>2. subs[binding[d]] = [cell |-> d, user |-> shown[d]]
      BY <1>0 DEF Bound
    <3>3. subs[binding[d]].user = shown[d]
      BY <3>2
    <3>4. subs[e.sub].user = shown[d]
      BY <3>1, <3>3
    <3>5. picture'[d] = e.picture
      BY <1>0, <1>1, <2>1 DEF CellsTypeOK
    <3> QED BY <1>3, <3>4, <3>5
  <2>2. CASE Disposed(e.sub) \/ d # c
    <3>1. picture'[d] = picture[d]
      BY <1>0, <1>1, <2>2 DEF CellsTypeOK
    <3>2. e.sub # binding[d]
      <4> SUFFICES ASSUME e.sub = binding[d] PROVE FALSE
        OBVIOUS
      <4>1. subs[binding[d]] = [cell |-> d, user |-> shown[d]]
        BY <1>0 DEF Bound
      <4>2. subs[binding[d]].cell = d
        BY <4>1
      <4>3. subs[e.sub].cell = d
        BY <4>2
      <4> QED BY <2>2, <4>3 DEF Disposed
    <3>3. ~PlaceholderWaits(d)
      <4> SUFFICES ASSUME NEW i \in 1 .. Len(queue),
                          queue[i] = Event(binding[d], Placeholder)
                   PROVE  FALSE
        BY <1>f DEF PlaceholderWaits
      <4>1. queue[i].sub = binding[d]
        BY DEF Event
      <4>2. i # 1
        BY <1>2, <3>2, <4>1
      <4>3. i - 1 \in 1 .. Len(rest) /\ rest[i - 1] = queue[i]
        BY <1>2, <4>2
      <4>4. PlaceholderWaits(d)'
        BY <1>1, <2>d, <4>3 DEF PlaceholderWaits
      <4> QED BY <4>4
    <3> QED BY <1>0, <3>1, <3>3 DEF PictureIsOwn
  <2> QED BY <2>1, <2>2
<1> QED BY <1>4, <1>5, <1>6, <1>7 DEF CellsInv

\* What cells, subscriptions and queued events know of each other holds however
\* rows come and go and pictures arrive.
THEOREM CellsInvHolds == CellsSpec => []CellsInv
<1>1. CellsInit => CellsInv
  <2> SUFFICES ASSUME CellsInit PROVE CellsInv
    OBVIOUS
  <2>1. CellsTypeOK
    BY DEF CellsInit, CellsTypeOK
  <2>2. Bound /\ EventsAreOwn /\ PictureIsOwn
    BY DEF CellsInit, Bound, EventsAreOwn, PictureIsOwn
  <2> QED BY <2>1, <2>2 DEF CellsInv
<1>2. CellsInv /\ [CellsNext]_cellVars => CellsInv'
  <2> SUFFICES ASSUME CellsInv, [CellsNext]_cellVars PROVE CellsInv'
    OBVIOUS
  <2>1. CASE \E c \in Cells : Disappear(c) \/ \E u \in Users : Appear(c, u)
    BY <2>1, DisappearKeeps, AppearKeeps
  <2>2. CASE \E n \in loading : Answer(n)
    BY <2>2, AnsweredKeeps DEF Answer
  <2>3. CASE Deliver
    BY <2>3, DeliverKeeps
  <2>4. CASE UNCHANGED cellVars
    BY <2>4 DEF cellVars, CellsInv, CellsTypeOK, Bound, EventsAreOwn,
                PictureIsOwn, PlaceholderWaits
  <2> QED BY <2>1, <2>2, <2>3, <2>4 DEF CellsNext
<1> QED BY <1>1, <1>2, PTL DEF CellsSpec

\* Subscriptions, requests and events are what they are taken for, for any
\* number of cells, users and subscriptions.
THEOREM CellsTyped == CellsSpec => []CellsTypeOK
<1>1. CellsInv => CellsTypeOK
  BY DEF CellsInv
<1> QED BY <1>1, CellsInvHolds, PTL

\* However rows come and go, however late pictures are loaded or fail, and
\* however long the main queue is, no row shows another user's picture once its
\* placeholder is there.
THEOREM PicturesAreOwn == CellsSpec => []PictureIsOwn
<1>1. CellsInv => PictureIsOwn
  BY DEF CellsInv
<1> QED BY <1>1, CellsInvHolds, PTL
=============================================================================
