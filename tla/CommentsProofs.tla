--------------------------- MODULE CommentsProofs ---------------------------
(***************************************************************************)
(* Theorems about the comments screen and the Firebase client under it,    *)
(* for any comments, any number of screens, comments, faults and changes   *)
(* by other clients.                                                       *)
(***************************************************************************)
EXTENDS CommentsScreen, SyncTreeProofs

\* What the text field, its latest text and the button are to each other.
SafeJobs == {j \in Jobs : j.op = "set" => j.text # Empty}

InputInv ==
    /\ work \in Seq(SafeJobs)
    /\ screen \in Nat /\ opened \in Nat
    /\ field \in Texts /\ latest \in Texts
    /\ enabled => latest # Empty
    /\ focused => latest = field

-----------------------------------------------------------------------------
(* The field and the button *)

\* A comment with a text makes a safe job.
LEMMA CommentSafe ==
    ASSUME InputInv, NEW text \in Texts, text # Empty, Comment(text)
    PROVE  work' \in Seq(SafeJobs)
<1> DEFINE j == [op |-> "set", path |-> PathOf(text), text |-> text]
<1>1. PathOf(text) \in Paths
  BY DEF PathOf, Paths
<1>2. j \in [op : {"set"}, path : Paths, text : Texts]
  BY <1>1
<1>3. j \in SafeJobs
  BY <1>2 DEF SafeJobs, Jobs
<1>4. work' = Append(work, j) /\ work \in Seq(SafeJobs)
  BY DEF Comment, InputInv
<1> HIDE DEF j
<1> QED BY <1>3, <1>4

\* The client takes jobs from the head of its queue and adds none.
LEMMA DatabaseTakesJobs ==
    DatabaseNext => work' = work \/ (work # <<>> /\ work' = Tail(work))
<1> SUFFICES ASSUME DatabaseNext
             PROVE  work' = work \/ (work # <<>> /\ work' = Tail(work))
  OBVIOUS
<1>1. CASE SetValue \/ AddObserver \/ RemoveObserver
  BY <1>1 DEF SetValue, AddObserver, RemoveObserver, Job
<1>2. CASE OnDataUpdate \/ OnPutAnswer \/ OnListenAnswer \/ AckPuts
  BY <1>2 DEF OnDataUpdate, OnPutAnswer, OnListenAnswer, AckPuts
<1>3. CASE Connecting \/ TokenFailed \/ Disconnect \/ Kill
  BY <1>3 DEF Connecting, Retry, TokenFetched, Ready, TokenFailed, Disconnect, Kill, LoseConnection,
              idleQueues
<1>4. CASE Serving \/ \E k \in Keys, value \in {Leaf, {}} : RemoteChange(k, value)
  BY <1>4 DEF Serving, ServeListen, ServePut, ServeUnlisten, RemoteChange,
              Request, clientSide
<1> QED
  BY <1>1, <1>2, <1>3, <1>4 DEF DatabaseNext, Worker

LEMMA NextInputInv == InputInv /\ [CommentsNext]_allVars => InputInv'
<1> SUFFICES ASSUME InputInv, [CommentsNext]_allVars PROVE InputInv'
  OBVIOUS
<1>i. /\ work \in Seq(SafeJobs) /\ screen \in Nat /\ opened \in Nat
      /\ field \in Texts /\ latest \in Texts
      /\ enabled => latest # Empty
      /\ focused => latest = field
  BY DEF InputInv
<1>e. Empty \in Texts
  BY DEF Texts
<1>1. CASE DatabaseNext /\ UNCHANGED ui
  <2>1. work' \in Seq(SafeJobs)
    BY <1>1, <1>i, DatabaseTakesJobs
  <2> QED BY <1>1, <1>i, <2>1 DEF ui, input, InputInv
<1>2. CASE Deliver
  BY <1>2, <1>i DEF Deliver, input, InputInv
<1>3. CASE BeginEditing \/ EndEditing
  BY <1>3, <1>i DEF BeginEditing, EndEditing, Emit, SubmitEnabled, vars, InputInv
<1>4. ASSUME NEW text \in Texts, Edit(text) PROVE InputInv'
  BY <1>4, <1>i DEF Edit, Emit, SubmitEnabled, vars, InputInv
<1>5. CASE SubmitAfterResign
  <2> DEFINE text == IF focused THEN field ELSE latest
  <2>1. text \in Texts /\ text # Empty
    BY <1>5, <1>i DEF SubmitAfterResign
  <2>2. Comment(text) /\ latest' = text /\ focused' = FALSE /\ field' = Empty
          /\ UNCHANGED <<screen, opened>>
    BY <1>5 DEF SubmitAfterResign
  <2>3. work' \in Seq(SafeJobs)
    BY <2>1, <2>2, CommentSafe
  <2> QED BY <1>e, <1>i, <2>1, <2>2, <2>3 DEF InputInv
<1>6. CASE SubmitBeforeResign
  <2>1. latest \in Texts /\ latest # Empty
    BY <1>6, <1>i DEF SubmitBeforeResign
  <2>2. work' \in Seq(SafeJobs)
    BY <1>6, <2>1, CommentSafe DEF SubmitBeforeResign
  <2> QED
    BY <1>6, <1>e, <1>i, <2>1, <2>2
    DEF SubmitBeforeResign, Emit, SubmitEnabled, InputInv
<1>7. CASE Open \/ Close
  <2>1. PICK op \in {"observe", "remove"}, n \in Screens :
          work' = Append(work, [op |-> op, screen |-> n])
    BY <1>7, <1>i DEF Open, Close, Screens
  <2>2. [op |-> op, screen |-> n] \in SafeJobs
    BY DEF SafeJobs, Jobs
  <2>3. work' \in Seq(SafeJobs)
    BY <1>i, <2>1, <2>2
  <2>4. screen' \in Nat /\ opened' \in Nat
    BY <1>7, <1>i DEF Open, Close
  <2> QED BY <1>7, <1>e, <2>3, <2>4 DEF Open, Close, InputInv
<1>8. CASE UNCHANGED allVars
  BY <1>8, <1>i DEF allVars, vars, ui, input, InputInv
<1> QED
  BY <1>1, <1>2, <1>3, <1>4, <1>5, <1>6, <1>7, <1>8 DEF CommentsNext, User

\* The submit button is enabled only over a text that is not empty: its state
\* and commentText's latest text change together.
THEOREM InputInvHolds == CommentsSpec => []InputInv
<1>1. CommentsInit => InputInv
  BY DEF CommentsInit, DatabaseInit, InputInv, Texts
<1> QED BY <1>1, NextInputInv, PTL DEF CommentsSpec

\* No sequence of editing, emptying and submitting, with either handler of the
\* button first, posts the empty text, whose path is the whole list.
THEOREM NeverEmpty == CommentsSpec => []EmptyNeverSubmitted
<1>1. InputInv => EmptyNeverSubmitted
  <2> SUFFICES ASSUME InputInv, NEW i \in DOMAIN work, work[i].op = "set"
               PROVE  work[i].text # Empty
    BY DEF EmptyNeverSubmitted
  <2>1. work[i] \in SafeJobs
    BY DEF InputInv
  <2> QED BY <2>1 DEF SafeJobs
<1> QED BY <1>1, InputInvHolds, PTL
-----------------------------------------------------------------------------
(* Writes and their answers *)

Ids(s) == {s[i].id : i \in 1 .. Len(s)}
Distinct(s) == \A i, j \in 1 .. Len(s) : s[i].id = s[j].id => i = j
IsSequence(s) == \E S : s \in Seq(S)

\* Of writes with distinct ids one is removed and the others stay.
LEMMA RemoveWrite ==
    ASSUME NEW s \in Seq(Write), Distinct(s), NEW i \in 1 .. Len(s)
    PROVE  /\ RemoveAt(s, i) \in Seq(Write)
           /\ Distinct(RemoveAt(s, i))
           /\ Ids(RemoveAt(s, i)) = Ids(s) \ {s[i].id}
<1> DEFINE r == RemoveAt(s, i)
           From(j) == IF j < i THEN j ELSE j + 1
<1>1. /\ r \in Seq(Write) /\ Len(r) = Len(s) - 1
      /\ \A j \in 1 .. Len(s) - 1 : r[j] = s[From(j)]
  BY RemoveAtProperties
<1> HIDE DEF r
<1>2. \A j \in 1 .. Len(r) : From(j) \in 1 .. Len(s) \ {i} /\ r[j] = s[From(j)]
  BY <1>1
<1>3. Distinct(r)
  <2> SUFFICES ASSUME NEW j \in 1 .. Len(r), NEW k \in 1 .. Len(r),
                      r[j].id = r[k].id
               PROVE  j = k
    BY DEF Distinct
  <2>1. From(j) = From(k)
    BY <1>2 DEF Distinct
  <2> QED BY <2>1
<1>4. ASSUME NEW n \in Ids(r) PROVE n \in Ids(s) \ {s[i].id}
  <2>1. PICK j \in 1 .. Len(r) : n = r[j].id
    BY DEF Ids
  <2> QED BY <1>2, <2>1 DEF Ids, Distinct
<1>5. ASSUME NEW n \in Ids(s) \ {s[i].id} PROVE n \in Ids(r)
  <2>1. PICK k \in 1 .. Len(s) : n = s[k].id /\ k # i
    BY DEF Ids
  <2>2. \E j \in 1 .. Len(r) : From(j) = k
    <3>1. CASE k < i
      BY <1>1, <2>1, <3>1
    <3>2. CASE k > i
      <4>1. k - 1 \in 1 .. Len(r) /\ From(k - 1) = k
        BY <1>1, <3>2
      <4> QED BY <4>1
    <3> QED BY <2>1, <3>1, <3>2
  <2> QED BY <1>1, <2>1, <2>2 DEF Ids
<1> QED BY <1>1, <1>3, <1>4, <1>5 DEF r

\* What FWriteTree and FPersistentConnection keep of the writes.
WritesInv ==
    /\ allWrites \in Seq(Write) /\ IsSequence(putsToAck)
    /\ outstandingPuts \subseteq Nat /\ writeIdCounter \in Nat
    /\ Distinct(allWrites) /\ \A n \in Ids(allWrites) : n < writeIdCounter
    /\ Ids(allWrites) = outstandingPuts \cup Ids(putsToAck)
    /\ outstandingPuts \cap Ids(putsToAck) = {}
    /\ Distinct(putsToAck)
    /\ acking => putsToAck # <<>>

\* An acknowledged write is taken from the tree, and only that.
LEMMA AckForgets ==
    ASSUME WritesInv, NEW id \in Ids(allWrites), NEW ok, AckWrite(id, ok)
    PROVE  /\ allWrites' \in Seq(Write) /\ Distinct(allWrites')
           /\ Ids(allWrites') = Ids(allWrites) \ {id}
<1>1. \E i \in DOMAIN allWrites : allWrites[i].id = id
  BY DEF WritesInv, Ids
<1>2. WriteIndex(id) \in DOMAIN allWrites /\ allWrites[WriteIndex(id)].id = id
  BY <1>1 DEF WriteIndex
<1>3. WriteIndex(id) \in 1 .. Len(allWrites)
  BY <1>2 DEF WritesInv
<1>4. allWrites' = RemoveAt(allWrites, WriteIndex(id))
  BY DEF AckWrite
<1>5. allWrites \in Seq(Write) /\ Distinct(allWrites)
  BY DEF WritesInv
<1> QED BY <1>2, <1>3, <1>4, <1>5, RemoveWrite

\* One more element, and the first one less.
LEMMA IdsAppended ==
    ASSUME NEW S, NEW s \in Seq(S), NEW e \in S
    PROVE  /\ Ids(Append(s, e)) = Ids(s) \cup {e.id}
           /\ Distinct(s) /\ e.id \notin Ids(s) => Distinct(Append(s, e))
<1> DEFINE t == Append(s, e)
<1>1. /\ Len(t) = Len(s) + 1 /\ t[Len(s) + 1] = e
      /\ \A j \in 1 .. Len(s) : t[j] = s[j]
  BY AppendProperties
<1> HIDE DEF t
<1>2. \A n \in Ids(t) : n \in Ids(s) \cup {e.id}
  BY <1>1 DEF Ids
<1>3. \A n \in Ids(s) \cup {e.id} : n \in Ids(t)
  <2>1. Len(s) + 1 \in 1 .. Len(t)
    BY <1>1
  <2> QED BY <1>1, <2>1 DEF Ids
<1>4. ASSUME Distinct(s), e.id \notin Ids(s) PROVE Distinct(t)
  BY <1>1, <1>4 DEF Distinct, Ids
<1> QED BY <1>2, <1>3, <1>4 DEF t

LEMMA IdsOfTail ==
    ASSUME NEW S, NEW s \in Seq(S), s # <<>>, Distinct(s)
    PROVE  /\ Head(s).id \in Ids(s)
           /\ Ids(Tail(s)) = Ids(s) \ {Head(s).id}
           /\ Distinct(Tail(s))
<1> DEFINE t == Tail(s)
<1>1. /\ Len(s) \in Nat \ {0} /\ Head(s) = s[1]
      /\ Len(t) = Len(s) - 1 /\ \A j \in 1 .. Len(t) : t[j] = s[j + 1]
  OBVIOUS
<1> HIDE DEF t
<1>2. Head(s).id \in Ids(s)
  BY <1>1 DEF Ids
<1>3. ASSUME NEW n \in Ids(t) PROVE n \in Ids(s) \ {Head(s).id}
  <2>1. PICK j \in 1 .. Len(t) : n = t[j].id
    BY DEF Ids
  <2>2. j + 1 \in 1 .. Len(s) /\ 1 \in 1 .. Len(s) /\ n = s[j + 1].id
    BY <1>1, <2>1
  <2> QED BY <1>1, <2>2 DEF Ids, Distinct
<1>4. ASSUME NEW n \in Ids(s) \ {Head(s).id} PROVE n \in Ids(t)
  <2>1. PICK j \in 1 .. Len(s) : n = s[j].id /\ j # 1
    BY <1>1 DEF Ids
  <2>2. j - 1 \in 1 .. Len(t) /\ t[j - 1] = s[j]
    BY <1>1, <2>1
  <2> QED BY <2>1, <2>2 DEF Ids
<1>5. Distinct(t)
  <2> SUFFICES ASSUME NEW j \in 1 .. Len(t), NEW k \in 1 .. Len(t),
                      t[j].id = t[k].id
               PROVE  j = k
    BY DEF Distinct
  <2>1. /\ j + 1 \in 1 .. Len(s) /\ k + 1 \in 1 .. Len(s)
        /\ s[j + 1].id = s[k + 1].id
    BY <1>1
  <2> QED BY <2>1 DEF Distinct
<1> QED BY <1>2, <1>3, <1>4, <1>5 DEF t

\* Appending needs no type for what is appended.
LEMMA HeldAppended ==
    ASSUME NEW s, IsSequence(s), NEW e, Distinct(s), e.id \notin Ids(s)
    PROVE  /\ IsSequence(Append(s, e)) /\ Append(s, e) # <<>>
           /\ Ids(Append(s, e)) = Ids(s) \cup {e.id}
           /\ Distinct(Append(s, e))
<1>1. PICK S : s \in Seq(S)
  BY DEF IsSequence
<1> DEFINE T == S \cup {e}
<1>2. s \in Seq(T) /\ e \in T
  BY <1>1, SeqMonotonic
<1> HIDE DEF T
<1>3. Append(s, e) \in Seq(T) /\ Append(s, e) # <<>>
  BY <1>2
<1> QED BY <1>2, <1>3, IdsAppended DEF IsSequence

LEMMA HeldTail ==
    ASSUME NEW s, IsSequence(s), s # <<>>, Distinct(s)
    PROVE  /\ IsSequence(Tail(s)) /\ Len(s) \in Nat
           /\ Len(s) > 1 => Tail(s) # <<>>
           /\ Head(s).id \in Ids(s)
           /\ Ids(Tail(s)) = Ids(s) \ {Head(s).id}
           /\ Distinct(Tail(s))
<1>1. PICK S : s \in Seq(S)
  BY DEF IsSequence
<1>2. Tail(s) \in Seq(S) /\ Len(s) \in Nat /\ (Len(s) > 1 => Tail(s) # <<>>)
  BY <1>1
<1> QED BY <1>1, <1>2, IdsOfTail DEF IsSequence

bookkeeping == <<allWrites, writeIdCounter, outstandingPuts, putsToAck, acking>>

\* A step that leaves the bookkeeping alone.
LEMMA BookkeepingKept ==
    ASSUME WritesInv, UNCHANGED bookkeeping PROVE WritesInv'
<1>1. /\ allWrites' = allWrites /\ writeIdCounter' = writeIdCounter
      /\ outstandingPuts' = outstandingPuts /\ putsToAck' = putsToAck
      /\ acking' = acking
  BY DEF bookkeeping
<1>2. IsSequence(putsToAck) /\ Distinct(putsToAck) /\ Distinct(allWrites)
  BY DEF WritesInv
<1>3. /\ IsSequence(putsToAck') /\ Distinct(putsToAck') /\ Distinct(allWrites')
      /\ Ids(allWrites') = Ids(allWrites) /\ Ids(putsToAck') = Ids(putsToAck)
  BY <1>1, <1>2
<1> QED BY <1>1, <1>3 DEF WritesInv

\* FRepo.set gives the write the next id.
LEMMA SetValueKeeps == ASSUME WritesInv, InputInv, SetValue PROVE WritesInv'
<1> DEFINE w == [id |-> writeIdCounter, path |-> Head(work).path]
<1>1. w \in Write /\ w.id = writeIdCounter
  <2>1. Head(work) \in SafeJobs /\ Head(work).op = "set"
    BY DEF SetValue, Job, InputInv
  <2>2. Head(work).path \in Paths
    BY <2>1 DEF SafeJobs, Jobs
  <2> QED BY <2>2 DEF WritesInv, Write
<1>2. /\ allWrites' = Append(allWrites, w)
      /\ outstandingPuts' = outstandingPuts \cup {w.id}
      /\ writeIdCounter' = writeIdCounter + 1
      /\ putsToAck' = putsToAck /\ acking' = acking
  BY DEF SetValue, pending
<1> HIDE DEF w
<1>3. w.id \notin Ids(allWrites) /\ allWrites \in Seq(Write) /\ Distinct(allWrites)
  BY <1>1 DEF WritesInv
<1>4. /\ allWrites' \in Seq(Write) /\ Distinct(allWrites')
      /\ Ids(allWrites') = Ids(allWrites) \cup {w.id}
  BY <1>1, <1>2, <1>3, IdsAppended
<1>5. w.id \notin outstandingPuts \cup Ids(putsToAck)
  BY <1>3 DEF WritesInv
<1>6. Ids(putsToAck') = Ids(putsToAck) /\ Distinct(putsToAck') /\ IsSequence(putsToAck')
  BY <1>2 DEF WritesInv
<1>7. \A n \in Ids(allWrites') : n < writeIdCounter'
  <2>1. ASSUME NEW n \in Ids(allWrites) PROVE n \in Nat /\ n < writeIdCounter
    <3>1. PICK i \in 1 .. Len(allWrites) : n = allWrites[i].id
      BY DEF Ids
    <3>2. allWrites[i] \in Write
      BY <1>3, ElementOfSeq
    <3> QED BY <3>1, <3>2 DEF Write, WritesInv
  <2> QED BY <1>1, <1>2, <1>4, <2>1 DEF WritesInv
<1>8. writeIdCounter' \in Nat /\ outstandingPuts' \subseteq Nat
  BY <1>1, <1>2 DEF WritesInv
<1>9. acking' => putsToAck' # <<>>
  BY <1>2 DEF WritesInv
<1>10. /\ Ids(allWrites') = outstandingPuts' \cup Ids(putsToAck')
       /\ outstandingPuts' \cap Ids(putsToAck') = {}
  BY <1>2, <1>4, <1>5, <1>6 DEF WritesInv
<1> QED BY <1>4, <1>6, <1>7, <1>8, <1>9, <1>10 DEF WritesInv

\* The answer to a put settles it or is held back.
LEMMA PutAnswerKeeps == ASSUME WritesInv, OnPutAnswer PROVE WritesInv'
<1> DEFINE m == Head(toClient)
           h == [id |-> m.id, ok |-> m.ok]
<1>1. CASE m.id \notin outstandingPuts
  BY <1>1, BookkeepingKept DEF OnPutAnswer, caches, bookkeeping
<1>2. CASE m.id \in outstandingPuts /\ unackedListensCount = 0
  <2>1. /\ outstandingPuts' = outstandingPuts \ {m.id} /\ AckWrite(m.id, m.ok)
        /\ UNCHANGED <<putsToAck, writeIdCounter, acking>>
    BY <1>2 DEF OnPutAnswer
  <2>2. m.id \in Ids(allWrites) /\ m.id \notin Ids(putsToAck)
    BY <1>2 DEF WritesInv
  <2>3. /\ allWrites' \in Seq(Write) /\ Distinct(allWrites')
        /\ Ids(allWrites') = Ids(allWrites) \ {m.id}
    BY <2>1, <2>2, AckForgets
  <2>4. Ids(putsToAck') = Ids(putsToAck) /\ Distinct(putsToAck')
        /\ IsSequence(putsToAck')
    BY <2>1 DEF WritesInv
  <2>5. \A n \in Ids(allWrites') : n < writeIdCounter'
    BY <2>1, <2>3 DEF WritesInv
  <2>6. /\ Ids(allWrites') = outstandingPuts' \cup Ids(putsToAck')
        /\ outstandingPuts' \cap Ids(putsToAck') = {}
    BY <2>1, <2>2, <2>3, <2>4 DEF WritesInv
  <2> QED BY <2>1, <2>3, <2>4, <2>5, <2>6 DEF WritesInv
<1>3. CASE m.id \in outstandingPuts /\ unackedListensCount # 0
  <2>1. /\ outstandingPuts' = outstandingPuts \ {m.id}
        /\ putsToAck' = Append(putsToAck, h)
        /\ UNCHANGED <<allWrites, writeIdCounter, acking>>
    BY <1>3 DEF OnPutAnswer, caches
  <2>2. h.id = m.id /\ m.id \notin Ids(putsToAck)
    BY <1>3 DEF WritesInv
  <2> HIDE DEF h
  <2>3. /\ IsSequence(putsToAck') /\ putsToAck' # <<>> /\ Distinct(putsToAck')
        /\ Ids(putsToAck') = Ids(putsToAck) \cup {m.id}
    BY <2>1, <2>2, HeldAppended DEF WritesInv
  <2>4. /\ Ids(allWrites') = Ids(allWrites) /\ Distinct(allWrites')
        /\ \A n \in Ids(allWrites') : n < writeIdCounter'
    BY <2>1 DEF WritesInv
  <2>5. /\ Ids(allWrites') = outstandingPuts' \cup Ids(putsToAck')
        /\ outstandingPuts' \cap Ids(putsToAck') = {}
    BY <1>3, <2>1, <2>2, <2>3, <2>4 DEF WritesInv
  <2> QED BY <2>1, <2>3, <2>4, <2>5 DEF WritesInv
<1> QED BY <1>1, <1>2, <1>3

\* The answers held back are settled one by one.
LEMMA AckPutsKeeps == ASSUME WritesInv, AckPuts PROVE WritesInv'
<1> DEFINE id == Head(putsToAck).id
<1>1. /\ AckWrite(id, Head(putsToAck).ok) /\ putsToAck' = Tail(putsToAck)
      /\ acking' = (Len(putsToAck) > 1) /\ putsToAck # <<>>
      /\ UNCHANGED <<writeIdCounter, outstandingPuts>>
  BY DEF AckPuts, WritesInv
<1>2. /\ IsSequence(putsToAck') /\ Distinct(putsToAck')
      /\ acking' => putsToAck' # <<>>
      /\ id \in Ids(putsToAck) /\ Ids(putsToAck') = Ids(putsToAck) \ {id}
  BY <1>1, HeldTail DEF WritesInv
<1> HIDE DEF id
<1>3. id \in Ids(allWrites) /\ id \notin outstandingPuts
  BY <1>2 DEF WritesInv
<1>4. /\ allWrites' \in Seq(Write) /\ Distinct(allWrites')
      /\ Ids(allWrites') = Ids(allWrites) \ {id}
  BY <1>1, <1>3, AckForgets
<1>5. \A n \in Ids(allWrites') : n < writeIdCounter'
  BY <1>1, <1>4 DEF WritesInv
<1>6. /\ Ids(allWrites') = outstandingPuts' \cup Ids(putsToAck')
      /\ outstandingPuts' \cap Ids(putsToAck') = {}
  BY <1>1, <1>2, <1>3, <1>4 DEF WritesInv
<1> QED BY <1>1, <1>2, <1>4, <1>5, <1>6 DEF WritesInv

\* Every other step leaves the writes and their answers alone; a lost
\* connection loses neither.
LEMMA OthersKeep ==
    ASSUME WritesInv, DatabaseNext, ~SetValue, ~OnPutAnswer, ~AckPuts
    PROVE  WritesInv'
<1>1. CASE AddObserver \/ RemoveObserver
  BY <1>1, BookkeepingKept DEF AddObserver, RemoveObserver, bookkeeping
<1>2. CASE OnDataUpdate
  BY <1>2, BookkeepingKept DEF OnDataUpdate, pending, bookkeeping
<1>3. CASE OnListenAnswer
  <2>1. /\ UNCHANGED <<allWrites, writeIdCounter, outstandingPuts, putsToAck>>
        /\ acking' = (unackedListensCount = 1 /\ putsToAck # <<>>)
    BY <1>3 DEF OnListenAnswer
  <2>2. IsSequence(putsToAck) /\ Distinct(putsToAck) /\ Distinct(allWrites)
    BY DEF WritesInv
  <2>3. /\ IsSequence(putsToAck') /\ Distinct(putsToAck') /\ Distinct(allWrites')
        /\ Ids(allWrites') = Ids(allWrites) /\ Ids(putsToAck') = Ids(putsToAck)
    BY <2>1, <2>2
  <2> QED BY <2>1, <2>3 DEF WritesInv
<1>4. CASE Connecting \/ TokenFailed \/ Disconnect \/ Kill
  BY <1>4, BookkeepingKept
  DEF Connecting, Retry, TokenFetched, Ready, TokenFailed, Disconnect, Kill, LoseConnection,
      idleQueues, caches, pending, bookkeeping
<1>5. CASE Serving \/ \E k \in Keys, value \in {Leaf, {}} : RemoteChange(k, value)
  BY <1>5, BookkeepingKept
  DEF Serving, ServeListen, ServePut, ServeUnlisten, RemoteChange, Request,
      clientSide, caches, pending, bookkeeping
<1> QED
  BY <1>1, <1>2, <1>3, <1>4, <1>5 DEF DatabaseNext, Worker

\* The screen's own steps do not touch the client's bookkeeping.
LEMMA ScreenKeeps ==
    ASSUME Deliver \/ User \/ UNCHANGED allVars PROVE UNCHANGED bookkeeping
<1>1. CASE Deliver
  BY <1>1 DEF Deliver, caches, pending, bookkeeping
<1>2. CASE BeginEditing \/ EndEditing \/ \E text \in Texts : Edit(text)
  BY <1>2 DEF BeginEditing, EndEditing, Edit, vars, caches, pending, bookkeeping
<1>3. CASE SubmitAfterResign \/ SubmitBeforeResign \/ Open \/ Close
  BY <1>3
  DEF SubmitAfterResign, SubmitBeforeResign, Open, Close, jobless, caches,
      pending, bookkeeping
<1>4. CASE UNCHANGED allVars
  BY <1>4 DEF allVars, vars, caches, pending, bookkeeping
<1> QED BY <1>1, <1>2, <1>3, <1>4 DEF User

LEMMA NextWritesInv ==
    WritesInv /\ InputInv /\ [CommentsNext]_allVars => WritesInv'
<1> SUFFICES ASSUME WritesInv, InputInv, [CommentsNext]_allVars PROVE WritesInv'
  OBVIOUS
<1>1. CASE DatabaseNext
  BY <1>1, SetValueKeeps, PutAnswerKeeps, AckPutsKeeps, OthersKeep
<1>2. CASE Deliver \/ User \/ UNCHANGED allVars
  BY <1>2, ScreenKeeps, BookkeepingKept
<1> QED BY <1>1, <1>2 DEF CommentsNext

\* What FWriteTree, the outstanding puts and the held-back answers know of each
\* other holds after any jobs and messages.
THEOREM WritesInvHolds == CommentsSpec => []WritesInv
<1>1. CommentsInit => WritesInv
  <2> SUFFICES ASSUME CommentsInit PROVE WritesInv
    OBVIOUS
  <2>1. /\ allWrites = <<>> /\ putsToAck = <<>> /\ outstandingPuts = {}
        /\ writeIdCounter = 1 /\ acking = FALSE
    BY DEF CommentsInit, DatabaseInit
  <2>2. <<>> \in Seq(Write) /\ Ids(<<>>) = {} /\ Distinct(<<>>)
    BY DEF Ids, Distinct
  <2>3. IsSequence(putsToAck)
    BY <2>1, <2>2 DEF IsSequence
  <2> QED BY <2>1, <2>2, <2>3 DEF WritesInv
<1> QED BY <1>1, NextWritesInv, InputInvHolds, PTL DEF CommentsSpec

\* Through lost connections, refused listens and answers that come late or
\* twice, a write that FWriteTree still layers waits for its answer or has one
\* held back, and never both; no held answer is about a write that is gone.
THEOREM EveryWriteAccounted == CommentsSpec => []WritesAccounted
<1>1. WritesInv => WritesAccounted
  <2> SUFFICES ASSUME WritesInv PROVE WritesAccounted
    OBVIOUS
  <2>1. DOMAIN allWrites = 1 .. Len(allWrites)
    BY DEF WritesInv
  <2>2. DOMAIN putsToAck = 1 .. Len(putsToAck)
    BY DEF WritesInv, IsSequence
  <2> QED BY <2>1, <2>2 DEF WritesInv, WritesAccounted, Ids, Distinct
<1> QED BY <1>1, WritesInvHolds, PTL

-----------------------------------------------------------------------------
(* The tree of visible writes *)

\* Settled writes leave the tree oldest first.
OldestFirst == Len(allWrites') < Len(allWrites) => allWrites' = Tail(allWrites)

\* The write that leaves is then the first one.
LEMMA AckLayers ==
    ASSUME WritesInv, VisibleIsLayered, OldestFirst,
           NEW id \in Ids(allWrites), NEW ok, AckWrite(id, ok)
    PROVE  VisibleIsLayered'
<1> DEFINE s == allWrites
           i == WriteIndex(id)
<1>1. s \in Seq(Write) /\ Distinct(s) /\ DOMAIN s = 1 .. Len(s)
  BY DEF WritesInv
<1>2. i \in 1 .. Len(s) /\ s[i].id = id
  <2>1. \E j \in DOMAIN s : s[j].id = id
    BY <1>1 DEF Ids
  <2> QED BY <1>1, <2>1 DEF WriteIndex
<1>3. allWrites' = RemoveAt(s, i) /\ visibleWrites' = VisibleWithout(visibleWrites, s, i)
  BY DEF AckWrite
<1>4. s # <<>> /\ allWrites' = Tail(s)
  <2>1. Len(RemoveAt(s, i)) = Len(s) - 1
    BY <1>1, <1>2, RemoveAtProperties
  <2> QED BY <1>1, <1>2, <1>3, <2>1 DEF OldestFirst
<1>5. i = 1
  <2>1. Ids(Tail(s)) = Ids(s) \ {s[1].id} /\ s[1].id \in Ids(s)
    <3>1. Head(s) = s[1]
      BY <1>1, <1>4
    <3> QED BY <1>1, <1>4, <3>1, IdsOfTail
  <2>2. Ids(Tail(s)) = Ids(s) \ {id}
    BY <1>1, <1>2, <1>3, <1>4, RemoveWrite
  <2>3. s[1].id = s[i].id /\ 1 \in 1 .. Len(s)
    BY <1>1, <1>2, <2>1, <2>2
  <2> QED BY <1>1, <1>2, <2>3 DEF Distinct
<1>6. VisibleWithout(LayerTree(s), s, 1) = LayerTree(Tail(s))
  BY <1>1, <1>4, OldestWriteLeaves
<1> QED BY <1>3, <1>4, <1>5, <1>6 DEF VisibleIsLayered

LEMMA NextLayered ==
    /\ WritesInv /\ InputInv /\ VisibleIsLayered
    /\ [CommentsNext]_allVars /\ [OldestFirst]_allVars
    => VisibleIsLayered'
<1> SUFFICES ASSUME WritesInv, InputInv, VisibleIsLayered,
                    [CommentsNext]_allVars, [OldestFirst]_allVars
             PROVE  VisibleIsLayered'
  OBVIOUS
<1>1. CASE SetValue
  <2> DEFINE w == [id |-> writeIdCounter, path |-> Head(work).path]
  <2>1. w \in Write
    <3>1. Head(work) \in SafeJobs /\ Head(work).op = "set"
      BY <1>1 DEF SetValue, Job, InputInv
    <3>2. Head(work).path \in Paths
      BY <3>1 DEF SafeJobs, Jobs
    <3> QED BY <3>2 DEF WritesInv, Write
  <2>2. /\ allWrites' = Append(allWrites, w)
        /\ visibleWrites' = AddWrite(visibleWrites, w.path)
    BY <1>1 DEF SetValue
  <2> HIDE DEF w
  <2>3. AddWrite(LayerTree(allWrites), w.path) = LayerTree(Append(allWrites, w))
    BY <2>1, AddWriteLayers DEF WritesInv
  <2> QED BY <2>2, <2>3 DEF VisibleIsLayered
<1>k. ASSUME UNCHANGED <<allWrites, visibleWrites>> PROVE VisibleIsLayered'
  BY <1>k DEF VisibleIsLayered
<1>2. CASE OnPutAnswer
  <2>1. CASE Head(toClient).id \notin outstandingPuts \/ unackedListensCount # 0
    BY <1>2, <2>1, <1>k DEF OnPutAnswer, caches
  <2>2. CASE Head(toClient).id \in outstandingPuts /\ unackedListensCount = 0
    <3> DEFINE id == Head(toClient).id
               ok == Head(toClient).ok
    <3>1. AckWrite(id, ok) /\ outstandingPuts' = outstandingPuts \ {id}
      BY <1>2, <2>2 DEF OnPutAnswer
    <3>2. id \in Ids(allWrites) /\ outstandingPuts' # outstandingPuts
      BY <2>2, <3>1 DEF WritesInv
    <3> HIDE DEF id, ok
    <3>3. OldestFirst
      BY <3>2 DEF allVars, vars, pending
    <3> QED BY <3>1, <3>2, <3>3, AckLayers
  <2> QED BY <2>1, <2>2
<1>3. CASE AckPuts
  <2> DEFINE id == Head(putsToAck).id
             ok == Head(putsToAck).ok
  <2>1. AckWrite(id, ok) /\ putsToAck' = Tail(putsToAck) /\ putsToAck # <<>>
    BY <1>3 DEF AckPuts, WritesInv
  <2>2. id \in Ids(putsToAck) /\ Ids(putsToAck') = Ids(putsToAck) \ {id}
    BY <2>1, HeldTail DEF WritesInv
  <2>3. id \in Ids(allWrites) /\ putsToAck' # putsToAck
    BY <2>2 DEF WritesInv
  <2> HIDE DEF id, ok
  <2>4. OldestFirst
    BY <2>3 DEF allVars, vars, pending
  <2> QED BY <2>1, <2>3, <2>4, AckLayers
<1>4. CASE AddObserver \/ RemoveObserver \/ OnDataUpdate \/ OnListenAnswer
  BY <1>4, <1>k DEF AddObserver, RemoveObserver, OnDataUpdate, OnListenAnswer
<1>5. CASE Connecting \/ TokenFailed \/ Disconnect \/ Kill
  BY <1>5, <1>k
  DEF Connecting, Retry, TokenFetched, Ready, TokenFailed, Disconnect, Kill, LoseConnection,
      idleQueues, caches
<1>6. CASE Serving \/ \E k \in Keys, value \in {Leaf, {}} : RemoteChange(k, value)
  BY <1>6, <1>k
  DEF Serving, ServeListen, ServePut, ServeUnlisten, RemoteChange, Request,
      clientSide, caches
<1>7. CASE Deliver
  BY <1>7, <1>k DEF Deliver, caches
<1>8. CASE BeginEditing \/ EndEditing \/ \E text \in Texts : Edit(text)
  BY <1>8, <1>k DEF BeginEditing, EndEditing, Edit, vars, caches
<1>9. CASE SubmitAfterResign \/ SubmitBeforeResign \/ Open \/ Close
  BY <1>9, <1>k
  DEF SubmitAfterResign, SubmitBeforeResign, Open, Close, jobless, caches
<1>10. CASE UNCHANGED allVars
  BY <1>10, <1>k DEF allVars, vars, caches
<1> QED
  BY <1>1, <1>2, <1>3, <1>4, <1>5, <1>6, <1>7, <1>8, <1>9, <1>10
  DEF CommentsNext, User, DatabaseNext, Worker

\* As long as the writes are settled oldest first, the tree that FWriteTree
\* keeps up to date write by write, leaving it alone, cutting one path out or
\* building it again, is what layering the pending writes gives.
THEOREM LayeredWhileOldestFirst ==
    CommentsSpec /\ [][OldestFirst]_allVars => []VisibleIsLayered
<1>1. CommentsInit => VisibleIsLayered
  <2> SUFFICES ASSUME CommentsInit PROVE VisibleIsLayered
    OBVIOUS
  <2>1. allWrites = <<>> /\ visibleWrites = EmptyWrite
    BY DEF CommentsInit, DatabaseInit
  <2>2. LayerTree(<<>>) = [top |-> None, keys |-> PathsAfter(<<>>, 0)]
    <3>1. <<>> \in Seq(Write) /\ NoTop(<<>>)
      BY DEF NoTop
    <3> QED BY <3>1, LayersOf
  <2>3. PathsAfter(<<>>, 0) = {}
    BY DEF PathsAfter
  <2> QED BY <2>1, <2>2, <2>3 DEF VisibleIsLayered, EmptyWrite
<1> QED
  BY <1>1, NextLayered, WritesInvHolds, InputInvHolds, PTL DEF CommentsSpec

-----------------------------------------------------------------------------
(* Counting the messages of a kind on a channel *)

ListenRequests == [op : {"listen"}, listen : Screens, hash : Node]
ListenAnswers == [kind : {"listen"}, listen : Screens, ok : BOOLEAN]

Places(s, L) == {i \in 1 .. Len(s) : s[i] \in L}
CountOf(s, L) == Cardinality(Places(s, L))

LEMMA CountFacts ==
    ASSUME NEW S, NEW s \in Seq(S), NEW L
    PROVE  /\ IsFiniteSet(Places(s, L)) /\ CountOf(s, L) \in Nat
           /\ CountOf(s, L) = 0 <=> \A i \in 1 .. Len(s) : s[i] \notin L
<1>1. Len(s) \in Nat /\ IsFiniteSet(1 .. Len(s))
  BY LenProperties, FS_Interval
<1>2. Places(s, L) \subseteq 1 .. Len(s)
  BY DEF Places
<1>3. IsFiniteSet(Places(s, L))
  BY <1>1, <1>2, FS_Subset
<1>4. CountOf(s, L) \in Nat
  BY <1>3, FS_CardinalityType DEF CountOf
<1>5. CountOf(s, L) = 0 <=> Places(s, L) = {}
  BY <1>3, FS_EmptySet DEF CountOf
<1> QED BY <1>3, <1>4, <1>5 DEF Places

LEMMA CountNone == \A L : CountOf(<<>>, L) = 0
<1> SUFFICES ASSUME NEW L PROVE CountOf(<<>>, L) = 0
  OBVIOUS
<1>1. Places(<<>>, L) = {}
  BY DEF Places
<1> QED BY <1>1, FS_EmptySet DEF CountOf

LEMMA CountAppended ==
    ASSUME NEW S, NEW s \in Seq(S), NEW e \in S, NEW L
    PROVE  CountOf(Append(s, e), L) = CountOf(s, L) + (IF e \in L THEN 1 ELSE 0)
<1> DEFINE t == Append(s, e)
           n == Len(s) + 1
<1>1. /\ t \in Seq(S) /\ Len(t) = n /\ t[n] = e
      /\ \A j \in 1 .. Len(s) : t[j] = s[j]
      /\ Len(s) \in Nat
  BY AppendProperties
<1>2. /\ IsFiniteSet(Places(s, L)) /\ CountOf(s, L) \in Nat
      /\ n \notin Places(s, L)
  BY <1>1, CountFacts DEF Places
<1> HIDE DEF t
<1>3. CASE e \in L
  <2>1. Places(t, L) = Places(s, L) \cup {n}
    BY <1>1, <1>3 DEF Places
  <2>2. Cardinality(Places(s, L) \cup {n}) = Cardinality(Places(s, L)) + 1
    BY <1>2, FS_AddElement
  <2> QED BY <1>2, <1>3, <2>1, <2>2 DEF CountOf, t
<1>4. CASE e \notin L
  <2>1. Places(t, L) = Places(s, L)
    BY <1>1, <1>4 DEF Places
  <2> QED BY <1>2, <1>4, <2>1 DEF CountOf, t
<1> QED BY <1>3, <1>4

LEMMA CountTaken ==
    ASSUME NEW S, NEW s \in Seq(S), s # <<>>, NEW L
    PROVE  CountOf(s, L) = CountOf(Tail(s), L) + (IF Head(s) \in L THEN 1 ELSE 0)
<1> DEFINE t == Tail(s)
           P == Places(s, L) \ {1}
           up == [i \in Places(t, L) |-> i + 1]
<1>1. /\ Len(s) \in Nat \ {0} /\ Head(s) = s[1] /\ t \in Seq(S)
      /\ Len(t) = Len(s) - 1 /\ \A j \in 1 .. Len(t) : t[j] = s[j + 1]
  OBVIOUS
<1>2. /\ IsFiniteSet(Places(s, L)) /\ IsFiniteSet(Places(t, L))
      /\ CountOf(s, L) \in Nat /\ CountOf(t, L) \in Nat
  BY <1>1, CountFacts
<1> HIDE DEF t
<1>3. up \in Bijection(Places(t, L), P)
  <2>1. up \in [Places(t, L) -> P]
    BY <1>1 DEF Places
  <2>2. \A i, j \in Places(t, L) : up[i] = up[j] => i = j
    <3>1. Places(t, L) \subseteq Int
      BY DEF Places
    <3> QED BY <3>1
  <2>3. ASSUME NEW k \in P PROVE \E i \in Places(t, L) : up[i] = k
    <3>1. k - 1 \in Places(t, L) /\ (k - 1) + 1 = k
      BY <1>1 DEF Places
    <3> QED BY <3>1
  <2> HIDE DEF up
  <2> QED BY <2>1, <2>2, <2>3 DEF Bijection, Injection, Surjection, IsInjective
<1>4. Cardinality(Places(t, L)) = Cardinality(P)
  <2> HIDE DEF up, P
  <2>1. ExistsBijection(Places(t, L), P)
    BY <1>3 DEF ExistsBijection
  <2> QED BY <1>2, <2>1, FS_Bijection
<1>5. CASE Head(s) \in L
  <2>1. 1 \in Places(s, L)
    BY <1>1, <1>5 DEF Places
  <2>2. Cardinality(P) = Cardinality(Places(s, L)) - 1
    BY <1>2, <2>1, FS_RemoveElement
  <2> QED BY <1>2, <1>4, <1>5, <2>2 DEF CountOf, t
<1>6. CASE Head(s) \notin L
  <2>1. P = Places(s, L)
    BY <1>1, <1>6 DEF Places
  <2> QED BY <1>2, <1>4, <1>6, <2>1 DEF CountOf, t
<1> QED BY <1>5, <1>6

-----------------------------------------------------------------------------
(* What is sent again on a new connection *)

\* Ascending lists the elements of a set once, the smaller ones first.
LEMMA AscendingEnumerates ==
    ASSUME NEW ids, ids \subseteq Int, IsFiniteSet(ids)
    PROVE  LET s == Ascending(ids)
               n == Cardinality(ids)
           IN  /\ n \in Nat
               /\ s \in [1 .. n -> ids]
               /\ \A m \in ids : \E i \in 1 .. n : s[i] = m
               /\ \A i, j \in 1 .. n : i < j => s[i] < s[j]
<1> DEFINE n == Cardinality(ids)
           Below(m) == {k \in ids : k < m}
           rank == [m \in ids |-> Cardinality(Below(m)) + 1]
<1>n. n \in Nat /\ \A m \in ids : m \in Int
  BY FS_CardinalityType
<1>1. ASSUME NEW m \in ids
      PROVE  /\ IsFiniteSet(Below(m))
             /\ Cardinality(Below(m)) \in Nat
             /\ Cardinality(Below(m)) < n
  <2>1. Below(m) \subseteq ids \ {m}
    BY <1>n
  <2>2. IsFiniteSet(ids \ {m}) /\ Cardinality(ids \ {m}) = n - 1
    BY FS_RemoveElement
  <2>3. IsFiniteSet(Below(m)) /\ Cardinality(Below(m)) <= n - 1
    BY <2>1, <2>2, FS_Subset
  <2>4. Cardinality(Below(m)) \in Nat
    BY <2>3, FS_CardinalityType
  <2> QED BY <1>n, <2>3, <2>4
<1>2. ASSUME NEW m \in ids, NEW k \in ids, m < k
      PROVE  Cardinality(Below(m)) < Cardinality(Below(k))
  <2>1. m \in Below(k) /\ Below(m) \subseteq Below(k) \ {m}
    <3>1. ASSUME NEW l \in ids, l < m PROVE l < k /\ l # m
      BY <1>2, <1>n, <3>1
    <3> QED BY <1>2, <3>1
  <2>2. /\ IsFiniteSet(Below(k) \ {m})
        /\ Cardinality(Below(k) \ {m}) = Cardinality(Below(k)) - 1
    BY <1>1, <2>1, FS_RemoveElement
  <2>3. Cardinality(Below(m)) <= Cardinality(Below(k)) - 1
    BY <2>1, <2>2, FS_Subset
  <2> QED BY <1>1, <2>3
<1>3. \A m \in ids : rank[m] = Cardinality(Below(m)) + 1 /\ rank[m] \in 1 .. n
  BY <1>n, <1>1
<1>4. \A m, k \in ids : m < k => rank[m] < rank[k]
  BY <1>1, <1>2, <1>3
<1>5. \A m, k \in ids : rank[m] = rank[k] => m = k
  <2>1. \A m, k \in ids : m # k => m < k \/ k < m
    BY <1>n
  <2>2. \A m \in ids : rank[m] \in Int
    BY <1>3
  <2> HIDE DEF rank
  <2> QED BY <1>4, <2>1, <2>2
<1>6. rank \in [ids -> 1 .. n]
  BY <1>3
<1>a. \A m, k \in ids : rank[m] < rank[k] => m < k
  <2>1. \A m, k \in ids : m < k \/ k < m \/ m = k
    BY <1>n
  <2>2. \A m \in ids : rank[m] \in Int
    BY <1>3
  <2> HIDE DEF rank
  <2> QED BY <1>4, <2>1, <2>2
<1> HIDE DEF rank
<1>7. rank \in Injection(ids, 1 .. n)
  BY <1>5, <1>6 DEF Injection, IsInjective
<1>8. IsFiniteSet(1 .. n) /\ Cardinality(1 .. n) = n
  BY <1>n, FS_Interval
<1>9. \A i \in 1 .. n : \E m \in ids : rank[m] = i
  <2>1. rank \in Surjection(ids, 1 .. n)
    BY <1>7, <1>8, FS_Injection
  <2> QED BY <2>1 DEF Surjection
<1> DEFINE s == Ascending(ids)
<1>10. ASSUME NEW i \in 1 .. n PROVE s[i] \in ids /\ rank[s[i]] = i
  <2>1. s[i] = CHOOSE m \in ids : Cardinality(Below(m)) = i - 1
    BY DEF Ascending
  <2>2. PICK m \in ids : rank[m] = i
    BY <1>9
  <2>3. i \in Int /\ Cardinality(Below(m)) = i - 1
    BY <1>1, <1>3, <2>2
  <2>4. s[i] \in ids /\ Cardinality(Below(s[i])) = i - 1
    BY <2>1, <2>3
  <2>5. Cardinality(Below(s[i])) + 1 = i
    BY <2>3, <2>4
  <2> QED BY <1>3, <2>4, <2>5
<1>11. s \in [1 .. n -> ids]
  BY <1>10 DEF Ascending
<1>12. \A m \in ids : \E i \in 1 .. n : s[i] = m
  BY <1>3, <1>5, <1>10
<1>13. ASSUME NEW i \in 1 .. n, NEW j \in 1 .. n, i < j PROVE s[i] < s[j]
  <2>1. s[i] \in ids /\ s[j] \in ids /\ rank[s[i]] = i /\ rank[s[j]] = j
    BY <1>10
  <2>2. rank[s[i]] < rank[s[j]]
    BY <1>13, <2>1, Zenon
  <2> HIDE DEF s
  <2> QED BY <1>a, <2>1, <2>2, Zenon
<1> HIDE DEF s
<1> QED BY <1>n, <1>11, <1>12, <1>13 DEF s

\* The write of an id that is pending.
LEMMA WriteFound ==
    ASSUME WritesInv, NEW n \in Ids(allWrites)
    PROVE  /\ WriteIndex(n) \in 1 .. Len(allWrites)
           /\ allWrites[WriteIndex(n)].id = n
           /\ allWrites[WriteIndex(n)] \in Write
<1>1. DOMAIN allWrites = 1 .. Len(allWrites) /\ allWrites \in Seq(Write)
  BY DEF WritesInv
<1>2. \E i \in DOMAIN allWrites : allWrites[i].id = n
  BY <1>1 DEF Ids
<1>3. WriteIndex(n) \in DOMAIN allWrites /\ allWrites[WriteIndex(n)].id = n
  BY <1>2 DEF WriteIndex
<1> QED BY <1>1, <1>3, ElementOfSeq

LEMMA FinitelyMany == WritesInv => IsFiniteSet(outstandingPuts)
<1> SUFFICES ASSUME WritesInv PROVE IsFiniteSet(outstandingPuts)
  OBVIOUS
<1> DEFINE id == [i \in 1 .. Len(allWrites) |-> allWrites[i].id]
<1>1. Len(allWrites) \in Nat /\ IsFiniteSet(1 .. Len(allWrites))
  BY LenProperties, FS_Interval DEF WritesInv
<1>2. id \in Surjection(1 .. Len(allWrites), Ids(allWrites))
  BY DEF Ids, Surjection
<1>3. IsFiniteSet(Ids(allWrites))
  <2> HIDE DEF id
  <2> QED BY <1>1, <1>2, FS_Surjection
<1>4. outstandingPuts \subseteq Ids(allWrites)
  BY DEF WritesInv
<1> QED BY <1>3, <1>4, FS_Subset

\* The messages of a new connection: the listen, if there is one, and then the
\* unanswered puts by their ids.
LEMMA RestoredMessages ==
    ASSUME WritesInv, listens \in Nat, serverSnap \in Cache
    PROVE  LET first == IF listens = 0 THEN 0 ELSE 1
               n == Cardinality(outstandingPuts)
               a == Ascending(outstandingPuts)
           IN  /\ RestoreState \in Seq(Requests)
               /\ n \in Nat /\ Len(RestoreState) = first + n
               /\ first = 1 => RestoreState[1] = ListenRequest(listens, serverSnap.node)
               /\ \A i \in 1 .. n :
                    /\ RestoreState[first + i].op = "put"
                    /\ RestoreState[first + i].write.id = a[i]
                    /\ \E k \in 1 .. Len(allWrites) :
                         RestoreState[first + i].write = allWrites[k]
<1> DEFINE n == Cardinality(outstandingPuts)
           a == Ascending(outstandingPuts)
           head == IF listens = 0 THEN <<>> ELSE <<ListenRequest(listens, serverSnap.node)>>
           puts == [i \in 1 .. n |-> PutRequest(allWrites[WriteIndex(a[i])])]
<1>1. /\ outstandingPuts \subseteq Int /\ IsFiniteSet(outstandingPuts)
      /\ outstandingPuts \subseteq Ids(allWrites)
  BY FinitelyMany DEF WritesInv
<1>2. n \in Nat /\ \A i \in 1 .. n : a[i] \in outstandingPuts
  BY <1>1, AscendingEnumerates
<1>3. ASSUME NEW i \in 1 .. n
      PROVE  /\ puts[i] \in Requests
             /\ puts[i].op = "put" /\ puts[i].write.id = a[i]
             /\ \E k \in 1 .. Len(allWrites) : puts[i].write = allWrites[k]
  <2>1. a[i] \in Ids(allWrites)
    BY <1>1, <1>2
  <2>2. /\ WriteIndex(a[i]) \in 1 .. Len(allWrites)
        /\ allWrites[WriteIndex(a[i])] \in Write /\ allWrites[WriteIndex(a[i])].id = a[i]
    BY <2>1, WriteFound
  <2> QED BY <2>2 DEF PutRequest, Requests
<1>4. puts \in Seq(Requests) /\ Len(puts) = n
  <2>1. puts \in [1 .. n -> Requests]
    BY <1>3
  <2> HIDE DEF puts
  <2> QED BY <1>2, <2>1
<1>5. /\ head \in Seq(Requests) /\ Len(head) = IF listens = 0 THEN 0 ELSE 1
      /\ listens # 0 => head[1] = ListenRequest(listens, serverSnap.node)
  <2>1. listens # 0 => ListenRequest(listens, serverSnap.node) \in Requests
    BY DEF ListenRequest, Requests, Cache, Screens
  <2> QED BY <2>1
<1>6. RestoreState = head \o puts
  BY DEF RestoreState
<1> HIDE DEF head, puts
<1>7. /\ RestoreState \in Seq(Requests) /\ Len(RestoreState) = Len(head) + n
      /\ \A i \in 1 .. Len(head) : RestoreState[i] = head[i]
      /\ \A i \in 1 .. n : RestoreState[Len(head) + i] = puts[i]
  <2> DEFINE R == Requests
  <2>1. head \in Seq(R) /\ puts \in Seq(R) /\ Len(puts) = n /\ n \in Nat
    BY <1>2, <1>4, <1>5
  <2> HIDE DEF R, n, a
  <2>2. /\ head \o puts \in Seq(R) /\ Len(head \o puts) = Len(head) + Len(puts)
        /\ \A i \in 1 .. Len(head) + Len(puts) :
             (head \o puts)[i] = IF i <= Len(head) THEN head[i] ELSE puts[i - Len(head)]
    BY <2>1, ConcatProperties
  <2>3. Len(head) \in Nat
    BY <2>1, LenProperties
  <2> DEFINE both == head \o puts
  <2> HIDE DEF both
  <2>4. \A i \in 1 .. Len(head) : both[i] = head[i]
    BY <2>1, <2>2, <2>3 DEF both
  <2>5. ASSUME NEW i \in 1 .. n PROVE both[Len(head) + i] = puts[i]
    <3>1. /\ Len(head) + i \in 1 .. Len(head) + Len(puts) /\ ~(Len(head) + i <= Len(head))
          /\ (Len(head) + i) - Len(head) = i
      BY <2>1, <2>3
    <3> QED BY <2>2, <3>1, Zenon DEF both
  <2> QED BY <1>6, <2>1, <2>2, <2>4, <2>5 DEF R, both
<1> HIDE DEF n, a
<1>8. listens # 0 => RestoreState[1] = ListenRequest(listens, serverSnap.node)
  BY <1>5, <1>7
<1>9. ASSUME NEW i \in 1 .. n
      PROVE  RestoreState[Len(head) + i] = puts[i]
  BY <1>7
<1>10. \A i \in 1 .. n :
         /\ RestoreState[Len(head) + i].op = "put"
         /\ RestoreState[Len(head) + i].write.id = a[i]
         /\ \E k \in 1 .. Len(allWrites) :
              RestoreState[Len(head) + i].write = allWrites[k]
  BY <1>3, <1>9
<1>11. (IF listens = 0 THEN 0 ELSE 1) = Len(head)
  BY <1>5
<1> HIDE DEF head, puts
<1> QED BY <1>2, <1>5, <1>7, <1>8, <1>10, <1>11 DEF n, a

-----------------------------------------------------------------------------
(* Types *)

TypesOfCaches ==
    /\ allWrites \in Seq(Write) /\ visibleWrites \in CompoundWrite
    /\ view \in Nat /\ serverSnap \in Cache /\ eventSnap \in Cache
    /\ events \in Seq([to : Nat, node : Node])

TypesOfPending ==
    /\ outstandingPuts \subseteq Nat /\ putsToAck \in Seq([id : Nat, ok : BOOLEAN])
    /\ writeIdCounter \in Nat /\ listens \in Nat /\ unackedListensCount \in Nat
    /\ acking \in BOOLEAN

TypesOfLink ==
    /\ connectionState \in {"disconnected", "gettingToken", "connecting", "connected",
                           "interrupted"}
    /\ toServer \in Seq(Requests) /\ toClient \in Seq(Answers)
    /\ data \in Node /\ watched \in BOOLEAN /\ faults \in Nat /\ remote \in Nat

TypesOfScreen ==
    /\ work \in Seq(Jobs) /\ focused \in BOOLEAN /\ enabled \in BOOLEAN
    /\ screen \in Nat /\ opened \in Nat /\ submits \in Nat
    /\ field \in Texts /\ latest \in Texts /\ rows \subseteq Keys

LEMMA TypeParts ==
    RTypeOK <=> TypesOfCaches /\ TypesOfPending /\ TypesOfLink /\ TypesOfScreen
BY DEF RTypeOK, TypesOfCaches, TypesOfPending, TypesOfLink, TypesOfScreen

\* What the client knows of its connection.  The view and its listen come and
\* go together; a listen is counted until its answer is handled; a connection
\* that is gone has nothing on its way and is not watched; and held-back
\* answers are settled on a connection on which no listen is unanswered.
LinkInv ==
    /\ view = listens
    /\ unackedListensCount
         = CountOf(toServer, ListenRequests) + CountOf(toClient, ListenAnswers)
    /\ ~Connected => toServer = <<>> /\ toClient = <<>> /\ ~watched
    /\ acking => Connected /\ unackedListensCount = 0

ClientInv == InputInv /\ WritesInv /\ RTypeOK /\ LinkInv

\* A job at the head of the queue.
LEMMA JobTyped ==
    ASSUME InputInv, NEW op, Job(op)
    PROVE  /\ op = "set" => Head(work).path \in Paths
           /\ op \in {"observe", "remove"} => Head(work).screen \in Screens
<1>1. Head(work) \in SafeJobs /\ Head(work).op = op
  BY DEF Job, InputInv
<1> QED BY <1>1 DEF SafeJobs, Jobs

LEMMA RaiseTyped ==
    ASSUME TypesOfCaches, NEW evt \in Cache, Raise(evt)
    PROVE  eventSnap' \in Cache /\ events' \in Seq([to : Nat, node : Node])
<1> DEFINE E == [to : Nat, node : Node]
           e == [to |-> view, node |-> evt.node]
<1>1. e \in E
  BY DEF TypesOfCaches, Cache
<1>2. eventSnap' = evt /\ (events' = events \/ events' = Append(events, e))
  BY DEF Raise
<1>3. events \in Seq(E)
  BY DEF TypesOfCaches
<1> HIDE DEF e, E
<1>4. events' \in Seq(E)
  BY <1>1, <1>2, <1>3
<1> QED BY <1>2, <1>4 DEF E

LEMMA AckTyped ==
    ASSUME WritesInv, TypesOfCaches, NEW id \in Ids(allWrites), NEW ok, AckWrite(id, ok)
    PROVE  TypesOfCaches'
<1> DEFINE i    == WriteIndex(id)
           path == allWrites[i].path
           vis  == VisibleWithout(visibleWrites, allWrites, i)
           evt  == IF view = 0 \/ Shadowed(allWrites, i) THEN eventSnap
                   ELSE IF ok THEN EventAfterAck(serverSnap, eventSnap, vis, path)
                   ELSE EventAfterRevert(serverSnap, eventSnap, vis, path)
<1>1. i \in 1 .. Len(allWrites) /\ allWrites[i] \in Write
  BY WriteFound
<1>2. path \in Paths
  BY <1>1 DEF Write
<1>3. vis \in CompoundWrite
  BY <1>1, TreesTyped DEF TypesOfCaches
<1>4. allWrites' \in Seq(Write)
  BY AckForgets
<1>5. visibleWrites' = vis /\ Raise(evt) /\ UNCHANGED <<serverSnap, view>>
  BY DEF AckWrite
<1> HIDE DEF i, path, vis
<1>6. evt \in Cache
  BY <1>2, <1>3, SnapsTyped, NodeFacts DEF TypesOfCaches
<1> HIDE DEF evt
<1> QED BY <1>3, <1>4, <1>5, <1>6, RaiseTyped DEF TypesOfCaches

LEMMA CachesStayTyped ==
    ASSUME InputInv, WritesInv, RTypeOK, DatabaseNext
    PROVE  TypesOfCaches'
<1>i. TypesOfCaches /\ TypesOfPending /\ TypesOfLink
  BY TypeParts
<1>k. ASSUME UNCHANGED <<caches, events>> PROVE TypesOfCaches'
  BY <1>i, <1>k DEF caches, TypesOfCaches
<1>n. Leaf \in Node /\ Top \in Paths
  BY NodeFacts DEF Paths
<1>1. CASE SetValue
  <2> DEFINE w == [id |-> writeIdCounter, path |-> Head(work).path]
             evt == IF view = 0 THEN eventSnap ELSE UserOverwrite(eventSnap, w.path)
  <2>1. w \in Write /\ w.path \in Paths
    BY <1>1, <1>i, JobTyped DEF SetValue, Write, TypesOfPending
  <2>2. /\ allWrites' = Append(allWrites, w)
        /\ visibleWrites' = AddWrite(visibleWrites, w.path)
        /\ Raise(evt) /\ UNCHANGED <<serverSnap, view>>
    BY <1>1 DEF SetValue
  <2>3. evt \in Cache
    BY <1>i, <1>n, <2>1, SnapsTyped DEF TypesOfCaches
  <2> HIDE DEF w, evt
  <2>4. allWrites' \in Seq(Write) /\ visibleWrites' \in CompoundWrite
    BY <1>i, <2>1, <2>2, TreesTyped DEF TypesOfCaches
  <2> QED BY <1>i, <2>2, <2>3, <2>4, RaiseTyped DEF TypesOfCaches
<1>2. CASE AddObserver
  <2> DEFINE s == Head(work).screen
             evt == NewEventSnap(visibleWrites)
  <2>1. s \in Nat
    BY <1>2, JobTyped DEF AddObserver, Screens
  <2>2. evt \in Cache /\ NewServerSnap \in Cache
    BY <1>i, <1>n, SnapsTyped DEF TypesOfCaches
  <2>3. /\ view' = s /\ serverSnap' = NewServerSnap /\ eventSnap' = evt
        /\ events' = IF evt.complete THEN Append(events, [to |-> s, node |-> evt.node])
                     ELSE events
        /\ UNCHANGED <<allWrites, visibleWrites>>
    BY <1>2 DEF AddObserver
  <2> HIDE DEF s, evt
  <2> DEFINE E == [to : Nat, node : Node]
             e == [to |-> s, node |-> evt.node]
  <2>4. e \in E
    BY <2>1, <2>2 DEF Cache
  <2>5. events \in Seq(E) /\ (events' = events \/ events' = Append(events, e))
    BY <1>i, <2>3 DEF TypesOfCaches
  <2> HIDE DEF e, E
  <2>6. events' \in Seq(E)
    BY <2>4, <2>5
  <2> QED BY <1>i, <2>1, <2>2, <2>3, <2>6 DEF TypesOfCaches, E
<1>3. CASE RemoveObserver
  <2>1. NewServerSnap \in Cache
    BY <1>i, <1>n, SnapsTyped DEF TypesOfCaches
  <2> QED BY <1>3, <1>i, <2>1 DEF RemoveObserver, TypesOfCaches
<1>4. CASE OnDataUpdate
  <2> DEFINE m == Head(toClient)
             srv == ServerSnapAfter(serverSnap, m.path, m.value)
             evt == EventAfterServer(srv, eventSnap, visibleWrites, m.path)
  <2>1. m.path \in Paths /\ m.value \in Node
    <3>1. m \in Answers /\ m.kind = "data"
      BY <1>4, <1>i DEF OnDataUpdate, Message, TypesOfLink
    <3> QED BY <3>1 DEF Answers
  <2>2. /\ view = 0 => UNCHANGED <<serverSnap, eventSnap, events>>
        /\ view # 0 => serverSnap' = srv /\ Raise(evt)
        /\ UNCHANGED <<allWrites, visibleWrites, view>>
    BY <1>4 DEF OnDataUpdate
  <2>3. srv \in Cache
    BY <1>i, <2>1, SnapsTyped DEF TypesOfCaches
  <2> HIDE DEF m, srv
  <2>4. evt \in Cache
    BY <1>i, <2>1, <2>3, SnapsTyped DEF TypesOfCaches
  <2> HIDE DEF evt
  <2> QED BY <1>i, <2>2, <2>3, <2>4, RaiseTyped DEF TypesOfCaches
<1>5. CASE OnPutAnswer
  <2>1. CASE Head(toClient).id \notin outstandingPuts \/ unackedListensCount # 0
    BY <1>5, <2>1, <1>k DEF OnPutAnswer
  <2>2. CASE Head(toClient).id \in outstandingPuts /\ unackedListensCount = 0
    <3> DEFINE id == Head(toClient).id
               ok == Head(toClient).ok
    <3>1. AckWrite(id, ok) /\ id \in Ids(allWrites)
      BY <1>5, <2>2 DEF OnPutAnswer, WritesInv
    <3> HIDE DEF id, ok
    <3> QED BY <1>i, <3>1, AckTyped
  <2> QED BY <2>1, <2>2
<1>6. CASE OnListenAnswer
  <2> DEFINE m == Head(toClient)
             srv == [serverSnap EXCEPT !.complete = TRUE]
             evt == EventAfterServer(srv, eventSnap, visibleWrites, Top)
  <2>1. srv \in Cache /\ NewServerSnap \in Cache
    BY <1>i, <1>n, SnapsTyped DEF TypesOfCaches
  <2>2. /\ UNCHANGED <<allWrites, visibleWrites>>
        /\ \/ UNCHANGED <<view, serverSnap, eventSnap, events>>
           \/ serverSnap' = srv /\ Raise(evt) /\ UNCHANGED view
           \/ /\ view' = 0 /\ serverSnap' = NewServerSnap /\ eventSnap' = NewServerSnap
              /\ UNCHANGED events
    BY <1>6 DEF OnListenAnswer
  <2> HIDE DEF m, srv
  <2>3. evt \in Cache
    BY <1>i, <1>n, <2>1, SnapsTyped DEF TypesOfCaches
  <2> HIDE DEF evt
  <2>4. CASE UNCHANGED <<view, serverSnap, eventSnap, events>>
    BY <1>i, <2>2, <2>4 DEF TypesOfCaches
  <2>5. CASE serverSnap' = srv /\ Raise(evt) /\ UNCHANGED view
    BY <1>i, <2>1, <2>2, <2>3, <2>5, RaiseTyped DEF TypesOfCaches
  <2>6. CASE /\ view' = 0 /\ serverSnap' = NewServerSnap /\ eventSnap' = NewServerSnap
             /\ UNCHANGED events
    BY <1>i, <2>1, <2>2, <2>6 DEF TypesOfCaches
  <2> QED BY <2>2, <2>4, <2>5, <2>6
<1>7. CASE AckPuts
  <2> DEFINE id == Head(putsToAck).id
             ok == Head(putsToAck).ok
  <2>1. AckWrite(id, ok) /\ id \in Ids(allWrites)
    BY <1>7, HeldTail DEF AckPuts, WritesInv
  <2> HIDE DEF id, ok
  <2> QED BY <1>i, <2>1, AckTyped
<1>8. CASE Connecting \/ TokenFailed \/ Disconnect \/ Kill
  BY <1>8, <1>k
  DEF Connecting, Retry, TokenFetched, Ready, TokenFailed, Disconnect, Kill, LoseConnection, idleQueues
<1>9. CASE Serving \/ \E k \in Keys, value \in {Leaf, {}} : RemoteChange(k, value)
  BY <1>9, <1>k
  DEF Serving, ServeListen, ServePut, ServeUnlisten, RemoteChange, Request,
      clientSide
<1> QED
  BY <1>1, <1>2, <1>3, <1>4, <1>5, <1>6, <1>7, <1>8, <1>9 DEF DatabaseNext, Worker

-----------------------------------------------------------------------------
(* The connection *)

\* The messages have their types, and listens can be told from the others.
LEMMA MessagesTyped ==
    /\ \A w \in Write : PutRequest(w) \in Requests /\ PutRequest(w) \notin ListenRequests
    /\ \A l \in Screens, h \in Node :
         ListenRequest(l, h) \in Requests /\ ListenRequest(l, h) \in ListenRequests
    /\ UnlistenRequest \in Requests /\ UnlistenRequest \notin ListenRequests
    /\ \A p \in Paths, v \in Node :
         Update(p, v) \in Answers /\ Update(p, v) \notin ListenAnswers
    /\ \A l \in Screens, ok \in BOOLEAN :
         ListenAnswer(l, ok) \in Answers /\ ListenAnswer(l, ok) \in ListenAnswers
    /\ \A n \in Nat, ok \in BOOLEAN :
         PutAnswer(n, ok) \in Answers /\ PutAnswer(n, ok) \notin ListenAnswers
    /\ \A r \in Requests : r \in ListenRequests <=> r.op = "listen"
    /\ \A a \in Answers : a \in ListenAnswers <=> a.kind = "listen"
<1>1. \A w \in Write : PutRequest(w) \in Requests /\ PutRequest(w) \notin ListenRequests
  BY DEF PutRequest, Requests, ListenRequests
<1>2. \A l \in Screens, h \in Node :
        ListenRequest(l, h) \in Requests /\ ListenRequest(l, h) \in ListenRequests
  BY DEF ListenRequest, Requests, ListenRequests
<1>3. UnlistenRequest \in Requests /\ UnlistenRequest \notin ListenRequests
  BY DEF UnlistenRequest, Requests, ListenRequests
<1>4. \A p \in Paths, v \in Node :
        Update(p, v) \in Answers /\ Update(p, v) \notin ListenAnswers
  BY DEF Update, Answers, ListenAnswers
<1>5. \A l \in Screens, ok \in BOOLEAN :
        ListenAnswer(l, ok) \in Answers /\ ListenAnswer(l, ok) \in ListenAnswers
  BY DEF ListenAnswer, Answers, ListenAnswers
<1>6. \A n \in Nat, ok \in BOOLEAN :
        PutAnswer(n, ok) \in Answers /\ PutAnswer(n, ok) \notin ListenAnswers
  BY DEF PutAnswer, Answers, ListenAnswers
<1>7. \A r \in Requests : r \in ListenRequests <=> r.op = "listen"
  BY DEF Requests, ListenRequests
<1>8. \A a \in Answers : a \in ListenAnswers <=> a.kind = "listen"
  BY DEF Answers, ListenAnswers
<1> QED BY <1>1, <1>2, <1>3, <1>4, <1>5, <1>6, <1>7, <1>8

\* What is sent goes behind what was sent.
LEMMA OneMore ==
    ASSUME NEW S, NEW s \in Seq(S), NEW e \in S
    PROVE  s \o <<e>> = Append(s, e) /\ Append(s, e) \in Seq(S)
<1>1. Len(s \o <<e>>) = Len(Append(s, e))
  OBVIOUS
<1>2. \A j \in 1 .. Len(Append(s, e)) : (s \o <<e>>)[j] = Append(s, e)[j]
  OBVIOUS
<1>3. s \o <<e>> \in Seq(S) /\ Append(s, e) \in Seq(S)
  OBVIOUS
<1> QED BY <1>1, <1>2, <1>3, SeqEqual

\* For a request the server sends perhaps a change, then the answer.
LEMMA SentInOrder ==
    ASSUME NEW S, NEW s \in Seq(S), NEW u \in S, NEW a \in S, NEW c,
           c = <<u>> \/ c = <<>>
    PROVE  LET t == IF c = <<>> THEN s ELSE Append(s, u)
           IN  s \o c \o <<a>> = Append(t, a) /\ t \in Seq(S)
<1>1. CASE c = <<>>
  <2>1. s \o c = s
    BY <1>1, ConcatEmptySeq
  <2> QED BY <1>1, <2>1, OneMore
<1>2. CASE c = <<u>>
  <2>1. s \o c = Append(s, u) /\ Append(s, u) \in Seq(S)
    BY <1>2, OneMore
  <2>2. c # <<>>
    BY <1>2
  <2>3. Append(s, u) \o <<a>> = Append(Append(s, u), a)
    BY <2>1, OneMore
  <2> QED BY <2>1, <2>2, <2>3
<1> QED BY <1>1, <1>2

\* On a new connection one listen waits for its answer, or none.
LEMMA RestoredListens ==
    ASSUME WritesInv, listens \in Nat, serverSnap \in Cache
    PROVE  CountOf(RestoreState, ListenRequests) = IF listens = 0 THEN 0 ELSE 1
<1> DEFINE r == RestoreState
           first == IF listens = 0 THEN 0 ELSE 1
           n == Cardinality(outstandingPuts)
<1>1. /\ r \in Seq(Requests) /\ n \in Nat /\ Len(r) = first + n
      /\ first = 1 => r[1] = ListenRequest(listens, serverSnap.node)
      /\ \A i \in 1 .. n : r[first + i].op = "put"
  BY RestoredMessages
<1>2. serverSnap.node \in Node
  BY DEF Cache
<1> HIDE DEF r, n
<1>3. \A i \in 1 .. n : r[first + i] \notin ListenRequests
  BY <1>1 DEF ListenRequests
<1>4. first = 1 => r[1] \in ListenRequests
  <2>1. first = 1 => listens \in Screens
    BY DEF Screens
  <2> HIDE DEF first
  <2> QED BY <1>1, <1>2, <2>1, MessagesTyped
<1>5. CASE listens = 0
  <2>1. Places(r, ListenRequests) = {}
    <3>1. Len(r) = n /\ \A i \in 1 .. n : first + i = i
      BY <1>1, <1>5
    <3>2. \A i \in 1 .. Len(r) : r[i] \notin ListenRequests
      <4> HIDE DEF first
      <4> QED BY <1>3, <3>1
    <3> QED BY <3>2 DEF Places
  <2> QED BY <1>5, <2>1, FS_EmptySet DEF CountOf, r
<1>6. CASE listens # 0
  <2>1. \A j \in 2 .. Len(r) : r[j] \notin ListenRequests
    <3> SUFFICES ASSUME NEW j \in 2 .. Len(r) PROVE r[j] \notin ListenRequests
      OBVIOUS
    <3>1. j - 1 \in 1 .. n /\ first + (j - 1) = j
      BY <1>1, <1>6
    <3> QED BY <1>3, <3>1
  <2>2. Places(r, ListenRequests) = {1}
    BY <1>1, <1>4, <1>6, <2>1 DEF Places
  <2> QED BY <1>6, <2>2, FS_Singleton DEF CountOf, r
<1> QED BY <1>5, <1>6

LEMMA PendingStaysTyped ==
    ASSUME InputInv, WritesInv, RTypeOK, LinkInv, DatabaseNext
    PROVE  TypesOfPending'
<1>i. TypesOfCaches /\ TypesOfPending /\ TypesOfLink
  BY TypeParts
<1>k. ASSUME UNCHANGED <<pending, writeIdCounter, acking>> PROVE TypesOfPending'
  BY <1>i, <1>k DEF pending, TypesOfPending
<1>1. CASE SetValue
  BY <1>1, <1>i DEF SetValue, TypesOfPending
<1>2. CASE AddObserver
  <2>1. Head(work).screen \in Nat
    BY <1>2, JobTyped DEF AddObserver, Screens
  <2> QED BY <1>2, <1>i, <2>1 DEF AddObserver, TypesOfPending
<1>3. CASE RemoveObserver
  BY <1>3, <1>i DEF RemoveObserver, TypesOfPending
<1>4. CASE OnDataUpdate
  BY <1>4, <1>k DEF OnDataUpdate
<1>5. CASE OnPutAnswer
  <2> DEFINE m == Head(toClient)
             h == [id |-> m.id, ok |-> m.ok]
             H == [id : Nat, ok : BOOLEAN]
  <2>1. m \in Answers /\ m.kind = "put"
    BY <1>5, <1>i DEF OnPutAnswer, Message, TypesOfLink
  <2>2. h \in H
    BY <2>1 DEF Answers
  <2>3. /\ outstandingPuts' \subseteq outstandingPuts
        /\ putsToAck' = putsToAck \/ putsToAck' = Append(putsToAck, h)
        /\ UNCHANGED <<writeIdCounter, listens, unackedListensCount, acking>>
    BY <1>5 DEF OnPutAnswer
  <2>4. putsToAck \in Seq(H)
    BY <1>i DEF TypesOfPending
  <2> HIDE DEF m, h, H
  <2>5. putsToAck' \in Seq(H)
    BY <2>2, <2>3, <2>4
  <2> QED BY <1>i, <2>3, <2>5 DEF TypesOfPending, H
<1>6. CASE OnListenAnswer
  <2>1. unackedListensCount - 1 \in Nat
    <3>1. /\ toClient # <<>> /\ Head(toClient).kind = "listen"
          /\ toClient \in Seq(Answers) /\ toServer \in Seq(Requests)
      BY <1>6, <1>i DEF OnListenAnswer, Message, TypesOfLink
    <3>2. Head(toClient) \in ListenAnswers
      BY <3>1, MessagesTyped
    <3>3. /\ CountOf(toClient, ListenAnswers) = CountOf(Tail(toClient), ListenAnswers) + 1
          /\ Tail(toClient) \in Seq(Answers)
      BY <3>1, <3>2, CountTaken
    <3>4. CountOf(Tail(toClient), ListenAnswers) \in Nat /\ CountOf(toServer, ListenRequests) \in Nat
      BY <3>1, <3>3, CountFacts
    <3> QED BY <3>3, <3>4 DEF LinkInv
  <2>2. /\ unackedListensCount' = unackedListensCount - 1
        /\ acking' = (unackedListensCount = 1 /\ putsToAck # <<>>)
        /\ listens' \in {listens, 0}
        /\ UNCHANGED <<outstandingPuts, putsToAck, writeIdCounter>>
    BY <1>6 DEF OnListenAnswer
  <2>3. acking' \in BOOLEAN
    BY <2>2
  <2> QED BY <1>i, <2>1, <2>2, <2>3 DEF TypesOfPending
<1>7. CASE AckPuts
  <2> DEFINE H == [id : Nat, ok : BOOLEAN]
  <2>1. putsToAck \in Seq(H) /\ putsToAck # <<>>
    BY <1>7, <1>i DEF TypesOfPending, AckPuts, WritesInv
  <2>2. /\ putsToAck' = Tail(putsToAck) /\ acking' = (Len(putsToAck) > 1)
        /\ UNCHANGED <<outstandingPuts, listens, unackedListensCount, writeIdCounter>>
    BY <1>7 DEF AckPuts
  <2> HIDE DEF H
  <2>3. putsToAck' \in Seq(H) /\ acking' \in BOOLEAN
    BY <2>1, <2>2
  <2> QED BY <1>i, <2>2, <2>3 DEF TypesOfPending, H
<1>8. CASE Ready
  BY <1>8, <1>i DEF Ready, idleQueues, TypesOfPending
<1>9. CASE Retry \/ TokenFetched \/ TokenFailed
  BY <1>9, <1>k DEF Retry, TokenFetched, TokenFailed, idleQueues
<1>10. CASE Disconnect \/ Kill
  <2>1. /\ unackedListensCount' = 0
        /\ UNCHANGED <<outstandingPuts, putsToAck, listens, writeIdCounter, acking>>
    BY <1>10 DEF Disconnect, Kill, LoseConnection, idleQueues
  <2> QED BY <2>1, <1>i DEF TypesOfPending
<1>11. CASE Serving \/ \E k \in Keys, value \in {Leaf, {}} : RemoteChange(k, value)
  BY <1>11, <1>k
  DEF Serving, ServeListen, ServePut, ServeUnlisten, RemoteChange, Request,
      clientSide
<1> QED
  BY <1>1, <1>2, <1>3, <1>4, <1>5, <1>6, <1>7, <1>8, <1>9, <1>10, <1>11
  DEF DatabaseNext, Worker, Connecting

\* What a request of the head of the queue is, and what is left behind it.
LEMMA RequestTaken ==
    ASSUME TypesOfLink, NEW op, Request(op)
    PROVE  /\ Head(toServer) \in Requests /\ Head(toServer).op = op
           /\ toServer' = Tail(toServer) /\ toServer' \in Seq(Requests)
           /\ CountOf(toServer, ListenRequests)
                = CountOf(toServer', ListenRequests) + (IF op = "listen" THEN 1 ELSE 0)
<1>1. /\ toServer \in Seq(Requests) /\ toServer # <<>> /\ Head(toServer).op = op
      /\ toServer' = Tail(toServer)
  BY DEF TypesOfLink, Request
<1>2. Head(toServer) \in Requests /\ toServer' \in Seq(Requests)
  BY <1>1
<1> QED BY <1>1, <1>2, CountTaken, MessagesTyped

LEMMA AnswerTaken ==
    ASSUME TypesOfLink, NEW kind, Message(kind)
    PROVE  /\ Head(toClient) \in Answers /\ Head(toClient).kind = kind
           /\ toClient' = Tail(toClient) /\ toClient' \in Seq(Answers)
           /\ CountOf(toClient, ListenAnswers)
                = CountOf(toClient', ListenAnswers) + (IF kind = "listen" THEN 1 ELSE 0)
<1>1. /\ toClient \in Seq(Answers) /\ toClient # <<>> /\ Head(toClient).kind = kind
      /\ toClient' = Tail(toClient)
  BY DEF TypesOfLink, Message
<1>2. Head(toClient) \in Answers /\ toClient' \in Seq(Answers)
  BY <1>1
<1> QED BY <1>1, <1>2, CountTaken, MessagesTyped

\* The server's two answers.
LEMMA ListenServed ==
    ASSUME TypesOfLink, NEW ok \in BOOLEAN, ServeListen(ok)
    PROVE  LET r == Head(toServer)
               told == IF ok /\ r.hash # data THEN Append(toClient, Update(Top, data))
                       ELSE toClient
           IN  /\ r \in Requests /\ r.op = "listen" /\ r.listen \in Screens
               /\ told \in Seq(Answers)
               /\ toClient' = Append(told, ListenAnswer(r.listen, ok))
               /\ ListenAnswer(r.listen, ok) \in Answers
               /\ CountOf(told, ListenAnswers) = CountOf(toClient, ListenAnswers)
<1> DEFINE r == Head(toServer)
           b == ok /\ r.hash # data
           u == Update(Top, data)
           a == ListenAnswer(r.listen, ok)
           told == IF b THEN Append(toClient, u) ELSE toClient
<1>1. r \in Requests /\ r.op = "listen"
  BY RequestTaken DEF ServeListen
<1>2. r.listen \in Screens
  BY <1>1 DEF Requests
<1>3. /\ u \in Answers /\ u \notin ListenAnswers /\ a \in Answers
      /\ toClient \in Seq(Answers) /\ b \in BOOLEAN
  BY <1>2, MessagesTyped DEF TypesOfLink, Paths
<1>4. toClient' = toClient \o (IF b THEN <<u>> ELSE <<>>) \o <<a>>
  BY DEF ServeListen
<1> HIDE DEF r, b, u, a
<1>5. told \in Seq(Answers) /\ toClient' = Append(told, a)
  <2> DEFINE c == IF b THEN <<u>> ELSE <<>>
  <2>1. (c = <<u>> \/ c = <<>>) /\ (c = <<>> <=> ~b)
    OBVIOUS
  <2>2. toClient' = toClient \o c \o <<a>>
    BY <1>3, <1>4
  <2> HIDE DEF c
  <2>3. told = IF c = <<>> THEN toClient ELSE Append(toClient, u)
    BY <2>1
  <2> HIDE DEF told
  <2> QED BY <1>3, <2>1, <2>2, <2>3, SentInOrder
<1>6. CountOf(told, ListenAnswers) = CountOf(toClient, ListenAnswers)
  <2>1. CountOf(Append(toClient, u), ListenAnswers) = CountOf(toClient, ListenAnswers) + 0
    BY <1>3, CountAppended
  <2>2. CountOf(toClient, ListenAnswers) \in Nat
    BY <1>3, CountFacts
  <2> QED BY <2>1, <2>2
<1> HIDE DEF told
<1> QED BY <1>1, <1>2, <1>3, <1>5, <1>6 DEF r, b, u, a, told

LEMMA PutServed ==
    ASSUME TypesOfLink, NEW ok \in BOOLEAN, ServePut(ok)
    PROVE  LET w == Head(toServer).write
               new == IF ok THEN UpdateChild(data, w.path, Leaf) ELSE data
               told == IF watched /\ new # data THEN Append(toClient, Update(w.path, Leaf))
                       ELSE toClient
           IN  /\ w \in Write /\ new \in Node /\ data' = new
               /\ told \in Seq(Answers)
               /\ toClient' = Append(told, PutAnswer(w.id, ok))
               /\ PutAnswer(w.id, ok) \in Answers
               /\ CountOf(told, ListenAnswers) = CountOf(toClient, ListenAnswers)
<1> DEFINE w == Head(toServer).write
           new == IF ok THEN UpdateChild(data, w.path, Leaf) ELSE data
           b == watched /\ new # data
           u == Update(w.path, Leaf)
           a == PutAnswer(w.id, ok)
           told == IF b THEN Append(toClient, u) ELSE toClient
<1>1. Head(toServer) \in Requests /\ Head(toServer).op = "put"
  BY RequestTaken DEF ServePut
<1>2. w \in Write
  BY <1>1 DEF Requests
<1>3. w.id \in Nat /\ w.path \in Paths
  BY <1>2 DEF Write
<1>4. /\ data' = new
      /\ toClient' = toClient \o (IF b THEN <<u>> ELSE <<>>) \o <<a>>
  BY DEF ServePut
<1> HIDE DEF w
<1>5. /\ u \in Answers /\ u \notin ListenAnswers /\ a \in Answers
      /\ toClient \in Seq(Answers) /\ new \in Node
  BY <1>3, MessagesTyped, NodeTyped, NodeFacts DEF TypesOfLink
<1>6. b \in BOOLEAN
  BY DEF TypesOfLink
<1> HIDE DEF new, b, u, a
<1>7. told \in Seq(Answers) /\ toClient' = Append(told, a)
  <2> DEFINE c == IF b THEN <<u>> ELSE <<>>
  <2>1. (c = <<u>> \/ c = <<>>) /\ (c = <<>> <=> ~b)
    OBVIOUS
  <2>2. toClient' = toClient \o c \o <<a>>
    BY <1>4, <1>5, <1>6
  <2> HIDE DEF c
  <2>3. told = IF c = <<>> THEN toClient ELSE Append(toClient, u)
    BY <2>1
  <2> HIDE DEF told
  <2> QED BY <1>5, <2>1, <2>2, <2>3, SentInOrder
<1>8. CountOf(told, ListenAnswers) = CountOf(toClient, ListenAnswers)
  <2>1. CountOf(Append(toClient, u), ListenAnswers) = CountOf(toClient, ListenAnswers) + 0
    BY <1>5, CountAppended
  <2>2. CountOf(toClient, ListenAnswers) \in Nat
    BY <1>5, CountFacts
  <2> QED BY <2>1, <2>2
<1> HIDE DEF told
<1> QED BY <1>2, <1>4, <1>5, <1>7, <1>8 DEF w, new, b, u, a, told

LEMMA LinkStaysTyped ==
    ASSUME InputInv, WritesInv, RTypeOK, LinkInv, DatabaseNext
    PROVE  TypesOfLink'
<1>i. TypesOfCaches /\ TypesOfPending /\ TypesOfLink
  BY TypeParts
<1>t. /\ toServer \in Seq(Requests) /\ toClient \in Seq(Answers)
      /\ connectionState \in {"disconnected", "gettingToken", "connecting", "connected",
                             "interrupted"}
      /\ data \in Node /\ watched \in BOOLEAN /\ faults \in Nat /\ remote \in Nat
  BY <1>i DEF TypesOfLink
<1>1. CASE SetValue
  <2> DEFINE r == PutRequest([id |-> writeIdCounter, path |-> Head(work).path])
  <2>1. r \in Requests
    <3>1. [id |-> writeIdCounter, path |-> Head(work).path] \in Write
      BY <1>1, <1>i, JobTyped DEF SetValue, Write, TypesOfPending
    <3> QED BY <3>1, MessagesTyped
  <2>2. /\ toServer' = toServer \/ toServer' = Append(toServer, r)
        /\ UNCHANGED <<connectionState, toClient, server, faults>>
    BY <1>1 DEF SetValue
  <2> HIDE DEF r
  <2>3. toServer' \in Seq(Requests)
    BY <1>t, <2>1, <2>2
  <2> QED BY <1>t, <2>2, <2>3 DEF TypesOfLink, server
<1>2. CASE AddObserver
  <2> DEFINE r == ListenRequest(Head(work).screen, NewServerSnap.node)
  <2>1. r \in Requests
    <3>1. Head(work).screen \in Screens /\ NewServerSnap.node \in Node
      BY <1>2, JobTyped, NodeFacts DEF AddObserver, NewServerSnap
    <3> QED BY <3>1, MessagesTyped
  <2>2. /\ toServer' = toServer \/ toServer' = Append(toServer, r)
        /\ UNCHANGED <<connectionState, toClient, server, faults>>
    BY <1>2 DEF AddObserver
  <2> HIDE DEF r
  <2>3. toServer' \in Seq(Requests)
    BY <1>t, <2>1, <2>2
  <2> QED BY <1>t, <2>2, <2>3 DEF TypesOfLink, server
<1>3. CASE RemoveObserver
  <2>1. /\ toServer' = toServer \/ toServer' = Append(toServer, UnlistenRequest)
        /\ UNCHANGED <<connectionState, toClient, server, faults>>
    BY <1>3 DEF RemoveObserver
  <2>2. toServer' \in Seq(Requests)
    BY <1>t, <2>1, MessagesTyped
  <2> QED BY <1>t, <2>1, <2>2 DEF TypesOfLink, server
<1>4. CASE OnDataUpdate \/ OnPutAnswer \/ OnListenAnswer
  <2>1. toClient' \in Seq(Answers)
    BY <1>4, <1>i, AnswerTaken DEF OnDataUpdate, OnPutAnswer, OnListenAnswer
  <2> QED
    BY <1>4, <1>t, <2>1
    DEF OnDataUpdate, OnPutAnswer, OnListenAnswer, server, TypesOfLink
<1>5. CASE AckPuts
  BY <1>5, <1>t DEF AckPuts, connection, server, TypesOfLink
<1>6. CASE Ready
  <2>1. RestoreState \in Seq(Requests)
    BY <1>i, RestoredMessages DEF TypesOfCaches, TypesOfPending
  <2> QED BY <1>6, <1>t, <2>1 DEF Ready, server, TypesOfLink
<1>7. CASE Retry \/ TokenFetched \/ TokenFailed
  BY <1>7, <1>t DEF Retry, TokenFetched, TokenFailed, server, TypesOfLink
<1>8. CASE Disconnect \/ Kill
  <2>1. <<>> \in Seq(Requests) /\ <<>> \in Seq(Answers)
    OBVIOUS
  <2>2. /\ toServer' = <<>> /\ toClient' = <<>>
        /\ connectionState' \in {"disconnected", "interrupted"}
        /\ watched' = FALSE /\ faults' = faults + 1 /\ UNCHANGED <<data, remote>>
    BY <1>8 DEF Disconnect, Kill, LoseConnection
  <2>3. toServer' \in Seq(Requests) /\ toClient' \in Seq(Answers)
    BY <2>1, <2>2
  <2>a. watched' \in BOOLEAN
    BY <2>2, Zenon
  <2>4. watched' \in BOOLEAN /\ faults' \in Nat
    BY <1>t, <2>2, <2>a
  <2> QED BY <1>t, <2>2, <2>3, <2>4 DEF TypesOfLink
<1>9. ASSUME NEW ok \in BOOLEAN, ServeListen(ok) PROVE TypesOfLink'
  <2>1. toServer' \in Seq(Requests)
    BY <1>9, <1>i, RequestTaken DEF ServeListen
  <2>2. toClient' \in Seq(Answers)
    BY <1>9, <1>i, ListenServed
  <2>3. /\ faults' = faults + (IF ok THEN 0 ELSE 1) /\ watched' = ok
        /\ UNCHANGED <<connectionState, data, remote>>
    BY <1>9 DEF ServeListen, Request, clientSide
  <2> QED BY <1>t, <2>1, <2>2, <2>3 DEF TypesOfLink
<1>10. ASSUME NEW ok \in BOOLEAN, ServePut(ok) PROVE TypesOfLink'
  <2>1. toServer' \in Seq(Requests)
    BY <1>10, <1>i, RequestTaken DEF ServePut
  <2>2. toClient' \in Seq(Answers) /\ data' \in Node
    BY <1>10, <1>i, PutServed
  <2>3. UNCHANGED <<connectionState, watched, remote, faults>>
    BY <1>10 DEF ServePut, Request, clientSide
  <2> QED BY <1>t, <2>1, <2>2, <2>3 DEF TypesOfLink
<1>11. CASE ServeUnlisten
  <2>1. toServer' \in Seq(Requests)
    BY <1>11, <1>i, RequestTaken DEF ServeUnlisten
  <2> QED BY <1>11, <1>t, <2>1 DEF ServeUnlisten, Request, clientSide, TypesOfLink
<1>12. ASSUME NEW k \in Keys, NEW value \in {Leaf, {}}, RemoteChange(k, value)
       PROVE  TypesOfLink'
  <2>1. k \in Paths /\ value \in Node
    BY NodeFacts DEF Paths
  <2>2. UpdateChild(data, k, value) \in Node /\ Update(k, value) \in Answers
    BY <1>t, <2>1, NodeTyped, MessagesTyped
  <2>3. /\ data' = UpdateChild(data, k, value) /\ remote' = remote + 1
        /\ toClient' = toClient \/ toClient' = Append(toClient, Update(k, value))
        /\ UNCHANGED <<connectionState, toServer, watched, faults>>
    BY <1>12 DEF RemoteChange, clientSide
  <2>4. toClient' \in Seq(Answers)
    BY <1>t, <2>2, <2>3
  <2> QED BY <1>t, <2>2, <2>3, <2>4 DEF TypesOfLink
<1> QED
  BY <1>1, <1>2, <1>3, <1>4, <1>5, <1>6, <1>7, <1>8, <1>9, <1>10, <1>11, <1>12
  DEF DatabaseNext, Worker, Connecting, Serving

\* The counts of listens are numbers.
LEMMA Counts ==
    ASSUME TypesOfLink
    PROVE  CountOf(toServer, ListenRequests) \in Nat /\ CountOf(toClient, ListenAnswers) \in Nat
BY CountFacts DEF TypesOfLink

LEMMA DatabaseKeepsLink ==
    ASSUME InputInv, WritesInv, RTypeOK, LinkInv, DatabaseNext
    PROVE  LinkInv'
<1>i. TypesOfCaches /\ TypesOfPending /\ TypesOfLink
  BY TypeParts
<1>t. /\ toServer \in Seq(Requests) /\ toClient \in Seq(Answers)
      /\ listens \in Nat /\ unackedListensCount \in Nat
      /\ CountOf(toServer, ListenRequests) \in Nat /\ CountOf(toClient, ListenAnswers) \in Nat
  BY <1>i, Counts DEF TypesOfLink, TypesOfPending
<1>l. /\ view = listens
      /\ unackedListensCount
           = CountOf(toServer, ListenRequests) + CountOf(toClient, ListenAnswers)
      /\ ~Connected => toServer = <<>> /\ toClient = <<>> /\ ~watched
      /\ acking => Connected /\ unackedListensCount = 0
  BY DEF LinkInv
<1>k. ASSUME UNCHANGED <<view, listens, unackedListensCount, toServer, toClient,
                         connectionState, watched>>,
             acking' = acking \/ acking' = FALSE
      PROVE  LinkInv'
  <2>1. acking' => acking
    BY <1>k
  <2> QED BY <1>k, <1>l, <2>1 DEF LinkInv, Connected
<1>1. CASE SetValue
  <2> DEFINE r == PutRequest([id |-> writeIdCounter, path |-> Head(work).path])
  <2>1. r \in Requests /\ r \notin ListenRequests
    <3>1. [id |-> writeIdCounter, path |-> Head(work).path] \in Write
      BY <1>1, <1>i, JobTyped DEF SetValue, Write, TypesOfPending
    <3> QED BY <3>1, MessagesTyped
  <2>2. /\ toServer' = IF Connected THEN Append(toServer, r) ELSE toServer
        /\ UNCHANGED <<view, listens, unackedListensCount, toClient,
                       connectionState, watched, acking>>
    BY <1>1 DEF SetValue, server
  <2> HIDE DEF r
  <2>3. CountOf(toServer', ListenRequests) = CountOf(toServer, ListenRequests)
    <3>1. CountOf(Append(toServer, r), ListenRequests) = CountOf(toServer, ListenRequests) + 0
      BY <1>t, <2>1, CountAppended
    <3> QED BY <1>t, <2>2, <3>1
  <2> QED BY <1>l, <2>2, <2>3 DEF LinkInv, Connected
<1>2. CASE AddObserver
  <2> DEFINE n == Head(work).screen
             r == ListenRequest(n, NewServerSnap.node)
  <2>1. r \in Requests /\ r \in ListenRequests
    <3>1. n \in Screens /\ NewServerSnap.node \in Node
      BY <1>2, JobTyped, NodeFacts DEF AddObserver, NewServerSnap
    <3> QED BY <3>1, MessagesTyped
  <2>2. /\ toServer' = IF Connected THEN Append(toServer, r) ELSE toServer
        /\ unackedListensCount' = unackedListensCount + (IF Connected THEN 1 ELSE 0)
        /\ view' = n /\ listens' = n /\ acking' = acking /\ ~acking
        /\ UNCHANGED <<toClient, connectionState, watched>>
    BY <1>2 DEF AddObserver, Job, server
  <2> HIDE DEF r, n
  <2>3. CASE Connected
    <3>1. CountOf(Append(toServer, r), ListenRequests) = CountOf(toServer, ListenRequests) + 1
      BY <1>t, <2>1, CountAppended
    <3> QED BY <1>t, <1>l, <2>2, <2>3, <3>1 DEF LinkInv, Connected
  <2>4. CASE ~Connected
    BY <1>t, <1>l, <2>2, <2>4 DEF LinkInv, Connected
  <2> QED BY <2>3, <2>4
<1>3. CASE RemoveObserver
  <2>1. /\ \/ UNCHANGED <<view, listens>>
           \/ view' = 0 /\ listens' = 0
        /\ toServer' = toServer \/ (Connected /\ toServer' = Append(toServer, UnlistenRequest))
        /\ UNCHANGED <<unackedListensCount, toClient, connectionState, watched, acking>>
    BY <1>3 DEF RemoveObserver, server
  <2>2. CountOf(toServer', ListenRequests) = CountOf(toServer, ListenRequests)
    <3>1. CountOf(Append(toServer, UnlistenRequest), ListenRequests)
            = CountOf(toServer, ListenRequests) + 0
      BY <1>t, CountAppended, MessagesTyped
    <3>2. CASE toServer' = toServer
      BY <3>2
    <3>3. CASE toServer' = Append(toServer, UnlistenRequest)
      BY <1>t, <3>1, <3>3
    <3> QED BY <2>1, <3>2, <3>3
  <2>3. view' = listens'
    BY <1>l, <2>1
  <2> QED BY <1>l, <2>1, <2>2, <2>3 DEF LinkInv, Connected
<1>4. CASE OnDataUpdate \/ OnPutAnswer
  <2>1. /\ CountOf(toClient, ListenAnswers) = CountOf(toClient', ListenAnswers) + 0
        /\ toClient' \in Seq(Answers) /\ toClient' = Tail(toClient)
    BY <1>4, <1>i, AnswerTaken DEF OnDataUpdate, OnPutAnswer
  <2>2. CountOf(toClient', ListenAnswers) = CountOf(toClient, ListenAnswers)
    <3>1. CountOf(toClient', ListenAnswers) \in Nat
      BY <2>1, CountFacts
    <3> QED BY <2>1, <3>1
  <2>3. view' = view
    <3>1. CASE OnDataUpdate
      BY <3>1 DEF OnDataUpdate
    <3>2. CASE OnPutAnswer
      BY <3>2 DEF OnPutAnswer, caches, AckWrite
    <3> QED BY <1>4, <3>1, <3>2
  <2>4. /\ UNCHANGED <<listens, unackedListensCount, toServer,
                       connectionState, watched, acking>>
        /\ Connected /\ ~acking
    <3>1. toClient # <<>> /\ ~acking
      BY <1>4 DEF OnDataUpdate, OnPutAnswer, Message
    <3> QED BY <1>4, <1>l, <3>1 DEF OnDataUpdate, OnPutAnswer, pending, server
  <2> QED BY <1>l, <2>2, <2>3, <2>4 DEF LinkInv, Connected
<1>5. CASE OnListenAnswer
  <2>1. /\ CountOf(toClient, ListenAnswers) = CountOf(toClient', ListenAnswers) + 1
        /\ toClient' \in Seq(Answers)
    BY <1>5, <1>i, AnswerTaken DEF OnListenAnswer
  <2>2. CountOf(toClient', ListenAnswers) \in Nat
    BY <2>1, CountFacts
  <2>3. /\ \/ UNCHANGED <<view, listens>>
           \/ view' = 0 /\ listens' = 0
        /\ unackedListensCount' = unackedListensCount - 1
        /\ acking' => unackedListensCount = 1
        /\ UNCHANGED <<toServer, connectionState, watched>>
    BY <1>5 DEF OnListenAnswer, server
  <2>4. Connected
    BY <1>5, <1>l DEF OnListenAnswer, Message
  <2>5. acking' => unackedListensCount' = 0
    BY <2>3
  <2>6. unackedListensCount'
          = CountOf(toServer', ListenRequests) + CountOf(toClient', ListenAnswers)
    BY <1>t, <1>l, <2>1, <2>2, <2>3
  <2>7. view' = listens'
    BY <1>l, <2>3
  <2> QED BY <2>3, <2>4, <2>5, <2>6, <2>7 DEF LinkInv, Connected
<1>6. CASE AckPuts
  <2>1. /\ UNCHANGED <<view, listens, unackedListensCount, toServer, toClient,
                       connectionState, watched>>
        /\ acking
    BY <1>6 DEF AckPuts, AckWrite, connection, server
  <2> QED BY <1>l, <2>1 DEF LinkInv, Connected
<1>7. CASE Ready
  <2>1. CountOf(RestoreState, ListenRequests) = IF listens = 0 THEN 0 ELSE 1
    BY <1>i, RestoredListens DEF TypesOfCaches, TypesOfPending
  <2>2. /\ ~acking /\ connectionState = "connecting" /\ connectionState' = "connected"
        /\ toServer' = RestoreState
        /\ unackedListensCount' = unackedListensCount + (IF listens = 0 THEN 0 ELSE 1)
        /\ UNCHANGED <<view, listens, toClient, watched, acking>>
    BY <1>7 DEF Ready, idleQueues, caches, server
  <2>3. unackedListensCount = 0 /\ CountOf(toClient, ListenAnswers) = 0
    BY <1>l, <2>2, CountNone DEF Connected
  <2>4. unackedListensCount'
          = CountOf(toServer', ListenRequests) + CountOf(toClient', ListenAnswers)
    BY <2>1, <2>2, <2>3
  <2> QED BY <1>l, <2>2, <2>4 DEF LinkInv, Connected
<1>8. CASE Retry \/ TokenFetched \/ TokenFailed
  <2>1. /\ connectionState # "connected" /\ connectionState' # "connected" /\ ~acking
        /\ UNCHANGED <<view, listens, unackedListensCount, toServer, toClient,
                       watched, acking>>
    BY <1>8 DEF Retry, TokenFetched, TokenFailed, idleQueues, caches, pending, server
  <2> QED BY <1>l, <2>1 DEF LinkInv, Connected
<1>9. CASE Disconnect \/ Kill
  <2>1. /\ connectionState' # "connected" /\ ~acking
        /\ toServer' = <<>> /\ toClient' = <<>> /\ watched' = FALSE
        /\ unackedListensCount' = 0 /\ UNCHANGED <<view, listens, acking>>
    BY <1>9 DEF Disconnect, Kill, LoseConnection, idleQueues, caches
  <2>2. CountOf(toServer', ListenRequests) = 0 /\ CountOf(toClient', ListenAnswers) = 0
    BY <2>1, CountNone
  <2> QED BY <1>l, <2>1, <2>2 DEF LinkInv, Connected
<1>10. ASSUME NEW ok \in BOOLEAN, ServeListen(ok) PROVE LinkInv'
  <2> DEFINE a == ListenAnswer(Head(toServer).listen, ok)
             told == IF ok /\ Head(toServer).hash # data
                     THEN Append(toClient, Update(Top, data)) ELSE toClient
  <2>1. /\ CountOf(toServer, ListenRequests) = CountOf(toServer', ListenRequests) + 1
        /\ toServer' \in Seq(Requests)
    BY <1>10, <1>i, RequestTaken DEF ServeListen
  <2>2. /\ told \in Seq(Answers) /\ toClient' = Append(told, a)
        /\ a \in Answers /\ a \in ListenAnswers
        /\ CountOf(told, ListenAnswers) = CountOf(toClient, ListenAnswers)
    <3>1. Head(toServer).listen \in Screens
      BY <1>10, <1>i, ListenServed
    <3> QED BY <1>10, <1>i, <3>1, ListenServed, MessagesTyped
  <2>3. /\ toServer # <<>>
        /\ UNCHANGED <<view, listens, unackedListensCount, connectionState, acking>>
    BY <1>10 DEF ServeListen, Request, clientSide, caches, pending
  <2> HIDE DEF a, told
  <2>4. CountOf(toClient', ListenAnswers) = CountOf(toClient, ListenAnswers) + 1
    BY <2>2, CountAppended
  <2>5. CountOf(toServer', ListenRequests) \in Nat
    BY <2>1, CountFacts
  <2> QED BY <1>t, <1>l, <2>1, <2>3, <2>4, <2>5 DEF LinkInv, Connected
<1>11. ASSUME NEW ok \in BOOLEAN, ServePut(ok) PROVE LinkInv'
  <2> DEFINE w == Head(toServer).write
             new == IF ok THEN UpdateChild(data, w.path, Leaf) ELSE data
             told == IF watched /\ new # data
                     THEN Append(toClient, Update(w.path, Leaf)) ELSE toClient
             a == PutAnswer(w.id, ok)
  <2>1. /\ CountOf(toServer, ListenRequests) = CountOf(toServer', ListenRequests) + 0
        /\ toServer' \in Seq(Requests)
    BY <1>11, <1>i, RequestTaken DEF ServePut
  <2>2. /\ w \in Write /\ told \in Seq(Answers) /\ toClient' = Append(told, a)
        /\ a \in Answers
        /\ CountOf(told, ListenAnswers) = CountOf(toClient, ListenAnswers)
    BY <1>11, <1>i, PutServed
  <2>a. a \notin ListenAnswers
    <3>1. w.id \in Nat
      BY <2>2 DEF Write
    <3> QED BY <3>1, MessagesTyped
  <2>3. /\ toServer # <<>>
        /\ UNCHANGED <<view, listens, unackedListensCount, connectionState, acking, watched>>
    BY <1>11 DEF ServePut, Request, clientSide, caches, pending
  <2> HIDE DEF a, told
  <2>4. CountOf(toClient', ListenAnswers) = CountOf(toClient, ListenAnswers) + 0
    BY <2>2, <2>a, CountAppended
  <2>5. CountOf(toServer', ListenRequests) \in Nat
    BY <2>1, CountFacts
  <2> QED BY <1>t, <1>l, <2>1, <2>3, <2>4, <2>5 DEF LinkInv, Connected
<1>12. CASE ServeUnlisten
  <2>1. /\ CountOf(toServer, ListenRequests) = CountOf(toServer', ListenRequests) + 0
        /\ toServer' \in Seq(Requests)
    BY <1>12, <1>i, RequestTaken DEF ServeUnlisten
  <2>2. CountOf(toServer', ListenRequests) \in Nat
    BY <2>1, CountFacts
  <2>3. /\ toServer # <<>>
        /\ UNCHANGED <<view, listens, unackedListensCount, connectionState, acking, toClient>>
    BY <1>12 DEF ServeUnlisten, Request, clientSide, caches, pending
  <2> QED BY <1>t, <1>l, <2>1, <2>2, <2>3 DEF LinkInv, Connected
<1>13. ASSUME NEW k \in Keys, NEW value \in {Leaf, {}}, RemoteChange(k, value)
       PROVE  LinkInv'
  <2>1. k \in Paths /\ value \in Node
    BY NodeFacts DEF Paths
  <2>2. Update(k, value) \in Answers /\ Update(k, value) \notin ListenAnswers
    BY <2>1, MessagesTyped
  <2>3. /\ toClient' = IF watched THEN Append(toClient, Update(k, value)) ELSE toClient
        /\ UNCHANGED <<view, listens, unackedListensCount, connectionState, acking,
                       toServer, watched>>
    BY <1>13 DEF RemoteChange, clientSide, caches, pending
  <2>4. CountOf(toClient', ListenAnswers) = CountOf(toClient, ListenAnswers)
    <3>1. CountOf(Append(toClient, Update(k, value)), ListenAnswers)
            = CountOf(toClient, ListenAnswers) + 0
      BY <1>t, <2>2, CountAppended
    <3> QED BY <1>t, <2>3, <3>1
  <2>5. ~Connected' => toClient' = <<>> /\ ~watched'
    BY <1>l, <2>3 DEF Connected
  <2> QED BY <1>l, <2>3, <2>4, <2>5 DEF LinkInv, Connected
<1> QED
  BY <1>1, <1>2, <1>3, <1>4, <1>5, <1>6, <1>7, <1>8, <1>9, <1>10, <1>11, <1>12, <1>13
  DEF DatabaseNext, Worker, Connecting, Serving

\* The screen posts jobs and takes events; it knows nothing of the connection.
LEMMA ScreenTyped ==
    ASSUME InputInv, RTypeOK, CommentsNext, InputInv'
    PROVE  TypesOfScreen'
<1>i. TypesOfScreen /\ TypesOfCaches
  BY TypeParts
<1>1. /\ work' \in Seq(Jobs) /\ screen' \in Nat /\ opened' \in Nat
      /\ field' \in Texts /\ latest' \in Texts
  <2>1. work' \in Seq(SafeJobs) /\ SafeJobs \subseteq Jobs
    BY DEF InputInv, SafeJobs
  <2>2. work' \in Seq(Jobs)
    BY <2>1, SeqMonotonic
  <2> QED BY <2>2 DEF InputInv
<1>2. focused' \in BOOLEAN /\ enabled' \in BOOLEAN /\ submits' \in Nat
  <2>t. focused \in BOOLEAN /\ enabled \in BOOLEAN /\ submits \in Nat
    BY <1>i DEF TypesOfScreen
  <2>s. \A text : SubmitEnabled(text) \in BOOLEAN
    BY DEF SubmitEnabled
  <2>1. CASE (DatabaseNext /\ UNCHANGED ui) \/ Deliver
    BY <2>1, <2>t DEF ui, input, Deliver
  <2>2. CASE BeginEditing \/ EndEditing \/ \E text \in Texts : Edit(text)
    <3>1. /\ focused' = focused \/ focused' = TRUE \/ focused' = FALSE
          /\ \E text : enabled' = SubmitEnabled(text)
          /\ submits' = submits
      BY <2>2 DEF BeginEditing, EndEditing, Edit, Emit
    <3>2. focused' \in BOOLEAN
      BY <2>t, <3>1, Zenon
    <3>3. enabled' \in BOOLEAN
      BY <2>s, <3>1, Zenon
    <3> QED BY <2>t, <3>1, <3>2, <3>3
  <2>3. CASE SubmitAfterResign \/ SubmitBeforeResign \/ Open \/ Close
    <3>1. /\ focused' = FALSE
          /\ \/ enabled' = enabled \/ enabled' = FALSE
             \/ \E text : enabled' = SubmitEnabled(text)
          /\ submits' = submits \/ submits' = submits + 1
      BY <2>3 DEF SubmitAfterResign, SubmitBeforeResign, Open, Close, Emit
    <3>2. focused' \in BOOLEAN
      BY <3>1, Zenon
    <3>3. enabled' \in BOOLEAN
      BY <2>s, <2>t, <3>1, Zenon
    <3>4. submits' \in Nat
      BY <2>t, <3>1
    <3> QED BY <3>2, <3>3, <3>4
  <2> QED BY <2>1, <2>2, <2>3 DEF CommentsNext, User
<1>3. rows' \subseteq Keys
  <2>t. rows \subseteq Keys
    BY <1>i DEF TypesOfScreen
  <2>1. CASE Deliver
    <3>1. Head(events) \in [to : Nat, node : Node]
      <4> DEFINE E == [to : Nat, node : Node]
      <4>1. events \in Seq(E) /\ events # <<>>
        BY <1>i, <2>1 DEF TypesOfCaches, Deliver
      <4> HIDE DEF E
      <4>2. Head(events) \in E
        BY <4>1
      <4> QED BY <4>2 DEF E
    <3>2. IsDictionary(Head(events).node) => Head(events).node \subseteq Keys
      BY <3>1 DEF IsDictionary, Node
    <3> QED BY <2>1, <2>t, <3>2 DEF Deliver
  <2>2. CASE DatabaseNext /\ UNCHANGED ui
    BY <2>2, <2>t DEF ui
  <2>3. CASE User
    BY <2>3, <2>t
    DEF User, BeginEditing, EndEditing, Edit, SubmitAfterResign, SubmitBeforeResign,
        Open, Close
  <2> QED BY <2>1, <2>2, <2>3 DEF CommentsNext
<1> QED BY <1>1, <1>2, <1>3 DEF TypesOfScreen

\* What the screen's own steps leave alone.
LEMMA ScreenApart ==
    ASSUME Deliver \/ User \/ UNCHANGED allVars
    PROVE  UNCHANGED <<caches, writeIdCounter, connection, pending, acking, server, faults>>
<1>1. CASE BeginEditing \/ EndEditing \/ \E text \in Texts : Edit(text)
  BY <1>1 DEF BeginEditing, EndEditing, Edit, vars
<1>2. CASE SubmitAfterResign \/ SubmitBeforeResign \/ Open \/ Close
  BY <1>2 DEF SubmitAfterResign, SubmitBeforeResign, Open, Close, jobless
<1>3. CASE Deliver
  BY <1>3 DEF Deliver
<1>4. CASE UNCHANGED allVars
  BY <1>4 DEF allVars, vars
<1> QED BY <1>1, <1>2, <1>3, <1>4 DEF User

LEMMA NextClientInv == ClientInv /\ [CommentsNext]_allVars => ClientInv'
<1> SUFFICES ASSUME ClientInv, [CommentsNext]_allVars PROVE ClientInv'
  OBVIOUS
<1>i. InputInv /\ WritesInv /\ RTypeOK /\ LinkInv
  BY DEF ClientInv
<1>1. InputInv' /\ WritesInv'
  BY <1>i, NextInputInv, NextWritesInv
<1>2. CASE CommentsNext
  <2>s. TypesOfScreen'
    BY <1>i, <1>1, <1>2, ScreenTyped
  <2>1. CASE DatabaseNext
    <3>1. TypesOfCaches' /\ TypesOfPending' /\ TypesOfLink' /\ LinkInv'
      BY <1>i, <2>1, CachesStayTyped, PendingStaysTyped, LinkStaysTyped, DatabaseKeepsLink
    <3>2. RTypeOK'
      BY <2>s, <3>1, TypeParts, PTL
    <3> QED BY <1>1, <3>1, <3>2 DEF ClientInv
  <2>2. CASE Deliver \/ User
    <3>1. /\ UNCHANGED <<allWrites, visibleWrites, serverSnap, eventSnap, view>>
          /\ UNCHANGED <<connectionState, toServer, toClient, acking, faults>>
          /\ UNCHANGED <<outstandingPuts, putsToAck, unackedListensCount, listens>>
          /\ UNCHANGED <<data, watched, remote, writeIdCounter>>
      BY <2>2, ScreenApart DEF caches, connection, pending, server
    <3>2. TypesOfCaches /\ TypesOfPending /\ TypesOfLink
      BY <1>i, TypeParts
    <3>3. events' \in Seq([to : Nat, node : Node])
      <4> DEFINE E == [to : Nat, node : Node]
      <4>1. events \in Seq(E)
        BY <3>2 DEF TypesOfCaches
      <4>2. events' = events \/ (events # <<>> /\ events' = Tail(events))
        <5>1. CASE Deliver
          BY <5>1 DEF Deliver
        <5>2. CASE User
          BY <5>2
          DEF User, BeginEditing, EndEditing, Edit, SubmitAfterResign,
              SubmitBeforeResign, Open, Close, vars, jobless
        <5> QED BY <2>2, <5>1, <5>2
      <4> HIDE DEF E
      <4>3. events' \in Seq(E)
        BY <4>1, <4>2
      <4> QED BY <4>3 DEF E
    <3>4. TypesOfCaches'
      BY <3>1, <3>2, <3>3 DEF TypesOfCaches
    <3>5. TypesOfPending' /\ TypesOfLink'
      BY <3>1, <3>2 DEF TypesOfPending, TypesOfLink
    <3>6. RTypeOK'
      BY <2>s, <3>4, <3>5, TypeParts, PTL
    <3>7. LinkInv'
      BY <1>i, <3>1 DEF LinkInv, Connected
    <3> QED BY <1>1, <3>6, <3>7 DEF ClientInv
  <2> QED BY <1>2, <2>1, <2>2 DEF CommentsNext
<1>3. CASE UNCHANGED allVars
  <2>1. RTypeOK'
    BY <1>i, <1>3
    DEF RTypeOK, allVars, vars, ui, input, caches, connection, pending, server
  <2>2. LinkInv'
    BY <1>i, <1>3 DEF LinkInv, Connected, allVars, vars, caches, connection, pending, server
  <2> QED BY <1>1, <2>1, <2>2 DEF ClientInv
<1> QED BY <1>2, <1>3

LEMMA InitClientInv == CommentsInit => RTypeOK /\ LinkInv
<1> SUFFICES ASSUME CommentsInit PROVE RTypeOK /\ LinkInv
  OBVIOUS
<1>1. /\ work = <<>> /\ events = <<>> /\ connectionState = "disconnected"
      /\ allWrites = <<>> /\ visibleWrites = EmptyWrite /\ writeIdCounter = 1
      /\ view = 0 /\ serverSnap = NewServerSnap /\ eventSnap = NewServerSnap
      /\ listens = 0 /\ outstandingPuts = {} /\ putsToAck = <<>>
      /\ acking = FALSE /\ unackedListensCount = 0
      /\ toServer = <<>> /\ toClient = <<>>
      /\ data \in InitialLists /\ watched = FALSE /\ faults = 0 /\ remote = 0
  BY DEF CommentsInit, DatabaseInit
<1>2. /\ screen = 0 /\ opened = 0 /\ submits = 0 /\ rows = {}
      /\ field = Empty /\ focused = FALSE /\ latest = Empty /\ enabled = FALSE
  BY DEF CommentsInit
<1>3. NewServerSnap \in Cache /\ EmptyWrite \in CompoundWrite
  BY NodeFacts, TreesTyped DEF NewServerSnap, Cache
<1>4. \A S : <<>> \in Seq(S) /\ {} \subseteq S
  OBVIOUS
<1>5. 0 \in Nat /\ 1 \in Nat /\ FALSE \in BOOLEAN /\ Empty \in Texts
  BY DEF Texts
<1>6. TypesOfCaches
  BY <1>1, <1>3, <1>4, <1>5, Zenon DEF TypesOfCaches
<1>7. TypesOfPending
  BY <1>1, <1>4, <1>5, Zenon DEF TypesOfPending
<1>8. TypesOfLink
  <2>1. "disconnected" \in {"disconnected", "gettingToken", "connecting", "connected",
                            "interrupted"}
    OBVIOUS
  <2>2. data \in Node
    BY <1>1, InitialAssumption, Zenon
  <2> QED BY <1>1, <1>4, <1>5, <2>1, <2>2, Zenon DEF TypesOfLink
<1>9. TypesOfScreen
  BY <1>1, <1>2, <1>4, <1>5, Zenon DEF TypesOfScreen
<1>10. LinkInv
  <2>1. view = listens /\ unackedListensCount = 0 /\ ~acking
    BY <1>1, Zenon
  <2>2. CountOf(toServer, ListenRequests) = 0 /\ CountOf(toClient, ListenAnswers) = 0
    BY <1>1, CountNone, Zenon
  <2>3. toServer = <<>> /\ toClient = <<>> /\ ~watched
    BY <1>1, Zenon
  <2> QED BY <2>1, <2>2, <2>3 DEF LinkInv
<1> QED BY <1>6, <1>7, <1>8, <1>9, <1>10, TypeParts

THEOREM ClientInvHolds == CommentsSpec => []ClientInv
<1>1. CommentsInit => RTypeOK /\ LinkInv
  BY InitClientInv
<1>2. InputInv /\ WritesInv /\ RTypeOK /\ LinkInv <=> ClientInv
  BY DEF ClientInv
<1>3. CommentsInit /\ InputInv /\ WritesInv => ClientInv
  BY <1>1, <1>2
<1> QED BY <1>3, NextClientInv, InputInvHolds, WritesInvHolds, PTL DEF CommentsSpec

\* Screen, client, connection and server keep their types for any number of
\* screens, comments and faults: unackedListensCount never falls below 0, since
\* it is at all times the number of listens under way.
THEOREM CommentsTyped == CommentsSpec => []RTypeOK
<1>1. ClientInv => RTypeOK
  BY DEF ClientInv
<1> QED BY <1>1, ClientInvHolds, PTL

-----------------------------------------------------------------------------
(* The order of the puts *)

\* The numbers f gives the messages of L on a channel, and whether they ascend.
Carried(s, L, f) == {f[s[i]] : i \in Places(s, L)}
Ordered(s, L, f) == \A i, j \in Places(s, L) : i < j => f[s[i]] < f[s[j]]

PutRequests == [op : {"put"}, write : Write]
PutAnswers == [kind : {"put"}, id : Nat, ok : BOOLEAN]
RequestId == [m \in PutRequests |-> m.write.id]
AnswerId == [m \in PutAnswers |-> m.id]

Asked == Carried(toServer, PutRequests, RequestId)
Answered == Carried(toClient, PutAnswers, AnswerId)

InIdOrder(s) == \A i, j \in 1 .. Len(s) : i < j => s[i].id < s[j].id

\* On a connection every unanswered put is asked for once or answered once, in
\* the order of the ids, the answers first.
PutsUnderWay ==
    /\ outstandingPuts = Asked \cup Answered
    /\ \A n \in Answered, m \in Asked : n < m
    /\ Ordered(toServer, PutRequests, RequestId)
    /\ Ordered(toClient, PutAnswers, AnswerId)

\* Everything about the puts goes by their ids: the tree's writes, the answers
\* held back, which are older than the puts that wait, and the messages.
OrderInv ==
    /\ InIdOrder(allWrites) /\ InIdOrder(putsToAck)
    /\ \A h \in Ids(putsToAck), n \in outstandingPuts : h < n
    /\ Connected => PutsUnderWay

LEMMA CarriedAppended ==
    ASSUME NEW S, NEW s \in Seq(S), NEW e \in S, NEW L, NEW f
    PROVE  LET t == Append(s, e)
           IN  /\ e \notin L => Carried(t, L, f) = Carried(s, L, f)
               /\ e \in L => Carried(t, L, f) = Carried(s, L, f) \cup {f[e]}
               /\ Ordered(s, L, f) =>
                    /\ e \notin L => Ordered(t, L, f)
                    /\ e \in L /\ (\A n \in Carried(s, L, f) : n < f[e]) => Ordered(t, L, f)
<1> DEFINE t == Append(s, e)
           n == Len(s) + 1
<1>1. /\ Len(t) = n /\ t[n] = e /\ Len(s) \in Nat
      /\ \A j \in 1 .. Len(s) : t[j] = s[j]
  BY AppendProperties
<1> HIDE DEF t
<1>2. \A i \in Places(s, L) : i \in Places(t, L) /\ t[i] = s[i] /\ i < n
  BY <1>1 DEF Places
<1>3. \A i \in Places(t, L) : i \in Places(s, L) \/ (i = n /\ e \in L)
  BY <1>1 DEF Places
<1>4. e \in L => n \in Places(t, L)
  BY <1>1 DEF Places
<1>5. CASE e \notin L
  <2>1. Places(t, L) = Places(s, L)
    BY <1>2, <1>3, <1>5
  <2>2. Carried(t, L, f) = Carried(s, L, f)
    BY <1>2, <2>1 DEF Carried
  <2>3. Ordered(s, L, f) => Ordered(t, L, f)
    BY <1>2, <2>1 DEF Ordered
  <2> QED BY <1>5, <2>2, <2>3 DEF t
<1>6. CASE e \in L
  <2>1. \A m \in Carried(t, L, f) : m \in Carried(s, L, f) \cup {f[e]}
    BY <1>1, <1>2, <1>3 DEF Carried
  <2>2. \A m \in Carried(s, L, f) \cup {f[e]} : m \in Carried(t, L, f)
    BY <1>1, <1>2, <1>4, <1>6 DEF Carried
  <2>3. ASSUME Ordered(s, L, f), \A m \in Carried(s, L, f) : m < f[e]
        PROVE  Ordered(t, L, f)
    <3> SUFFICES ASSUME NEW i \in Places(t, L), NEW j \in Places(t, L), i < j
                 PROVE  f[t[i]] < f[t[j]]
      BY DEF Ordered
    <3>1. i \in Places(s, L)
      <4>1. i \in 1 .. n /\ j \in 1 .. n
        BY <1>1 DEF Places
      <4> QED BY <1>1, <1>3, <4>1
    <3>2. CASE j \in Places(s, L)
      BY <1>2, <2>3, <3>1, <3>2 DEF Ordered
    <3>3. CASE j = n
      BY <1>1, <1>2, <2>3, <3>1, <3>3 DEF Carried
    <3> QED BY <1>3, <3>2, <3>3
  <2> QED BY <1>6, <2>1, <2>2, <2>3 DEF t
<1> QED BY <1>5, <1>6

LEMMA CarriedTaken ==
    ASSUME NEW S, NEW s \in Seq(S), s # <<>>, NEW L, NEW f
    PROVE  LET t == Tail(s)
           IN  /\ Head(s) \notin L => Carried(t, L, f) = Carried(s, L, f)
               /\ Head(s) \in L => Carried(s, L, f) = Carried(t, L, f) \cup {f[Head(s)]}
               /\ Ordered(s, L, f) =>
                    /\ Ordered(t, L, f)
                    /\ Head(s) \in L => \A n \in Carried(t, L, f) : f[Head(s)] < n
<1> DEFINE t == Tail(s)
<1>1. /\ Len(s) \in Nat \ {0} /\ Head(s) = s[1]
      /\ Len(t) = Len(s) - 1 /\ \A j \in 1 .. Len(t) : t[j] = s[j + 1]
  OBVIOUS
<1> HIDE DEF t
<1>2. \A i \in Places(t, L) : i \in Nat /\ i + 1 \in Places(s, L) /\ t[i] = s[i + 1]
                              /\ i >= 1
  BY <1>1 DEF Places
<1>3. ASSUME NEW j \in Places(s, L), j # 1
      PROVE  j - 1 \in Places(t, L) /\ t[j - 1] = s[j]
  <2>1. j \in 1 .. Len(s) /\ s[j] \in L
    BY DEF Places
  <2>2. j - 1 \in 1 .. Len(t) /\ t[j - 1] = s[(j - 1) + 1] /\ (j - 1) + 1 = j
    BY <1>1, <1>3, <2>1
  <2> QED BY <2>1, <2>2 DEF Places
<1>4. 1 \in Places(s, L) <=> Head(s) \in L
  BY <1>1 DEF Places
<1>5. Ordered(s, L, f) => Ordered(t, L, f)
  BY <1>2 DEF Ordered
<1>6. \A n \in Carried(t, L, f) : n \in Carried(s, L, f)
  BY <1>2 DEF Carried
<1>7. \A n \in Carried(s, L, f) : n \in Carried(t, L, f) \/ (Head(s) \in L /\ n = f[Head(s)])
  BY <1>1, <1>3, <1>4 DEF Carried
<1>8. ASSUME Head(s) \in L
      PROVE  /\ f[Head(s)] \in Carried(s, L, f)
             /\ Ordered(s, L, f) => \A n \in Carried(t, L, f) : f[Head(s)] < n
  <2>1. f[Head(s)] \in Carried(s, L, f)
    BY <1>1, <1>4, <1>8 DEF Carried
  <2>2. ASSUME Ordered(s, L, f), NEW i \in Places(t, L) PROVE f[Head(s)] < f[t[i]]
    <3>1. i + 1 \in Places(s, L) /\ t[i] = s[i + 1] /\ 1 < i + 1
      BY <1>2
    <3> QED BY <1>1, <1>4, <1>8, <2>2, <3>1 DEF Ordered
  <2> QED BY <2>1, <2>2 DEF Carried
<1> QED BY <1>5, <1>6, <1>7, <1>8 DEF t

\* A message of another kind changes nothing.
LEMMA NumbersAre ==
    /\ \A m \in Requests : m.op # "put" => m \notin PutRequests
    /\ \A m \in Requests : m.op = "put" =>
         m \in PutRequests /\ RequestId[m] = m.write.id /\ m.write \in Write
    /\ \A m \in Answers : m.kind # "put" => m \notin PutAnswers
    /\ \A m \in Answers : m.kind = "put" =>
         m \in PutAnswers /\ AnswerId[m] = m.id /\ m.id \in Nat
BY DEF Requests, Answers, PutRequests, PutAnswers, RequestId, AnswerId

\* A new connection asks for every unanswered put, in order.
LEMMA RestoredPuts ==
    ASSUME WritesInv, listens \in Nat, serverSnap \in Cache
    PROVE  /\ Carried(RestoreState, PutRequests, RequestId) = outstandingPuts
           /\ Ordered(RestoreState, PutRequests, RequestId)
<1> DEFINE r == RestoreState
           first == IF listens = 0 THEN 0 ELSE 1
           n == Cardinality(outstandingPuts)
           a == Ascending(outstandingPuts)
           P == Places(r, PutRequests)
<1>1. /\ r \in Seq(Requests) /\ n \in Nat /\ Len(r) = first + n
      /\ first = 1 => r[1] = ListenRequest(listens, serverSnap.node)
      /\ \A i \in 1 .. n : r[first + i].op = "put" /\ r[first + i].write.id = a[i]
  BY RestoredMessages
<1>2. /\ a \in [1 .. n -> outstandingPuts]
      /\ \A m \in outstandingPuts : \E i \in 1 .. n : a[i] = m
      /\ \A i, j \in 1 .. n : i < j => a[i] < a[j]
  <2>1. outstandingPuts \subseteq Int /\ IsFiniteSet(outstandingPuts)
    BY FinitelyMany DEF WritesInv
  <2> QED BY <2>1, AscendingEnumerates
<1>3. first \in {0, 1}
  OBVIOUS
<1> HIDE DEF r, first, n, a
<1>4. ASSUME NEW i \in 1 .. n
      PROVE  first + i \in P /\ RequestId[r[first + i]] = a[i]
  <2>1. first + i \in 1 .. Len(r)
    BY <1>1, <1>3
  <2>2. r[first + i] \in Requests
    BY <1>1, <2>1, ElementOfSeq
  <2>3. r[first + i] \in PutRequests /\ RequestId[r[first + i]] = r[first + i].write.id
    BY <1>1, <2>2, NumbersAre
  <2> QED BY <1>1, <2>1, <2>3 DEF Places
<1>5. ASSUME NEW j \in P PROVE j - first \in 1 .. n /\ first + (j - first) = j
  <2>1. j \in 1 .. Len(r) /\ r[j] \in PutRequests
    BY DEF Places
  <2>2. ~(first = 1 /\ j = 1)
    <3> SUFFICES ASSUME first = 1, j = 1 PROVE FALSE
      OBVIOUS
    <3>1. r[j].op = "listen"
      BY <1>1 DEF ListenRequest
    <3> QED BY <2>1, <3>1 DEF PutRequests
  <2> QED BY <1>1, <1>3, <2>1, <2>2
<1>6. \A m \in Carried(r, PutRequests, RequestId) : m \in outstandingPuts
  <2> SUFFICES ASSUME NEW j \in P PROVE RequestId[r[j]] \in outstandingPuts
    BY DEF Carried
  <2>1. RequestId[r[j]] = a[j - first] /\ j - first \in 1 .. n
    BY <1>4, <1>5
  <2> QED BY <1>2, <2>1
<1>7. \A m \in outstandingPuts : m \in Carried(r, PutRequests, RequestId)
  <2> SUFFICES ASSUME NEW m \in outstandingPuts
               PROVE  \E j \in P : RequestId[r[j]] = m
    BY DEF Carried
  <2>1. PICK i \in 1 .. n : a[i] = m
    BY <1>2
  <2> QED BY <1>4, <2>1
<1>8. Ordered(r, PutRequests, RequestId)
  <2> SUFFICES ASSUME NEW i \in P, NEW j \in P, i < j
               PROVE  RequestId[r[i]] < RequestId[r[j]]
    BY DEF Ordered
  <2> DEFINE k == i - first
             l == j - first
  <2>1. /\ k \in 1 .. n /\ l \in 1 .. n /\ first + k = i /\ first + l = j
    BY <1>5
  <2>2. i \in Int /\ j \in Int /\ first \in Int
    BY <1>3 DEF Places
  <2>3. k < l
    BY <2>2
  <2> HIDE DEF k, l
  <2>4. RequestId[r[i]] = a[k] /\ RequestId[r[j]] = a[l]
    BY <1>4, <2>1
  <2> QED BY <1>2, <2>1, <2>3, <2>4
<1> QED BY <1>6, <1>7, <1>8 DEF r

\* Sequences of writes and of answers in the order of their ids.
LEMMA OrderAppended ==
    ASSUME NEW S, NEW s \in Seq(S), NEW e, InIdOrder(s),
           \A n \in Ids(s) : n < e.id
    PROVE  InIdOrder(Append(s, e))
<1> DEFINE t == Append(s, e)
           T == S \cup {e}
<1>1. s \in Seq(T) /\ e \in T
  BY SeqMonotonic
<1>2. /\ Len(t) = Len(s) + 1 /\ t[Len(s) + 1] = e /\ Len(s) \in Nat
      /\ \A j \in 1 .. Len(s) : t[j] = s[j]
  <2> HIDE DEF T
  <2> QED BY <1>1, AppendProperties
<1> HIDE DEF t
<1> SUFFICES ASSUME NEW i \in 1 .. Len(t), NEW j \in 1 .. Len(t), i < j
             PROVE  t[i].id < t[j].id
  BY DEF InIdOrder, t
<1>3. i \in 1 .. Len(s) /\ t[i] = s[i] /\ s[i].id \in Ids(s)
  BY <1>2 DEF Ids
<1>4. CASE j \in 1 .. Len(s)
  BY <1>2, <1>3, <1>4 DEF InIdOrder
<1>5. CASE j = Len(s) + 1
  BY <1>2, <1>3, <1>5
<1> QED BY <1>2, <1>4, <1>5

LEMMA OrderOfTail ==
    ASSUME NEW S, NEW s \in Seq(S), s # <<>>, InIdOrder(s)
    PROVE  /\ InIdOrder(Tail(s))
           /\ \A n \in Ids(Tail(s)) : Head(s).id < n
           /\ \A n \in Ids(s) : n = Head(s).id \/ Head(s).id < n
<1> DEFINE t == Tail(s)
<1>1. /\ Len(s) \in Nat \ {0} /\ Head(s) = s[1]
      /\ Len(t) = Len(s) - 1 /\ \A j \in 1 .. Len(t) : t[j] = s[j + 1]
  OBVIOUS
<1> HIDE DEF t
<1>2. \A j \in 1 .. Len(t) : j + 1 \in 1 .. Len(s) /\ 1 < j + 1
  BY <1>1
<1>3. InIdOrder(t)
  BY <1>1, <1>2 DEF InIdOrder
<1>4. \A n \in Ids(t) : Head(s).id < n
  BY <1>1, <1>2 DEF InIdOrder, Ids
<1>5. \A n \in Ids(s) : n = Head(s).id \/ Head(s).id < n
  BY <1>1 DEF InIdOrder, Ids
<1> QED BY <1>3, <1>4, <1>5 DEF t

\* An acknowledged write leaves the others in order; the oldest one leaves the
\* tail.
LEMMA AckInOrder ==
    ASSUME WritesInv, InIdOrder(allWrites),
           NEW id \in Ids(allWrites), NEW ok, AckWrite(id, ok)
    PROVE  /\ InIdOrder(allWrites')
           /\ (\A n \in Ids(allWrites) : n = id \/ id < n) => allWrites' = Tail(allWrites)
<1> DEFINE s == allWrites
           i == WriteIndex(id)
           r == RemoveAt(s, i)
<1>1. s \in Seq(Write) /\ Len(s) \in Nat
  BY LenProperties DEF WritesInv
<1>2. i \in 1 .. Len(s) /\ s[i].id = id
  BY WriteFound
<1>3. allWrites' = r
  BY DEF AckWrite
<1> HIDE DEF i
<1>4. /\ Len(r) = Len(s) - 1
      /\ \A j \in 1 .. Len(s) - 1 : r[j] = IF j < i THEN s[j] ELSE s[j + 1]
  BY <1>1, <1>2, RemoveAtProperties
<1>5. InIdOrder(r)
  <2> HIDE DEF r
  <2> DEFINE From(j) == IF j < i THEN j ELSE j + 1
  <2>1. \A j \in 1 .. Len(r) : From(j) \in 1 .. Len(s) /\ r[j] = s[From(j)]
    BY <1>1, <1>2, <1>4
  <2>2. \A j, k \in 1 .. Len(r) : j < k => From(j) < From(k)
    BY <1>2
  <2> HIDE DEF From
  <2> QED BY <2>1, <2>2 DEF InIdOrder
<1>6. ASSUME \A n \in Ids(s) : n = id \/ id < n PROVE r = Tail(s)
  <2>1. 1 \in 1 .. Len(s) /\ s[1].id \in Ids(s) /\ s # <<>>
    BY <1>1, <1>2 DEF Ids
  <2>2. s[1].id \in Nat /\ id \in Nat
    <3>1. s[1] \in Write /\ s[i] \in Write
      BY <1>1, <1>2, <2>1, ElementOfSeq
    <3> QED BY <1>2, <3>1 DEF Write
  <2>3. i = 1
    <3>1. ~(s[1].id < id)
      BY <1>6, <2>1, <2>2
    <3>2. ~(1 < i)
      BY <1>2, <2>1, <3>1 DEF InIdOrder
    <3> QED BY <1>2, <3>2
  <2> QED BY <1>1, <2>1, <2>3, FirstTakenOut
<1> QED BY <1>3, <1>5, <1>6

\* What a message on one of the two channels does to the puts under way.
LEMMA RequestsSent ==
    ASSUME TypesOfLink, PutsUnderWay, NEW e \in Requests, toServer' = Append(toServer, e)
    PROVE  /\ e.op # "put" =>
                Asked' = Asked /\ Ordered(toServer', PutRequests, RequestId)
           /\ e.op = "put" /\ (\A n \in Asked : n < e.write.id) =>
                /\ Asked' = Asked \cup {e.write.id}
                /\ Ordered(toServer', PutRequests, RequestId)
<1>1. toServer \in Seq(Requests) /\ Ordered(toServer, PutRequests, RequestId)
  BY DEF TypesOfLink, PutsUnderWay
<1> QED BY <1>1, CarriedAppended, NumbersAre DEF Asked

LEMMA RequestsTaken ==
    ASSUME TypesOfLink, PutsUnderWay, NEW op, Request(op)
    PROVE  /\ Ordered(toServer', PutRequests, RequestId)
           /\ op # "put" => Asked' = Asked
           /\ op = "put" =>
                /\ Asked = Asked' \cup {Head(toServer).write.id}
                /\ \A n \in Asked' : Head(toServer).write.id < n
<1>1. /\ toServer \in Seq(Requests) /\ toServer # <<>> /\ toServer' = Tail(toServer)
      /\ Ordered(toServer, PutRequests, RequestId)
      /\ Head(toServer) \in Requests /\ Head(toServer).op = op
  BY RequestTaken DEF TypesOfLink, PutsUnderWay, Request
<1> QED BY <1>1, CarriedTaken, NumbersAre DEF Asked

LEMMA AnswersSent ==
    ASSUME NEW s \in Seq(Answers), NEW e \in Answers, Ordered(s, PutAnswers, AnswerId)
    PROVE  /\ e.kind # "put" =>
                /\ Carried(Append(s, e), PutAnswers, AnswerId)
                     = Carried(s, PutAnswers, AnswerId)
                /\ Ordered(Append(s, e), PutAnswers, AnswerId)
           /\ e.kind = "put" =>
                /\ Carried(Append(s, e), PutAnswers, AnswerId)
                     = Carried(s, PutAnswers, AnswerId) \cup {e.id}
                /\ (\A n \in Carried(s, PutAnswers, AnswerId) : n < e.id)
                     => Ordered(Append(s, e), PutAnswers, AnswerId)
BY CarriedAppended, NumbersAre

LEMMA AnswersTaken ==
    ASSUME TypesOfLink, PutsUnderWay, NEW kind, Message(kind)
    PROVE  /\ Ordered(toClient', PutAnswers, AnswerId)
           /\ kind # "put" => Answered' = Answered
           /\ kind = "put" =>
                /\ Answered = Answered' \cup {Head(toClient).id}
                /\ \A n \in Answered' : Head(toClient).id < n
<1>1. /\ toClient \in Seq(Answers) /\ toClient # <<>> /\ toClient' = Tail(toClient)
      /\ Ordered(toClient, PutAnswers, AnswerId)
      /\ Head(toClient) \in Answers /\ Head(toClient).kind = kind
  BY AnswerTaken DEF TypesOfLink, PutsUnderWay, Message
<1> QED BY <1>1, CarriedTaken, NumbersAre DEF Answered

\* A step that changes only the messages, if it is one.
LEMMA MessagesKept ==
    ASSUME OrderInv, UNCHANGED <<allWrites, putsToAck, outstandingPuts>>,
           Connected' => PutsUnderWay'
    PROVE  OrderInv'
<1>1. InIdOrder(allWrites') /\ InIdOrder(putsToAck') /\ Ids(putsToAck') = Ids(putsToAck)
  BY DEF OrderInv
<1> QED BY <1>1 DEF OrderInv

\* The next write has the largest id.
LEMMA SetValueInOrder == ASSUME ClientInv, OrderInv, SetValue PROVE OrderInv'
<1> DEFINE w == [id |-> writeIdCounter, path |-> Head(work).path]
<1>i. WritesInv /\ TypesOfLink /\ TypesOfCaches
  BY TypeParts DEF ClientInv
<1>1. w.id = writeIdCounter /\ w \in Write
  BY <1>i, JobTyped DEF SetValue, Write, WritesInv, ClientInv
<1>2. /\ allWrites' = Append(allWrites, w) /\ putsToAck' = putsToAck
      /\ outstandingPuts' = outstandingPuts \cup {w.id}
      /\ toServer' = IF Connected THEN Append(toServer, PutRequest(w)) ELSE toServer
      /\ UNCHANGED <<connectionState, toClient>>
  BY DEF SetValue
<1> HIDE DEF w
<1>3. \A n \in outstandingPuts \cup Ids(putsToAck) : n < w.id
  BY <1>i, <1>1 DEF WritesInv
<1>4. InIdOrder(allWrites') /\ InIdOrder(putsToAck') /\ Ids(putsToAck') = Ids(putsToAck)
  BY <1>i, <1>1, <1>2, OrderAppended DEF OrderInv, WritesInv
<1>5. \A h \in Ids(putsToAck'), n \in outstandingPuts' : h < n
  BY <1>2, <1>3, <1>4 DEF OrderInv
<1>6. ASSUME Connected PROVE PutsUnderWay'
  <2>1. PutsUnderWay
    BY <1>6 DEF OrderInv
  <2>2. PutRequest(w) \in Requests /\ PutRequest(w).op = "put"
        /\ PutRequest(w).write.id = w.id
    BY <1>1, MessagesTyped DEF PutRequest
  <2>3. Asked' = Asked \cup {w.id} /\ Ordered(toServer', PutRequests, RequestId)
    BY <1>i, <1>2, <1>3, <1>6, <2>1, <2>2, RequestsSent DEF PutsUnderWay
  <2>4. Answered' = Answered /\ Ordered(toClient', PutAnswers, AnswerId)
    BY <1>2, <2>1 DEF Answered, PutsUnderWay
  <2>5. \A n \in Answered', m \in Asked' : n < m
    BY <1>3, <2>1, <2>3, <2>4 DEF PutsUnderWay
  <2> QED BY <1>2, <2>1, <2>3, <2>4, <2>5 DEF PutsUnderWay
<1>7. Connected' => Connected
  BY <1>2 DEF Connected
<1> QED BY <1>4, <1>5, <1>6, <1>7 DEF OrderInv

\* The answer to a put is the answer to the oldest one that waits.
LEMMA AnswerIsForTheOldest ==
    ASSUME ClientInv, OrderInv, OnPutAnswer
    PROVE  LET id == Head(toClient).id
           IN  /\ Connected /\ id \in outstandingPuts
               /\ \A n \in outstandingPuts : n = id \/ id < n
               /\ outstandingPuts' = outstandingPuts \ {id}
               /\ PutsUnderWay'
<1> DEFINE id == Head(toClient).id
<1>i. TypesOfLink /\ LinkInv /\ outstandingPuts \subseteq Nat
  BY TypeParts DEF ClientInv, WritesInv
<1>1. Message("put")
  BY DEF OnPutAnswer
<1>2. Connected /\ PutsUnderWay
  BY <1>i, <1>1 DEF Message, LinkInv, OrderInv
<1>3. /\ Ordered(toClient', PutAnswers, AnswerId)
      /\ Answered = Answered' \cup {id} /\ \A n \in Answered' : id < n
  BY <1>i, <1>1, <1>2, AnswersTaken
<1>4. /\ outstandingPuts = Asked \cup Answered
      /\ \A n \in Answered, m \in Asked : n < m
      /\ Ordered(toServer, PutRequests, RequestId)
  BY <1>2 DEF PutsUnderWay
<1>5. id \in outstandingPuts /\ outstandingPuts' = outstandingPuts \ {id}
  BY <1>3, <1>4 DEF OnPutAnswer
<1>6. UNCHANGED <<toServer, connectionState>>
  BY DEF OnPutAnswer
<1>7. Asked' = Asked /\ Ordered(toServer', PutRequests, RequestId)
  BY <1>4, <1>6 DEF Asked
<1> HIDE DEF id
<1>8. \A n \in outstandingPuts : n = id \/ id < n
  BY <1>3, <1>4
<1>9. outstandingPuts' = Asked' \cup Answered'
  <2>1. \A n \in outstandingPuts : n # id <=> n \in Asked \cup Answered'
    BY <1>i, <1>3, <1>4, <1>5
  <2> QED BY <1>3, <1>4, <1>5, <1>7, <2>1
<1>10. \A n \in Answered', m \in Asked' : n < m
  BY <1>3, <1>4, <1>7
<1>11. PutsUnderWay'
  BY <1>3, <1>7, <1>9, <1>10 DEF PutsUnderWay
<1> QED BY <1>2, <1>5, <1>8, <1>11 DEF id

LEMMA PutAnswerInOrder == ASSUME ClientInv, OrderInv, OnPutAnswer PROVE OrderInv'
<1> DEFINE m == Head(toClient)
           h == [id |-> m.id, ok |-> m.ok]
<1>i. WritesInv /\ outstandingPuts \subseteq Nat
  BY DEF ClientInv, WritesInv
<1>1. /\ Connected /\ m.id \in outstandingPuts
      /\ \A n \in outstandingPuts : n = m.id \/ m.id < n
      /\ outstandingPuts' = outstandingPuts \ {m.id}
      /\ PutsUnderWay'
  BY AnswerIsForTheOldest
<1>2. CASE unackedListensCount = 0
  <2>1. AckWrite(m.id, m.ok) /\ putsToAck' = putsToAck
    BY <1>1, <1>2 DEF OnPutAnswer
  <2>2. m.id \in Ids(allWrites)
    BY <1>i, <1>1 DEF WritesInv
  <2>3. InIdOrder(allWrites')
    BY <1>i, <2>1, <2>2, AckInOrder DEF OrderInv
  <2>4. InIdOrder(putsToAck') /\ Ids(putsToAck') = Ids(putsToAck)
    BY <2>1 DEF OrderInv
  <2> QED BY <1>1, <2>3, <2>4 DEF OrderInv
<1>3. CASE unackedListensCount # 0
  <2>1. putsToAck' = Append(putsToAck, h) /\ allWrites' = allWrites
    BY <1>1, <1>3 DEF OnPutAnswer, caches
  <2>2. h.id = m.id /\ \A n \in Ids(putsToAck) : n < m.id
    BY <1>1 DEF OrderInv
  <2> HIDE DEF h
  <2>3. PICK S : putsToAck \in Seq(S)
    BY <1>i DEF WritesInv, IsSequence
  <2>4. InIdOrder(putsToAck')
    BY <2>1, <2>2, <2>3, OrderAppended DEF OrderInv
  <2>5. Ids(putsToAck') = Ids(putsToAck) \cup {m.id}
    BY <1>1, <1>i, <2>1, <2>2, HeldAppended DEF WritesInv
  <2>6. \A k \in Ids(putsToAck'), n \in outstandingPuts' : k < n
    BY <1>1, <2>5 DEF OrderInv
  <2>7. InIdOrder(allWrites')
    BY <2>1 DEF OrderInv
  <2> QED BY <1>1, <2>4, <2>6, <2>7 DEF OrderInv
<1> QED BY <1>2, <1>3

\* The answer held back the longest is about the oldest write.
LEMMA HeldIsForTheOldest ==
    ASSUME ClientInv, OrderInv, putsToAck # <<>>
    PROVE  LET id == Head(putsToAck).id
           IN  /\ id \in Ids(allWrites) /\ \A n \in Ids(allWrites) : n = id \/ id < n
               /\ InIdOrder(Tail(putsToAck)) /\ Ids(Tail(putsToAck)) \subseteq Ids(putsToAck)
<1>1. PICK S : putsToAck \in Seq(S)
  BY DEF ClientInv, WritesInv, IsSequence
<1>2. /\ Head(putsToAck).id \in Ids(putsToAck)
      /\ Ids(Tail(putsToAck)) \subseteq Ids(putsToAck)
  BY HeldTail DEF ClientInv, WritesInv
<1>3. /\ InIdOrder(Tail(putsToAck))
      /\ \A n \in Ids(putsToAck) : n = Head(putsToAck).id \/ Head(putsToAck).id < n
  BY <1>1, OrderOfTail DEF OrderInv
<1>4. Ids(allWrites) = outstandingPuts \cup Ids(putsToAck)
  BY DEF ClientInv, WritesInv
<1> QED BY <1>2, <1>3, <1>4 DEF OrderInv

LEMMA AckPutsInOrder == ASSUME ClientInv, OrderInv, AckPuts PROVE OrderInv'
<1> DEFINE id == Head(putsToAck).id
<1>1. /\ AckWrite(id, Head(putsToAck).ok) /\ putsToAck' = Tail(putsToAck)
      /\ putsToAck # <<>> /\ WritesInv
      /\ UNCHANGED <<outstandingPuts, connectionState, toServer, toClient>>
  BY DEF AckPuts, WritesInv, ClientInv, connection
<1>2. /\ id \in Ids(allWrites)
      /\ InIdOrder(putsToAck') /\ Ids(putsToAck') \subseteq Ids(putsToAck)
  BY <1>1, HeldIsForTheOldest
<1> HIDE DEF id
<1>3. InIdOrder(allWrites')
  BY <1>1, <1>2, AckInOrder DEF OrderInv
<1>4. \A h \in Ids(putsToAck'), n \in outstandingPuts' : h < n
  BY <1>1, <1>2 DEF OrderInv
<1>5. Connected' => PutsUnderWay'
  <2>1. (Connected' <=> Connected) /\ Asked' = Asked /\ Answered' = Answered
    BY <1>1 DEF Connected, Asked, Answered
  <2>2. PutsUnderWay => PutsUnderWay'
    BY <1>1, <2>1 DEF PutsUnderWay
  <2> QED BY <2>1, <2>2 DEF OrderInv
<1> QED BY <1>2, <1>3, <1>4, <1>5 DEF OrderInv

\* The server answers the puts in the order in which it was asked.
LEMMA ServePutInOrder ==
    ASSUME ClientInv, OrderInv, NEW ok \in BOOLEAN, ServePut(ok)
    PROVE  OrderInv'
<1> DEFINE w == Head(toServer).write
           new == IF ok THEN UpdateChild(data, w.path, Leaf) ELSE data
           u == Update(w.path, Leaf)
           told == IF watched /\ new # data THEN Append(toClient, u) ELSE toClient
           a == PutAnswer(w.id, ok)
           C(s) == Carried(s, PutAnswers, AnswerId)
           O(s) == Ordered(s, PutAnswers, AnswerId)
<1>i. TypesOfLink /\ LinkInv /\ toClient \in Seq(Answers)
  BY TypeParts DEF ClientInv, TypesOfLink
<1>1. Request("put") /\ Connected /\ PutsUnderWay
  <2>1. Request("put")
    BY DEF ServePut
  <2> QED BY <1>i, <2>1 DEF Request, LinkInv, OrderInv
<1>2. /\ w \in Write /\ told \in Seq(Answers)
      /\ toClient' = Append(told, a) /\ a \in Answers
  BY <1>i, PutServed
<1>3. /\ Ordered(toServer', PutRequests, RequestId)
      /\ Asked = Asked' \cup {w.id} /\ \A n \in Asked' : w.id < n
  BY <1>i, <1>1, RequestsTaken
<1>4. /\ outstandingPuts = Asked \cup C(toClient)
      /\ \A n \in C(toClient), m \in Asked : n < m
      /\ O(toClient)
  BY <1>1 DEF PutsUnderWay, Answered
<1>5. u \in Answers /\ u.kind # "put" /\ a.kind = "put" /\ a.id = w.id
  BY <1>2, MessagesTyped, NodeFacts DEF Update, PutAnswer, Write
<1>6. UNCHANGED <<allWrites, putsToAck, outstandingPuts>>
  BY <1>1 DEF Request, clientSide, caches, pending
<1> HIDE DEF w, u, a, C, O
<1>7. C(told) = C(toClient) /\ O(told)
  <2>1. C(Append(toClient, u)) = C(toClient) /\ O(Append(toClient, u))
    BY <1>i, <1>4, <1>5, AnswersSent DEF C, O
  <2> HIDE DEF new
  <2> QED BY <1>4, <2>1
<1> HIDE DEF told
<1>8. /\ C(toClient') = C(toClient) \cup {w.id}
      /\ O(toClient')
  <2>1. \A n \in C(told) : n < w.id
    BY <1>3, <1>4, <1>7
  <2> QED BY <1>2, <1>4, <1>5, <1>7, <2>1, AnswersSent DEF C, O
<1>9. Answered' = C(toClient')
  BY DEF Answered, C
<1>10. PutsUnderWay'
  <2>1. outstandingPuts' = Asked' \cup Answered'
    BY <1>3, <1>4, <1>6, <1>8, <1>9
  <2>2. \A n \in Answered', m \in Asked' : n < m
    BY <1>3, <1>4, <1>8, <1>9
  <2> QED BY <1>3, <1>8, <2>1, <2>2 DEF PutsUnderWay, O
<1> QED BY <1>6, <1>10, MessagesKept

\* The listens, their answers and the list's changes do not mix with the puts.
LEMMA OthersInOrder ==
    ASSUME ClientInv, OrderInv, DatabaseNext, ~SetValue, ~OnPutAnswer, ~AckPuts,
           ~(\E ok \in BOOLEAN : ServePut(ok))
    PROVE  OrderInv'
<1>i. /\ TypesOfLink /\ TypesOfCaches /\ TypesOfPending /\ LinkInv /\ WritesInv
      /\ InputInv /\ toClient \in Seq(Answers)
  BY TypeParts DEF ClientInv, TypesOfLink
<1>s. ASSUME UNCHANGED toServer
      PROVE  Asked' = Asked /\ (PutsUnderWay => Ordered(toServer', PutRequests, RequestId))
  BY <1>s DEF Asked, PutsUnderWay
<1>c. ASSUME UNCHANGED toClient
      PROVE  Answered' = Answered /\ (PutsUnderWay => Ordered(toClient', PutAnswers, AnswerId))
  BY <1>c DEF Answered, PutsUnderWay
<1>k. ASSUME UNCHANGED <<allWrites, putsToAck, outstandingPuts, connectionState>>,
             PutsUnderWay => /\ Asked' = Asked /\ Answered' = Answered
                             /\ Ordered(toServer', PutRequests, RequestId)
                             /\ Ordered(toClient', PutAnswers, AnswerId)
      PROVE  OrderInv'
  <2>1. PutsUnderWay => PutsUnderWay'
    BY <1>k DEF PutsUnderWay
  <2>2. Connected' => PutsUnderWay'
    BY <1>k, <2>1 DEF Connected, OrderInv
  <2> QED BY <1>k, <2>2, MessagesKept
<1>1. CASE AddObserver \/ RemoveObserver
  <2>1. /\ UNCHANGED <<allWrites, putsToAck, outstandingPuts, connectionState, toClient>>
        /\ \/ toServer' = toServer
           \/ \E e \in Requests : e.op # "put" /\ toServer' = Append(toServer, e)
    <3>1. CASE AddObserver
      <4> DEFINE e == ListenRequest(Head(work).screen, NewServerSnap.node)
      <4>1. e \in Requests /\ e.op = "listen"
        <5>1. Head(work).screen \in Screens /\ NewServerSnap.node \in Node
          BY <3>1, <1>i, JobTyped, NodeFacts DEF AddObserver, NewServerSnap
        <5> QED BY <5>1, MessagesTyped DEF ListenRequest
      <4>2. /\ toServer' = toServer \/ toServer' = Append(toServer, e)
            /\ UNCHANGED <<allWrites, putsToAck, outstandingPuts, connectionState, toClient>>
        BY <3>1 DEF AddObserver
      <4> HIDE DEF e
      <4> QED BY <4>1, <4>2
    <3>2. CASE RemoveObserver
      <4>1. UnlistenRequest \in Requests /\ UnlistenRequest.op # "put"
        BY MessagesTyped DEF UnlistenRequest
      <4>2. /\ toServer' = toServer \/ toServer' = Append(toServer, UnlistenRequest)
            /\ UNCHANGED <<allWrites, putsToAck, outstandingPuts, connectionState, toClient>>
        BY <3>2 DEF RemoveObserver
      <4> QED BY <4>1, <4>2
    <3> QED BY <1>1, <3>1, <3>2
  <2>2. PutsUnderWay => Asked' = Asked /\ Ordered(toServer', PutRequests, RequestId)
    BY <1>i, <1>s, <2>1, RequestsSent
  <2> QED BY <1>c, <1>k, <2>1, <2>2
<1>2. CASE OnDataUpdate \/ OnListenAnswer
  <2>1. /\ UNCHANGED <<allWrites, putsToAck, outstandingPuts, connectionState, toServer>>
        /\ Message("data") \/ Message("listen")
    BY <1>2 DEF OnDataUpdate, OnListenAnswer, pending
  <2>2. PutsUnderWay => Answered' = Answered /\ Ordered(toClient', PutAnswers, AnswerId)
    BY <1>i, <2>1, AnswersTaken
  <2> QED BY <1>s, <1>k, <2>1, <2>2
<1>3. CASE Ready
  <2>1. /\ UNCHANGED <<allWrites, putsToAck, outstandingPuts, toClient>>
        /\ toServer' = RestoreState /\ ~Connected
    BY <1>3 DEF Ready, idleQueues, caches, Connected
  <2>2. toClient' = <<>>
    BY <1>i, <2>1 DEF LinkInv
  <2>3. Asked' = outstandingPuts' /\ Ordered(toServer', PutRequests, RequestId)
    <3>1. listens \in Nat /\ serverSnap \in Cache
      BY <1>i DEF TypesOfPending, TypesOfCaches
    <3> QED BY <1>i, <2>1, <3>1, RestoredPuts DEF Asked
  <2>4. Answered' = {} /\ Ordered(toClient', PutAnswers, AnswerId)
    <3>1. Places(toClient', PutAnswers) = {}
      BY <2>2 DEF Places
    <3> QED BY <3>1 DEF Answered, Carried, Ordered
  <2>5. PutsUnderWay'
    BY <2>3, <2>4 DEF PutsUnderWay
  <2> QED BY <2>1, <2>5, MessagesKept
<1>4. CASE Retry \/ TokenFetched \/ TokenFailed \/ Disconnect \/ Kill
  <2>1. UNCHANGED <<allWrites, putsToAck, outstandingPuts>> /\ ~Connected'
    BY <1>4
    DEF Retry, TokenFetched, TokenFailed, Disconnect, Kill, LoseConnection, idleQueues, caches, pending,
        Connected
  <2> QED BY <2>1, MessagesKept
<1>5. ASSUME NEW ok \in BOOLEAN, ServeListen(ok) PROVE OrderInv'
  <2> DEFINE r == Head(toServer)
             u == Update(Top, data)
             told == IF ok /\ r.hash # data THEN Append(toClient, u) ELSE toClient
             a == ListenAnswer(r.listen, ok)
  <2>1. Request("listen")
    BY <1>5 DEF ServeListen
  <2>2. told \in Seq(Answers) /\ toClient' = Append(told, a) /\ a \in Answers
    BY <1>i, <1>5, ListenServed
  <2>3. /\ u \in Answers /\ u.kind = "data" /\ a.kind = "listen"
    BY <1>i, MessagesTyped DEF TypesOfLink, Paths, Update, ListenAnswer
  <2>4. UNCHANGED <<allWrites, putsToAck, outstandingPuts, connectionState>>
    BY <2>1 DEF Request, clientSide, caches, pending
  <2>5. PutsUnderWay => Asked' = Asked /\ Ordered(toServer', PutRequests, RequestId)
    BY <1>i, <2>1, RequestsTaken
  <2>6. ASSUME PutsUnderWay
        PROVE  Answered' = Answered /\ Ordered(toClient', PutAnswers, AnswerId)
    <3>1. Ordered(toClient, PutAnswers, AnswerId)
      BY <2>6 DEF PutsUnderWay
    <3> HIDE DEF r, u, a
    <3>2. /\ Carried(Append(toClient, u), PutAnswers, AnswerId) = Answered
          /\ Ordered(Append(toClient, u), PutAnswers, AnswerId)
      BY <1>i, <2>3, <3>1, AnswersSent DEF Answered
    <3>3. /\ Carried(told, PutAnswers, AnswerId) = Answered
          /\ Ordered(told, PutAnswers, AnswerId)
      BY <3>1, <3>2 DEF Answered
    <3> HIDE DEF told
    <3> QED BY <2>2, <2>3, <3>3, AnswersSent DEF Answered
  <2> QED BY <1>k, <2>4, <2>5, <2>6
<1>6. CASE ServeUnlisten
  <2>1. /\ Request("unlisten") /\ UNCHANGED toClient
        /\ UNCHANGED <<allWrites, putsToAck, outstandingPuts, connectionState>>
    BY <1>6 DEF ServeUnlisten, Request, clientSide, caches, pending
  <2>2. PutsUnderWay => Asked' = Asked /\ Ordered(toServer', PutRequests, RequestId)
    BY <1>i, <2>1, RequestsTaken
  <2> QED BY <1>c, <1>k, <2>1, <2>2
<1>7. ASSUME NEW k \in Keys, NEW value \in {Leaf, {}}, RemoteChange(k, value)
      PROVE  OrderInv'
  <2>1. Update(k, value) \in Answers /\ Update(k, value).kind = "data"
    BY MessagesTyped, NodeFacts DEF Paths, Update
  <2>2. /\ toClient' = toClient \/ toClient' = Append(toClient, Update(k, value))
        /\ UNCHANGED <<allWrites, putsToAck, outstandingPuts, connectionState, toServer>>
    BY <1>7 DEF RemoteChange, clientSide, caches, pending
  <2>3. PutsUnderWay => Answered' = Answered /\ Ordered(toClient', PutAnswers, AnswerId)
    BY <1>i, <1>c, <2>1, <2>2, AnswersSent DEF Answered, PutsUnderWay
  <2> QED BY <1>s, <1>k, <2>2, <2>3
<1> QED
  BY <1>1, <1>2, <1>3, <1>4, <1>5, <1>6, <1>7
  DEF DatabaseNext, Worker, Connecting, Serving

LEMMA NextOrderInv == ClientInv /\ OrderInv /\ [CommentsNext]_allVars => OrderInv'
<1> SUFFICES ASSUME ClientInv, OrderInv, [CommentsNext]_allVars PROVE OrderInv'
  OBVIOUS
<1>1. CASE DatabaseNext
  BY <1>1, SetValueInOrder, PutAnswerInOrder, AckPutsInOrder, ServePutInOrder,
     OthersInOrder
<1>2. CASE Deliver \/ User \/ UNCHANGED allVars
  <2>1. UNCHANGED <<allWrites, putsToAck, outstandingPuts, connectionState,
                    toServer, toClient>>
    BY <1>2, ScreenApart DEF caches, pending, connection
  <2>2. /\ Asked' = Asked /\ Answered' = Answered /\ (Connected' <=> Connected)
        /\ (PutsUnderWay => PutsUnderWay')
    BY <2>1 DEF Asked, Answered, Connected, PutsUnderWay
  <2>3. Connected' => PutsUnderWay'
    BY <2>2 DEF OrderInv
  <2> QED BY <2>1, <2>3, MessagesKept
<1> QED BY <1>1, <1>2 DEF CommentsNext

\* Requests, answers and held-back answers go by the ids of the writes, on one
\* connection and from one to the next.
THEOREM OrderInvHolds == CommentsSpec => []OrderInv
<1>1. CommentsInit => OrderInv
  BY DEF CommentsInit, DatabaseInit, OrderInv, InIdOrder, Ids, Connected
<1> QED BY <1>1, NextOrderInv, ClientInvHolds, PTL DEF CommentsSpec

\* An acknowledgement, unless answers are stranded, is about the oldest write.
LEMMA AckTakesOldest ==
    ASSUME ClientInv, OrderInv, ~Stranded, AckPuts \/ OnPutAnswer
    PROVE  allWrites' = allWrites \/ (allWrites # <<>> /\ allWrites' = Tail(allWrites))
<1>i. WritesInv /\ LinkInv /\ allWrites \in Seq(Write) /\ InIdOrder(allWrites)
  BY DEF ClientInv, WritesInv, OrderInv
<1>n. \A id \in Ids(allWrites) : allWrites # <<>>
  BY <1>i DEF Ids
<1>1. CASE AckPuts
  <2>1. /\ putsToAck # <<>>
        /\ AckWrite(Head(putsToAck).id, Head(putsToAck).ok)
    BY <1>1, <1>i DEF AckPuts, WritesInv
  <2> QED BY <1>i, <1>n, <2>1, HeldIsForTheOldest, AckInOrder
<1>2. CASE OnPutAnswer
  <2> DEFINE id == Head(toClient).id
  <2>1. /\ Connected /\ id \in outstandingPuts
        /\ \A n \in outstandingPuts : n = id \/ id < n
    BY <1>2, AnswerIsForTheOldest
  <2>2. CASE unackedListensCount # 0
    BY <1>2, <2>1, <2>2 DEF OnPutAnswer, caches
  <2>3. CASE unackedListensCount = 0
    <3>1. AckWrite(id, Head(toClient).ok)
      BY <1>2, <2>1, <2>3 DEF OnPutAnswer
    <3>2. putsToAck = <<>>
      BY <1>2, <2>1, <2>3 DEF Stranded, OnPutAnswer, Message
    <3>3. Ids(allWrites) = outstandingPuts
      BY <1>i, <3>2 DEF WritesInv, Ids
    <3> HIDE DEF id
    <3> QED BY <1>i, <1>n, <2>1, <3>1, <3>3, AckInOrder
  <2> QED BY <2>2, <2>3
<1> QED BY <1>1, <1>2

\* Only the two steps that settle a write take one out.
LEMMA Settling ==
    ASSUME ClientInv, CommentsNext, Len(allWrites') < Len(allWrites)
    PROVE  (AckPuts \/ OnPutAnswer) /\ remote' = remote
<1>i. allWrites \in Seq(Write) /\ Len(allWrites) \in Nat
  BY LenProperties DEF ClientInv, WritesInv
<1>c. allWrites' # allWrites
  BY <1>i
<1>1. AckPuts \/ OnPutAnswer
  <2>1. CASE SetValue
    BY <1>i, <2>1 DEF SetValue
  <2>2. CASE ~SetValue /\ ~OnPutAnswer /\ ~AckPuts /\ DatabaseNext
    BY <1>c, <2>2
    DEF DatabaseNext, Worker, Connecting, Serving, AddObserver, RemoveObserver,
        OnDataUpdate, OnListenAnswer, Retry, TokenFetched, TokenFailed, Ready,
        Disconnect, Kill, LoseConnection, idleQueues, ServeListen, ServePut, ServeUnlisten, Request,
        RemoteChange, clientSide, caches
  <2>3. CASE Deliver \/ User
    BY <1>c, <2>3, ScreenApart DEF caches
  <2> QED BY <2>1, <2>2, <2>3 DEF CommentsNext
<1> QED BY <1>1 DEF AckPuts, OnPutAnswer, server

\* FWriteTree's writes are settled oldest first, except in the situation of
\* Stranded: lost connections, repeated puts, held-back answers and refused
\* listens do not change the order.
THEOREM WritesSettleInOrder == CommentsSpec => SettledInOrder
<1> DEFINE A == Len(allWrites') < Len(allWrites) /\ ~Stranded
                  => allWrites' = Tail(allWrites)
<1>1. ClientInv /\ OrderInv /\ [CommentsNext]_allVars => [A]_allVars
  <2> SUFFICES ASSUME ClientInv, OrderInv, CommentsNext, ~Stranded,
                      Len(allWrites') < Len(allWrites)
               PROVE  allWrites' = Tail(allWrites)
    OBVIOUS
  <2>1. allWrites \in Seq(Write) /\ allWrites' # allWrites
    <3>1. allWrites \in Seq(Write) /\ Len(allWrites) \in Nat
      BY LenProperties DEF ClientInv, WritesInv
    <3> QED BY <3>1
  <2> QED BY <2>1, Settling, AckTakesOldest
<1>2. SettledInOrder <=> [][A]_allVars
  BY DEF SettledInOrder
<1> HIDE DEF A
<1> QED BY <1>1, <1>2, ClientInvHolds, OrderInvHolds, PTL DEF CommentsSpec

\* So the tree of visible writes is what layering the pending writes gives for
\* as long as no answers are stranded.
THEOREM LayeredUnlessStranded == CommentsSpec /\ []~Stranded => []VisibleIsLayered
<1> DEFINE A == Len(allWrites') < Len(allWrites) /\ ~Stranded
                  => allWrites' = Tail(allWrites)
<1>1. ~Stranded /\ [A]_allVars => [OldestFirst]_allVars
  BY DEF OldestFirst
<1>2. SettledInOrder <=> [][A]_allVars
  BY DEF SettledInOrder
<1> HIDE DEF A
<1> QED BY <1>1, <1>2, WritesSettleInOrder, LayeredWhileOldestFirst, PTL

-----------------------------------------------------------------------------
(* The listen under way *)

ListenNumber == [m \in ListenRequests \cup ListenAnswers |-> m.listen]
Listening ==
    Carried(toServer, ListenRequests, ListenNumber)
        \cup Carried(toClient, ListenAnswers, ListenNumber)

\* Until the server snap is complete, the view's own listen, or its answer, is
\* on its way on every connection.
ListenInv == Connected /\ view # 0 /\ ~serverSnap.complete => listens \in Listening

LEMMA ListensAre ==
    /\ \A m \in Requests : m.op # "listen" => m \notin ListenRequests
    /\ \A m \in Requests : m.op = "listen" =>
         m \in ListenRequests /\ ListenNumber[m] = m.listen
    /\ \A m \in Answers : m.kind # "listen" => m \notin ListenAnswers
    /\ \A m \in Answers : m.kind = "listen" =>
         m \in ListenAnswers /\ ListenNumber[m] = m.listen
BY DEF Requests, Answers, ListenRequests, ListenAnswers, ListenNumber

\* With no listen under way the server has told the list.
LEMMA ToldWhenAnswered ==
    ASSUME ClientInv, ListenInv, Connected, view # 0, unackedListensCount = 0
    PROVE  serverSnap.complete
<1> SUFFICES Listening = {}
  BY DEF ListenInv
<1>1. toServer \in Seq(Requests) /\ toClient \in Seq(Answers)
  BY TypeParts DEF ClientInv, TypesOfLink
<1>2. /\ CountOf(toServer, ListenRequests) \in Nat /\ CountOf(toClient, ListenAnswers) \in Nat
      /\ 0 = CountOf(toServer, ListenRequests) + CountOf(toClient, ListenAnswers)
  BY <1>1, CountFacts DEF ClientInv, LinkInv
<1>3. CountOf(toServer, ListenRequests) = 0 /\ CountOf(toClient, ListenAnswers) = 0
  BY <1>2
<1>4. Places(toServer, ListenRequests) = {}
  BY <1>1, <1>3, CountFacts DEF Places
<1>5. Places(toClient, ListenAnswers) = {}
  BY <1>1, <1>3, CountFacts DEF Places
<1> QED BY <1>4, <1>5 DEF Listening, Carried

\* What a request or an answer, sent or taken, does to the listens under way.
LEMMA ListenAsked ==
    ASSUME NEW s \in Seq(Requests), NEW e \in Requests
    PROVE  /\ e.op # "listen" =>
                Carried(Append(s, e), ListenRequests, ListenNumber)
                  = Carried(s, ListenRequests, ListenNumber)
           /\ e.op = "listen" =>
                Carried(Append(s, e), ListenRequests, ListenNumber)
                  = Carried(s, ListenRequests, ListenNumber) \cup {e.listen}
BY CarriedAppended, ListensAre

LEMMA ListenAnswered ==
    ASSUME NEW s \in Seq(Answers), NEW e \in Answers
    PROVE  /\ e.kind # "listen" =>
                Carried(Append(s, e), ListenAnswers, ListenNumber)
                  = Carried(s, ListenAnswers, ListenNumber)
           /\ e.kind = "listen" =>
                Carried(Append(s, e), ListenAnswers, ListenNumber)
                  = Carried(s, ListenAnswers, ListenNumber) \cup {e.listen}
BY CarriedAppended, ListensAre

LEMMA ListenRequestsTaken ==
    ASSUME TypesOfLink, NEW op, Request(op)
    PROVE  LET before == Carried(toServer, ListenRequests, ListenNumber)
               after == Carried(toServer', ListenRequests, ListenNumber)
           IN  /\ op # "listen" => after = before
               /\ op = "listen" => before = after \cup {Head(toServer).listen}
<1>1. /\ toServer \in Seq(Requests) /\ toServer # <<>> /\ toServer' = Tail(toServer)
      /\ Head(toServer) \in Requests /\ Head(toServer).op = op
  BY RequestTaken DEF TypesOfLink, Request
<1> QED BY <1>1, CarriedTaken, ListensAre

LEMMA ListenAnswersTaken ==
    ASSUME TypesOfLink, NEW kind, Message(kind)
    PROVE  LET before == Carried(toClient, ListenAnswers, ListenNumber)
               after == Carried(toClient', ListenAnswers, ListenNumber)
           IN  /\ kind # "listen" => after = before
               /\ kind = "listen" => before = after \cup {Head(toClient).listen}
<1>1. /\ toClient \in Seq(Answers) /\ toClient # <<>> /\ toClient' = Tail(toClient)
      /\ Head(toClient) \in Answers /\ Head(toClient).kind = kind
  BY AnswerTaken DEF TypesOfLink, Message
<1> QED BY <1>1, CarriedTaken, ListensAre

\* The client's steps.
LEMMA ClientListens ==
    ASSUME ClientInv, ListenInv, Worker PROVE ListenInv'
<1> DEFINE sent == Carried(toServer, ListenRequests, ListenNumber)
           told == Carried(toClient, ListenAnswers, ListenNumber)
<1>i. /\ InputInv /\ WritesInv /\ TypesOfLink /\ TypesOfCaches /\ TypesOfPending /\ LinkInv
      /\ toServer \in Seq(Requests) /\ toClient \in Seq(Answers)
      /\ view = listens
  BY TypeParts DEF ClientInv, TypesOfLink, LinkInv
<1>k. ASSUME UNCHANGED <<connectionState, view, listens>>,
             serverSnap.complete => serverSnap'.complete,
             listens \in Listening => listens \in Listening'
      PROVE  ListenInv'
  BY <1>k DEF ListenInv, Connected
<1>1. CASE SetValue
  <2> DEFINE r == PutRequest([id |-> writeIdCounter, path |-> Head(work).path])
  <2>1. r \in Requests /\ r.op = "put"
    <3>1. [id |-> writeIdCounter, path |-> Head(work).path] \in Write
      BY <1>1, <1>i, JobTyped DEF SetValue, Write, TypesOfPending
    <3> QED BY <3>1, MessagesTyped DEF PutRequest
  <2>2. /\ toServer' = toServer \/ toServer' = Append(toServer, r)
        /\ UNCHANGED <<connectionState, view, listens, serverSnap, toClient>>
    BY <1>1 DEF SetValue
  <2> HIDE DEF r
  <2>3. sent' = sent /\ told' = told
    BY <1>i, <2>1, <2>2, ListenAsked
  <2> QED BY <1>k, <2>2, <2>3 DEF Listening
<1>2. CASE AddObserver
  <2> DEFINE s == Head(work).screen
             e == ListenRequest(s, NewServerSnap.node)
  <2>1. e \in Requests /\ e.op = "listen" /\ e.listen = s
    <3>1. s \in Screens /\ NewServerSnap.node \in Node
      BY <1>2, <1>i, JobTyped, NodeFacts DEF AddObserver, NewServerSnap
    <3> QED BY <3>1, MessagesTyped DEF ListenRequest
  <2>2. /\ Connected => toServer' = Append(toServer, e)
        /\ connectionState' = connectionState /\ listens' = s
    BY <1>2 DEF AddObserver
  <2> HIDE DEF s, e
  <2>3. Connected => s \in sent'
    BY <1>i, <2>1, <2>2, ListenAsked
  <2> QED BY <2>2, <2>3 DEF ListenInv, Listening, Connected
<1>3. CASE RemoveObserver
  <2>1. CASE view = Head(work).screen
    BY <1>3, <2>1 DEF RemoveObserver, ListenInv
  <2>2. CASE view # Head(work).screen
    BY <1>3, <1>k, <2>2 DEF RemoveObserver, Listening
  <2> QED BY <2>1, <2>2
<1>4. CASE OnDataUpdate
  <2>1. /\ Message("data")
        /\ UNCHANGED <<connectionState, view, listens, toServer>>
        /\ \/ serverSnap' = serverSnap
           \/ serverSnap' = ServerSnapAfter(serverSnap, Head(toClient).path,
                                            Head(toClient).value)
    BY <1>4 DEF OnDataUpdate, pending
  <2>2. told' = told
    BY <1>i, <2>1, ListenAnswersTaken
  <2>3. ASSUME serverSnap.complete PROVE serverSnap'.complete
    <3>1. ASSUME NEW path, NEW value PROVE ServerSnapAfter(serverSnap, path, value).complete
      BY <2>3 DEF ServerSnapAfter
    <3> QED BY <2>1, <2>3, <3>1
  <2> QED BY <1>k, <2>1, <2>2, <2>3 DEF Listening
<1>5. CASE OnPutAnswer
  <2>1. /\ Message("put")
        /\ UNCHANGED <<connectionState, view, listens, toServer, serverSnap>>
    BY <1>5 DEF OnPutAnswer, AckWrite, caches
  <2>2. told' = told
    BY <1>i, <2>1, ListenAnswersTaken
  <2> QED BY <1>k, <2>1, <2>2 DEF Listening
<1>6. CASE OnListenAnswer
  <2> DEFINE m == Head(toClient)
  <2>1. /\ Message("listen") /\ UNCHANGED <<connectionState, toServer>>
    BY <1>6 DEF OnListenAnswer
  <2>2. told = told' \cup {m.listen}
    BY <1>i, <2>1, ListenAnswersTaken
  <2>3. CASE m.listen # listens
    <3>1. UNCHANGED <<view, listens, serverSnap>>
      BY <1>6, <2>3 DEF OnListenAnswer
    <3> QED BY <1>k, <2>1, <2>2, <2>3, <3>1 DEF Listening
  <2>4. CASE m.listen = listens /\ m.ok
    <3>1. serverSnap' = [serverSnap EXCEPT !.complete = TRUE]
      BY <1>6, <2>4 DEF OnListenAnswer
    <3>2. serverSnap'.complete
      BY <1>i, <3>1 DEF TypesOfCaches, Cache
    <3> QED BY <3>2 DEF ListenInv
  <2>5. CASE m.listen = listens /\ ~m.ok
    BY <1>6, <2>5 DEF OnListenAnswer, ListenInv
  <2> QED BY <2>3, <2>4, <2>5
<1>7. CASE AckPuts
  BY <1>7, <1>k DEF AckPuts, AckWrite, connection, Listening
<1> QED BY <1>1, <1>2, <1>3, <1>4, <1>5, <1>6, <1>7 DEF Worker

\* A new connection starts with the listen.
LEMMA RestoredListen ==
    ASSUME ClientInv, Ready PROVE ListenInv'
<1>i. WritesInv /\ TypesOfPending /\ TypesOfCaches /\ view = listens
  BY TypeParts DEF ClientInv, LinkInv
<1>1. /\ listens \in Nat /\ serverSnap \in Cache
      /\ UNCHANGED <<view, listens, serverSnap>> /\ toServer' = RestoreState
  BY <1>i DEF Ready, TypesOfPending, TypesOfCaches, idleQueues, caches
<1>2. CASE listens = 0
  BY <1>i, <1>1, <1>2 DEF ListenInv
<1>3. CASE listens # 0
  <2> DEFINE r == RestoreState
             e == ListenRequest(listens, serverSnap.node)
  <2>1. r \in Seq(Requests) /\ Len(r) >= 1 /\ r[1] = e
    <3>1. /\ RestoreState \in Seq(Requests) /\ Cardinality(outstandingPuts) \in Nat
          /\ Len(RestoreState) = 1 + Cardinality(outstandingPuts)
          /\ RestoreState[1] = e
      BY <1>i, <1>1, <1>3, RestoredMessages
    <3> HIDE DEF e
    <3> QED BY <3>1
  <2>2. e.op = "listen" /\ e.listen = listens
    BY DEF ListenRequest
  <2> HIDE DEF r, e
  <2>3. 1 \in 1 .. Len(r) /\ r[1] \in Requests
    BY <2>1
  <2>4. 1 \in Places(r, ListenRequests) /\ ListenNumber[r[1]] = listens
    BY <2>1, <2>2, <2>3, ListensAre DEF Places
  <2>5. listens \in Carried(r, ListenRequests, ListenNumber)
    BY <2>4 DEF Carried
  <2> QED BY <1>1, <2>5 DEF ListenInv, Listening, r
<1> QED BY <1>2, <1>3

\* The server's steps, and another client's.
LEMMA ServerListens ==
    ASSUME ClientInv, ListenInv,
           Serving \/ \E k \in Keys, value \in {Leaf, {}} : RemoteChange(k, value)
    PROVE  ListenInv'
<1> DEFINE sent == Carried(toServer, ListenRequests, ListenNumber)
           answered == Carried(toClient, ListenAnswers, ListenNumber)
<1>i. TypesOfLink /\ toClient \in Seq(Answers)
  BY TypeParts DEF ClientInv, TypesOfLink
<1>k. ASSUME UNCHANGED <<connectionState, view, listens, serverSnap>>,
             sent \cup answered \subseteq sent' \cup answered'
      PROVE  ListenInv'
  BY <1>k DEF ListenInv, Connected, Listening
<1>1. ASSUME NEW ok \in BOOLEAN, ServeListen(ok) PROVE ListenInv'
  <2> DEFINE r == Head(toServer)
             u == Update(Top, data)
             told == IF ok /\ r.hash # data THEN Append(toClient, u) ELSE toClient
             a == ListenAnswer(r.listen, ok)
  <2>1. /\ Request("listen")
        /\ UNCHANGED <<connectionState, view, listens, serverSnap>>
    BY <1>1 DEF ServeListen, Request, clientSide, caches, pending
  <2>2. /\ told \in Seq(Answers) /\ toClient' = Append(told, a) /\ a \in Answers
        /\ a.kind = "listen" /\ a.listen = r.listen
    BY <1>i, <1>1, ListenServed DEF ListenAnswer
  <2>3. u \in Answers /\ u.kind = "data"
    BY <1>i, MessagesTyped DEF TypesOfLink, Paths, Update
  <2>4. sent = sent' \cup {r.listen}
    BY <1>i, <2>1, ListenRequestsTaken
  <2> HIDE DEF r, u, a
  <2>5. Carried(told, ListenAnswers, ListenNumber) = answered
    <3>1. Carried(Append(toClient, u), ListenAnswers, ListenNumber) = answered
      BY <1>i, <2>3, ListenAnswered
    <3> QED BY <3>1
  <2> HIDE DEF told
  <2>6. answered' = answered \cup {r.listen}
    BY <2>2, <2>5, ListenAnswered
  <2> QED BY <1>k, <2>1, <2>4, <2>6
<1>2. ASSUME NEW ok \in BOOLEAN, ServePut(ok) PROVE ListenInv'
  <2> DEFINE w == Head(toServer).write
             new == IF ok THEN UpdateChild(data, w.path, Leaf) ELSE data
             u == Update(w.path, Leaf)
             told == IF watched /\ new # data THEN Append(toClient, u) ELSE toClient
             a == PutAnswer(w.id, ok)
  <2>1. /\ Request("put")
        /\ UNCHANGED <<connectionState, view, listens, serverSnap>>
    BY <1>2 DEF ServePut, Request, clientSide, caches, pending
  <2>2. /\ w \in Write /\ told \in Seq(Answers) /\ toClient' = Append(told, a)
        /\ a \in Answers /\ a.kind = "put"
    BY <1>i, <1>2, PutServed DEF PutAnswer
  <2>3. u \in Answers /\ u.kind = "data"
    BY <2>2, MessagesTyped, NodeFacts DEF Update, Write
  <2>4. sent' = sent
    BY <1>i, <2>1, ListenRequestsTaken
  <2> HIDE DEF w, new, u, a
  <2>5. Carried(told, ListenAnswers, ListenNumber) = answered
    <3>1. Carried(Append(toClient, u), ListenAnswers, ListenNumber) = answered
      BY <1>i, <2>3, ListenAnswered
    <3> QED BY <3>1
  <2> HIDE DEF told
  <2>6. answered' = answered
    BY <2>2, <2>5, ListenAnswered
  <2> QED BY <1>k, <2>1, <2>4, <2>6
<1>3. CASE ServeUnlisten
  <2>1. /\ Request("unlisten") /\ UNCHANGED toClient
        /\ UNCHANGED <<connectionState, view, listens, serverSnap>>
    BY <1>3 DEF ServeUnlisten, Request, clientSide, caches, pending
  <2>2. sent' = sent
    BY <1>i, <2>1, ListenRequestsTaken
  <2> QED BY <1>k, <2>1, <2>2
<1>4. ASSUME NEW k \in Keys, NEW value \in {Leaf, {}}, RemoteChange(k, value)
      PROVE  ListenInv'
  <2>1. Update(k, value) \in Answers /\ Update(k, value).kind = "data"
    BY MessagesTyped, NodeFacts DEF Paths, Update
  <2>2. /\ toClient' = toClient \/ toClient' = Append(toClient, Update(k, value))
        /\ UNCHANGED <<connectionState, view, listens, serverSnap, toServer>>
    BY <1>4 DEF RemoteChange, clientSide, caches, pending
  <2>3. answered' = answered
    BY <1>i, <2>1, <2>2, ListenAnswered
  <2> QED BY <1>k, <2>2, <2>3
<1> QED BY <1>1, <1>2, <1>3, <1>4 DEF Serving

LEMMA NextListenInv == ClientInv /\ ListenInv /\ [CommentsNext]_allVars => ListenInv'
<1> SUFFICES ASSUME ClientInv, ListenInv, [CommentsNext]_allVars PROVE ListenInv'
  OBVIOUS
<1>1. CASE Worker
  BY <1>1, ClientListens
<1>2. CASE Serving \/ \E k \in Keys, value \in {Leaf, {}} : RemoteChange(k, value)
  BY <1>2, ServerListens
<1>3. CASE Ready
  BY <1>3, RestoredListen
<1>4. CASE Retry \/ TokenFetched \/ TokenFailed \/ Disconnect \/ Kill
  BY <1>4 DEF Retry, TokenFetched, TokenFailed, Disconnect, Kill, LoseConnection, Connected, ListenInv
<1>5. CASE Deliver \/ User \/ UNCHANGED allVars
  <2>1. UNCHANGED <<view, listens, serverSnap, connectionState, toServer, toClient>>
    BY <1>5, ScreenApart DEF caches, pending, connection
  <2> QED BY <2>1 DEF ListenInv, Listening, Connected
<1> QED BY <1>1, <1>2, <1>3, <1>4, <1>5 DEF CommentsNext, DatabaseNext, Connecting

\* Whatever happens to the connection, a view without the list has asked for it.
THEOREM ListenInvHolds == CommentsSpec => []ListenInv
<1>1. CommentsInit => ListenInv
  BY DEF CommentsInit, DatabaseInit, ListenInv
<1> QED BY <1>1, NextListenInv, ClientInvHolds, PTL DEF CommentsSpec

-----------------------------------------------------------------------------
(* The event snap *)

\* What the observer sees is what the server told under the visible writes,
\* whatever steps it was brought up to date by.
SnapInv ==
    /\ view = 0 => serverSnap = NewServerSnap /\ eventSnap = NewServerSnap
    /\ view # 0 => eventSnap = Derived(serverSnap, visibleWrites)

LEMMA OldestIsFirst ==
    ASSUME WritesInv, InIdOrder(allWrites),
           NEW id \in Ids(allWrites), \A n \in Ids(allWrites) : n = id \/ id < n
    PROVE  WriteIndex(id) = 1 /\ allWrites # <<>>
<1> DEFINE s == allWrites
           i == WriteIndex(id)
<1>1. s \in Seq(Write) /\ Len(s) \in Nat
  BY LenProperties DEF WritesInv
<1>2. i \in 1 .. Len(s) /\ s[i].id = id
  BY WriteFound
<1> HIDE DEF i
<1>3. 1 \in 1 .. Len(s) /\ s[1].id \in Ids(s) /\ s # <<>>
  BY <1>1, <1>2 DEF Ids
<1>4. s[1].id \in Nat /\ id \in Nat
  <2>1. s[1] \in Write /\ s[i] \in Write
    BY <1>1, <1>2, <1>3, ElementOfSeq
  <2> QED BY <1>2, <2>1 DEF Write
<1>5. ~(s[1].id < id)
  BY <1>3, <1>4
<1>6. ~(1 < i)
  BY <1>2, <1>3, <1>5 DEF InIdOrder
<1> QED BY <1>2, <1>3, <1>6 DEF i

\* Settling the oldest write, once the server has told the list, leaves the
\* snap of the writes that remain.
LEMMA AckSnaps ==
    ASSUME ClientInv, OrderInv, VisibleIsLayered, SnapInv,
           view # 0 => serverSnap.complete,
           NEW id \in Ids(allWrites), \A n \in Ids(allWrites) : n = id \/ id < n,
           NEW ok \in BOOLEAN, AckWrite(id, ok),
           ~(/\ ok /\ view # 0 /\ serverSnap.node = Leaf
             /\ Len(allWrites) = 1 /\ allWrites[1].path # Top)
    PROVE  SnapInv' /\ VisibleIsLayered'
<1> DEFINE s == allWrites
           rest == LayerTree(Tail(s))
           p == s[1].path
<1>i. /\ WritesInv /\ s \in Seq(Write) /\ InIdOrder(s)
      /\ serverSnap \in Cache /\ view \in Nat
  BY TypeParts DEF ClientInv, TypesOfCaches, OrderInv
<1>1. WriteIndex(id) = 1 /\ s # <<>>
  BY <1>i, OldestIsFirst
<1>2. /\ RemoveAt(s, 1) = Tail(s) /\ Tail(s) \in Seq(Write) /\ Len(s) \in Nat \ {0}
  BY <1>i, <1>1, FirstTakenOut
<1>3. VisibleWithout(visibleWrites, s, 1) = rest
  BY <1>i, <1>1, OldestWriteLeaves DEF VisibleIsLayered
<1>4. /\ allWrites' = Tail(s) /\ visibleWrites' = rest
      /\ UNCHANGED <<serverSnap, view>>
      /\ eventSnap' = IF view = 0 \/ Shadowed(s, 1) THEN eventSnap
                      ELSE IF ok THEN EventAfterAck(serverSnap, eventSnap, rest, p)
                      ELSE EventAfterRevert(serverSnap, eventSnap, rest, p)
  BY <1>1, <1>2, <1>3 DEF AckWrite, Raise
<1>5. VisibleIsLayered'
  BY <1>4 DEF VisibleIsLayered
<1>6. CASE view = 0
  BY <1>4, <1>5, <1>6 DEF SnapInv
<1>7. CASE view # 0 /\ Shadowed(s, 1)
  <2>1. rest = visibleWrites
    BY <1>i, <1>1, <1>7, FirstLeaves DEF VisibleIsLayered
  <2> QED BY <1>4, <1>5, <1>7, <2>1 DEF SnapInv
<1>8. CASE view # 0 /\ ~Shadowed(s, 1)
  <2>1. /\ Uncovers(visibleWrites, rest, p)
        /\ Len(s) > 1 => rest.keys # {}
    BY <1>i, <1>1, <1>8, FirstLeaves DEF VisibleIsLayered
  <2>2. visibleWrites \in CompoundWrite /\ rest \in CompoundWrite /\ p \in Paths
    <3>1. s[1] \in Write
      BY <1>i, <1>2, ElementOfSeq
    <3> QED BY <1>i, <1>2, <3>1, LayerTreeTyped DEF VisibleIsLayered, Write
  <2>3. eventSnap = Derived(serverSnap, visibleWrites)
    BY <1>8 DEF SnapInv
  <2> HIDE DEF rest
  <2>p. ok => p = Top \/ serverSnap.node # Leaf \/ rest.keys # {}
    <3>1. CASE Len(s) = 1
      BY <1>8, <3>1, Zenon
    <3>2. CASE Len(s) > 1
      BY <2>1, <3>2
    <3>3. Len(s) = 1 \/ Len(s) > 1
      <4>1. \A n \in Nat \ {0} : n = 1 \/ n > 1
        OBVIOUS
      <4> QED BY <1>2, <4>1, Zenon
    <3> QED BY <3>1, <3>2, <3>3
  <2> HIDE DEF p
  <2>4. CASE ok
    <3>1. p = Top \/ serverSnap.node # Leaf \/ rest.keys # {}
      BY <2>4, <2>p
    <3>2. EventAfterAck(serverSnap, eventSnap, rest, p) = Derived(serverSnap, rest)
      BY <1>i, <1>8, <2>1, <2>2, <2>3, <3>1, AckDerives
    <3> QED BY <1>4, <1>5, <1>8, <2>4, <3>2 DEF SnapInv
  <2>5. CASE ~ok
    <3>1. EventAfterRevert(serverSnap, eventSnap, rest, p) = Derived(serverSnap, rest)
      BY <1>i, <2>1, <2>2, <2>3, RevertDerives
    <3> QED BY <1>4, <1>5, <1>8, <2>5, <3>1 DEF SnapInv
  <2> QED BY <2>4, <2>5
<1> QED BY <1>6, <1>7, <1>8

LEMMA NextSnapInv ==
    /\ ClientInv /\ OrderInv /\ ListenInv /\ VisibleIsLayered /\ SnapInv
    /\ ~Stranded /\ ~Misled /\ [CommentsNext]_allVars
    => SnapInv'
<1> SUFFICES ASSUME ClientInv, OrderInv, ListenInv, VisibleIsLayered, SnapInv,
                    ~Stranded, ~Misled, [CommentsNext]_allVars
             PROVE  SnapInv'
  OBVIOUS
<1>i. /\ InputInv /\ WritesInv /\ LinkInv /\ TypesOfLink /\ TypesOfPending
      /\ serverSnap \in Cache /\ eventSnap \in Cache /\ visibleWrites \in CompoundWrite
      /\ view \in Nat
  BY TypeParts DEF ClientInv, TypesOfCaches
<1>k. ASSUME UNCHANGED <<view, serverSnap, eventSnap, visibleWrites>> PROVE SnapInv'
  BY <1>k DEF SnapInv
<1>1. CASE SetValue
  <2> DEFINE p == Head(work).path
  <2>1. p \in Paths
    BY <1>1, <1>i, JobTyped DEF SetValue
  <2>2. /\ UNCHANGED <<view, serverSnap>>
        /\ visibleWrites' = AddWrite(visibleWrites, p)
        /\ eventSnap' = IF view = 0 THEN eventSnap ELSE UserOverwrite(eventSnap, p)
    BY <1>1 DEF SetValue, Raise
  <2> HIDE DEF p
  <2> QED BY <1>i, <2>1, <2>2, OverwriteDerives DEF SnapInv
<1>2. CASE AddObserver
  <2>1. /\ view' \in Screens /\ serverSnap' = NewServerSnap
        /\ eventSnap' = NewEventSnap(visibleWrites) /\ visibleWrites' = visibleWrites
    BY <1>2, <1>i, JobTyped DEF AddObserver
  <2> QED BY <1>i, <2>1, NewDerives DEF SnapInv, Screens
<1>3. CASE RemoveObserver
  <2>1. CASE view = Head(work).screen
    BY <1>3, <2>1 DEF RemoveObserver, SnapInv
  <2>2. CASE view # Head(work).screen
    BY <1>3, <1>k, <2>2 DEF RemoveObserver
  <2> QED BY <2>1, <2>2
<1>4. CASE OnDataUpdate
  <2> DEFINE m == Head(toClient)
             n == ServerSnapAfter(serverSnap, m.path, m.value)
  <2>1. m.path \in Paths /\ m.value \in Node
    <3>1. m \in Answers /\ m.kind = "data"
      BY <1>4, <1>i, AnswerTaken DEF OnDataUpdate
    <3> QED BY <3>1 DEF Answers
  <2>2. CASE view = 0
    BY <1>4, <1>k, <2>2 DEF OnDataUpdate
  <2>3. CASE view # 0
    <3>1. /\ UNCHANGED <<view, visibleWrites>> /\ serverSnap' = n
          /\ eventSnap' = EventAfterServer(n, eventSnap, visibleWrites, m.path)
      BY <1>4, <2>3 DEF OnDataUpdate, Raise
    <3>2. EventAfterServer(n, Derived(serverSnap, visibleWrites), visibleWrites, m.path)
            = Derived(n, visibleWrites)
      BY <1>i, <2>1, ServerDerives
    <3> HIDE DEF n, m
    <3> QED BY <2>3, <3>1, <3>2 DEF SnapInv
  <2> QED BY <2>2, <2>3
<1>5. CASE OnListenAnswer
  <2> DEFINE m == Head(toClient)
             n == [serverSnap EXCEPT !.complete = TRUE]
  <2>1. CASE m.listen # listens
    BY <1>5, <1>k, <2>1 DEF OnListenAnswer
  <2>2. CASE m.listen = listens /\ m.ok
    <3>1. /\ UNCHANGED <<view, visibleWrites>> /\ serverSnap' = n
          /\ eventSnap' = EventAfterServer(n, eventSnap, visibleWrites, Top)
      BY <1>5, <2>2 DEF OnListenAnswer, Raise
    <3>2. EventAfterServer(n, Derived(serverSnap, visibleWrites), visibleWrites, Top)
            = Derived(n, visibleWrites)
      BY <1>i, ListenDerives
    <3>3. view # 0
      <4>1. m \in Answers /\ m.kind = "listen"
        BY <1>5, <1>i, AnswerTaken DEF OnListenAnswer
      <4>2. m.listen \in Screens
        BY <4>1 DEF Answers
      <4> QED BY <1>i, <2>2, <4>2 DEF LinkInv, Screens
    <3> HIDE DEF n
    <3> QED BY <3>1, <3>2, <3>3 DEF SnapInv
  <2>3. CASE m.listen = listens /\ ~m.ok
    BY <1>5, <2>3 DEF OnListenAnswer, SnapInv
  <2> QED BY <2>1, <2>2, <2>3
<1>6. CASE OnPutAnswer
  <2> DEFINE m == Head(toClient)
  <2>1. /\ Connected /\ m.id \in outstandingPuts
        /\ \A n \in outstandingPuts : n = m.id \/ m.id < n
    BY <1>6, AnswerIsForTheOldest
  <2>m. m.ok \in BOOLEAN /\ m.kind = "put" /\ toClient # <<>> /\ ~acking
    <3>1. m \in Answers /\ m.kind = "put"
      BY <1>6, <1>i, AnswerTaken DEF OnPutAnswer
    <3> QED BY <1>6, <3>1 DEF Answers, OnPutAnswer, Message
  <2>2. CASE unackedListensCount # 0
    BY <1>6, <1>k, <2>1, <2>2 DEF OnPutAnswer, caches
  <2>3. CASE unackedListensCount = 0
    <3>1. AckWrite(m.id, m.ok)
      BY <1>6, <2>1, <2>3 DEF OnPutAnswer
    <3>2. putsToAck = <<>>
      BY <2>1, <2>3, <2>m DEF Stranded
    <3>3. Ids(allWrites) = outstandingPuts
      BY <1>i, <3>2 DEF WritesInv, Ids
    <3>4. view # 0 => serverSnap.complete
      BY <2>1, <2>3, ToldWhenAnswered
    <3>5. ~(/\ m.ok /\ view # 0 /\ serverSnap.node = Leaf
            /\ Len(allWrites) = 1 /\ allWrites[1].path # Top)
      BY <2>3, <2>m DEF Misled
    <3> HIDE DEF m
    <3> QED BY <2>1, <2>m, <3>1, <3>3, <3>4, <3>5, AckSnaps
  <2> QED BY <2>2, <2>3
<1>7. CASE AckPuts
  <2> DEFINE h == Head(putsToAck)
  <2>1. /\ acking /\ Connected /\ unackedListensCount = 0
        /\ AckWrite(h.id, h.ok) /\ putsToAck # <<>>
    BY <1>7, <1>i DEF AckPuts, LinkInv, WritesInv
  <2>2. h.id \in Ids(allWrites) /\ \A n \in Ids(allWrites) : n = h.id \/ h.id < n
    BY <2>1, HeldIsForTheOldest
  <2>3. h.ok \in BOOLEAN
    <3> DEFINE H == [id : Nat, ok : BOOLEAN]
    <3>1. putsToAck \in Seq(H)
      BY DEF ClientInv, RTypeOK
    <3> HIDE DEF H
    <3>2. h \in H
      BY <2>1, <3>1
    <3> QED BY <3>2 DEF H
  <2>4. view # 0 => serverSnap.complete
    BY <2>1, ToldWhenAnswered
  <2>5. ~(/\ h.ok /\ view # 0 /\ serverSnap.node = Leaf
          /\ Len(allWrites) = 1 /\ allWrites[1].path # Top)
    BY <2>1 DEF Misled
  <2> HIDE DEF h
  <2> QED BY <2>1, <2>2, <2>3, <2>4, <2>5, AckSnaps
<1>8. CASE Connecting \/ TokenFailed \/ Disconnect \/ Kill
  BY <1>8, <1>k
  DEF Connecting, Retry, TokenFetched, Ready, TokenFailed, Disconnect, Kill, LoseConnection,
      idleQueues, caches
<1>9. CASE Serving \/ \E k \in Keys, value \in {Leaf, {}} : RemoteChange(k, value)
  BY <1>9, <1>k
  DEF Serving, ServeListen, ServePut, ServeUnlisten, RemoteChange, Request,
      clientSide, caches
<1>10. CASE Deliver \/ User \/ UNCHANGED allVars
  BY <1>10, <1>k, ScreenApart DEF caches
<1> QED
  BY <1>1, <1>2, <1>3, <1>4, <1>5, <1>6, <1>7, <1>8, <1>9, <1>10
  DEF CommentsNext, DatabaseNext, Worker

\* Until answers are stranded or the client misled, the event snap FViewProcessor
\* keeps step by step is what computing it again would give.
THEOREM SnapsDerived == CommentsSpec /\ []~Stranded /\ []~Misled => []SnapInv
<1>1. CommentsInit => SnapInv
  BY DEF CommentsInit, DatabaseInit, SnapInv
<1> QED
  BY <1>1, NextSnapInv, ClientInvHolds, OrderInvHolds, ListenInvHolds,
     LayeredUnlessStranded, PTL
  DEF CommentsSpec

-----------------------------------------------------------------------------
(* The promise of LatencyCompensation *)

Told == IF serverSnap.complete THEN serverSnap.node ELSE None
Mine == [i \in DOMAIN allWrites |-> allWrites[i].path]
Shown == IF view # 0 /\ eventSnap.complete THEN eventSnap.node ELSE None

\* The operators of the promise are SyncTree's.
LEMMA PromiseOperators ==
    /\ Compensation!Paths = Paths /\ Compensation!Node = Node
    /\ \A w : Compensation!LayerTree(w) = LayerTree(w)
    /\ \A vis, n : Compensation!ApplyToNode(vis, n) = ApplyToNode(vis, n)
<1>1. Compensation!Paths = Paths /\ Compensation!Node = Node
  BY DEF Compensation!Paths, Paths, Compensation!Node, Node
<1>2. \A w : Compensation!LayerTree(w) = LayerTree(w)
  BY DEF Compensation!LayerTree, LayerTree
<1>3. \A vis, n : Compensation!ApplyToNode(vis, n) = ApplyToNode(vis, n)
  BY DEF Compensation!ApplyToNode, ApplyToNode, Compensation!Children, Children
<1> QED BY <1>1, <1>2, <1>3

\* Only the paths of the writes count.
LEMMA LayersOfPaths ==
    ASSUME NEW s, NEW t, DOMAIN s = DOMAIN t, \A i \in DOMAIN s : s[i].path = t[i].path
    PROVE  LayerTree(s) = LayerTree(t)
<1> DEFINE Tops(w) == {i \in DOMAIN w : w[i].path = Top}
           From(w, i) == {w[j].path : j \in {k \in DOMAIN w : k > i}}
           last(w) == CHOOSE i \in Tops(w) : \A j \in Tops(w) : j <= i
<1>1. Tops(s) = Tops(t)
  OBVIOUS
<1>2. \A i : From(s, i) = From(t, i)
  OBVIOUS
<1>3. last(s) = last(t)
  <2> HIDE DEF Tops
  <2> QED BY <1>1
<1>4. \A w : LayerTree(w)
               = IF Tops(w) = {} THEN [top |-> None, keys |-> From(w, 0)]
                 ELSE [top |-> IF From(w, last(w)) = {} THEN Leaf ELSE From(w, last(w)),
                       keys |-> {}]
  BY DEF LayerTree
<1> HIDE DEF Tops, From, last
<1> QED BY <1>1, <1>2, <1>3, <1>4

LEMMA PromiseLayers == Compensation!Layers(Mine) = LayerTree(allWrites)
<1> DEFINE numbered == [i \in DOMAIN Mine |-> [id |-> i, path |-> Mine[i]]]
<1>1. Compensation!Layers(Mine) = LayerTree(numbered)
  BY PromiseOperators DEF Compensation!Layers
<1>2. /\ DOMAIN numbered = DOMAIN allWrites
      /\ \A i \in DOMAIN numbered : numbered[i].path = allWrites[i].path
  BY DEF Mine
<1> HIDE DEF numbered
<1> QED BY <1>1, <1>2, LayersOfPaths

\* The observer sees what the promise says it sees.
LEMMA ShownIsSeen ==
    ASSUME ClientInv, VisibleIsLayered, SnapInv
    PROVE  Shown = Compensation!See(view # 0, Told, Mine)
<1> DEFINE vis == visibleWrites
<1>1. /\ serverSnap \in Cache /\ vis \in CompoundWrite
      /\ serverSnap.node \in Node /\ serverSnap.node # None
  BY TypeParts, NodeFacts DEF ClientInv, TypesOfCaches, Cache
<1>2. Compensation!Layers(Mine) = vis
  BY PromiseLayers DEF VisibleIsLayered
<1>3. Compensation!See(view # 0, Told, Mine)
        = IF view = 0 \/ (Told = None /\ vis.top = None) THEN None
          ELSE IF vis.top # None THEN vis.top
          ELSE ApplyToNode(vis, Told)
  BY <1>2, PromiseOperators DEF Compensation!See
<1> HIDE DEF vis
<1>4. CASE view = 0
  BY <1>3, <1>4 DEF Shown
<1>5. CASE view # 0
  <2>1. eventSnap = Derived(serverSnap, vis)
    BY <1>5 DEF SnapInv, vis
  <2>2. CASE vis.top # None
    <3>1. eventSnap = [node |-> vis.top, complete |-> TRUE]
      BY <2>1, <2>2, DerivedParts
    <3>2. Shown = vis.top
      BY <1>5, <3>1 DEF Shown
    <3> QED BY <1>3, <1>5, <2>2, <3>2
  <2>3. CASE vis.top = None /\ serverSnap.complete
    <3>1. eventSnap = [node |-> ApplyToNode(vis, serverSnap.node), complete |-> TRUE]
      BY <2>1, <2>3, DerivedParts
    <3>2. Shown = ApplyToNode(vis, serverSnap.node)
      BY <1>5, <3>1 DEF Shown
    <3>3. Told = serverSnap.node
      BY <2>3 DEF Told
    <3> QED BY <1>1, <1>3, <1>5, <2>3, <3>2, <3>3
  <2>4. CASE vis.top = None /\ ~serverSnap.complete
    <3>1. eventSnap = [node |-> Children(serverSnap.node) \cup vis.keys, complete |-> FALSE]
      BY <2>1, <2>4, DerivedParts
    <3>2. Shown = None
      BY <3>1 DEF Shown
    <3>3. Told = None
      BY <2>4 DEF Told
    <3> QED BY <1>3, <2>4, <3>2, <3>3
  <2> QED BY <2>2, <2>3, <2>4
<1> QED BY <1>4, <1>5

LEMMA MineAppended ==
    ASSUME NEW w \in Write, allWrites \in Seq(Write), allWrites' = Append(allWrites, w)
    PROVE  Mine' = Append(Mine, w.path)
<1>1. /\ Len(allWrites) \in Nat
      /\ DOMAIN allWrites' = 1 .. Len(allWrites) + 1 /\ DOMAIN allWrites = 1 .. Len(allWrites)
      /\ allWrites'[Len(allWrites) + 1] = w
      /\ \A i \in 1 .. Len(allWrites) : allWrites'[i] = allWrites[i]
  BY AppendProperties
<1> QED BY <1>1 DEF Mine

LEMMA MineOfTail ==
    ASSUME allWrites \in Seq(Write), allWrites # <<>>, allWrites' = Tail(allWrites)
    PROVE  Mine' = Tail(Mine) /\ Mine # <<>>
<1>1. /\ Len(allWrites) \in Nat \ {0}
      /\ DOMAIN allWrites' = 1 .. Len(allWrites) - 1 /\ DOMAIN allWrites = 1 .. Len(allWrites)
      /\ \A i \in 1 .. Len(allWrites) - 1 : allWrites'[i] = allWrites[i + 1]
  OBVIOUS
<1> QED BY <1>1 DEF Mine

\* What each step is to the promise: one of its steps, or nothing.
Promised ==
    \/ Compensation!NewWrite \/ Compensation!Settle \/ Compensation!Tell
    \/ Compensation!Observe \/ Compensation!Leave
    \/ UNCHANGED <<view # 0, Told, Mine>>

LEMMA StepIsPromised ==
    ASSUME ClientInv, OrderInv, ~Stranded, ClientInv', [CommentsNext]_allVars
    PROVE  Promised
<1>i. /\ InputInv /\ WritesInv /\ LinkInv /\ TypesOfLink
      /\ allWrites \in Seq(Write)
      /\ serverSnap \in Cache /\ view \in Nat
  BY TypeParts DEF ClientInv, TypesOfCaches
<1>t. serverSnap'.node \in Node
  BY DEF ClientInv, RTypeOK, Cache
<1>m. allWrites' = allWrites => Mine' = Mine
  BY DEF Mine
<1>s. serverSnap' = serverSnap => Told' = Told
  BY DEF Told
<1>v. view' = view => (view # 0)' = (view # 0)
  OBVIOUS
<1>k. ASSUME UNCHANGED <<view, serverSnap, allWrites>> PROVE Promised
  BY <1>k, <1>m, <1>s DEF Promised
<1>1. CASE SetValue
  <2> DEFINE w == [id |-> writeIdCounter, path |-> Head(work).path]
  <2>1. w \in Write /\ w.path \in Paths
    BY <1>1, <1>i, JobTyped DEF SetValue, Write, WritesInv
  <2>2. UNCHANGED <<view, serverSnap>> /\ allWrites' = Append(allWrites, w)
    BY <1>1 DEF SetValue
  <2> HIDE DEF w
  <2>3. Mine' = Append(Mine, w.path)
    BY <1>i, <2>1, <2>2, MineAppended
  <2> QED
    BY <1>s, <2>1, <2>2, <2>3, PromiseOperators DEF Promised, Compensation!NewWrite, Told
<1>2. CASE AddObserver
  <2>1. view' # 0 /\ serverSnap' = NewServerSnap /\ allWrites' = allWrites
    BY <1>2, <1>i, JobTyped DEF AddObserver, Screens
  <2>2. Told' = None
    BY <2>1 DEF Told, NewServerSnap
  <2> QED BY <1>m, <2>1, <2>2 DEF Promised, Compensation!Observe, Told
<1>l. ASSUME view' = 0, serverSnap' = NewServerSnap, allWrites' = allWrites
      PROVE  Promised
  <2>1. Told' = None
    BY <1>l DEF Told, NewServerSnap
  <2> QED BY <1>l, <1>m, <2>1 DEF Promised, Compensation!Leave, Told
<1>3. CASE RemoveObserver
  <2>1. CASE view = Head(work).screen
    BY <1>3, <1>l, <2>1 DEF RemoveObserver
  <2>2. CASE view # Head(work).screen
    BY <1>3, <1>k, <2>2 DEF RemoveObserver
  <2> QED BY <2>1, <2>2
<1>n. ASSUME view # 0, UNCHANGED <<view, allWrites>>, serverSnap'.complete
      PROVE  Promised
  <2>1. Told' \in Node
    BY <1>n, <1>t DEF Told
  <2> QED
    BY <1>m, <1>n, <2>1, PromiseOperators DEF Promised, Compensation!Tell, Told
<1>4. CASE OnDataUpdate
  <2> DEFINE m == Head(toClient)
             n == ServerSnapAfter(serverSnap, m.path, m.value)
  <2>1. CASE view = 0
    BY <1>4, <1>k, <2>1 DEF OnDataUpdate
  <2>2. CASE view # 0 /\ n.complete
    BY <1>4, <1>n, <2>2 DEF OnDataUpdate
  <2>3. CASE view # 0 /\ ~n.complete
    <3>1. UNCHANGED <<view, allWrites>> /\ serverSnap' = n
      BY <1>4, <2>3 DEF OnDataUpdate
    <3>2. ~serverSnap.complete
      <4>1. serverSnap.complete => n.complete
        <5>1. ASSUME serverSnap.complete, NEW path, NEW value
              PROVE  ServerSnapAfter(serverSnap, path, value).complete
          BY <5>1 DEF ServerSnapAfter
        <5> QED BY <5>1
      <4> QED BY <2>3, <4>1
    <3> HIDE DEF n
    <3>3. Told = None /\ Told' = None
      BY <2>3, <3>1, <3>2 DEF Told
    <3> QED BY <1>m, <3>1, <3>3 DEF Promised
  <2> QED BY <2>1, <2>2, <2>3
<1>5. CASE OnListenAnswer
  <2> DEFINE m == Head(toClient)
             n == [serverSnap EXCEPT !.complete = TRUE]
  <2>1. CASE m.listen # listens
    BY <1>5, <1>k, <2>1 DEF OnListenAnswer
  <2>2. CASE m.listen = listens /\ m.ok
    <3>1. UNCHANGED <<view, allWrites>> /\ serverSnap' = n
      BY <1>5, <2>2 DEF OnListenAnswer
    <3>2. n.complete
      BY <1>i DEF Cache
    <3>3. view # 0
      <4>1. m \in Answers /\ m.kind = "listen"
        BY <1>5, <1>i, AnswerTaken DEF OnListenAnswer
      <4>2. m.listen \in Screens
        BY <4>1 DEF Answers
      <4> QED BY <1>i, <2>2, <4>2 DEF LinkInv, Screens
    <3> QED BY <1>n, <3>1, <3>2, <3>3
  <2>3. CASE m.listen = listens /\ ~m.ok
    BY <1>5, <1>l, <2>3 DEF OnListenAnswer
  <2> QED BY <2>1, <2>2, <2>3
<1>6. CASE OnPutAnswer \/ AckPuts
  <2>1. UNCHANGED <<view, serverSnap>>
    BY <1>6 DEF OnPutAnswer, AckPuts, AckWrite, caches
  <2>2. CASE allWrites' = allWrites
    BY <1>k, <2>1, <2>2
  <2>3. CASE allWrites # <<>> /\ allWrites' = Tail(allWrites)
    <3>1. Mine' = Tail(Mine) /\ Mine # <<>>
      BY <1>i, <2>3, MineOfTail
    <3>2. Told' = Told /\ (view # 0)' = (view # 0)
      BY <1>s, <1>v, <2>1
    <3>3. Compensation!Settle
      BY <3>1, <3>2, Zenon DEF Compensation!Settle, Told, Mine
    <3> QED BY <3>3 DEF Promised
  <2> QED BY <1>6, <2>2, <2>3, AckTakesOldest
<1>7. CASE Connecting \/ TokenFailed \/ Disconnect \/ Kill
  BY <1>7, <1>k
  DEF Connecting, Retry, TokenFetched, Ready, TokenFailed, Disconnect, Kill, LoseConnection,
      idleQueues, caches
<1>8. CASE Serving \/ \E k \in Keys, value \in {Leaf, {}} : RemoteChange(k, value)
  BY <1>8, <1>k
  DEF Serving, ServeListen, ServePut, ServeUnlisten, RemoteChange, Request,
      clientSide, caches
<1>9. CASE Deliver \/ User \/ UNCHANGED allVars
  BY <1>9, <1>k, ScreenApart DEF caches
<1> QED
  BY <1>1, <1>2, <1>3, <1>4, <1>5, <1>6, <1>7, <1>8, <1>9
  DEF CommentsNext, DatabaseNext, Worker

\* The client's caches, kept up to date write by write and message by message,
\* implement the promise of latency compensation until answers are stranded or
\* the client is misled.
THEOREM CachesCompensate == CommentsSpec /\ []~Stranded /\ []~Misled => Compensates
<1> DEFINE Seen == Shown = Compensation!See(view # 0, Told, Mine)
<1>1. CommentsInit => Compensation!PromiseInit
  <2> SUFFICES ASSUME CommentsInit PROVE Compensation!PromiseInit
    OBVIOUS
  <2>1. view = 0 /\ serverSnap = NewServerSnap /\ allWrites = <<>>
    BY DEF CommentsInit, DatabaseInit
  <2> QED BY <2>1 DEF Compensation!PromiseInit, NewServerSnap
<1>2. ClientInv /\ VisibleIsLayered /\ SnapInv => Seen
  BY ShownIsSeen
<1>3. /\ ClientInv /\ ClientInv' /\ OrderInv /\ ~Stranded /\ Seen /\ Seen'
      /\ [CommentsNext]_allVars
      => [Compensation!PromiseNext]_(Compensation!promise)
  <2> SUFFICES ASSUME ClientInv, ClientInv', OrderInv, ~Stranded, Seen, Seen',
                      [CommentsNext]_allVars
               PROVE  [Compensation!PromiseNext]_(Compensation!promise)
    OBVIOUS
  <2>1. Promised
    BY StepIsPromised
  <2>2. Shown' = Compensation!See((view # 0)', Told', Mine')
    OBVIOUS
  <2>3. UNCHANGED <<view # 0, Told, Mine>> => Shown' = Shown
    BY <2>2
  <2> QED
    BY <2>1, <2>2, <2>3
    DEF Promised, Compensation!PromiseNext, Compensation!promise, Shown, Told, Mine
<1>4. Compensates <=> /\ Compensation!PromiseInit
                      /\ [][Compensation!PromiseNext]_(Compensation!promise)
  BY DEF Compensates, Compensation!PromiseSpec
<1> HIDE DEF Seen
<1> QED
  BY <1>1, <1>2, <1>3, <1>4, ClientInvHolds, OrderInvHolds, LayeredUnlessStranded,
     SnapsDerived, PTL
  DEF CommentsSpec


-----------------------------------------------------------------------------
(* Accepted writes in the list *)

\* The paths of the writes after the one with an id.
Later(ws, id) == {ws[j].path : j \in {k \in 1 .. Len(ws) : ws[k].id > id}}

\* A node shows an accepted write as far as the later ones let it be seen.
Shows(path, later, node) ==
    \/ \E q \in later : Covers(q, path)
    \/ path # Top /\ path \in Children(node)
    \/ path = Top /\ Children(node) \subseteq later /\ (later = {} => node = Leaf)

Kept(ws, id, node) ==
    \A i \in 1 .. Len(ws) : ws[i].id = id => Shows(ws[i].path, Later(ws, id), node)

\* Writes made later, and what the server does with them, hide nothing else.
LEMMA ShowsOn ==
    ASSUME NEW p \in Paths, NEW later \in SUBSET Paths, NEW node \in Node
    PROVE  /\ \A more \in SUBSET Paths :
                Shows(p, later, node) /\ later \subseteq more => Shows(p, more, node)
           /\ \A q \in later :
                Shows(p, later, node) => Shows(p, later, UpdateChild(node, q, Leaf))
           /\ Shows(p, later, UpdateChild(node, p, Leaf))
<1>c. Children(node) \in SUBSET Keys /\ Children(Leaf) = {} /\ Top \notin Keys
  BY NodeFacts, TopAssumption DEF Children
<1>1. ASSUME NEW more \in SUBSET Paths, Shows(p, later, node), later \subseteq more
      PROVE  Shows(p, more, node)
  <2>1. CASE \E q \in later : Covers(q, p)
    BY <1>1, <2>1 DEF Shows
  <2>2. CASE p # Top /\ p \in Children(node)
    BY <2>2 DEF Shows
  <2>3. CASE p = Top /\ Children(node) \subseteq later /\ (later = {} => node = Leaf)
    BY <1>1, <2>3 DEF Shows
  <2> QED BY <1>1, <2>1, <2>2, <2>3 DEF Shows
<1>2. ASSUME NEW q \in later, Shows(p, later, node)
      PROVE  Shows(p, later, UpdateChild(node, q, Leaf))
  <2>1. CASE q = Top
    BY <2>1 DEF Shows, Covers
  <2>2. CASE q # Top
    <3>1. q \in Keys
      BY <2>2 DEF Paths
    <3>2. UpdateChild(node, q, Leaf) = Children(node) \cup {q}
      BY <3>1, ChildFacts
    <3>3. Children(Children(node) \cup {q}) = Children(node) \cup {q}
      BY <1>c, <3>1, NodeFacts
    <3> QED BY <1>2, <3>2, <3>3 DEF Shows
  <2> QED BY <2>1, <2>2
<1>3. Shows(p, later, UpdateChild(node, p, Leaf))
  <2>1. CASE p = Top
    BY <1>c, <2>1 DEF Shows, UpdateChild
  <2>2. CASE p # Top
    <3>1. p \in Keys
      BY <2>2 DEF Paths
    <3>2. UpdateChild(node, p, Leaf) = Children(node) \cup {p}
      BY <3>1, ChildFacts
    <3>3. Children(Children(node) \cup {p}) = Children(node) \cup {p}
      BY <1>c, <3>1, NodeFacts
    <3> QED BY <2>2, <3>2, <3>3 DEF Shows
  <2> QED BY <2>1, <2>2
<1> QED BY <1>1, <1>2, <1>3

LEMMA LaterTyped ==
    ASSUME NEW ws \in Seq(Write), NEW id
    PROVE  Later(ws, id) \in SUBSET Paths /\ \A i \in 1 .. Len(ws) : ws[i].path \in Paths
<1>1. \A i \in 1 .. Len(ws) : ws[i] \in Write
  BY ElementOfSeq
<1> QED BY <1>1 DEF Later, Write

\* A new write, and the oldest one settled.
LEMMA KeptAppended ==
    ASSUME NEW ws \in Seq(Write), NEW w \in Write, NEW id \in Nat, id # w.id,
           NEW node \in Node, Kept(ws, id, node)
    PROVE  Kept(Append(ws, w), id, node)
<1> DEFINE t == Append(ws, w)
<1>1. /\ t \in Seq(Write) /\ Len(t) = Len(ws) + 1 /\ t[Len(ws) + 1] = w
      /\ Len(ws) \in Nat /\ \A j \in 1 .. Len(ws) : t[j] = ws[j]
  BY AppendProperties, LenProperties
<1> HIDE DEF t
<1>2. Later(ws, id) \subseteq Later(t, id)
  BY <1>1 DEF Later
<1>3. \A i \in 1 .. Len(t) : t[i].id = id => i \in 1 .. Len(ws)
  BY <1>1
<1>4. ASSUME NEW i \in 1 .. Len(t), t[i].id = id
      PROVE  Shows(t[i].path, Later(t, id), node)
  <2>1. i \in 1 .. Len(ws) /\ t[i] = ws[i]
    BY <1>1, <1>3, <1>4
  <2>2. Shows(ws[i].path, Later(ws, id), node)
    BY <1>4, <2>1 DEF Kept
  <2> QED BY <1>1, <1>2, <2>1, <2>2, ShowsOn, LaterTyped
<1> QED BY <1>4 DEF Kept, t

LEMMA KeptOfTail ==
    ASSUME NEW ws \in Seq(Write), ws # <<>>, InIdOrder(ws), NEW id, NEW node,
           Kept(ws, id, node)
    PROVE  Kept(Tail(ws), id, node)
<1> DEFINE t == Tail(ws)
<1>1. /\ Len(ws) \in Nat \ {0} /\ Len(t) = Len(ws) - 1
      /\ \A j \in 1 .. Len(ws) - 1 : t[j] = ws[j + 1]
  BY FirstTakenOut
<1>t. \A i \in 1 .. Len(ws) : ws[i].id \in Nat
  <2>1. \A i \in 1 .. Len(ws) : ws[i] \in Write
    BY ElementOfSeq
  <2> QED BY <2>1 DEF Write
<1> HIDE DEF t
<1>2. ASSUME NEW i \in 1 .. Len(t), t[i].id = id
      PROVE  Shows(t[i].path, Later(t, id), node)
  <2>1. i + 1 \in 1 .. Len(ws) /\ t[i] = ws[i + 1] /\ 1 \in 1 .. Len(ws) /\ 1 < i + 1
    BY <1>1
  <2>2. ws[1].id < id /\ id \in Nat /\ ws[1].id \in Nat
    BY <1>t, <1>2, <2>1 DEF InIdOrder
  <2>3. ~(ws[1].id > id)
    BY <2>2
  <2>4. Later(t, id) = Later(ws, id)
    <3>1. \A k \in 1 .. Len(t) : k + 1 \in 1 .. Len(ws) /\ t[k] = ws[k + 1]
      BY <1>1
    <3>2. \A k \in 1 .. Len(ws) : ws[k].id > id => k - 1 \in 1 .. Len(t) /\ t[k - 1] = ws[k]
      <4> SUFFICES ASSUME NEW k \in 1 .. Len(ws), ws[k].id > id
                   PROVE  k - 1 \in 1 .. Len(t) /\ t[k - 1] = ws[k]
        OBVIOUS
      <4>1. k # 1
        BY <2>3
      <4>2. k - 1 \in 1 .. Len(ws) - 1 /\ (k - 1) + 1 = k
        BY <1>1, <4>1
      <4> QED BY <1>1, <4>2
    <3>3. \A q \in Later(t, id) : q \in Later(ws, id)
      BY <3>1 DEF Later
    <3>4. \A q \in Later(ws, id) : q \in Later(t, id)
      BY <3>2 DEF Later
    <3> QED BY <3>3, <3>4
  <2> QED BY <1>2, <2>1, <2>4 DEF Kept
<1> QED BY <1>2 DEF Kept, t

\* The server makes a pending write: it shows, and the accepted ones before it
\* show as far as it lets them.
LEMMA KeptWhenServed ==
    ASSUME NEW ws \in Seq(Write), Distinct(ws), NEW k \in 1 .. Len(ws), NEW node \in Node
    PROVE  LET new == UpdateChild(node, ws[k].path, Leaf)
           IN  /\ Kept(ws, ws[k].id, new)
               /\ \A id \in Nat : id < ws[k].id /\ Kept(ws, id, node) => Kept(ws, id, new)
<1> DEFINE w == ws[k]
           new == UpdateChild(node, w.path, Leaf)
<1>1. w \in Write /\ w.id \in Nat /\ w.path \in Paths
  <2>1. w \in Write
    BY ElementOfSeq
  <2> QED BY <2>1 DEF Write
<1>2. Kept(ws, w.id, new)
  <2> SUFFICES ASSUME NEW i \in 1 .. Len(ws), ws[i].id = w.id
               PROVE  Shows(ws[i].path, Later(ws, w.id), new)
    BY DEF Kept
  <2>1. i = k
    BY DEF Distinct
  <2> QED BY <1>1, <2>1, ShowsOn, LaterTyped
<1>3. ASSUME NEW id \in Nat, id < w.id, Kept(ws, id, node) PROVE Kept(ws, id, new)
  <2> SUFFICES ASSUME NEW i \in 1 .. Len(ws), ws[i].id = id
               PROVE  Shows(ws[i].path, Later(ws, id), new)
    BY DEF Kept
  <2>1. w.path \in Later(ws, id)
    <3>1. w.id > id
      BY <1>1, <1>3
    <3> QED BY <3>1 DEF Later
  <2>2. Shows(ws[i].path, Later(ws, id), node)
    BY <1>3 DEF Kept
  <2> QED BY <2>1, <2>2, ShowsOn, LaterTyped
<1> QED BY <1>2, <1>3

-----------------------------------------------------------------------------
(* What the answers under way will tell *)

\* An accepted write's answer: held back, at 0, or the i-th one under way.
Accepts(held, ans, i, id) ==
    IF i = 0 THEN \E k \in 1 .. Len(held) : held[k].id = id /\ held[k].ok
    ELSE ans[i].kind = "put" /\ ans[i].id = id /\ ans[i].ok

\* The answer to the listen l comes after the j-th message.
AnswerAfter(ans, l, j) ==
    \E p \in j + 1 .. Len(ans) : ans[p].kind = "listen" /\ ans[p].listen = l

Heard(node, m) == IF m.kind = "data" THEN UpdateChild(node, m.path, m.value) ELSE node

\* The server snap's nodes to come: from told, or from the list sent with the
\* listen's answer, message by message to the server's list; and once the listen
\* is answered they show every write whose acceptance has been heard of.
Tracked(ws, held, ans, l, told, list, b, h) ==
    /\ b \in 0 .. Len(ans) /\ h \in [b .. Len(ans) -> Node]
    /\ b = 0 => h[0] = told
    /\ b # 0 => ans[b] = Update(Top, h[b]) /\ AnswerAfter(ans, l, b)
    /\ \A j \in b + 1 .. Len(ans) : h[j] = Heard(h[j - 1], ans[j])
    /\ h[Len(ans)] = list
    /\ \A j \in b .. Len(ans) : ~AnswerAfter(ans, l, j) =>
         \A i \in 0 .. j, id \in Nat : Accepts(held, ans, i, id) => Kept(ws, id, h[j])

\* One more answer: data that changes the list, or the answer to a put.
LEMMA TrackedAppended ==
    ASSUME NEW ws, NEW held, NEW ans \in Seq(Answers), NEW l, NEW told, NEW list \in Node,
           NEW b, NEW h, Tracked(ws, held, ans, l, told, list, b, h),
           NEW m \in Answers, m.kind # "listen", NEW new \in Node, new = Heard(list, m),
           \A i \in 0 .. Len(ans), id \in Nat : Accepts(held, ans, i, id) => Kept(ws, id, new),
           m.kind = "put" /\ m.ok => Kept(ws, m.id, new)
    PROVE  \E g : Tracked(ws, held, Append(ans, m), l, told, new, b, g)
<1> DEFINE t == Append(ans, m)
           n == Len(ans)
           g == [j \in b .. n + 1 |-> IF j = n + 1 THEN new ELSE h[j]]
<1>1. /\ Len(t) = n + 1 /\ t[n + 1] = m /\ n \in Nat
      /\ \A j \in 1 .. n : t[j] = ans[j]
  BY AppendProperties, LenProperties
<1>2. /\ b \in 0 .. n /\ h \in [b .. n -> Node] /\ h[n] = list
      /\ b = 0 => h[0] = told
      /\ b # 0 => ans[b] = Update(Top, h[b]) /\ AnswerAfter(ans, l, b)
      /\ \A j \in b + 1 .. n : h[j] = Heard(h[j - 1], ans[j])
  BY DEF Tracked
<1>3. /\ g \in [b .. n + 1 -> Node] /\ g[n + 1] = new /\ \A j \in b .. n : g[j] = h[j]
  BY <1>1, <1>2
<1> HIDE DEF t, g
<1>4. \A j \in 0 .. n : AnswerAfter(t, l, j) <=> AnswerAfter(ans, l, j)
  <2> SUFFICES ASSUME NEW j \in 0 .. n
               PROVE  AnswerAfter(t, l, j) <=> AnswerAfter(ans, l, j)
    OBVIOUS
  <2>1. \A p \in j + 1 .. n : p \in j + 1 .. n + 1 /\ p \in 1 .. n
    BY <1>1
  <2>2. \A p \in j + 1 .. n + 1 : p = n + 1 \/ (p \in j + 1 .. n /\ p \in 1 .. n)
    BY <1>1
  <2> QED BY <1>1, <2>1, <2>2 DEF AnswerAfter
<1>5. \A j \in b + 1 .. n + 1 : g[j] = Heard(g[j - 1], t[j])
  <2> SUFFICES ASSUME NEW j \in b + 1 .. n + 1 PROVE g[j] = Heard(g[j - 1], t[j])
    OBVIOUS
  <2>1. CASE j = n + 1
    <3>1. n \in b .. n /\ j - 1 = n
      BY <1>1, <1>2, <2>1
    <3> QED BY <1>1, <1>2, <1>3, <2>1, <3>1
  <2>2. CASE j # n + 1
    <3>1. j \in b + 1 .. n /\ j \in b .. n /\ j - 1 \in b .. n /\ j \in 1 .. n
      BY <1>1, <1>2, <2>2
    <3> QED BY <1>1, <1>2, <1>3, <3>1
  <2> QED BY <2>1, <2>2
<1>6. ASSUME NEW j \in b .. n + 1, ~AnswerAfter(t, l, j),
             NEW i \in 0 .. j, NEW id \in Nat, Accepts(held, t, i, id)
      PROVE  Kept(ws, id, g[j])
  <2>1. CASE j = n + 1
    <3>1. CASE i = n + 1
      BY <1>1, <1>3, <1>6, <2>1, <3>1 DEF Accepts
    <3>2. CASE i # n + 1
      <4>1. i \in 0 .. n /\ (i # 0 => i \in 1 .. n)
        BY <1>1, <2>1, <3>2
      <4>2. Accepts(held, ans, i, id)
        BY <1>1, <1>6, <4>1 DEF Accepts
      <4> QED BY <1>3, <2>1, <4>1, <4>2
    <3> QED BY <3>1, <3>2
  <2>2. CASE j # n + 1
    <3>1. j \in b .. n /\ j \in 0 .. n /\ i \in 0 .. j /\ (i # 0 => i \in 1 .. n)
      BY <1>1, <1>2, <2>2
    <3>2. Accepts(held, ans, i, id) /\ ~AnswerAfter(ans, l, j)
      BY <1>1, <1>4, <1>6, <3>1 DEF Accepts
    <3> QED BY <1>3, <3>1, <3>2 DEF Tracked
  <2> QED BY <2>1, <2>2
<1>7. b # 0 => t[b] = Update(Top, g[b]) /\ AnswerAfter(t, l, b)
  <2>1. b # 0 => b \in 1 .. n /\ b \in b .. n
    BY <1>1, <1>2
  <2> QED BY <1>1, <1>2, <1>3, <1>4, <2>1
<1>8. (b = 0 => g[0] = told) /\ b \in 0 .. n + 1
  BY <1>1, <1>2, <1>3
<1> QED BY <1>1, <1>3, <1>5, <1>6, <1>7, <1>8 DEF Tracked, t

\* One answer less; a put's is held back or settled.
LEMMA TrackedTaken ==
    ASSUME NEW ws, NEW held, NEW ans \in Seq(Answers), ans # <<>>, NEW l, NEW told,
           NEW list, NEW b, NEW h, Tracked(ws, held, ans, l, told, list, b, h),
           NEW kept,
           \A id \in Nat : Accepts(kept, ans, 0, id) =>
               Accepts(held, ans, 0, id) \/ Accepts(held, ans, 1, id)
    PROVE  \E c, g : Tracked(ws, kept, Tail(ans), l, Heard(told, Head(ans)), list, c, g)
<1> DEFINE t == Tail(ans)
           n == Len(ans)
           c == IF b = 0 THEN 0 ELSE b - 1
           g == [j \in c .. n - 1 |-> h[j + 1]]
           new == Heard(told, Head(ans))
<1>1. /\ n \in Nat \ {0} /\ Head(ans) = ans[1] /\ t \in Seq(Answers)
      /\ Len(t) = n - 1 /\ \A j \in 1 .. n - 1 : t[j] = ans[j + 1]
  OBVIOUS
<1>2. /\ b \in 0 .. n /\ h \in [b .. n -> Node] /\ h[n] = list
      /\ b = 0 => h[0] = told
      /\ b # 0 => ans[b] = Update(Top, h[b]) /\ AnswerAfter(ans, l, b)
      /\ \A j \in b + 1 .. n : h[j] = Heard(h[j - 1], ans[j])
  BY DEF Tracked
<1> HIDE DEF t, n
<1>b. b # n
  <2>1. CASE b = 0
    BY <1>1, <2>1
  <2>2. CASE b # 0
    <3>1. \E p \in b + 1 .. n : TRUE
      BY <1>2, <2>2 DEF AnswerAfter, n
    <3> QED BY <1>1, <1>2, <3>1
  <2> QED BY <2>1, <2>2
<1>c. c \in 0 .. n - 1 /\ \A j \in c .. n - 1 : j + 1 \in b .. n /\ j \in 0 .. n - 1
  BY <1>1, <1>2, <1>b
<1>3. g \in [c .. n - 1 -> Node] /\ \A j \in c .. n - 1 : g[j] = h[j + 1]
  BY <1>2, <1>c
<1> HIDE DEF g
<1>4. \A j \in 0 .. n - 1 : AnswerAfter(t, l, j) <=> AnswerAfter(ans, l, j + 1)
  <2> SUFFICES ASSUME NEW j \in 0 .. n - 1
               PROVE  AnswerAfter(t, l, j) <=> AnswerAfter(ans, l, j + 1)
    OBVIOUS
  <2>1. \A p \in j + 1 .. n - 1 : p + 1 \in (j + 1) + 1 .. n /\ t[p] = ans[p + 1]
    BY <1>1
  <2>2. \A p \in (j + 1) + 1 .. n : p - 1 \in j + 1 .. n - 1 /\ t[p - 1] = ans[p]
    <3> SUFFICES ASSUME NEW p \in (j + 1) + 1 .. n
                 PROVE  p - 1 \in j + 1 .. n - 1 /\ t[p - 1] = ans[p]
      OBVIOUS
    <3>1. p - 1 \in j + 1 .. n - 1 /\ p - 1 \in 1 .. n - 1 /\ (p - 1) + 1 = p
      BY <1>1
    <3> QED BY <1>1, <3>1
  <2> QED BY <1>1, <2>1, <2>2 DEF AnswerAfter, n
<1>5. c = 0 => g[0] = new
  <2> SUFFICES ASSUME c = 0 PROVE g[0] = new
    OBVIOUS
  <2>1. g[0] = h[1]
    <3>1. 0 \in c .. n - 1 /\ 0 + 1 = 1
      BY <1>1
    <3> QED BY <1>3, <3>1
  <2>2. CASE b = 0
    <3>1. 1 \in b + 1 .. n /\ 1 - 1 = 0
      BY <1>1, <2>2
    <3> QED BY <1>1, <1>2, <2>1, <2>2, <3>1
  <2>3. CASE b # 0
    <3>1. b = 1
      BY <1>2, <2>3
    <3>2. ans[1] = Update(Top, h[1])
      BY <1>2, <3>1
    <3>3. Heard(told, Update(Top, h[1])) = h[1]
      BY DEF Heard, Update, UpdateChild
    <3> QED BY <1>1, <2>1, <3>2, <3>3
  <2> QED BY <2>2, <2>3
<1>6. c # 0 => t[c] = Update(Top, g[c]) /\ AnswerAfter(t, l, c)
  <2> SUFFICES ASSUME c # 0 PROVE t[c] = Update(Top, g[c]) /\ AnswerAfter(t, l, c)
    OBVIOUS
  <2>1. /\ c + 1 = b /\ b # 0 /\ c \in 1 .. n - 1 /\ c \in c .. n - 1 /\ c \in 0 .. n - 1
    BY <1>1, <1>2, <1>c
  <2> HIDE DEF c
  <2> QED BY <1>1, <1>2, <1>3, <1>4, <2>1
<1>7. \A j \in c + 1 .. n - 1 : g[j] = Heard(g[j - 1], t[j])
  <2> SUFFICES ASSUME NEW j \in c + 1 .. n - 1 PROVE g[j] = Heard(g[j - 1], t[j])
    OBVIOUS
  <2>1. /\ j \in c .. n - 1 /\ j - 1 \in c .. n - 1 /\ j + 1 \in b + 1 .. n
        /\ (j - 1) + 1 = j /\ (j + 1) - 1 = j /\ j \in 1 .. n - 1
    BY <1>1, <1>2, <1>c
  <2>2. g[j] = h[j + 1] /\ g[j - 1] = h[j]
    BY <1>3, <2>1
  <2>3. h[j + 1] = Heard(h[j], ans[j + 1])
    BY <1>2, <2>1
  <2> QED BY <1>1, <2>1, <2>2, <2>3
<1>8. g[n - 1] = list
  <2>1. n - 1 \in c .. n - 1 /\ (n - 1) + 1 = n
    BY <1>1, <1>c
  <2> QED BY <1>2, <1>3, <2>1
<1>9. ASSUME NEW j \in c .. n - 1, ~AnswerAfter(t, l, j),
             NEW i \in 0 .. j, NEW id \in Nat, Accepts(kept, t, i, id)
      PROVE  Kept(ws, id, g[j])
  <2>1. j \in 0 .. n - 1 /\ j + 1 \in b .. n /\ g[j] = h[j + 1]
    BY <1>3, <1>c
  <2>2. ~AnswerAfter(ans, l, j + 1)
    BY <1>4, <1>9, <2>1
  <2>3. \E k \in 0 .. j + 1 : Accepts(held, ans, k, id)
    <3>1. CASE i = 0
      <4>1. Accepts(kept, ans, 0, id)
        BY <1>9, <3>1 DEF Accepts
      <4>2. 0 \in 0 .. j + 1 /\ 1 \in 0 .. j + 1
        BY <2>1
      <4> QED BY <4>1, <4>2
    <3>2. CASE i # 0
      <4>1. i + 1 \in 0 .. j + 1 /\ i + 1 # 0 /\ i \in 1 .. n - 1
        BY <1>1, <2>1, <3>2
      <4>2. Accepts(held, ans, i + 1, id)
        BY <1>1, <1>9, <3>2, <4>1 DEF Accepts
      <4> QED BY <4>1, <4>2
    <3> QED BY <3>1, <3>2
  <2> QED BY <2>1, <2>2, <2>3 DEF Tracked, n
<1> HIDE DEF c, new
<1> QED BY <1>1, <1>3, <1>5, <1>6, <1>7, <1>8, <1>9, <1>c DEF Tracked, t, n, new

\* The pending writes or the held-back answers change, and none is lost sight of.
LEMMA TrackedStill ==
    ASSUME NEW ws, NEW held, NEW ans, NEW l, NEW told, NEW list, NEW b, NEW h,
           Tracked(ws, held, ans, l, told, list, b, h), NEW vs, NEW kept,
           \A i \in 0 .. Len(ans), id \in Nat :
               Accepts(kept, ans, i, id) => Accepts(held, ans, i, id),
           \A i \in 0 .. Len(ans), id \in Nat, node \in Node :
               Accepts(kept, ans, i, id) /\ Kept(ws, id, node) => Kept(vs, id, node),
           Len(ans) \in Nat
    PROVE  Tracked(vs, kept, ans, l, told, list, b, h)
<1>1. ASSUME NEW j \in b .. Len(ans), ~AnswerAfter(ans, l, j),
             NEW i \in 0 .. j, NEW id \in Nat, Accepts(kept, ans, i, id)
      PROVE  Kept(vs, id, h[j])
  <2>1. b \in 0 .. Len(ans) /\ h[j] \in Node
    BY DEF Tracked
  <2>2. i \in 0 .. Len(ans)
    BY <2>1
  <2>3. Accepts(held, ans, i, id)
    BY <1>1, <2>2
  <2>4. Kept(ws, id, h[j])
    BY <1>1, <2>3 DEF Tracked
  <2> QED BY <1>1, <2>1, <2>2, <2>4
<1> QED BY <1>1 DEF Tracked

-----------------------------------------------------------------------------
(* The way of the listens *)

\* A listen l is asked for on a channel; and it is the last thing asked of the
\* list's watch.
Sent(reqs, l) == \E q \in 1 .. Len(reqs) : reqs[q].op = "listen" /\ reqs[q].listen = l
LastSent(reqs, l) ==
    \A p \in 1 .. Len(reqs) : reqs[p].op \in {"listen", "unlisten"} =>
        \E q \in p .. Len(reqs) : reqs[q].op = "listen" /\ reqs[q].listen = l

\* The server watches for the view's listen once it has it, unless it refuses.
WatchInv ==
    Connected /\ listens # 0 =>
        /\ LastSent(toServer, listens)
        /\ ~watched /\ ~Sent(toServer, listens) =>
             \E j \in 1 .. Len(toClient) : toClient[j] = ListenAnswer(listens, FALSE)

\* A put that is asked for is a write that is pending.
KnownPuts ==
    \A p \in 1 .. Len(toServer) : toServer[p].op = "put" =>
        \E k \in 1 .. Len(allWrites) : allWrites[k] = toServer[p].write

LEMMA SentAppended ==
    ASSUME NEW reqs \in Seq(Requests), NEW r \in Requests, NEW l
    PROVE  LET t == Append(reqs, r)
           IN  /\ Sent(t, l) <=> Sent(reqs, l) \/ (r.op = "listen" /\ r.listen = l)
               /\ r.op = "put" /\ LastSent(reqs, l) => LastSent(t, l)
               /\ r.op = "listen" /\ r.listen = l => LastSent(t, l)
<1> DEFINE t == Append(reqs, r)
           n == Len(reqs)
<1>1. /\ Len(t) = n + 1 /\ t[n + 1] = r /\ n \in Nat
      /\ \A j \in 1 .. n : t[j] = reqs[j]
  BY AppendProperties, LenProperties
<1> HIDE DEF t
<1>2. \A p \in 1 .. n + 1 : p = n + 1 \/ p \in 1 .. n
  BY <1>1
<1>3. n + 1 \in 1 .. n + 1 /\ \A p \in 1 .. n : p \in 1 .. n + 1
  BY <1>1
<1>4. Sent(t, l) <=> Sent(reqs, l) \/ (r.op = "listen" /\ r.listen = l)
  BY <1>1, <1>2, <1>3 DEF Sent
<1>5. ASSUME r.op = "put", LastSent(reqs, l) PROVE LastSent(t, l)
  <2> SUFFICES ASSUME NEW p \in 1 .. n + 1, t[p].op \in {"listen", "unlisten"}
               PROVE  \E q \in p .. n + 1 : t[q].op = "listen" /\ t[q].listen = l
    BY <1>1 DEF LastSent
  <2>1. p \in 1 .. n
    BY <1>1, <1>2, <1>5
  <2>2. PICK q \in p .. n : reqs[q].op = "listen" /\ reqs[q].listen = l
    BY <1>1, <1>5, <2>1 DEF LastSent
  <2>3. q \in 1 .. n /\ q \in p .. n + 1
    BY <1>1, <2>1
  <2> QED BY <1>1, <2>2, <2>3
<1>6. ASSUME r.op = "listen", r.listen = l PROVE LastSent(t, l)
  <2> SUFFICES ASSUME NEW p \in 1 .. n + 1
               PROVE  \E q \in p .. n + 1 : t[q].op = "listen" /\ t[q].listen = l
    BY <1>1 DEF LastSent
  <2>1. n + 1 \in p .. n + 1
    BY <1>1
  <2> QED BY <1>1, <1>6, <2>1
<1> QED BY <1>4, <1>5, <1>6 DEF t

LEMMA SentOfTail ==
    ASSUME NEW reqs \in Seq(Requests), reqs # <<>>, NEW l
    PROVE  LET t == Tail(reqs)
               r == Head(reqs)
           IN  /\ Sent(reqs, l) <=> Sent(t, l) \/ (r.op = "listen" /\ r.listen = l)
               /\ LastSent(reqs, l) => LastSent(t, l)
               /\ LastSent(reqs, l) /\ r.op \in {"listen", "unlisten"} =>
                    Sent(t, l) \/ (r.op = "listen" /\ r.listen = l)
<1> DEFINE t == Tail(reqs)
           n == Len(reqs)
<1>1. /\ n \in Nat \ {0} /\ Head(reqs) = reqs[1]
      /\ Len(t) = n - 1 /\ \A j \in 1 .. n - 1 : t[j] = reqs[j + 1]
  OBVIOUS
<1> HIDE DEF t
<1>2. \A q \in 1 .. n - 1 : q + 1 \in 1 .. n /\ t[q] = reqs[q + 1]
  BY <1>1
<1>3. \A q \in 1 .. n : q = 1 \/ (q - 1 \in 1 .. n - 1 /\ t[q - 1] = reqs[q])
  <2> SUFFICES ASSUME NEW q \in 1 .. n, q # 1 PROVE q - 1 \in 1 .. n - 1 /\ t[q - 1] = reqs[q]
    OBVIOUS
  <2>1. q - 1 \in 1 .. n - 1 /\ (q - 1) + 1 = q
    BY <1>1
  <2> QED BY <1>1, <2>1
<1>4. Sent(reqs, l) <=> Sent(t, l) \/ (Head(reqs).op = "listen" /\ Head(reqs).listen = l)
  <2>1. 1 \in 1 .. n
    BY <1>1
  <2> QED BY <1>1, <1>2, <1>3, <2>1 DEF Sent
<1>5. ASSUME LastSent(reqs, l) PROVE LastSent(t, l)
  <2> SUFFICES ASSUME NEW p \in 1 .. n - 1, t[p].op \in {"listen", "unlisten"}
               PROVE  \E q \in p .. n - 1 : t[q].op = "listen" /\ t[q].listen = l
    BY <1>1 DEF LastSent
  <2>1. PICK q \in p + 1 .. n : reqs[q].op = "listen" /\ reqs[q].listen = l
    BY <1>2, <1>5 DEF LastSent
  <2>2. q - 1 \in p .. n - 1 /\ q # 1 /\ q \in 1 .. n
    BY <1>1
  <2> QED BY <1>3, <2>1, <2>2
<1>6. LastSent(reqs, l) /\ Head(reqs).op \in {"listen", "unlisten"} => Sent(reqs, l)
  <2>1. 1 \in 1 .. n /\ 1 .. n = 1 .. Len(reqs)
    BY <1>1
  <2> QED BY <1>1, <2>1 DEF LastSent, Sent
<1> QED BY <1>4, <1>5, <1>6 DEF t

\* A message stays on its channel until it is taken.
Has(s, x) == \E j \in 1 .. Len(s) : s[j] = x

LEMMA HasStill ==
    ASSUME NEW S, NEW s \in Seq(S), NEW x, Has(s, x)
    PROVE  /\ \A e \in S : Has(Append(s, e), x)
           /\ s # <<>> /\ (Head(s) = x \/ Has(Tail(s), x))
<1>1. PICK j \in 1 .. Len(s) : s[j] = x
  BY DEF Has
<1>2. ASSUME NEW e \in S PROVE Has(Append(s, e), x)
  <2>1. /\ Len(Append(s, e)) = Len(s) + 1 /\ Append(s, e)[j] = s[j]
        /\ j \in 1 .. Len(s) + 1
    BY <1>1
  <2> QED BY <1>1, <2>1 DEF Has
<1>3. s # <<>> /\ (Head(s) = x \/ Has(Tail(s), x))
  <2>1. s # <<>> /\ Len(Tail(s)) = Len(s) - 1 /\ Head(s) = s[1] /\ Len(s) \in Nat
    BY <1>1
  <2>2. CASE j = 1
    BY <1>1, <2>1, <2>2
  <2>3. CASE j # 1
    <3>1. j - 1 \in 1 .. Len(s) - 1 /\ Tail(s)[j - 1] = s[j]
      BY <1>1, <2>1, <2>3
    <3> QED BY <1>1, <2>1, <3>1 DEF Has
  <2> QED BY <2>2, <2>3
<1> QED BY <1>2, <1>3

Refused == Has(toClient, ListenAnswer(listens, FALSE))

LEMMA WatchParts ==
    WatchInv <=>
        (Connected /\ listens # 0 =>
            /\ LastSent(toServer, listens)
            /\ watched \/ Sent(toServer, listens) \/ Refused)
BY DEF WatchInv, Refused, Has

\* The client's steps.
LEMMA ClientWatches ==
    ASSUME ClientInv, WatchInv, Worker PROVE WatchInv'
<1>i. /\ InputInv /\ WritesInv /\ TypesOfLink /\ TypesOfPending /\ LinkInv
      /\ toServer \in Seq(Requests) /\ toClient \in Seq(Answers)
  BY TypeParts DEF ClientInv, TypesOfLink, LinkInv
<1>k. ASSUME UNCHANGED <<connectionState, listens, watched>>,
             LastSent(toServer, listens) => LastSent(toServer', listens),
             Sent(toServer, listens) => Sent(toServer', listens),
             listens # 0 /\ Refused => Refused'
      PROVE  WatchInv'
  BY <1>k, WatchParts DEF WatchInv, Connected, Refused, Has
<1>1. CASE SetValue
  <2> DEFINE r == PutRequest([id |-> writeIdCounter, path |-> Head(work).path])
  <2>1. r \in Requests /\ r.op = "put"
    <3>1. [id |-> writeIdCounter, path |-> Head(work).path] \in Write
      BY <1>1, <1>i, JobTyped DEF SetValue, Write, TypesOfPending
    <3> QED BY <3>1, MessagesTyped DEF PutRequest
  <2>2. /\ toServer' = toServer \/ toServer' = Append(toServer, r)
        /\ UNCHANGED <<connectionState, listens, toClient, watched>>
    BY <1>1 DEF SetValue, server
  <2> HIDE DEF r
  <2>3. /\ Sent(toServer, listens) => Sent(Append(toServer, r), listens)
        /\ LastSent(toServer, listens) => LastSent(Append(toServer, r), listens)
    BY <1>i, <2>1, SentAppended
  <2>4. Refused => Refused'
    BY <2>2 DEF Refused
  <2> QED BY <1>k, <2>2, <2>3, <2>4
<1>2. CASE AddObserver
  <2> DEFINE s == Head(work).screen
             e == ListenRequest(s, NewServerSnap.node)
  <2>1. e \in Requests /\ e.op = "listen" /\ e.listen = s
    <3>1. s \in Screens /\ NewServerSnap.node \in Node
      BY <1>2, <1>i, JobTyped, NodeFacts DEF AddObserver, NewServerSnap
    <3> QED BY <3>1, MessagesTyped DEF ListenRequest
  <2>2. /\ Connected => toServer' = Append(toServer, e)
        /\ connectionState' = connectionState /\ listens' = s
    BY <1>2 DEF AddObserver
  <2> HIDE DEF s, e
  <2>3. Sent(Append(toServer, e), s) /\ LastSent(Append(toServer, e), s)
    BY <1>i, <2>1, SentAppended
  <2> QED BY <2>2, <2>3 DEF WatchInv, Connected
<1>3. CASE RemoveObserver
  <2>1. CASE view = Head(work).screen
    BY <1>3, <2>1 DEF RemoveObserver, WatchInv
  <2>2. CASE view # Head(work).screen
    BY <1>3, <1>k, <2>2 DEF RemoveObserver, server, Refused
  <2> QED BY <2>1, <2>2
<1>m. ASSUME NEW kind, Message(kind), UNCHANGED <<listens, toServer, connectionState, watched>>,
             kind = "listen" => Head(toClient) # ListenAnswer(listens, FALSE)
      PROVE  WatchInv'
  <2>1. Head(toClient) # ListenAnswer(listens, FALSE)
    BY <1>m DEF Message, ListenAnswer
  <2>2. Refused => Refused'
    BY <1>i, <1>m, <2>1, HasStill DEF Refused, Message
  <2> QED BY <1>k, <1>m, <2>2
<1>4. CASE OnDataUpdate
  BY <1>4, <1>m DEF OnDataUpdate, pending, server
<1>5. CASE OnPutAnswer
  BY <1>5, <1>m DEF OnPutAnswer, server
<1>6. CASE OnListenAnswer
  <2>1. Message("listen") /\ UNCHANGED <<connectionState, toServer, watched>>
    BY <1>6 DEF OnListenAnswer, server
  <2>2. CASE Head(toClient) = ListenAnswer(listens, FALSE)
    BY <1>6, <2>2 DEF OnListenAnswer, WatchInv, ListenAnswer
  <2>3. CASE Head(toClient) # ListenAnswer(listens, FALSE)
    <3>1. Head(toClient) \in Answers /\ Head(toClient).kind = "listen"
      BY <1>i, <2>1, AnswerTaken
    <3>2. Head(toClient).listen # listens \/ Head(toClient).ok
      BY <2>3, <3>1 DEF Answers, ListenAnswer
    <3>3. UNCHANGED listens
      BY <1>6, <3>2 DEF OnListenAnswer
    <3> QED BY <1>m, <2>1, <2>3, <3>3
  <2> QED BY <2>2, <2>3
<1>7. CASE AckPuts
  BY <1>7, <1>k DEF AckPuts, connection, server, Refused
<1> QED BY <1>1, <1>2, <1>3, <1>4, <1>5, <1>6, <1>7 DEF Worker

\* A new connection starts with the listen.
LEMMA RestoredWatch ==
    ASSUME ClientInv, Ready PROVE WatchInv'
<1>i. WritesInv /\ TypesOfPending /\ TypesOfCaches
  BY TypeParts DEF ClientInv
<1>1. /\ listens \in Nat /\ serverSnap \in Cache
      /\ UNCHANGED listens /\ toServer' = RestoreState
  BY <1>i DEF Ready, TypesOfPending, TypesOfCaches
<1>2. CASE listens = 0
  BY <1>1, <1>2 DEF WatchInv
<1>3. CASE listens # 0
  <2> DEFINE r == RestoreState
             n == Cardinality(outstandingPuts)
  <2>1. /\ n \in Nat /\ Len(r) = 1 + n /\ r[1] = ListenRequest(listens, serverSnap.node)
        /\ \A i \in 1 .. n : r[1 + i].op = "put"
    BY <1>i, <1>1, <1>3, RestoredMessages
  <2> HIDE DEF r, n
  <2>2. \A p \in 1 .. Len(r) : p = 1 \/ r[p].op = "put"
    <3> SUFFICES ASSUME NEW p \in 1 .. Len(r), p # 1 PROVE r[p].op = "put"
      OBVIOUS
    <3>1. p - 1 \in 1 .. n /\ 1 + (p - 1) = p
      BY <2>1
    <3> QED BY <2>1, <3>1
  <2>3. 1 \in 1 .. Len(r) /\ r[1].op = "listen" /\ r[1].listen = listens
    BY <2>1 DEF ListenRequest
  <2>4. LastSent(r, listens) /\ Sent(r, listens)
    BY <2>2, <2>3 DEF LastSent, Sent
  <2> QED BY <1>1, <2>4 DEF WatchInv, r
<1> QED BY <1>2, <1>3

\* The server's steps, and another client's.
LEMMA ServerWatches ==
    ASSUME ClientInv, WatchInv,
           Serving \/ \E k \in Keys, value \in {Leaf, {}} : RemoteChange(k, value)
    PROVE  WatchInv'
<1>i. TypesOfLink /\ toClient \in Seq(Answers) /\ toServer \in Seq(Requests)
  BY TypeParts DEF ClientInv, TypesOfLink
<1>k. ASSUME UNCHANGED <<connectionState, listens>>,
             LastSent(toServer, listens) =>
                LastSent(toServer', listens)
                /\ (watched \/ Sent(toServer, listens) \/ Refused =>
                        watched' \/ Sent(toServer', listens) \/ Refused')
      PROVE  WatchInv'
  BY <1>k, WatchParts DEF WatchInv, Connected, Refused, Has
<1>r. ASSUME NEW op, Request(op)
      PROVE  /\ UNCHANGED <<connectionState, listens>>
             /\ LastSent(toServer, listens) => LastSent(toServer', listens)
             /\ op = "put" => (Sent(toServer, listens) <=> Sent(toServer', listens))
             /\ LastSent(toServer, listens) /\ op \in {"listen", "unlisten"} =>
                  Sent(toServer', listens) \/ (op = "listen" /\ Head(toServer).listen = listens)
  <2>1. /\ toServer # <<>> /\ Head(toServer).op = op /\ toServer' = Tail(toServer)
        /\ UNCHANGED <<connectionState, listens>>
    BY <1>r DEF Request, clientSide, pending
  <2> QED BY <1>i, <2>1, SentOfTail
<1>1. ASSUME NEW ok \in BOOLEAN, ServeListen(ok) PROVE WatchInv'
  <2> DEFINE r == Head(toServer)
             told == IF ok /\ r.hash # data THEN Append(toClient, Update(Top, data)) ELSE toClient
             a == ListenAnswer(r.listen, ok)
  <2>1. Request("listen") /\ watched' = ok
    BY <1>1 DEF ServeListen
  <2>2. told \in Seq(Answers) /\ toClient' = Append(told, a) /\ a \in Answers
    BY <1>i, <1>1, ListenServed
  <2>3. r.listen = listens /\ ~ok => Refused'
    <3> SUFFICES ASSUME r.listen = listens, ~ok PROVE Refused'
      OBVIOUS
    <3>1. a = ListenAnswer(listens, FALSE) /\ listens' = listens
      BY <1>r, <2>1
    <3> HIDE DEF a, told
    <3>2. /\ Len(toClient') = Len(told) + 1 /\ toClient'[Len(told) + 1] = a
          /\ Len(told) + 1 \in 1 .. Len(told) + 1
      BY <2>2
    <3> QED BY <3>1, <3>2 DEF Refused, Has
  <2> HIDE DEF r, told, a
  <2> QED BY <1>k, <1>r, <2>1, <2>3 DEF r
<1>2. ASSUME NEW ok \in BOOLEAN, ServePut(ok) PROVE WatchInv'
  <2> DEFINE w == Head(toServer).write
             new == IF ok THEN UpdateChild(data, w.path, Leaf) ELSE data
             u == Update(w.path, Leaf)
             told == IF watched /\ new # data THEN Append(toClient, u) ELSE toClient
             a == PutAnswer(w.id, ok)
  <2>1. Request("put") /\ watched' = watched
    BY <1>2 DEF ServePut
  <2>2. /\ w \in Write /\ told \in Seq(Answers) /\ toClient' = Append(told, a)
        /\ a \in Answers
    BY <1>i, <1>2, PutServed
  <2>3. u \in Answers
    BY <2>2, MessagesTyped, NodeFacts DEF Write
  <2> HIDE DEF w, new, u, a
  <2>4. \A x : Has(toClient, x) => Has(told, x)
    BY <1>i, <2>3, HasStill
  <2> HIDE DEF told
  <2>5. Refused => Refused'
    BY <1>r, <2>1, <2>2, <2>4, HasStill DEF Refused
  <2> QED BY <1>k, <1>r, <2>1, <2>5
<1>3. CASE ServeUnlisten
  <2>1. Request("unlisten")
    BY <1>3 DEF ServeUnlisten
  <2> QED BY <1>k, <1>r, <2>1
<1>4. ASSUME NEW k \in Keys, NEW value \in {Leaf, {}}, RemoteChange(k, value)
      PROVE  WatchInv'
  <2>1. Update(k, value) \in Answers
    BY MessagesTyped, NodeFacts DEF Paths
  <2>2. /\ toClient' = toClient \/ toClient' = Append(toClient, Update(k, value))
        /\ UNCHANGED <<connectionState, listens, toServer, watched>>
    BY <1>4 DEF RemoteChange, clientSide, pending
  <2>3. Refused => Refused'
    BY <1>i, <2>1, <2>2, HasStill DEF Refused
  <2> QED BY <1>k, <2>2, <2>3
<1> QED BY <1>1, <1>2, <1>3, <1>4 DEF Serving

LEMMA NextWatchInv == ClientInv /\ WatchInv /\ [CommentsNext]_allVars => WatchInv'
<1> SUFFICES ASSUME ClientInv, WatchInv, [CommentsNext]_allVars PROVE WatchInv'
  OBVIOUS
<1>1. CASE Worker
  BY <1>1, ClientWatches
<1>2. CASE Serving \/ \E k \in Keys, value \in {Leaf, {}} : RemoteChange(k, value)
  BY <1>2, ServerWatches
<1>3. CASE Ready
  BY <1>3, RestoredWatch
<1>4. CASE Retry \/ TokenFetched \/ TokenFailed \/ Disconnect \/ Kill
  BY <1>4 DEF Retry, TokenFetched, TokenFailed, Disconnect, Kill, LoseConnection, Connected, WatchInv
<1>5. CASE Deliver \/ User \/ UNCHANGED allVars
  <2>1. UNCHANGED <<listens, connectionState, toServer, toClient, watched>>
    BY <1>5, ScreenApart DEF pending, connection, server
  <2> QED BY <2>1 DEF WatchInv, Connected
<1> QED BY <1>1, <1>2, <1>3, <1>4, <1>5 DEF CommentsNext, DatabaseNext, Connecting

LEMMA AckLeaves ==
    ASSUME ClientInv, NEW id \in Ids(allWrites), NEW ok, AckWrite(id, ok),
           NEW w, Has(allWrites, w), w.id # id
    PROVE  Has(allWrites', w)
<1> DEFINE i == WriteIndex(id)
           r == RemoveAt(allWrites, i)
<1>1. WritesInv /\ allWrites \in Seq(Write) /\ allWrites' = r
  BY DEF ClientInv, WritesInv, AckWrite
<1>2. i \in 1 .. Len(allWrites) /\ allWrites[i].id = id
  BY <1>1, WriteFound
<1> HIDE DEF i
<1>3. /\ Len(r) = Len(allWrites) - 1 /\ Len(allWrites) \in Nat
      /\ \A j \in 1 .. Len(allWrites) - 1 :
            r[j] = IF j < i THEN allWrites[j] ELSE allWrites[j + 1]
  BY <1>1, <1>2, RemoveAtProperties, LenProperties
<1> HIDE DEF r
<1>4. PICK k \in 1 .. Len(allWrites) : allWrites[k] = w
  BY DEF Has
<1>5. k # i
  BY <1>2, <1>4
<1>6. CASE k < i
  BY <1>1, <1>2, <1>3, <1>4, <1>6 DEF Has
<1>7. CASE k > i
  <2>1. k - 1 \in 1 .. Len(r) /\ ~(k - 1 < i) /\ (k - 1) + 1 = k
    BY <1>2, <1>3, <1>7
  <2> QED BY <1>1, <1>3, <1>4, <2>1 DEF Has
<1> QED BY <1>2, <1>5, <1>6, <1>7

LEMMA AskedIs ==
    ASSUME TypesOfLink, NEW p \in 1 .. Len(toServer), toServer[p].op = "put"
    PROVE  toServer[p].write.id \in Asked
<1>1. toServer[p] \in Requests
  BY ElementOfSeq DEF TypesOfLink
<1>2. p \in Places(toServer, PutRequests) /\ RequestId[toServer[p]] = toServer[p].write.id
  BY <1>1, NumbersAre DEF Places
<1> QED BY <1>2 DEF Asked, Carried

LEMMA NextKnownPuts ==
    ClientInv /\ OrderInv /\ KnownPuts /\ [CommentsNext]_allVars => KnownPuts'
<1> SUFFICES ASSUME ClientInv, OrderInv, KnownPuts, [CommentsNext]_allVars
             PROVE  KnownPuts'
  OBVIOUS
<1>i. /\ InputInv /\ WritesInv /\ TypesOfLink /\ TypesOfPending /\ TypesOfCaches /\ LinkInv
      /\ toServer \in Seq(Requests) /\ allWrites \in Seq(Write) /\ Len(toServer) \in Nat
  BY TypeParts, LenProperties DEF ClientInv, TypesOfLink, WritesInv
<1>h. KnownPuts <=> \A p \in 1 .. Len(toServer) :
                      toServer[p].op = "put" => Has(allWrites, toServer[p].write)
  BY DEF KnownPuts, Has
<1>s. ASSUME toServer' = toServer \/ toServer' = <<>>,
             \A w : Has(allWrites, w) /\ w.id \in Asked => Has(allWrites', w)
      PROVE  KnownPuts'
  <2> SUFFICES ASSUME NEW p \in 1 .. Len(toServer'), toServer'[p].op = "put"
               PROVE  Has(allWrites', toServer'[p].write)
    BY DEF KnownPuts, Has
  <2>1. toServer' = toServer
    BY <1>s
  <2> QED BY <1>h, <1>i, <1>s, <2>1, AskedIs
<1>a. ASSUME NEW r \in Requests, toServer' = Append(toServer, r),
             \A w : Has(allWrites, w) => Has(allWrites', w),
             r.op = "put" => Has(allWrites', r.write)
      PROVE  KnownPuts'
  <2> SUFFICES ASSUME NEW p \in 1 .. Len(toServer'), toServer'[p].op = "put"
               PROVE  Has(allWrites', toServer'[p].write)
    BY DEF KnownPuts, Has
  <2>1. /\ Len(toServer') = Len(toServer) + 1 /\ toServer'[Len(toServer) + 1] = r
        /\ \A j \in 1 .. Len(toServer) : toServer'[j] = toServer[j]
    BY <1>a, <1>i, AppendProperties
  <2>2. CASE p = Len(toServer) + 1
    BY <1>a, <2>1, <2>2
  <2>3. CASE p # Len(toServer) + 1
    <3>1. p \in 1 .. Len(toServer)
      BY <1>i, <2>1, <2>3
    <3> QED BY <1>a, <1>h, <2>1, <3>1
  <2> QED BY <2>2, <2>3
<1>t. ASSUME NEW op, Request(op) PROVE KnownPuts'
  <2>1. /\ toServer' = Tail(toServer) /\ toServer # <<>> /\ allWrites' = allWrites
    BY <1>t DEF Request, clientSide, caches
  <2> SUFFICES ASSUME NEW p \in 1 .. Len(toServer'), toServer'[p].op = "put"
               PROVE  Has(allWrites', toServer'[p].write)
    BY DEF KnownPuts, Has
  <2>2. p + 1 \in 1 .. Len(toServer) /\ toServer'[p] = toServer[p + 1]
    BY <1>i, <2>1
  <2> QED BY <1>h, <2>1, <2>2
<1>1. CASE SetValue
  <2> DEFINE w == [id |-> writeIdCounter, path |-> Head(work).path]
             r == PutRequest(w)
  <2>1. w \in Write
    BY <1>1, <1>i, JobTyped DEF SetValue, Write, TypesOfPending
  <2>2. r \in Requests /\ r.write = w
    BY <2>1, MessagesTyped DEF PutRequest
  <2>3. /\ toServer' = toServer \/ toServer' = Append(toServer, r)
        /\ allWrites' = Append(allWrites, w)
    BY <1>1 DEF SetValue
  <2> HIDE DEF w, r
  <2>4. \A x : Has(allWrites, x) => Has(allWrites', x)
    BY <1>i, <2>1, <2>3, HasStill
  <2>5. Has(allWrites', w)
    <3>1. /\ Len(allWrites') = Len(allWrites) + 1 /\ allWrites'[Len(allWrites) + 1] = w
          /\ Len(allWrites) + 1 \in 1 .. Len(allWrites) + 1
      BY <1>i, <2>1, <2>3
    <3> QED BY <3>1 DEF Has
  <2> QED BY <1>a, <1>s, <2>2, <2>3, <2>4, <2>5
<1>2. CASE AddObserver
  <2> DEFINE s == Head(work).screen
             e == ListenRequest(s, NewServerSnap.node)
  <2>1. e \in Requests /\ e.op # "put"
    <3>1. s \in Screens /\ NewServerSnap.node \in Node
      BY <1>2, <1>i, JobTyped, NodeFacts DEF AddObserver, NewServerSnap
    <3> QED BY <3>1, MessagesTyped DEF ListenRequest
  <2>2. /\ toServer' = toServer \/ toServer' = Append(toServer, e)
        /\ allWrites' = allWrites
    BY <1>2 DEF AddObserver
  <2> HIDE DEF s, e
  <2> QED BY <1>a, <1>s, <2>1, <2>2
<1>3. CASE RemoveObserver
  <2>1. UnlistenRequest \in Requests /\ UnlistenRequest.op # "put"
    BY MessagesTyped DEF UnlistenRequest
  <2>2. /\ toServer' = toServer \/ toServer' = Append(toServer, UnlistenRequest)
        /\ allWrites' = allWrites
    BY <1>3 DEF RemoveObserver
  <2> QED BY <1>a, <1>s, <2>1, <2>2
<1>4. CASE OnDataUpdate \/ OnListenAnswer
  <2>1. UNCHANGED <<toServer, allWrites>>
    BY <1>4 DEF OnDataUpdate, OnListenAnswer
  <2> QED BY <1>s, <2>1
<1>5. CASE OnPutAnswer
  <2> DEFINE id == Head(toClient).id
             ok == Head(toClient).ok
  <2>1. Connected /\ id \in outstandingPuts /\ PutsUnderWay /\ outstandingPuts' = outstandingPuts \ {id}
        /\ PutsUnderWay' /\ toServer' = toServer
    BY <1>5, AnswerIsForTheOldest DEF OrderInv, OnPutAnswer
  <2>2. id \notin Asked
    BY <2>1 DEF PutsUnderWay, Asked
  <2>3. allWrites' = allWrites \/ AckWrite(id, ok)
    BY <1>5 DEF OnPutAnswer, caches
  <2>4. id \in Ids(allWrites)
    BY <1>i, <2>1 DEF WritesInv
  <2> HIDE DEF id, ok
  <2>5. \A w : Has(allWrites, w) /\ w.id \in Asked => Has(allWrites', w)
    BY <2>2, <2>3, <2>4, AckLeaves
  <2> QED BY <1>s, <2>1, <2>5
<1>6. CASE AckPuts
  <2> DEFINE id == Head(putsToAck).id
             ok == Head(putsToAck).ok
  <2>1. /\ AckWrite(id, ok) /\ toServer' = toServer /\ Connected /\ putsToAck # <<>>
    BY <1>6, <1>i DEF AckPuts, connection, LinkInv, WritesInv
  <2>2. id \in Ids(putsToAck) /\ id \in Ids(allWrites)
    BY <1>i, <2>1, HeldTail DEF WritesInv
  <2>3. id \notin Asked
    BY <1>i, <2>1, <2>2 DEF WritesInv, OrderInv, PutsUnderWay
  <2> HIDE DEF id, ok
  <2>4. \A w : Has(allWrites, w) /\ w.id \in Asked => Has(allWrites', w)
    BY <2>1, <2>2, <2>3, AckLeaves
  <2> QED BY <1>s, <2>1, <2>4
<1>7. CASE Retry \/ TokenFetched \/ TokenFailed \/ Disconnect \/ Kill
  <2>1. (toServer' = toServer \/ toServer' = <<>>) /\ allWrites' = allWrites
    BY <1>7 DEF Retry, TokenFetched, TokenFailed, Disconnect, Kill, LoseConnection, idleQueues, caches
  <2> QED BY <1>s, <2>1
<1>8. CASE Ready
  <2> DEFINE r == RestoreState
             first == IF listens = 0 THEN 0 ELSE 1
             n == Cardinality(outstandingPuts)
  <2>1. /\ listens \in Nat /\ serverSnap \in Cache
        /\ toServer' = r /\ allWrites' = allWrites
    BY <1>8, <1>i DEF Ready, TypesOfPending, TypesOfCaches, idleQueues, caches
  <2>2. /\ n \in Nat /\ Len(r) = first + n
        /\ first = 1 => r[1].op = "listen"
        /\ \A i \in 1 .. n : \E k \in 1 .. Len(allWrites) : r[first + i].write = allWrites[k]
    BY <1>i, <2>1, RestoredMessages DEF ListenRequest
  <2>3. first \in {0, 1}
    OBVIOUS
  <2> HIDE DEF r, first, n
  <2>4. ASSUME NEW p \in 1 .. Len(r), r[p].op = "put" PROVE Has(allWrites, r[p].write)
    <3>1. p - first \in 1 .. n /\ first + (p - first) = p
      <4>1. first = 1 => p # 1
        BY <2>2, <2>4
      <4> QED BY <2>2, <2>3, <4>1
    <3> QED BY <2>2, <3>1 DEF Has
  <2> QED BY <2>1, <2>4 DEF KnownPuts, Has
<1>9. CASE Serving
  BY <1>9, <1>t DEF Serving, ServeListen, ServePut, ServeUnlisten
<1>10. CASE \E k \in Keys, value \in {Leaf, {}} : RemoteChange(k, value)
  BY <1>10, <1>s DEF RemoteChange, clientSide, caches
<1>11. CASE Deliver \/ User \/ UNCHANGED allVars
  BY <1>11, <1>s, ScreenApart DEF caches, connection
<1> QED
  BY <1>1, <1>2, <1>3, <1>4, <1>5, <1>6, <1>7, <1>8, <1>9, <1>10, <1>11
  DEF CommentsNext, DatabaseNext, Worker, Connecting

-----------------------------------------------------------------------------
(* The hashes of the listens *)

NoData == \A j \in 1 .. Len(toClient) : toClient[j].kind # "data"

\* A listen says what list its view has: none, unless it is the first message
\* of a connection, on which the view's list cannot change before its answer.
HashInv ==
    \A p \in 1 .. Len(toServer) :
        toServer[p].op = "listen" /\ toServer[p].hash # {} =>
            /\ p = 1 /\ ~watched /\ NoData
            /\ toServer[1].listen = listens /\ ~Sent(Tail(toServer), listens) =>
                 toServer[1].hash = serverSnap.node

LEMMA TailOfAppended ==
    ASSUME NEW S, NEW s \in Seq(S), s # <<>>, NEW e \in S
    PROVE  /\ Tail(Append(s, e)) = Append(Tail(s), e) /\ Tail(s) \in Seq(S)
           /\ Append(s, e)[1] = s[1]
<1> DEFINE t == Append(s, e)
           n == Len(s)
<1>1. /\ n \in Nat \ {0} /\ t \in Seq(S) /\ t # <<>> /\ Len(t) = n + 1 /\ t[n + 1] = e
      /\ \A j \in 1 .. n : t[j] = s[j]
  OBVIOUS
<1>2. Tail(s) \in Seq(S) /\ Len(Tail(s)) = n - 1 /\ \A j \in 1 .. n - 1 : Tail(s)[j] = s[j + 1]
  OBVIOUS
<1> HIDE DEF t
<1>3. Tail(t) \in Seq(S) /\ Len(Tail(t)) = n /\ \A j \in 1 .. n : Tail(t)[j] = t[j + 1]
  BY <1>1
<1> DEFINE a == Append(Tail(s), e)
<1>4. /\ a \in Seq(S) /\ Len(a) = n /\ a[n] = e
      /\ \A j \in 1 .. n - 1 : a[j] = Tail(s)[j]
  BY <1>1, <1>2
<1> HIDE DEF a
<1>5. \A j \in 1 .. n : Tail(t)[j] = a[j]
  <2> SUFFICES ASSUME NEW j \in 1 .. n PROVE Tail(t)[j] = a[j]
    OBVIOUS
  <2>1. CASE j = n
    BY <1>1, <1>3, <1>4, <2>1
  <2>2. CASE j # n
    <3>1. j \in 1 .. n - 1 /\ j + 1 \in 1 .. n
      BY <1>1, <2>2
    <3> QED BY <1>1, <1>2, <1>3, <1>4, <3>1
  <2> QED BY <2>1, <2>2
<1>6. Tail(t) = a
  BY <1>3, <1>4, <1>5, SeqEqual
<1> QED BY <1>1, <1>2, <1>6 DEF t, a

\* Nothing that is sent after the listen, and nothing else the client does,
\* changes what its hash says.
LEMMA HashesKept ==
    ASSUME ClientInv, HashInv, watched' = watched, NoData => NoData',
           \/ listens' = 0
           \/ listens' = listens /\ serverSnap'.node = serverSnap.node
           \/ \E r \in Requests : /\ toServer' = Append(toServer, r)
                                  /\ r.op = "listen" /\ r.listen = listens',
           \/ toServer' = toServer
           \/ \E r \in Requests : /\ toServer' = Append(toServer, r)
                                  /\ r.op = "listen" => r.hash = {}
    PROVE  HashInv'
<1>i. toServer \in Seq(Requests) /\ Len(toServer) \in Nat
  BY TypeParts, LenProperties DEF ClientInv, TypesOfLink
<1> SUFFICES ASSUME NEW p \in 1 .. Len(toServer'),
                    toServer'[p].op = "listen", toServer'[p].hash # {}
             PROVE  /\ p = 1 /\ ~watched' /\ NoData'
                    /\ toServer'[1].listen = listens' /\ ~Sent(Tail(toServer'), listens') =>
                         toServer'[1].hash = serverSnap'.node
  BY DEF HashInv
<1>1. p \in 1 .. Len(toServer) /\ toServer'[p] = toServer[p]
  <2>1. CASE toServer' = toServer
    BY <2>1
  <2>2. ASSUME NEW r \in Requests, toServer' = Append(toServer, r),
               r.op = "listen" => r.hash = {}
        PROVE  p \in 1 .. Len(toServer) /\ toServer'[p] = toServer[p]
    <3>1. /\ Len(toServer') = Len(toServer) + 1 /\ toServer'[Len(toServer) + 1] = r
          /\ \A j \in 1 .. Len(toServer) : toServer'[j] = toServer[j]
      BY <1>i, <2>2, AppendProperties
    <3>2. p # Len(toServer) + 1
      BY <2>2, <3>1
    <3> QED BY <1>i, <3>1, <3>2
  <2> QED BY <2>1, <2>2
<1>2. /\ p = 1 /\ ~watched /\ NoData
      /\ toServer[1].listen = listens /\ ~Sent(Tail(toServer), listens) =>
           toServer[1].hash = serverSnap.node
  BY <1>1 DEF HashInv
<1>3. /\ toServer[1].listen # 0 /\ toServer'[1] = toServer[1] /\ toServer # <<>>
  <2>1. toServer[p] \in Requests
    BY <1>i, <1>1, ElementOfSeq
  <2>2. toServer[1].listen # 0
    BY <1>1, <1>2, <2>1 DEF Requests, Screens
  <2>3. toServer # <<>>
    BY <1>1
  <2> QED BY <1>1, <1>2, <2>2, <2>3
<1>4. \A r \in Requests : \A l : toServer' = Append(toServer, r) =>
        (Sent(Tail(toServer'), l) <=>
            Sent(Tail(toServer), l) \/ (r.op = "listen" /\ r.listen = l))
  <2> SUFFICES ASSUME NEW r \in Requests, NEW l, toServer' = Append(toServer, r)
               PROVE  Sent(Tail(toServer'), l) <=>
                        Sent(Tail(toServer), l) \/ (r.op = "listen" /\ r.listen = l)
    OBVIOUS
  <2>1. Tail(toServer') = Append(Tail(toServer), r) /\ Tail(toServer) \in Seq(Requests)
    BY <1>i, <1>3, TailOfAppended
  <2>2. Sent(Append(Tail(toServer), r), l) <=>
          Sent(Tail(toServer), l) \/ (r.op = "listen" /\ r.listen = l)
    BY <2>1, SentAppended
  <2> QED BY <2>1, <2>2
<1>5. ASSUME toServer'[1].listen = listens', ~Sent(Tail(toServer'), listens')
      PROVE  toServer'[1].hash = serverSnap'.node
  <2>1. listens' = listens /\ serverSnap'.node = serverSnap.node
    BY <1>3, <1>4, <1>5
  <2>2. ~Sent(Tail(toServer), listens)
    BY <1>4, <1>5, <2>1
  <2> QED BY <1>2, <1>3, <1>5, <2>1, <2>2
<1> QED BY <1>2, <1>5

LEMMA NextHashInv == ClientInv /\ HashInv /\ [CommentsNext]_allVars => HashInv'
<1> SUFFICES ASSUME ClientInv, HashInv, [CommentsNext]_allVars PROVE HashInv'
  OBVIOUS
<1>i. /\ InputInv /\ WritesInv /\ TypesOfLink /\ TypesOfPending /\ TypesOfCaches /\ LinkInv
      /\ toServer \in Seq(Requests) /\ toClient \in Seq(Answers)
      /\ Len(toServer) \in Nat /\ Len(toClient) \in Nat
  BY TypeParts, LenProperties DEF ClientInv, TypesOfLink
<1>n. toClient' = toClient => (NoData => NoData')
  BY DEF NoData
<1>k. ASSUME UNCHANGED <<toServer, watched, listens, serverSnap>>, NoData => NoData'
      PROVE  HashInv'
  BY <1>k, HashesKept
<1>d. ASSUME NEW kind, Message(kind)
      PROVE  (NoData => NoData') /\ (NoData => kind # "data")
  <2>1. toClient # <<>> /\ Head(toClient).kind = kind /\ toClient' = Tail(toClient)
    BY <1>d DEF Message
  <2>2. \A j \in 1 .. Len(toClient') : j + 1 \in 1 .. Len(toClient) /\ toClient'[j] = toClient[j + 1]
    BY <1>i, <2>1
  <2>3. 1 \in 1 .. Len(toClient) /\ Head(toClient) = toClient[1]
    BY <1>i, <2>1
  <2> QED BY <2>1, <2>2, <2>3 DEF NoData
<1>1. CASE SetValue
  <2> DEFINE r == PutRequest([id |-> writeIdCounter, path |-> Head(work).path])
  <2>1. r \in Requests /\ r.op = "put"
    <3>1. [id |-> writeIdCounter, path |-> Head(work).path] \in Write
      BY <1>1, <1>i, JobTyped DEF SetValue, Write, TypesOfPending
    <3> QED BY <3>1, MessagesTyped DEF PutRequest
  <2>2. /\ toServer' = toServer \/ toServer' = Append(toServer, r)
        /\ UNCHANGED <<serverSnap, listens, toClient, watched>>
    BY <1>1 DEF SetValue, server
  <2> HIDE DEF r
  <2> QED BY <1>n, <2>1, <2>2, HashesKept
<1>2. CASE AddObserver
  <2> DEFINE s == Head(work).screen
             e == ListenRequest(s, NewServerSnap.node)
  <2>1. e \in Requests /\ e.op = "listen" /\ e.listen = s /\ e.hash = {}
    <3>1. s \in Screens /\ NewServerSnap.node \in Node
      BY <1>2, <1>i, JobTyped, NodeFacts DEF AddObserver, NewServerSnap
    <3> QED BY <3>1, MessagesTyped DEF ListenRequest, NewServerSnap
  <2>2. /\ listens' = s /\ toClient' = toClient /\ watched' = watched
        /\ toServer' = IF Connected THEN Append(toServer, e) ELSE toServer
    BY <1>2 DEF AddObserver, server
  <2> HIDE DEF s, e
  <2>3. CASE Connected
    BY <1>n, <2>1, <2>2, <2>3, HashesKept
  <2>4. CASE ~Connected
    <3>1. toServer' = <<>>
      BY <1>i, <2>2, <2>4 DEF LinkInv
    <3> QED BY <3>1 DEF HashInv
  <2> QED BY <2>3, <2>4
<1>3. CASE RemoveObserver
  <2>1. UnlistenRequest \in Requests /\ UnlistenRequest.op # "listen"
    BY MessagesTyped DEF UnlistenRequest
  <2>2. /\ toServer' = toServer \/ toServer' = Append(toServer, UnlistenRequest)
        /\ listens' = 0 \/ UNCHANGED <<listens, serverSnap>>
        /\ UNCHANGED <<toClient, watched>>
    BY <1>3 DEF RemoveObserver, server
  <2> QED BY <1>n, <2>1, <2>2, HashesKept
<1>4. CASE OnDataUpdate
  <2>1. Message("data") /\ UNCHANGED <<toServer, watched>>
    BY <1>4 DEF OnDataUpdate, server
  <2>2. ~NoData
    BY <1>d, <2>1
  <2>3. ASSUME NEW p \in 1 .. Len(toServer'), toServer'[p].op = "listen", toServer'[p].hash # {}
        PROVE  FALSE
    BY <2>1, <2>2, <2>3 DEF HashInv
  <2> QED BY <2>3 DEF HashInv
<1>5. CASE OnPutAnswer
  <2>1. Message("put") /\ UNCHANGED <<toServer, watched, listens>>
    BY <1>5 DEF OnPutAnswer, server
  <2>2. UNCHANGED serverSnap
    BY <1>5 DEF OnPutAnswer, caches, AckWrite
  <2> QED BY <1>d, <1>k, <2>1, <2>2
<1>6. CASE OnListenAnswer
  <2>1. Message("listen") /\ UNCHANGED <<toServer, watched>>
    BY <1>6 DEF OnListenAnswer, server
  <2>2. listens' = 0 \/ (listens' = listens /\ serverSnap'.node = serverSnap.node)
    BY <1>6, <1>i DEF OnListenAnswer, TypesOfCaches, Cache
  <2> QED BY <1>d, <2>1, <2>2, HashesKept
<1>7. CASE AckPuts
  BY <1>7, <1>k, <1>n DEF AckPuts, AckWrite, connection, server
<1>8. CASE Retry \/ TokenFetched \/ TokenFailed
  BY <1>8, <1>k, <1>n
  DEF Retry, TokenFetched, TokenFailed, idleQueues, caches, pending, server
<1>9. CASE Disconnect \/ Kill
  BY <1>9 DEF Disconnect, Kill, LoseConnection, HashInv
<1>10. CASE Ready
  <2> DEFINE r == RestoreState
             first == IF listens = 0 THEN 0 ELSE 1
             n == Cardinality(outstandingPuts)
  <2>1. /\ listens \in Nat /\ serverSnap \in Cache /\ toServer' = r
        /\ UNCHANGED <<listens, serverSnap, toClient, watched>>
        /\ ~watched /\ toClient = <<>>
    BY <1>10, <1>i
    DEF Ready, TypesOfPending, TypesOfCaches, idleQueues, caches, server, LinkInv, Connected
  <2>2. /\ n \in Nat /\ Len(r) = first + n
        /\ first = 1 => r[1] = ListenRequest(listens, serverSnap.node)
        /\ \A i \in 1 .. n : r[first + i].op = "put"
    BY <1>i, <2>1, RestoredMessages
  <2>3. first \in {0, 1}
    OBVIOUS
  <2>4. NoData'
    BY <2>1 DEF NoData
  <2> HIDE DEF r, first, n
  <2> SUFFICES ASSUME NEW p \in 1 .. Len(r), r[p].op = "listen"
               PROVE  p = 1 /\ r[1].hash = serverSnap.node
    BY <2>1, <2>4 DEF HashInv
  <2>5. ~(p - first \in 1 .. n)
    <3>1. p - first \in 1 .. n => first + (p - first) = p
      BY <2>3
    <3> QED BY <2>2, <3>1
  <2>6. p = 1 /\ first = 1
    BY <2>2, <2>3, <2>5
  <2> QED BY <2>2, <2>6 DEF ListenRequest
<1>11. CASE Serving
  <2>1. PICK op : Request(op)
    BY <1>11 DEF Serving, ServeListen, ServePut, ServeUnlisten
  <2>2. toServer' = Tail(toServer) /\ toServer # <<>>
    BY <2>1 DEF Request
  <2>3. \A p \in 1 .. Len(toServer') :
          p + 1 \in 1 .. Len(toServer) /\ toServer'[p] = toServer[p + 1] /\ p + 1 # 1
    BY <1>i, <2>2
  <2>4. ASSUME NEW p \in 1 .. Len(toServer'), toServer'[p].op = "listen", toServer'[p].hash # {}
        PROVE  FALSE
    BY <2>3, <2>4 DEF HashInv
  <2> QED BY <2>4 DEF HashInv
<1>12. ASSUME NEW k \in Keys, NEW value \in {Leaf, {}}, RemoteChange(k, value)
       PROVE  HashInv'
  <2>1. /\ UNCHANGED <<toServer, watched, listens, serverSnap>>
        /\ ~watched => toClient' = toClient
    BY <1>12 DEF RemoteChange, clientSide, caches, pending
  <2>2. CASE watched
    <3>1. ASSUME NEW p \in 1 .. Len(toServer'), toServer'[p].op = "listen", toServer'[p].hash # {}
          PROVE  FALSE
      BY <2>1, <2>2, <3>1 DEF HashInv
    <3> QED BY <3>1 DEF HashInv
  <2>3. CASE ~watched
    BY <1>k, <1>n, <2>1, <2>3
  <2> QED BY <2>2, <2>3
<1>13. CASE Deliver \/ User \/ UNCHANGED allVars
  BY <1>13, <1>k, <1>n, ScreenApart DEF caches, connection, pending, server
<1> QED
  BY <1>1, <1>2, <1>3, <1>4, <1>5, <1>6, <1>7, <1>8, <1>9, <1>10, <1>11, <1>12, <1>13
  DEF CommentsNext, DatabaseNext, Worker, Connecting

-----------------------------------------------------------------------------
(* The list on the server, while only this client changes it *)

Hashless == \A p \in 1 .. Len(toServer) : toServer[p].op = "listen" => toServer[p].hash = {}

\* A list that is still empty has never been told otherwise.
EmptyInv == data = {} => serverSnap.node = {} /\ NoData /\ Hashless

LEMMA NextEmptyInv ==
    ASSUME ClientInv, EmptyInv, [CommentsNext]_allVars, remote' = 0
    PROVE  EmptyInv'
<1>i. /\ InputInv /\ WritesInv /\ TypesOfLink /\ TypesOfPending /\ TypesOfCaches /\ LinkInv
      /\ toServer \in Seq(Requests) /\ toClient \in Seq(Answers)
      /\ Len(toServer) \in Nat /\ Len(toClient) \in Nat
      /\ data \in Node /\ remote \in Nat /\ serverSnap \in Cache
  BY TypeParts, LenProperties DEF ClientInv, TypesOfLink, TypesOfCaches
<1>u. \A path \in Paths, node \in Node : UpdateChild(node, path, Leaf) # {}
  <2> SUFFICES ASSUME NEW path \in Paths, NEW node \in Node
               PROVE  UpdateChild(node, path, Leaf) # {}
    OBVIOUS
  <2>1. Leaf # {}
    BY LeafAssumption
  <2>2. CASE path = Top
    BY <2>1, <2>2 DEF UpdateChild
  <2>3. CASE path # Top
    BY <2>1, <2>3 DEF UpdateChild
  <2> QED BY <2>2, <2>3
<1>r. ~\E k \in Keys, value \in {Leaf, {}} : RemoteChange(k, value)
  BY <1>i DEF RemoteChange
<1> SUFFICES ASSUME data' = {} PROVE serverSnap'.node = {} /\ NoData' /\ Hashless'
  BY DEF EmptyInv
<1>p. ASSUME NEW ok \in BOOLEAN, ServePut(ok) PROVE data' = data
  <2>1. Head(toServer).write \in Write
    BY <1>p, <1>i, PutServed
  <2>2. Head(toServer).write.path \in Paths
    BY <2>1 DEF Write
  <2> QED BY <1>p, <1>i, <1>u, <2>2 DEF ServePut
<1>q. \/ data' = data \/ \E ok \in BOOLEAN : ServePut(ok)
  <2>1. CASE Worker
    BY <2>1
    DEF Worker, SetValue, AddObserver, RemoveObserver, OnDataUpdate, OnPutAnswer,
        OnListenAnswer, AckPuts, server
  <2>2. CASE Connecting \/ TokenFailed \/ Disconnect \/ Kill
    BY <2>2 DEF Connecting, Retry, TokenFetched, Ready, TokenFailed, Disconnect, Kill, LoseConnection, server
  <2>3. CASE Serving
    BY <2>3 DEF Serving, ServeListen, ServeUnlisten
  <2>4. CASE Deliver \/ User \/ UNCHANGED allVars
    BY <2>4, ScreenApart DEF server
  <2> QED BY <1>r, <2>1, <2>2, <2>3, <2>4 DEF CommentsNext, DatabaseNext
<1>0. data = {} /\ serverSnap.node = {} /\ NoData /\ Hashless
  BY <1>p, <1>q DEF EmptyInv
<1>h. ASSUME \/ toServer' = toServer
             \/ \E r \in Requests : /\ toServer' = Append(toServer, r)
                                    /\ r.op = "listen" => r.hash = {}
             \/ toServer' = <<>>
             \/ toServer # <<>> /\ toServer' = Tail(toServer)
      PROVE  Hashless'
  <2>1. CASE toServer' = toServer \/ toServer' = <<>>
    BY <1>0, <2>1 DEF Hashless
  <2>2. CASE toServer # <<>> /\ toServer' = Tail(toServer)
    <3>1. \A p \in 1 .. Len(toServer') :
            p + 1 \in 1 .. Len(toServer) /\ toServer'[p] = toServer[p + 1]
      BY <1>i, <2>2
    <3> QED BY <1>0, <3>1 DEF Hashless
  <2>3. ASSUME NEW r \in Requests, toServer' = Append(toServer, r),
               r.op = "listen" => r.hash = {}
        PROVE  Hashless'
    <3>1. /\ Len(toServer') = Len(toServer) + 1 /\ toServer'[Len(toServer) + 1] = r
          /\ \A j \in 1 .. Len(toServer) : toServer'[j] = toServer[j]
      BY <1>i, <2>3, AppendProperties
    <3>2. \A p \in 1 .. Len(toServer') : p \in 1 .. Len(toServer) \/ p = Len(toServer) + 1
      BY <1>i, <3>1
    <3> QED BY <1>0, <2>3, <3>1, <3>2 DEF Hashless
  <2> QED BY <1>h, <2>1, <2>2, <2>3
<1>d. ASSUME \/ toClient' = toClient
             \/ \E a \in Answers : toClient' = Append(toClient, a) /\ a.kind # "data"
             \/ toClient' = <<>>
             \/ \E kind : Message(kind)
      PROVE  NoData'
  <2>1. CASE toClient' = toClient \/ toClient' = <<>>
    BY <1>0, <2>1 DEF NoData
  <2>2. CASE \E kind : Message(kind)
    <3>1. toClient # <<>> /\ toClient' = Tail(toClient)
      BY <2>2 DEF Message
    <3>2. \A j \in 1 .. Len(toClient') :
            j + 1 \in 1 .. Len(toClient) /\ toClient'[j] = toClient[j + 1]
      BY <1>i, <3>1
    <3> QED BY <1>0, <3>2 DEF NoData
  <2>3. ASSUME NEW a \in Answers, toClient' = Append(toClient, a), a.kind # "data"
        PROVE  NoData'
    <3>1. /\ Len(toClient') = Len(toClient) + 1 /\ toClient'[Len(toClient) + 1] = a
          /\ \A j \in 1 .. Len(toClient) : toClient'[j] = toClient[j]
      BY <1>i, <2>3, AppendProperties
    <3>2. \A j \in 1 .. Len(toClient') : j \in 1 .. Len(toClient) \/ j = Len(toClient) + 1
      BY <1>i, <3>1
    <3> QED BY <1>0, <2>3, <3>1, <3>2 DEF NoData
  <2> QED BY <1>d, <2>1, <2>2, <2>3
<1>s. serverSnap' = NewServerSnap => serverSnap'.node = {}
  BY DEF NewServerSnap
<1>1. CASE SetValue
  <2> DEFINE r == PutRequest([id |-> writeIdCounter, path |-> Head(work).path])
  <2>1. r \in Requests /\ r.op = "put"
    <3>1. [id |-> writeIdCounter, path |-> Head(work).path] \in Write
      BY <1>1, <1>i, JobTyped DEF SetValue, Write, TypesOfPending
    <3> QED BY <3>1, MessagesTyped DEF PutRequest
  <2>2. /\ toServer' = toServer \/ toServer' = Append(toServer, r)
        /\ UNCHANGED <<serverSnap, toClient>>
    BY <1>1 DEF SetValue
  <2> HIDE DEF r
  <2> QED BY <1>0, <1>d, <1>h, <2>1, <2>2
<1>2. CASE AddObserver
  <2> DEFINE s == Head(work).screen
             e == ListenRequest(s, NewServerSnap.node)
  <2>1. e \in Requests /\ e.hash = {}
    <3>1. s \in Screens /\ NewServerSnap.node \in Node
      BY <1>2, <1>i, JobTyped, NodeFacts DEF AddObserver, NewServerSnap
    <3> QED BY <3>1, MessagesTyped DEF ListenRequest, NewServerSnap
  <2>2. /\ serverSnap' = NewServerSnap /\ toClient' = toClient
        /\ toServer' = toServer \/ toServer' = Append(toServer, e)
    BY <1>2 DEF AddObserver
  <2> HIDE DEF s, e
  <2> QED BY <1>d, <1>h, <1>s, <2>1, <2>2
<1>3. CASE RemoveObserver
  <2>1. UnlistenRequest \in Requests /\ UnlistenRequest.op # "listen"
    BY MessagesTyped DEF UnlistenRequest
  <2>2. /\ toServer' = toServer \/ toServer' = Append(toServer, UnlistenRequest)
        /\ serverSnap' = NewServerSnap \/ serverSnap' = serverSnap
        /\ toClient' = toClient
    BY <1>3 DEF RemoveObserver
  <2> QED BY <1>0, <1>d, <1>h, <1>s, <2>1, <2>2
<1>4. CASE OnDataUpdate
  <2>1. toClient # <<>> /\ Head(toClient).kind = "data"
    BY <1>4 DEF OnDataUpdate, Message
  <2>2. 1 \in 1 .. Len(toClient) /\ Head(toClient) = toClient[1]
    BY <1>i, <2>1
  <2> QED BY <1>0, <2>1, <2>2 DEF NoData
<1>5. CASE OnPutAnswer
  <2>1. Message("put") /\ UNCHANGED <<toServer, serverSnap>>
    BY <1>5 DEF OnPutAnswer, caches, AckWrite
  <2> QED BY <1>0, <1>d, <1>h, <2>1
<1>6. CASE OnListenAnswer
  <2>1. Message("listen") /\ UNCHANGED toServer
    BY <1>6 DEF OnListenAnswer
  <2>2. serverSnap' = NewServerSnap \/ serverSnap'.node = serverSnap.node
    BY <1>6, <1>i DEF OnListenAnswer, Cache
  <2> QED BY <1>0, <1>d, <1>h, <1>s, <2>1, <2>2
<1>7. CASE AckPuts
  BY <1>0, <1>7, <1>d, <1>h DEF AckPuts, AckWrite, connection
<1>8. CASE Retry \/ TokenFetched \/ TokenFailed \/ Disconnect \/ Kill
  BY <1>0, <1>8, <1>d, <1>h
  DEF Retry, TokenFetched, TokenFailed, Disconnect, Kill, LoseConnection, idleQueues, caches
<1>9. CASE Ready
  <2> DEFINE r == RestoreState
             first == IF listens = 0 THEN 0 ELSE 1
             n == Cardinality(outstandingPuts)
  <2>1. /\ listens \in Nat /\ toServer' = r /\ UNCHANGED <<serverSnap, toClient>>
    BY <1>9, <1>i DEF Ready, TypesOfPending, idleQueues, caches
  <2>2. /\ n \in Nat /\ Len(r) = first + n
        /\ first = 1 => r[1] = ListenRequest(listens, serverSnap.node)
        /\ \A i \in 1 .. n : r[first + i].op = "put"
    BY <1>i, <2>1, RestoredMessages
  <2>3. first \in {0, 1}
    OBVIOUS
  <2> HIDE DEF r, first, n
  <2>4. ASSUME NEW p \in 1 .. Len(r), r[p].op = "listen" PROVE r[p].hash = {}
    <3>1. ~(p - first \in 1 .. n)
      <4>1. p - first \in 1 .. n => first + (p - first) = p
        BY <2>3
      <4> QED BY <2>2, <2>4, <4>1
    <3>2. p = 1 /\ first = 1
      BY <2>2, <2>3, <3>1
    <3> QED BY <1>0, <2>2, <3>2 DEF ListenRequest
  <2>5. Hashless'
    BY <2>1, <2>4 DEF Hashless
  <2> QED BY <1>0, <1>d, <2>1, <2>5
<1>10. ASSUME NEW ok \in BOOLEAN, ServeListen(ok)
       PROVE  serverSnap'.node = {} /\ NoData' /\ Hashless'
  <2> DEFINE r == Head(toServer)
             a == ListenAnswer(r.listen, ok)
  <2>1. /\ toServer # <<>> /\ toServer' = Tail(toServer) /\ serverSnap' = serverSnap
        /\ r.op = "listen"
    BY <1>10 DEF ServeListen, Request, clientSide, caches
  <2>2. r.hash = data
    <3>1. 1 \in 1 .. Len(toServer) /\ r = toServer[1]
      BY <1>i, <2>1
    <3> QED BY <1>0, <2>1, <3>1 DEF Hashless
  <2>3. toClient' = Append(toClient, a) /\ a \in Answers
    BY <1>10, <1>i, <2>2, ListenServed
  <2>4. a.kind # "data"
    BY DEF ListenAnswer
  <2> HIDE DEF a
  <2> QED BY <1>0, <1>d, <1>h, <2>1, <2>3, <2>4
<1>11. ASSUME NEW ok \in BOOLEAN, ServePut(ok)
       PROVE  serverSnap'.node = {} /\ NoData' /\ Hashless'
  <2> DEFINE a == PutAnswer(Head(toServer).write.id, ok)
  <2>1. toServer # <<>> /\ toServer' = Tail(toServer) /\ serverSnap' = serverSnap
    BY <1>11 DEF ServePut, Request, clientSide, caches
  <2>2. toClient' = Append(toClient, a) /\ a \in Answers
    BY <1>11, <1>i, <1>p, PutServed
  <2>3. a.kind # "data"
    BY DEF PutAnswer
  <2> HIDE DEF a
  <2> QED BY <1>0, <1>d, <1>h, <2>1, <2>2, <2>3
<1>12. CASE ServeUnlisten
  BY <1>0, <1>12, <1>d, <1>h DEF ServeUnlisten, Request, clientSide, caches
<1>13. CASE Deliver \/ User \/ UNCHANGED allVars
  <2>1. UNCHANGED <<serverSnap, toServer, toClient>>
    BY <1>13, ScreenApart DEF caches, connection
  <2> QED BY <1>0, <1>d, <1>h, <2>1
<1> QED
  BY <1>1, <1>2, <1>3, <1>4, <1>5, <1>6, <1>7, <1>8, <1>9, <1>10, <1>11, <1>12, <1>13, <1>r
  DEF CommentsNext, DatabaseNext, Worker, Connecting, Serving

\* The server's list shows every write it has accepted and the client has not
\* settled, as far as the later ones let it.
AcceptInv ==
    \A i \in 0 .. Len(toClient), n \in Nat :
        Accepts(putsToAck, toClient, i, n) => Kept(allWrites, n, data)

\* An accepted write is pending, and older than the puts not answered yet.
LEMMA AcceptedPending ==
    ASSUME ClientInv, OrderInv, NEW i \in 0 .. Len(toClient), NEW n \in Nat,
           Accepts(putsToAck, toClient, i, n)
    PROVE  n \in Ids(allWrites) /\ n < writeIdCounter /\ \A m \in Asked : n < m
<1>i. /\ WritesInv /\ LinkInv /\ TypesOfLink /\ toClient \in Seq(Answers)
      /\ \A h \in Ids(putsToAck), m \in outstandingPuts : h < m
      /\ Connected => PutsUnderWay
  BY TypeParts DEF ClientInv, TypesOfLink, OrderInv
<1>c. ~Connected => Asked = {} /\ toClient = <<>>
  BY <1>i DEF LinkInv, Asked, Carried, Places
<1>1. CASE i = 0
  <2>1. n \in Ids(putsToAck)
    BY <1>1 DEF Accepts, Ids
  <2>2. Asked \subseteq outstandingPuts
    BY <1>i, <1>c DEF PutsUnderWay
  <2> QED BY <1>i, <2>1, <2>2 DEF WritesInv
<1>2. CASE i # 0
  <2>1. i \in 1 .. Len(toClient) /\ toClient[i].kind = "put" /\ toClient[i].id = n
    BY <1>2 DEF Accepts
  <2>2. toClient[i] \in Answers
    BY <1>i, <2>1, ElementOfSeq
  <2>3. toClient[i] \in PutAnswers /\ AnswerId[toClient[i]] = n
    BY <2>1, <2>2 DEF Answers, PutAnswers, AnswerId
  <2>4. n \in Answered
    BY <2>1, <2>3 DEF Answered, Carried, Places
  <2>5. Connected
    BY <1>c, <2>1
  <2> QED BY <1>i, <2>4, <2>5 DEF PutsUnderWay, WritesInv
<1> QED BY <1>1, <1>2

LEMMA AcceptsTaken ==
    ASSUME NEW held, NEW kept, NEW ans \in Seq(Answers), ans # <<>>,
           \A id \in Nat : Accepts(kept, ans, 0, id) =>
               Accepts(held, ans, 0, id) \/ Accepts(held, ans, 1, id),
           NEW i \in 0 .. Len(Tail(ans)), NEW id \in Nat, Accepts(kept, Tail(ans), i, id)
    PROVE  \E k \in 0 .. Len(ans) : Accepts(held, ans, k, id)
<1>1. /\ Len(ans) \in Nat \ {0} /\ Len(Tail(ans)) = Len(ans) - 1
      /\ \A j \in 1 .. Len(ans) - 1 : Tail(ans)[j] = ans[j + 1]
  OBVIOUS
<1>2. CASE i = 0
  <2>1. Accepts(kept, ans, 0, id) /\ 0 \in 0 .. Len(ans) /\ 1 \in 0 .. Len(ans)
    BY <1>1, <1>2 DEF Accepts
  <2> QED BY <2>1
<1>3. CASE i # 0
  <2>1. i \in 1 .. Len(ans) - 1 /\ i + 1 \in 0 .. Len(ans) /\ i + 1 # 0
    BY <1>1, <1>3
  <2> QED BY <1>1, <1>3, <2>1 DEF Accepts
<1> QED BY <1>2, <1>3

LEMMA AcceptsAppended ==
    ASSUME NEW held, NEW ans \in Seq(Answers), NEW m \in Answers,
           NEW i \in 0 .. Len(Append(ans, m)), NEW id \in Nat, Accepts(held, Append(ans, m), i, id)
    PROVE  \/ i \in 0 .. Len(ans) /\ Accepts(held, ans, i, id)
           \/ m.kind = "put" /\ m.id = id /\ m.ok
<1>1. /\ Len(ans) \in Nat /\ Len(Append(ans, m)) = Len(ans) + 1
      /\ Append(ans, m)[Len(ans) + 1] = m
      /\ \A j \in 1 .. Len(ans) : Append(ans, m)[j] = ans[j]
  BY AppendProperties, LenProperties
<1>2. CASE i = Len(ans) + 1
  BY <1>1, <1>2 DEF Accepts
<1>3. CASE i # Len(ans) + 1
  <2>1. i \in 0 .. Len(ans) /\ (i # 0 => i \in 1 .. Len(ans))
    BY <1>1, <1>3
  <2> QED BY <1>1, <2>1 DEF Accepts
<1> QED BY <1>2, <1>3

\* What settling a write or holding its answer back does to the accepted ones.
LEMMA AcceptsSettled ==
    ASSUME ClientInv, OrderInv, ~Stranded, AckPuts \/ OnPutAnswer
    PROVE  /\ \A n \in Nat : \A node : Kept(allWrites, n, node) => Kept(allWrites', n, node)
           /\ AckPuts => /\ toClient' = toClient
                         /\ \A n \in Nat : \A ans : Accepts(putsToAck', ans, 0, n) =>
                              Accepts(putsToAck, ans, 0, n)
           /\ OnPutAnswer => /\ toClient # <<>> /\ toClient' = Tail(toClient)
                             /\ \A n \in Nat : Accepts(putsToAck', toClient, 0, n) =>
                                  \/ Accepts(putsToAck, toClient, 0, n)
                                  \/ Accepts(putsToAck, toClient, 1, n)
<1>i. /\ WritesInv /\ TypesOfLink /\ allWrites \in Seq(Write) /\ InIdOrder(allWrites)
      /\ toClient \in Seq(Answers)
  BY TypeParts DEF ClientInv, WritesInv, OrderInv, TypesOfLink
<1>1. ASSUME NEW n \in Nat, NEW node, Kept(allWrites, n, node)
      PROVE  Kept(allWrites', n, node)
  BY <1>i, <1>1, AckTakesOldest, KeptOfTail
<1>2. ASSUME AckPuts
      PROVE  /\ toClient' = toClient
             /\ \A n \in Nat : \A ans : Accepts(putsToAck', ans, 0, n) => Accepts(putsToAck, ans, 0, n)
  <2>1. putsToAck' = Tail(putsToAck) /\ putsToAck # <<>> /\ toClient' = toClient
    BY <1>2, <1>i DEF AckPuts, WritesInv, connection
  <2>2. PICK S : putsToAck \in Seq(S)
    BY <1>i DEF WritesInv, IsSequence
  <2>3. \A k \in 1 .. Len(putsToAck') :
          k + 1 \in 1 .. Len(putsToAck) /\ putsToAck'[k] = putsToAck[k + 1]
    BY <2>1, <2>2
  <2> QED BY <2>1, <2>3 DEF Accepts
<1>3. ASSUME OnPutAnswer
      PROVE  /\ toClient # <<>> /\ toClient' = Tail(toClient)
             /\ \A n \in Nat : Accepts(putsToAck', toClient, 0, n) =>
                  \/ Accepts(putsToAck, toClient, 0, n)
                  \/ Accepts(putsToAck, toClient, 1, n)
  <2> DEFINE m == Head(toClient)
             e == [id |-> m.id, ok |-> m.ok]
  <2>1. toClient # <<>> /\ m.kind = "put" /\ toClient' = Tail(toClient)
    BY <1>3 DEF OnPutAnswer, Message
  <2>2. m = toClient[1]
    BY <1>i, <2>1
  <2>3. putsToAck' = putsToAck \/ putsToAck' = Append(putsToAck, e)
    BY <1>3 DEF OnPutAnswer
  <2>4. ASSUME NEW n \in Nat, Accepts(putsToAck', toClient, 0, n)
        PROVE  Accepts(putsToAck, toClient, 0, n) \/ Accepts(putsToAck, toClient, 1, n)
    <3>1. CASE putsToAck' = putsToAck
      BY <2>4, <3>1
    <3>2. CASE putsToAck' = Append(putsToAck, e)
      <4>e. e.id = m.id /\ e.ok = m.ok
        OBVIOUS
      <4> DEFINE H == [id : Nat, ok : BOOLEAN]
      <4>h. putsToAck \in Seq(H) /\ e \in H
        <5>1. m \in Answers
          BY <1>i, <2>1
        <5>2. m.id \in Nat /\ m.ok \in BOOLEAN
          BY <2>1, <5>1 DEF Answers
        <5> QED BY <5>2 DEF ClientInv, RTypeOK
      <4> HIDE DEF e, m, H
      <4>1. /\ Len(putsToAck') = Len(putsToAck) + 1 /\ putsToAck'[Len(putsToAck) + 1] = e
            /\ \A k \in 1 .. Len(putsToAck) : putsToAck'[k] = putsToAck[k]
            /\ Len(putsToAck) \in Nat
        BY <3>2, <4>h, AppendProperties, LenProperties
      <4>2. PICK k \in 1 .. Len(putsToAck') : putsToAck'[k].id = n /\ putsToAck'[k].ok
        BY <2>4 DEF Accepts
      <4>3. CASE k = Len(putsToAck) + 1
        BY <2>1, <2>2, <4>1, <4>2, <4>3, <4>e DEF Accepts
      <4>4. CASE k # Len(putsToAck) + 1
        <5>1. k \in 1 .. Len(putsToAck)
          BY <4>1, <4>4
        <5> QED BY <4>1, <4>2, <5>1 DEF Accepts
      <4> QED BY <4>3, <4>4
    <3> QED BY <2>3, <3>1, <3>2
  <2> QED BY <2>1, <2>4
<1> QED BY <1>1, <1>2, <1>3

\* The server serves the oldest put: what it has accepted before stays visible,
\* and the put's own write becomes so.
LEMMA PutShows ==
    ASSUME ClientInv, OrderInv, KnownPuts, AcceptInv, NEW ok \in BOOLEAN, ServePut(ok)
    PROVE  /\ \A i \in 0 .. Len(toClient), n \in Nat :
                Accepts(putsToAck, toClient, i, n) => Kept(allWrites, n, data')
           /\ ok => Kept(allWrites, Head(toServer).write.id, data')
<1> DEFINE w == Head(toServer).write
<1>i. /\ WritesInv /\ TypesOfLink /\ toServer \in Seq(Requests) /\ data \in Node
      /\ Distinct(allWrites) /\ allWrites \in Seq(Write)
  BY TypeParts DEF ClientInv, TypesOfLink, WritesInv
<1>1. /\ toServer # <<>> /\ Head(toServer).op = "put"
      /\ data' = IF ok THEN UpdateChild(data, w.path, Leaf) ELSE data
  BY DEF ServePut, Request
<1>2. 1 \in 1 .. Len(toServer) /\ Head(toServer) = toServer[1]
  BY <1>i, <1>1
<1>3. w.id \in Asked
  BY <1>i, <1>1, <1>2, AskedIs
<1>4. PICK k \in 1 .. Len(allWrites) : allWrites[k] = w
  BY <1>1, <1>2 DEF KnownPuts
<1> HIDE DEF w
<1>5. CASE ok
  <2>1. /\ data' = UpdateChild(data, allWrites[k].path, Leaf)
        /\ Kept(allWrites, w.id, data')
        /\ \A n \in Nat : n < w.id /\ Kept(allWrites, n, data) => Kept(allWrites, n, data')
    BY <1>1, <1>4, <1>5, <1>i, KeptWhenServed
  <2> SUFFICES ASSUME NEW i \in 0 .. Len(toClient), NEW n \in Nat,
                      Accepts(putsToAck, toClient, i, n)
               PROVE  Kept(allWrites, n, data')
    BY <2>1 DEF w
  <2>2. n < w.id
    BY <1>3, AcceptedPending
  <2>3. Kept(allWrites, n, data)
    BY DEF AcceptInv
  <2> QED BY <2>1, <2>2, <2>3
<1>6. CASE ~ok
  BY <1>1, <1>6 DEF AcceptInv
<1> QED BY <1>5, <1>6

LEMMA NextAcceptInv ==
    ASSUME ClientInv, OrderInv, KnownPuts, AcceptInv, ~Stranded,
           [CommentsNext]_allVars, remote' = 0
    PROVE  AcceptInv'
<1>i. /\ InputInv /\ WritesInv /\ TypesOfLink /\ TypesOfPending /\ TypesOfCaches /\ LinkInv
      /\ toServer \in Seq(Requests) /\ toClient \in Seq(Answers)
      /\ Len(toClient) \in Nat /\ data \in Node /\ remote \in Nat /\ allWrites \in Seq(Write)
  BY TypeParts, LenProperties DEF ClientInv, TypesOfLink, TypesOfCaches
<1>r. ~\E k \in Keys, value \in {Leaf, {}} : RemoteChange(k, value)
  BY <1>i DEF RemoteChange
<1>k. ASSUME UNCHANGED <<allWrites, putsToAck, toClient, data>> PROVE AcceptInv'
  BY <1>k DEF AcceptInv
<1>t. ASSUME toClient # <<>>, toClient' = Tail(toClient), data' = data,
             \A n \in Nat : Kept(allWrites, n, data) => Kept(allWrites', n, data),
             \A n \in Nat : Accepts(putsToAck', toClient, 0, n) =>
                 Accepts(putsToAck, toClient, 0, n) \/ Accepts(putsToAck, toClient, 1, n)
      PROVE  AcceptInv'
  <2> SUFFICES ASSUME NEW i \in 0 .. Len(toClient'), NEW n \in Nat,
                      Accepts(putsToAck', toClient', i, n)
               PROVE  Kept(allWrites', n, data')
    BY DEF AcceptInv
  <2>1. \E k \in 0 .. Len(toClient) : Accepts(putsToAck, toClient, k, n)
    BY <1>i, <1>t, AcceptsTaken
  <2> QED BY <1>t, <2>1 DEF AcceptInv
<1>1. CASE SetValue
  <2> DEFINE w == [id |-> writeIdCounter, path |-> Head(work).path]
  <2>1. w \in Write /\ w.id = writeIdCounter
    BY <1>1, <1>i, JobTyped DEF SetValue, Write, TypesOfPending
  <2>2. allWrites' = Append(allWrites, w) /\ UNCHANGED <<putsToAck, toClient, data>>
    BY <1>1 DEF SetValue, server
  <2> HIDE DEF w
  <2> SUFFICES ASSUME NEW i \in 0 .. Len(toClient), NEW n \in Nat,
                      Accepts(putsToAck, toClient, i, n)
               PROVE  Kept(allWrites', n, data)
    BY <2>2 DEF AcceptInv
  <2>3. n # w.id
    <3>1. n < writeIdCounter
      BY AcceptedPending
    <3> QED BY <1>i, <2>1, <3>1 DEF TypesOfPending
  <2>4. Kept(allWrites, n, data)
    BY DEF AcceptInv
  <2> QED BY <1>i, <2>1, <2>2, <2>3, <2>4, KeptAppended
<1>2. CASE AddObserver \/ RemoveObserver
  BY <1>2, <1>k DEF AddObserver, RemoveObserver, server
<1>3. CASE OnDataUpdate \/ OnListenAnswer
  <2>1. /\ toClient # <<>> /\ toClient' = Tail(toClient)
        /\ UNCHANGED <<allWrites, putsToAck, data>>
    BY <1>3 DEF OnDataUpdate, OnListenAnswer, Message, pending, server
  <2> QED BY <1>t, <2>1
<1>4. CASE OnPutAnswer
  <2>1. data' = data
    BY <1>4 DEF OnPutAnswer, server
  <2> QED BY <1>4, <1>t, <2>1, AcceptsSettled
<1>5. CASE AckPuts
  <2>1. data' = data
    BY <1>5 DEF AckPuts, server
  <2>2. /\ toClient' = toClient
        /\ \A n \in Nat : \A ans : Accepts(putsToAck', ans, 0, n) => Accepts(putsToAck, ans, 0, n)
        /\ \A n \in Nat : Kept(allWrites, n, data) => Kept(allWrites', n, data)
    BY <1>5, AcceptsSettled
  <2> SUFFICES ASSUME NEW i \in 0 .. Len(toClient), NEW n \in Nat,
                      Accepts(putsToAck', toClient, i, n)
               PROVE  Kept(allWrites', n, data)
    BY <2>1, <2>2 DEF AcceptInv
  <2>3. Accepts(putsToAck, toClient, i, n)
    BY <2>2 DEF Accepts
  <2> QED BY <2>2, <2>3 DEF AcceptInv
<1>6. CASE Connecting \/ TokenFailed
  BY <1>6, <1>k
  DEF Connecting, Retry, TokenFetched, Ready, TokenFailed, idleQueues, caches, pending, server
<1>7. CASE Disconnect \/ Kill
  <2>1. toClient' = <<>> /\ UNCHANGED <<allWrites, putsToAck, data>>
    BY <1>7 DEF Disconnect, Kill, LoseConnection, idleQueues, caches
  <2> SUFFICES ASSUME NEW n \in Nat, Accepts(putsToAck, <<>>, 0, n)
               PROVE  Kept(allWrites, n, data)
    BY <2>1 DEF AcceptInv
  <2>2. Accepts(putsToAck, toClient, 0, n) /\ 0 \in 0 .. Len(toClient)
    BY <1>i DEF Accepts
  <2> QED BY <2>2 DEF AcceptInv
<1>8. ASSUME NEW ok \in BOOLEAN, ServeListen(ok) PROVE AcceptInv'
  <2> DEFINE r == Head(toServer)
             u == Update(Top, data)
             told == IF ok /\ r.hash # data THEN Append(toClient, u) ELSE toClient
             a == ListenAnswer(r.listen, ok)
  <2>1. told \in Seq(Answers) /\ toClient' = Append(told, a) /\ a \in Answers
    BY <1>8, <1>i, ListenServed
  <2>2. u \in Answers /\ u.kind # "put" /\ a.kind # "put"
    BY <1>i, MessagesTyped DEF Update, ListenAnswer, Paths
  <2>3. UNCHANGED <<allWrites, putsToAck, data>>
    BY <1>8 DEF ServeListen, Request, clientSide, caches, pending
  <2> HIDE DEF r, u, a
  <2> SUFFICES ASSUME NEW i \in 0 .. Len(Append(told, a)), NEW n \in Nat,
                      Accepts(putsToAck, Append(told, a), i, n)
               PROVE  Kept(allWrites, n, data)
    BY <2>1, <2>3 DEF AcceptInv
  <2>4. i \in 0 .. Len(told) /\ Accepts(putsToAck, told, i, n)
    <3> HIDE DEF told
    <3> QED BY <2>1, <2>2, AcceptsAppended
  <2>5. i \in 0 .. Len(toClient) /\ Accepts(putsToAck, toClient, i, n)
    <3>1. CASE told = toClient
      BY <2>4, <3>1
    <3>2. CASE told = Append(toClient, u)
      BY <1>i, <2>2, <2>4, <3>2, AcceptsAppended
    <3> QED BY <3>1, <3>2
  <2> QED BY <2>5 DEF AcceptInv
<1>9. ASSUME NEW ok \in BOOLEAN, ServePut(ok) PROVE AcceptInv'
  <2> DEFINE w == Head(toServer).write
             u == Update(w.path, Leaf)
             new == IF ok THEN UpdateChild(data, w.path, Leaf) ELSE data
             told == IF watched /\ new # data THEN Append(toClient, u) ELSE toClient
             a == PutAnswer(w.id, ok)
  <2>1. /\ w \in Write /\ told \in Seq(Answers) /\ toClient' = Append(told, a)
        /\ a \in Answers
    BY <1>9, <1>i, PutServed
  <2>2. u \in Answers /\ u.kind # "put" /\ a.id = w.id /\ a.ok = ok
    BY <2>1, MessagesTyped, NodeFacts DEF Write, Update, PutAnswer
  <2>3. UNCHANGED <<allWrites, putsToAck>>
    BY <1>9 DEF ServePut, Request, clientSide, caches, pending
  <2>4. /\ \A i \in 0 .. Len(toClient), n \in Nat :
             Accepts(putsToAck, toClient, i, n) => Kept(allWrites, n, data')
        /\ ok => Kept(allWrites, w.id, data')
    BY <1>9, PutShows
  <2> HIDE DEF w, u, new, a
  <2> SUFFICES ASSUME NEW i \in 0 .. Len(Append(told, a)), NEW n \in Nat,
                      Accepts(putsToAck, Append(told, a), i, n)
               PROVE  Kept(allWrites, n, data')
    BY <2>1, <2>3 DEF AcceptInv
  <2>5. CASE a.id = n /\ a.ok
    BY <2>2, <2>4, <2>5
  <2>6. CASE ~(a.id = n /\ a.ok)
    <3>1. i \in 0 .. Len(told) /\ Accepts(putsToAck, told, i, n)
      <4> HIDE DEF told
      <4> QED BY <2>1, <2>6, AcceptsAppended
    <3>2. i \in 0 .. Len(toClient) /\ Accepts(putsToAck, toClient, i, n)
      <4>1. CASE told = toClient
        BY <3>1, <4>1
      <4>2. CASE told = Append(toClient, u)
        BY <1>i, <2>2, <3>1, <4>2, AcceptsAppended
      <4> QED BY <4>1, <4>2
    <3> QED BY <2>4, <3>2
  <2> QED BY <2>5, <2>6
<1>10. CASE ServeUnlisten
  BY <1>10, <1>k DEF ServeUnlisten, Request, clientSide, caches, pending
<1>11. CASE Deliver \/ User \/ UNCHANGED allVars
  BY <1>11, <1>k, ScreenApart DEF caches, connection, pending, server
<1> QED
  BY <1>1, <1>2, <1>3, <1>4, <1>5, <1>6, <1>7, <1>8, <1>9, <1>10, <1>11, <1>r
  DEF CommentsNext, DatabaseNext, Worker, Serving

-----------------------------------------------------------------------------
(* What the client will be told *)

Watching == Connected /\ view # 0 /\ watched /\ ~Sent(toServer, listens)

\* Once the server watches for the view's listen, the client will be told all
\* of the list, and of each accepted write before it hears that it is accepted.
HearInv ==
    Watching =>
        \E b, h : Tracked(allWrites, putsToAck, toClient, listens, serverSnap.node, data, b, h)

\* The listen's answer: the list is sent with it, or is the one its view has.
LEMMA ListenTracked ==
    ASSUME ClientInv, WatchInv, HashInv, EmptyInv, AcceptInv, Connected, listens # 0,
           ServeListen(TRUE), ~Sent(toServer', listens)
    PROVE  \E b, h :
             Tracked(allWrites, putsToAck, toClient', listens, serverSnap.node, data, b, h)
<1> DEFINE r == Head(toServer)
           u == Update(Top, data)
           a == ListenAnswer(r.listen, TRUE)
           n == Len(toClient)
<1>i. /\ TypesOfLink /\ toServer \in Seq(Requests) /\ toClient \in Seq(Answers)
      /\ n \in Nat /\ data \in Node /\ Len(toServer) \in Nat
  BY TypeParts, LenProperties DEF ClientInv, TypesOfLink
<1>1. /\ toServer # <<>> /\ r.op = "listen" /\ toServer' = Tail(toServer)
  BY DEF ServeListen, Request
<1>2. r.listen = listens /\ ~Sent(Tail(toServer), listens)
  <2>1. LastSent(toServer, listens)
    BY DEF WatchInv
  <2> QED BY <1>i, <1>1, <2>1, SentOfTail
<1>3. 1 \in 1 .. Len(toServer) /\ r = toServer[1]
  BY <1>i, <1>1
<1>a. /\ a \in Answers /\ a.kind = "listen" /\ a.listen = listens
      /\ u \in Answers /\ u.kind = "data"
  <2>1. listens \in Screens
    BY TypeParts DEF ClientInv, TypesOfPending, Screens
  <2> QED BY <1>2, <1>i, <2>1, MessagesTyped DEF ListenAnswer, Update, Paths
<1>4. CASE r.hash # data
  <2> DEFINE t == Append(Append(toClient, u), a)
             h == [j \in n + 1 .. n + 2 |-> data]
  <2>1. toClient' = t
    BY <1>i, <1>4, ListenServed
  <2> HIDE DEF r
  <2>2. /\ Len(t) = n + 2 /\ t[n + 2] = a /\ t[n + 1] = u
        /\ \A j \in 1 .. n : t[j] = toClient[j]
    <3> DEFINE s == Append(toClient, u)
    <3> HIDE DEF u, a
    <3>1. /\ s \in Seq(Answers) /\ Len(s) = n + 1 /\ s[n + 1] = u
          /\ \A j \in 1 .. n : s[j] = toClient[j]
      BY <1>i, <1>a, AppendProperties
    <3> HIDE DEF s
    <3>2. /\ Len(Append(s, a)) = Len(s) + 1 /\ Append(s, a)[Len(s) + 1] = a
          /\ \A j \in 1 .. Len(s) : Append(s, a)[j] = s[j]
      BY <1>a, <3>1, AppendProperties
    <3>3. n + 1 \in 1 .. Len(s) /\ \A j \in 1 .. n : j \in 1 .. Len(s)
      BY <1>i, <3>1
    <3> QED BY <1>i, <3>1, <3>2, <3>3 DEF s
  <2>3. \A i \in 0 .. n + 2, id \in Nat :
          Accepts(putsToAck, t, i, id) => Kept(allWrites, id, data)
    <3> SUFFICES ASSUME NEW i \in 0 .. n + 2, NEW id \in Nat, Accepts(putsToAck, t, i, id)
                 PROVE  Kept(allWrites, id, data)
      OBVIOUS
    <3> HIDE DEF t, u, a, h
    <3>1. i # n + 1 /\ i # n + 2
      BY <1>i, <1>a, <2>2 DEF Accepts
    <3>2. i \in 0 .. n /\ (i # 0 => i \in 1 .. n)
      BY <1>i, <3>1
    <3>3. Accepts(putsToAck, toClient, i, id)
      BY <2>2, <3>2 DEF Accepts
    <3> QED BY <3>2, <3>3 DEF AcceptInv
  <2> HIDE DEF t
  <2>4. AnswerAfter(t, listens, n + 1)
    <3>1. n + 2 \in (n + 1) + 1 .. n + 2
      BY <1>i
    <3> QED BY <1>a, <2>2, <3>1 DEF AnswerAfter
  <2>5. /\ h \in [n + 1 .. Len(t) -> Node] /\ \A j \in n + 1 .. n + 2 : h[j] = data
        /\ n + 1 \in 0 .. Len(t) /\ n + 1 # 0 /\ n + 1 \in n + 1 .. n + 2
        /\ Len(t) \in n + 1 .. n + 2
    BY <1>i, <2>2
  <2>6. \A j \in (n + 1) + 1 .. Len(t) : h[j] = Heard(h[j - 1], t[j])
    <3> SUFFICES ASSUME NEW j \in (n + 1) + 1 .. Len(t) PROVE h[j] = Heard(h[j - 1], t[j])
      OBVIOUS
    <3>1. j = n + 2 /\ j - 1 \in n + 1 .. n + 2 /\ j \in n + 1 .. n + 2
      BY <1>i, <2>2
    <3> QED BY <1>a, <2>2, <2>5, <3>1 DEF Heard
  <2>7. \A j \in n + 1 .. Len(t) : ~AnswerAfter(t, listens, j) =>
          \A i \in 0 .. j, id \in Nat :
            Accepts(putsToAck, t, i, id) => Kept(allWrites, id, h[j])
    <3> SUFFICES ASSUME NEW j \in n + 1 .. Len(t), NEW i \in 0 .. j, NEW id \in Nat,
                        Accepts(putsToAck, t, i, id)
                 PROVE  Kept(allWrites, id, h[j])
      OBVIOUS
    <3>1. i \in 0 .. n + 2 /\ j \in n + 1 .. n + 2
      BY <1>i, <2>2
    <3> QED BY <2>3, <2>5, <3>1
  <2>8. t[n + 1] = Update(Top, h[n + 1])
    BY <2>2, <2>5
  <2> HIDE DEF h, u, a
  <2>9. Tracked(allWrites, putsToAck, t, listens, serverSnap.node, data, n + 1, h)
    BY <2>4, <2>5, <2>6, <2>7, <2>8 DEF Tracked
  <2> QED BY <2>1, <2>9
<1>5. CASE r.hash = data
  <2> DEFINE t == Append(toClient, a)
             h == [j \in 0 .. n + 1 |-> data]
  <2>1. toClient' = t
    BY <1>i, <1>5, ListenServed
  <2>2. serverSnap.node = data /\ NoData
    <3>1. CASE data = {}
      BY <3>1 DEF EmptyInv
    <3>2. CASE data # {}
      BY <1>1, <1>2, <1>3, <1>5, <3>2 DEF HashInv
    <3> QED BY <3>1, <3>2
  <2> HIDE DEF r
  <2>3. /\ Len(t) = n + 1 /\ t[n + 1] = a /\ \A j \in 1 .. n : t[j] = toClient[j]
    <3> HIDE DEF u, a, h
    <3> QED BY <1>i, <1>a, AppendProperties
  <2>4. \A i \in 0 .. n + 1, id \in Nat :
          Accepts(putsToAck, t, i, id) => Kept(allWrites, id, data)
    <3> SUFFICES ASSUME NEW i \in 0 .. n + 1, NEW id \in Nat, Accepts(putsToAck, t, i, id)
                 PROVE  Kept(allWrites, id, data)
      OBVIOUS
    <3> HIDE DEF t, u, a, h
    <3>1. i # n + 1
      BY <1>i, <1>a, <2>3 DEF Accepts
    <3>2. i \in 0 .. n /\ (i # 0 => i \in 1 .. n)
      BY <1>i, <3>1
    <3>3. Accepts(putsToAck, toClient, i, id)
      BY <2>3, <3>2 DEF Accepts
    <3> QED BY <3>2, <3>3 DEF AcceptInv
  <2> HIDE DEF t
  <2>5. /\ h \in [0 .. Len(t) -> Node] /\ \A j \in 0 .. n + 1 : h[j] = data
        /\ 0 \in 0 .. Len(t) /\ Len(t) \in 0 .. n + 1
    BY <1>i, <2>3
  <2>6. \A j \in 0 + 1 .. Len(t) : h[j] = Heard(h[j - 1], t[j])
    <3> SUFFICES ASSUME NEW j \in 0 + 1 .. Len(t) PROVE h[j] = Heard(h[j - 1], t[j])
      OBVIOUS
    <3>1. j \in 0 .. n + 1 /\ j - 1 \in 0 .. n + 1
      BY <1>i, <2>3
    <3>2. t[j].kind # "data"
      <4>1. CASE j = n + 1
        BY <1>a, <2>3, <4>1
      <4>2. CASE j # n + 1
        <5>1. j \in 1 .. n
          BY <1>i, <2>3, <4>2
        <5> QED BY <2>2, <2>3, <5>1 DEF NoData
      <4> QED BY <4>1, <4>2
    <3> QED BY <2>5, <3>1, <3>2 DEF Heard
  <2>7. \A j \in 0 .. Len(t) : ~AnswerAfter(t, listens, j) =>
          \A i \in 0 .. j, id \in Nat :
            Accepts(putsToAck, t, i, id) => Kept(allWrites, id, h[j])
    <3> SUFFICES ASSUME NEW j \in 0 .. Len(t), NEW i \in 0 .. j, NEW id \in Nat,
                        Accepts(putsToAck, t, i, id)
                 PROVE  Kept(allWrites, id, h[j])
      OBVIOUS
    <3>1. i \in 0 .. n + 1 /\ j \in 0 .. n + 1
      BY <1>i, <2>3
    <3> QED BY <2>4, <2>5, <3>1
  <2>8. h[0] = serverSnap.node
    BY <2>2, <2>5
  <2> HIDE DEF h, a
  <2>9. Tracked(allWrites, putsToAck, t, listens, serverSnap.node, data, 0, h)
    BY <2>5, <2>6, <2>7, <2>8 DEF Tracked
  <2> QED BY <2>1, <2>9
<1> QED BY <1>4, <1>5

\* A put is served while the server watches.
LEMMA PutTracked ==
    ASSUME ClientInv, OrderInv, KnownPuts, AcceptInv, watched,
           NEW ok \in BOOLEAN, ServePut(ok), NEW b, NEW h,
           Tracked(allWrites, putsToAck, toClient, listens, serverSnap.node, data, b, h)
    PROVE  \E c, g :
             Tracked(allWrites, putsToAck, toClient', listens, serverSnap.node, data', c, g)
<1> DEFINE w == Head(toServer).write
           u == Update(w.path, Leaf)
           new == IF ok THEN UpdateChild(data, w.path, Leaf) ELSE data
           told == IF watched /\ new # data THEN Append(toClient, u) ELSE toClient
           a == PutAnswer(w.id, ok)
<1>i. TypesOfLink /\ toClient \in Seq(Answers) /\ data \in Node
  BY TypeParts DEF ClientInv, TypesOfLink
<1>1. /\ w \in Write /\ new \in Node /\ data' = new
      /\ told \in Seq(Answers) /\ toClient' = Append(told, a) /\ a \in Answers
  BY <1>i, PutServed
<1>2. /\ u \in Answers /\ u.kind = "data"
      /\ a.kind = "put" /\ a.id = w.id /\ a.ok = ok
  BY <1>1, MessagesTyped, NodeFacts DEF Write, Update, PutAnswer
<1>3. /\ \A i \in 0 .. Len(toClient), n \in Nat :
           Accepts(putsToAck, toClient, i, n) => Kept(allWrites, n, new)
      /\ ok => Kept(allWrites, w.id, new)
  BY <1>1, PutShows
<1>4. new # data => new = Heard(data, u)
  BY DEF Heard, Update
<1>5. \A node : node = Heard(node, a)
  BY <1>2 DEF Heard
<1> HIDE DEF w, u, new, a
<1>6. \E c, g :
        Tracked(allWrites, putsToAck, told, listens, serverSnap.node, new, c, g)
  <2>1. CASE new = data
    BY <2>1
  <2>2. CASE new # data
    <3>1. told = Append(toClient, u)
      BY <2>2
    <3> HIDE DEF told
    <3>2. u.kind # "listen" /\ ~(u.kind = "put" /\ u.ok)
      BY <1>2
    <3> QED BY <1>i, <1>1, <1>2, <1>3, <1>4, <2>2, <3>1, <3>2, TrackedAppended
  <2> QED BY <2>1, <2>2
<1>7. \A i \in 0 .. Len(told), n \in Nat :
        Accepts(putsToAck, told, i, n) => Kept(allWrites, n, new)
  <2> SUFFICES ASSUME NEW i \in 0 .. Len(told), NEW n \in Nat, Accepts(putsToAck, told, i, n)
               PROVE  Kept(allWrites, n, new)
    OBVIOUS
  <2>1. CASE told = toClient
    BY <1>3, <2>1
  <2>2. CASE told = Append(toClient, u)
    <3>1. i \in 0 .. Len(toClient) /\ Accepts(putsToAck, toClient, i, n)
      BY <1>i, <1>2, <2>2, AcceptsAppended
    <3> QED BY <1>3, <3>1
  <2> QED BY <2>1, <2>2
<1> HIDE DEF told
<1>8. PICK c, g : Tracked(allWrites, putsToAck, told, listens, serverSnap.node, new, c, g)
  BY <1>6
<1>9. a.kind # "listen" /\ (a.kind = "put" /\ a.ok => Kept(allWrites, a.id, new))
  BY <1>2, <1>3
<1>10. new = Heard(new, a)
  BY <1>5
<1>11. \E d, f :
         Tracked(allWrites, putsToAck, Append(told, a), listens, serverSnap.node, new, d, f)
  BY <1>1, <1>7, <1>8, <1>9, <1>10, TrackedAppended
<1> QED BY <1>1, <1>11

LEMMA NextHearInv ==
    ASSUME ClientInv, OrderInv, WatchInv, KnownPuts, HashInv, EmptyInv, AcceptInv, HearInv,
           ~Stranded, [CommentsNext]_allVars, remote' = 0
    PROVE  HearInv'
<1> DEFINE IsTracked ==
             \E b, h : Tracked(allWrites, putsToAck, toClient, listens, serverSnap.node, data, b, h)
<1>i. /\ InputInv /\ WritesInv /\ TypesOfLink /\ TypesOfPending /\ TypesOfCaches /\ LinkInv
      /\ toServer \in Seq(Requests) /\ toClient \in Seq(Answers) /\ watched \in BOOLEAN
      /\ Len(toClient) \in Nat /\ data \in Node /\ remote \in Nat /\ allWrites \in Seq(Write)
  BY TypeParts, LenProperties DEF ClientInv, TypesOfLink, TypesOfCaches
<1>r. ~\E k \in Keys, value \in {Leaf, {}} : RemoteChange(k, value)
  BY <1>i DEF RemoteChange
<1> SUFFICES ASSUME Watching' PROVE IsTracked'
  BY DEF HearInv
<1>w. ASSUME UNCHANGED <<connectionState, view, listens, watched>>,
             Sent(toServer, listens) => Sent(toServer', listens)
      PROVE  IsTracked
  BY <1>w DEF HearInv, Watching, Connected
<1>s. Connected' /\ view' # 0 /\ ~Sent(toServer', listens') /\ watched'
  BY DEF Watching
<1> HIDE DEF IsTracked
<1>1. CASE SetValue
  <2> DEFINE w == [id |-> writeIdCounter, path |-> Head(work).path]
             r == PutRequest(w)
  <2>1. w \in Write /\ w.id = writeIdCounter
    BY <1>1, <1>i, JobTyped DEF SetValue, Write, TypesOfPending
  <2>2. r \in Requests
    BY <2>1, MessagesTyped DEF PutRequest
  <2>3. /\ allWrites' = Append(allWrites, w)
        /\ toServer' = toServer \/ toServer' = Append(toServer, r)
        /\ UNCHANGED <<connectionState, view, listens, watched, putsToAck, toClient, data, serverSnap>>
    BY <1>1 DEF SetValue, server
  <2> HIDE DEF w, r
  <2>4. IsTracked
    <3>1. Sent(toServer, listens) => Sent(Append(toServer, r), listens)
      BY <1>i, <2>2, SentAppended
    <3>2. Sent(toServer, listens) => Sent(toServer', listens)
      BY <2>3, <3>1
    <3> QED BY <1>w, <2>3, <3>2
  <2>5. PICK b, h :
          Tracked(allWrites, putsToAck, toClient, listens, serverSnap.node, data, b, h)
    BY <2>4 DEF IsTracked
  <2>6. ASSUME NEW i \in 0 .. Len(toClient), NEW n \in Nat, NEW node \in Node,
               Accepts(putsToAck, toClient, i, n), Kept(allWrites, n, node)
        PROVE  Kept(allWrites', n, node)
    <3>1. n < writeIdCounter
      BY <2>6, AcceptedPending
    <3>2. n # w.id
      BY <1>i, <2>1, <3>1 DEF TypesOfPending
    <3> QED BY <1>i, <2>1, <2>3, <2>6, <3>2, KeptAppended
  <2>7. Tracked(allWrites', putsToAck, toClient, listens, serverSnap.node, data, b, h)
    BY <1>i, <2>5, <2>6, TrackedStill
  <2> QED BY <2>3, <2>7 DEF IsTracked
<1>2. CASE AddObserver
  <2> DEFINE s == Head(work).screen
             e == ListenRequest(s, NewServerSnap.node)
  <2>1. e \in Requests /\ e.op = "listen" /\ e.listen = s
    <3>1. s \in Screens /\ NewServerSnap.node \in Node
      BY <1>2, <1>i, JobTyped, NodeFacts DEF AddObserver, NewServerSnap
    <3> QED BY <3>1, MessagesTyped DEF ListenRequest
  <2>2. /\ Connected => toServer' = Append(toServer, e)
        /\ connectionState' = connectionState /\ listens' = s
    BY <1>2 DEF AddObserver
  <2> HIDE DEF s, e
  <2>3. Sent(Append(toServer, e), s)
    BY <1>i, <2>1, SentAppended
  <2> QED BY <1>s, <2>2, <2>3 DEF Connected
<1>k. ASSUME UNCHANGED <<connectionState, view, listens, watched, toServer>>,
             UNCHANGED <<allWrites, putsToAck, toClient, serverSnap, data>>
      PROVE  IsTracked'
  BY <1>k, <1>w DEF IsTracked
<1>3. CASE RemoveObserver
  <2>1. CASE view = Head(work).screen
    BY <1>3, <1>s, <2>1 DEF RemoveObserver
  <2>2. CASE view # Head(work).screen
    BY <1>3, <1>k, <2>2 DEF RemoveObserver, server
  <2> QED BY <2>1, <2>2
<1>t. ASSUME UNCHANGED <<connectionState, view, listens, watched, toServer>>,
             data' = data, toClient # <<>>, toClient' = Tail(toClient),
             serverSnap'.node = Heard(serverSnap.node, Head(toClient)),
             \A n \in Nat : Accepts(putsToAck', toClient, 0, n) =>
                 Accepts(putsToAck, toClient, 0, n) \/ Accepts(putsToAck, toClient, 1, n)
      PROVE  \E b, h : Tracked(allWrites, putsToAck', toClient', listens', serverSnap'.node, data', b, h)
  <2>1. PICK b, h :
          Tracked(allWrites, putsToAck, toClient, listens, serverSnap.node, data, b, h)
    BY <1>t, <1>w DEF IsTracked
  <2>2. \E c, g : Tracked(allWrites, putsToAck', Tail(toClient), listens,
                          Heard(serverSnap.node, Head(toClient)), data, c, g)
    BY <1>i, <1>t, <2>1, TrackedTaken
  <2> QED BY <1>t, <2>2
<1>4. CASE OnDataUpdate
  <2>1. /\ toClient # <<>> /\ Head(toClient).kind = "data" /\ toClient' = Tail(toClient)
        /\ UNCHANGED <<connectionState, view, listens, watched, toServer, data, putsToAck, allWrites>>
    BY <1>4 DEF OnDataUpdate, Message, pending, server
  <2>2. serverSnap'.node = Heard(serverSnap.node, Head(toClient))
    <3>1. view # 0
      BY <1>s, <2>1
    <3> QED BY <1>4, <2>1, <3>1 DEF OnDataUpdate, ServerSnapAfter, Heard
  <2> QED BY <1>t, <2>1, <2>2 DEF IsTracked
<1>5. CASE OnListenAnswer
  <2>1. /\ toClient # <<>> /\ Head(toClient).kind = "listen" /\ toClient' = Tail(toClient)
        /\ UNCHANGED <<connectionState, watched, toServer, data, putsToAck, allWrites>>
    BY <1>5 DEF OnListenAnswer, Message, server
  <2>2. UNCHANGED <<view, listens>> /\ serverSnap'.node = serverSnap.node
    <3>1. Head(toClient).listen # listens \/ Head(toClient).ok
      BY <1>5, <1>s DEF OnListenAnswer
    <3> QED BY <1>5, <1>i, <3>1 DEF OnListenAnswer, TypesOfCaches, Cache
  <2>3. serverSnap'.node = Heard(serverSnap.node, Head(toClient))
    BY <2>1, <2>2 DEF Heard
  <2> QED BY <1>t, <2>1, <2>2, <2>3 DEF IsTracked
<1>6. CASE OnPutAnswer
  <2>1. /\ toClient # <<>> /\ Head(toClient).kind = "put" /\ toClient' = Tail(toClient)
        /\ UNCHANGED <<connectionState, watched, toServer, data, listens, view, serverSnap>>
    BY <1>6 DEF OnPutAnswer, Message, server, caches, AckWrite
  <2>2. serverSnap'.node = Heard(serverSnap.node, Head(toClient))
    BY <2>1 DEF Heard
  <2>3. /\ \A n \in Nat : Accepts(putsToAck', toClient, 0, n) =>
             Accepts(putsToAck, toClient, 0, n) \/ Accepts(putsToAck, toClient, 1, n)
        /\ \A n \in Nat : \A node : Kept(allWrites, n, node) => Kept(allWrites', n, node)
    BY <1>6, AcceptsSettled
  <2>4. PICK b, h :
          Tracked(allWrites, putsToAck', toClient', listens', serverSnap'.node, data', b, h)
    BY <1>t, <2>1, <2>2, <2>3
  <2>5. Len(toClient') \in Nat
    BY <1>i, <2>1
  <2>6. Tracked(allWrites', putsToAck', toClient', listens', serverSnap'.node, data', b, h)
    BY <2>3, <2>4, <2>5, TrackedStill
  <2> QED BY <2>6 DEF IsTracked
<1>7. CASE AckPuts
  <2>1. UNCHANGED <<connectionState, watched, toServer, data, listens, view, serverSnap, toClient>>
    BY <1>7 DEF AckPuts, AckWrite, connection, server
  <2>2. /\ \A n \in Nat : \A ans : Accepts(putsToAck', ans, 0, n) => Accepts(putsToAck, ans, 0, n)
        /\ \A n \in Nat : \A node : Kept(allWrites, n, node) => Kept(allWrites', n, node)
    BY <1>7, AcceptsSettled
  <2>3. PICK b, h :
          Tracked(allWrites, putsToAck, toClient, listens, serverSnap.node, data, b, h)
    BY <1>w, <2>1 DEF IsTracked
  <2>4. \A i \in 0 .. Len(toClient), n \in Nat :
          Accepts(putsToAck', toClient, i, n) => Accepts(putsToAck, toClient, i, n)
    BY <2>2 DEF Accepts
  <2>5. Tracked(allWrites', putsToAck', toClient, listens, serverSnap.node, data, b, h)
    BY <1>i, <2>2, <2>3, <2>4, TrackedStill
  <2> QED BY <2>1, <2>5 DEF IsTracked
<1>8. CASE Retry \/ TokenFetched \/ TokenFailed \/ Disconnect \/ Kill
  BY <1>8, <1>s DEF Retry, TokenFetched, TokenFailed, Disconnect, Kill, LoseConnection, Connected
<1>9. CASE Ready
  <2>1. WatchInv' /\ ~watched'
    BY <1>9, <1>i, RestoredWatch DEF Ready, server, LinkInv, Connected
  <2> QED BY <1>s, <2>1
<1>10. ASSUME NEW ok \in BOOLEAN, ServeListen(ok) PROVE IsTracked'
  <2>1. ok
    BY <1>10, <1>s DEF ServeListen
  <2>2. UNCHANGED <<connectionState, view, listens, allWrites, putsToAck, serverSnap, data>>
    BY <1>10 DEF ServeListen, Request, clientSide, caches, pending
  <2>3. Connected /\ listens # 0 /\ ~Sent(toServer', listens) /\ ServeListen(TRUE)
    BY <1>10, <1>i, <1>s, <2>1, <2>2 DEF Connected, LinkInv
  <2>4. \E b, h : Tracked(allWrites, putsToAck, toClient', listens, serverSnap.node, data, b, h)
    BY <2>3, ListenTracked
  <2> QED BY <2>2, <2>4 DEF IsTracked
<1>11. ASSUME NEW ok \in BOOLEAN, ServePut(ok) PROVE IsTracked'
  <2>1. /\ UNCHANGED <<connectionState, view, listens, allWrites, putsToAck, serverSnap, watched>>
        /\ toServer # <<>> /\ Head(toServer).op = "put" /\ toServer' = Tail(toServer)
    BY <1>11 DEF ServePut, Request, clientSide, caches, pending
  <2>2. Sent(toServer, listens) => Sent(toServer', listens)
    BY <1>i, <2>1, SentOfTail
  <2>3. PICK b, h :
          Tracked(allWrites, putsToAck, toClient, listens, serverSnap.node, data, b, h)
    BY <1>w, <2>1, <2>2 DEF IsTracked
  <2>4. watched
    BY <1>s, <2>1
  <2>5. \E c, g :
          Tracked(allWrites, putsToAck, toClient', listens, serverSnap.node, data', c, g)
    BY <1>11, <2>3, <2>4, PutTracked
  <2> QED BY <2>1, <2>5 DEF IsTracked
<1>12. CASE ServeUnlisten
  BY <1>12, <1>s DEF ServeUnlisten
<1>13. CASE Deliver \/ User \/ UNCHANGED allVars
  BY <1>13, <1>k, ScreenApart DEF caches, connection, pending, server
<1> QED
  BY <1>1, <1>2, <1>3, <1>4, <1>5, <1>6, <1>7, <1>8, <1>9, <1>10, <1>11, <1>12, <1>13, <1>r
  DEF CommentsNext, DatabaseNext, Worker, Connecting, Serving

-----------------------------------------------------------------------------
(* Accepted comments do not flicker *)

\* With no listen under way, the client has been told of every write whose
\* acceptance it holds or hears of next.
LEMMA HeardWhenAcked ==
    ASSUME ClientInv, WatchInv, HearInv, Connected, view # 0, unackedListensCount = 0,
           NEW n \in Nat, NEW i \in 0 .. Len(toClient), i < 2,
           Accepts(putsToAck, toClient, i, n)
    PROVE  Kept(allWrites, n, serverSnap.node)
<1>i. /\ TypesOfLink /\ LinkInv /\ Len(toClient) \in Nat
      /\ toServer \in Seq(Requests) /\ toClient \in Seq(Answers)
  BY TypeParts, LenProperties DEF ClientInv, TypesOfLink
<1>1. /\ \A q \in 1 .. Len(toServer) : toServer[q] \notin ListenRequests
      /\ \A q \in 1 .. Len(toClient) : toClient[q] \notin ListenAnswers
  <2>1. /\ CountOf(toServer, ListenRequests) \in Nat
        /\ CountOf(toClient, ListenAnswers) \in Nat
        /\ 0 = CountOf(toServer, ListenRequests) + CountOf(toClient, ListenAnswers)
    BY <1>i, CountFacts DEF LinkInv
  <2>2. CountOf(toServer, ListenRequests) = 0 /\ CountOf(toClient, ListenAnswers) = 0
    BY <2>1
  <2> QED BY <1>i, <2>2, CountFacts
<1>2. ~Sent(toServer, listens)
  <2>1. \A q \in 1 .. Len(toServer) : toServer[q] \in Requests
    BY <1>i, ElementOfSeq
  <2> QED BY <1>1, <2>1 DEF Sent, Requests, ListenRequests
<1>3. \A q \in 1 .. Len(toClient) : toClient[q].kind # "listen"
  <2>1. \A q \in 1 .. Len(toClient) : toClient[q] \in Answers
    BY <1>i, ElementOfSeq
  <2> QED BY <1>1, <2>1 DEF Answers, ListenAnswers
<1>4. ~Refused
  BY <1>3 DEF Refused, Has, ListenAnswer
<1>5. Watching
  BY <1>i, <1>2, <1>4, WatchParts DEF Watching, LinkInv
<1>6. PICK b, h :
        Tracked(allWrites, putsToAck, toClient, listens, serverSnap.node, data, b, h)
  BY <1>5 DEF HearInv
<1>7. \A j \in 0 .. Len(toClient) : ~AnswerAfter(toClient, listens, j)
  <2> SUFFICES ASSUME NEW j \in 0 .. Len(toClient), NEW p \in j + 1 .. Len(toClient)
               PROVE  toClient[p].kind # "listen"
    BY DEF AnswerAfter
  <2>1. p \in 1 .. Len(toClient)
    BY <1>i
  <2> QED BY <1>3, <2>1
<1>8. /\ b = 0 /\ h[0] = serverSnap.node
      /\ \A j \in 1 .. Len(toClient) : h[j] = Heard(h[j - 1], toClient[j])
      /\ \A j \in 0 .. Len(toClient) : \A k \in 0 .. j :
           Accepts(putsToAck, toClient, k, n) => Kept(allWrites, n, h[j])
  BY <1>6, <1>7 DEF Tracked
<1>9. CASE i = 0
  <2>1. 0 \in 0 .. Len(toClient) /\ 0 \in 0 .. 0
    BY <1>i
  <2> QED BY <1>8, <1>9, <2>1
<1>10. CASE i = 1
  <2>1. 1 \in 1 .. Len(toClient) /\ 1 \in 0 .. Len(toClient) /\ 1 \in 0 .. 1 /\ 1 - 1 = 0
    BY <1>i, <1>10
  <2>2. toClient[1].kind = "put"
    BY <1>10 DEF Accepts
  <2>3. h[1] = serverSnap.node
    BY <1>8, <2>1, <2>2 DEF Heard
  <2> QED BY <1>8, <1>10, <2>1, <2>3
<1> QED BY <1>9, <1>10

\* The write that is accepted next, held back or first on its way.
Accepted == IF acking THEN Head(putsToAck) ELSE Head(toClient)
Acknowledging ==
    IF acking THEN Head(putsToAck).ok
    ELSE /\ unackedListensCount = 0 /\ toClient # <<>>
         /\ Head(toClient).kind = "put" /\ Head(toClient).ok

LEMMA AcceptedIsShown ==
    ASSUME ClientInv, OrderInv, WatchInv, HearInv, view # 0, Acknowledging
    PROVE  /\ Accepted.id \in Ids(allWrites)
           /\ Kept(allWrites, Accepted.id, serverSnap.node)
<1>i. /\ TypesOfLink /\ TypesOfPending /\ WritesInv /\ LinkInv
      /\ toClient \in Seq(Answers) /\ Len(toClient) \in Nat
  BY TypeParts, LenProperties DEF ClientInv, TypesOfLink
<1>1. Connected /\ unackedListensCount = 0
  BY <1>i DEF LinkInv, Acknowledging
<1>2. PICK i \in 0 .. Len(toClient) :
        /\ i < 2 /\ Accepts(putsToAck, toClient, i, Accepted.id) /\ Accepted.id \in Nat
  <2>1. CASE acking
    <3> DEFINE H == [id : Nat, ok : BOOLEAN]
    <3>1. putsToAck \in Seq(H) /\ putsToAck # <<>>
      BY <1>i, <2>1 DEF TypesOfPending, WritesInv
    <3> HIDE DEF H
    <3>2. 1 \in 1 .. Len(putsToAck) /\ Head(putsToAck) = putsToAck[1] /\ putsToAck[1] \in H
      BY <3>1
    <3>3. Accepted = putsToAck[1] /\ putsToAck[1].ok /\ putsToAck[1].id \in Nat
      BY <2>1, <3>2 DEF Accepted, Acknowledging, H
    <3>4. Accepts(putsToAck, toClient, 0, Accepted.id)
      BY <3>2, <3>3 DEF Accepts
    <3>5. 0 \in 0 .. Len(toClient) /\ 0 < 2
      BY <1>i
    <3> QED BY <3>3, <3>4, <3>5
  <2>2. CASE ~acking
    <3>1. toClient # <<>> /\ Head(toClient).kind = "put" /\ Head(toClient).ok
      BY <2>2 DEF Acknowledging
    <3>2. /\ 1 \in 0 .. Len(toClient) /\ 1 < 2
          /\ Head(toClient) = toClient[1] /\ toClient[1] \in Answers
      BY <1>i, <3>1
    <3>3. toClient[1].id \in Nat
      BY <3>1, <3>2 DEF Answers
    <3>4. Accepts(putsToAck, toClient, 1, toClient[1].id)
      BY <3>1, <3>2 DEF Accepts
    <3> QED BY <2>2, <3>2, <3>3, <3>4 DEF Accepted
  <2> QED BY <2>1, <2>2
<1> QED BY <1>1, <1>2, AcceptedPending, HeardWhenAcked

\* A write that is the oldest and shown leaves nothing to see when it goes.
LEMMA ShownWithout ==
    ASSUME NEW ws \in Seq(Write), ws # <<>>, InIdOrder(ws),
           NEW srv \in Cache, srv.complete, Kept(ws, ws[1].id, srv.node)
    PROVE  /\ Derived(srv, LayerTree(Tail(ws))) = Derived(srv, LayerTree(ws))
           /\ ~(srv.node = Leaf /\ Len(ws) = 1 /\ ws[1].path # Top)
<1> DEFINE p == ws[1].path
           t == Tail(ws)
           later == PathsAfter(ws, 1)
<1>1. /\ t \in Seq(Write) /\ Len(ws) \in Nat \ {0} /\ 1 \in 1 .. Len(ws)
      /\ DOMAIN ws = 1 .. Len(ws)
  BY FirstTakenOut
<1>2. Later(ws, ws[1].id) = later
  <2>1. \A j \in 1 .. Len(ws) : ws[j].id \in Nat
    <3>1. \A j \in 1 .. Len(ws) : ws[j] \in Write
      BY ElementOfSeq
    <3> QED BY <3>1 DEF Write
  <2>2. \A j \in 1 .. Len(ws) : ws[j].id > ws[1].id <=> j > 1
    <3> SUFFICES ASSUME NEW j \in 1 .. Len(ws) PROVE ws[j].id > ws[1].id <=> j > 1
      OBVIOUS
    <3>1. CASE j = 1
      BY <1>1, <2>1, <3>1
    <3>2. CASE j # 1
      <4>1. 1 < j /\ j > 1
        BY <1>1, <3>2
      <4>2. ws[1].id < ws[j].id
        BY <1>1, <4>1 DEF InIdOrder
      <4> QED BY <1>1, <2>1, <4>1, <4>2
    <3> QED BY <3>1, <3>2
  <2> QED BY <1>1, <2>2 DEF Later, PathsAfter
<1>3. Shows(p, later, srv.node)
  BY <1>1, <1>2 DEF Kept
<1>4. /\ p \in Paths /\ later \in SUBSET Paths
      /\ srv.node \in Node /\ srv.complete = TRUE
      /\ LayerTree(ws) \in CompoundWrite /\ LayerTree(t) \in CompoundWrite
  <2>1. \A j \in 1 .. Len(ws) : ws[j].path \in Paths
    <3>1. \A j \in 1 .. Len(ws) : ws[j] \in Write
      BY ElementOfSeq
    <3> QED BY <3>1 DEF Write
  <2> QED BY <1>1, <2>1, LayerTreeTyped DEF PathsAfter, Cache
<1>c. Children(srv.node) \in SUBSET Keys /\ Children(Leaf) = {} /\ Top \notin Keys
  BY <1>4, NodeFacts, TopAssumption DEF Children
<1>5. CASE Shadowed(ws, 1)
  <2>1. LayerTree(t) = LayerTree(ws)
    BY <1>5, FirstLeaves
  <2>2. Len(ws) # 1
    BY <1>1, <1>5 DEF Shadowed
  <2> QED BY <2>1, <2>2
<1>6. CASE ~Shadowed(ws, 1)
  <2>1. \A q \in later : ~Covers(q, p)
    BY <1>6 DEF Shadowed, PathsAfter
  <2>2. Top \notin later
    BY <2>1 DEF Covers
  <2>3. PathsAfter(t, 0) = later
    <3>1. PathsAfter(t, 1 - 1) = later
      BY <1>1, TailLayers
    <3> QED BY <3>1
  <2>4. LayerTree(t) = [top |-> None, keys |-> later]
    <3>1. Len(t) \in Nat /\ DOMAIN t = 1 .. Len(t)
      BY <1>1, LenProperties
    <3> HIDE DEF t
    <3>2. \A j \in 1 .. Len(t) : t[j].path \in PathsAfter(t, 0)
      <4>1. \A j \in 1 .. Len(t) : j \in DOMAIN t /\ j > 0
        BY <3>1
      <4> QED BY <4>1 DEF PathsAfter
    <3>3. NoTop(t)
      BY <2>2, <2>3, <3>2 DEF NoTop
    <3> HIDE DEF later
    <3> QED BY <1>1, <2>3, <3>3, LayersOf
  <2>5. Derived(srv, LayerTree(t))
          = [node |-> IF later = {} /\ srv.node = Leaf THEN Leaf
                      ELSE Children(srv.node) \cup later,
             complete |-> TRUE]
    <3>1. LayerTree(t).top = None /\ LayerTree(t).keys = later
      BY <2>4
    <3> HIDE DEF t, later
    <3> QED BY <1>4, <3>1, DerivedPlain
  <2>6. CASE p # Top
    <3>1. p \in Children(srv.node)
      BY <1>3, <2>1, <2>6 DEF Shows
    <3>2. srv.node # Leaf
      BY <1>c, <3>1
    <3>3. LayerTree(ws).top = None /\ LayerTree(ws).keys = later \cup {p}
      <4>1. Uncovers(LayerTree(ws), LayerTree(t), p)
        BY <1>6, FirstLeaves
      <4> QED BY <2>4, <2>6, <4>1 DEF Uncovers
    <3> HIDE DEF t, later, p
    <3>4. Derived(srv, LayerTree(ws))
            = [node |-> Children(srv.node) \cup (later \cup {p}), complete |-> TRUE]
      BY <1>4, <3>2, <3>3, DerivedPlain
    <3>5. Children(srv.node) \cup (later \cup {p}) = Children(srv.node) \cup later
      BY <3>1
    <3> QED BY <2>5, <3>2, <3>4, <3>5 DEF t, later, p
  <2>7. CASE p = Top
    <3>1. Children(srv.node) \subseteq later /\ (later = {} => srv.node = Leaf)
      BY <1>3, <2>1, <2>7 DEF Shows
    <3>2. LastTop(ws, 1)
      <4>1. \A j \in 1 .. Len(ws) : ws[j].path = Top => j <= 1
        <5> SUFFICES ASSUME NEW j \in 1 .. Len(ws), ~(j <= 1) PROVE ws[j].path # Top
          OBVIOUS
        <5>1. j > 1
          BY <1>1
        <5>2. ws[j].path \in later
          BY <1>1, <5>1 DEF PathsAfter
        <5> QED BY <2>2, <5>2
      <4> QED BY <2>7, <4>1 DEF LastTop
    <3>3. LayerTree(ws) = [top |-> IF later = {} THEN Leaf ELSE later, keys |-> {}]
      BY <1>1, <3>2, LayersOf
    <3>4. LayerTree(ws).top = (IF later = {} THEN Leaf ELSE later) /\ Leaf # None
      BY <3>3, NoneAssumption
    <3>5. later \in SUBSET Keys
      BY <1>4, <2>2 DEF Paths
    <3> HIDE DEF t, later
    <3>6. Derived(srv, LayerTree(ws))
            = [node |-> IF later = {} THEN Leaf ELSE later, complete |-> TRUE]
      <4>1. LayerTree(ws).top # None
        BY <3>4, <3>5, NoneAssumption
      <4> QED BY <3>4, <4>1, DerivedParts
    <3>7. later # {} => Children(srv.node) \cup later = later
      BY <3>1
    <3>8. (IF later = {} /\ srv.node = Leaf THEN Leaf ELSE Children(srv.node) \cup later)
            = (IF later = {} THEN Leaf ELSE later)
      BY <3>1, <3>7
    <3>9. Derived(srv, LayerTree(t)) = Derived(srv, LayerTree(ws))
      <4> DEFINE a == IF later = {} /\ srv.node = Leaf THEN Leaf ELSE Children(srv.node) \cup later
                 b == IF later = {} THEN Leaf ELSE later
      <4>1. /\ Derived(srv, LayerTree(t)) = [node |-> a, complete |-> TRUE]
            /\ Derived(srv, LayerTree(ws)) = [node |-> b, complete |-> TRUE]
        BY <2>5, <3>6
      <4>2. a = b
        BY <3>8
      <4> HIDE DEF a, b
      <4> QED BY <4>1, <4>2
    <3> QED BY <2>7, <3>9 DEF t
  <2> QED BY <2>6, <2>7
<1> QED BY <1>5, <1>6

\* So with no other client an accepted write never misleads the client.
LEMMA ToldOfAll ==
    ASSUME ClientInv, OrderInv, ListenInv, WatchInv, HearInv, view # 0, Acknowledging,
           allWrites # <<>>, Accepted.id = allWrites[1].id
    PROVE  /\ Derived(serverSnap, LayerTree(Tail(allWrites)))
                = Derived(serverSnap, LayerTree(allWrites))
           /\ ~(/\ serverSnap.node = Leaf /\ Len(allWrites) = 1
                /\ allWrites[1].path # Top)
<1>i. /\ LinkInv /\ allWrites \in Seq(Write) /\ InIdOrder(allWrites) /\ serverSnap \in Cache
  BY TypeParts DEF ClientInv, TypesOfCaches, OrderInv
<1>1. Connected /\ unackedListensCount = 0
  BY <1>i DEF LinkInv, Acknowledging
<1>2. serverSnap.complete
  BY <1>1, ToldWhenAnswered
<1>3. Kept(allWrites, allWrites[1].id, serverSnap.node)
  BY AcceptedIsShown
<1> QED BY <1>i, <1>2, <1>3, ShownWithout

LEMMA NeverMisled ==
    ASSUME ClientInv, OrderInv, ListenInv, WatchInv, HearInv PROVE ~Misled
<1> SUFFICES ASSUME Misled PROVE FALSE
  OBVIOUS
<1>1. /\ view # 0 /\ Acknowledging /\ serverSnap.node = Leaf
      /\ Len(allWrites) = 1 /\ allWrites[1].path # Top
  BY DEF Misled, Acknowledging
<1>2. Accepted.id \in Ids(allWrites)
  BY <1>1, AcceptedIsShown
<1>3. allWrites # <<>> /\ Accepted.id = allWrites[1].id
  <2>1. allWrites \in Seq(Write)
    BY DEF ClientInv, WritesInv
  <2>2. PICK i \in 1 .. Len(allWrites) : allWrites[i].id = Accepted.id
    BY <1>2 DEF Ids
  <2>3. i = 1
    BY <1>1, <2>2
  <2> QED BY <1>1, <2>1, <2>2, <2>3
<1> QED BY <1>1, <1>3, ToldOfAll

\* What holds while no other client has changed the list.
Alone == remote = 0 => EmptyInv /\ AcceptInv /\ HearInv /\ SnapInv

LEMMA NextAlone ==
    ASSUME ClientInv, OrderInv, ListenInv, WatchInv, KnownPuts, HashInv, VisibleIsLayered,
           Alone, ~Stranded, [CommentsNext]_allVars
    PROVE  Alone'
<1> SUFFICES ASSUME remote' = 0 PROVE (EmptyInv /\ AcceptInv /\ HearInv /\ SnapInv)'
  BY DEF Alone
<1>1. remote = 0
  <2>1. remote \in Nat /\ TypesOfLink
    BY TypeParts DEF ClientInv, TypesOfLink
  <2>2. CASE \E k \in Keys, value \in {Leaf, {}} : RemoteChange(k, value)
    BY <2>1, <2>2 DEF RemoteChange
  <2>3. CASE Worker \/ Connecting \/ TokenFailed \/ Disconnect \/ Kill \/ Serving
    <3>1. remote' = remote
      BY <2>3
      DEF Worker, Connecting, Serving, SetValue, AddObserver, RemoveObserver,
          OnDataUpdate, OnPutAnswer, OnListenAnswer, AckPuts, Retry, TokenFetched,
          Ready, TokenFailed, Disconnect, Kill, LoseConnection, ServeListen, ServePut, ServeUnlisten, server
    <3> QED BY <3>1
  <2>4. CASE Deliver \/ User \/ UNCHANGED allVars
    BY <2>4, ScreenApart DEF server
  <2> QED BY <2>2, <2>3, <2>4 DEF CommentsNext, DatabaseNext
<1>2. EmptyInv /\ AcceptInv /\ HearInv /\ SnapInv
  BY <1>1 DEF Alone
<1>3. ~Misled
  BY <1>2, NeverMisled
<1> QED BY <1>2, <1>3, NextEmptyInv, NextAcceptInv, NextHearInv, NextSnapInv

\* An accepted write is forgotten without a change of what is seen.
LEMMA AckUnseen ==
    ASSUME ClientInv, OrderInv, ListenInv, WatchInv, HearInv,
           VisibleIsLayered, VisibleIsLayered', SnapInv, SnapInv', ~Stranded,
           CommentsNext, Len(allWrites') < Len(allWrites),
           IF acking THEN Head(putsToAck).ok ELSE Head(toClient).ok
    PROVE  eventSnap' = eventSnap
<1>i. /\ LinkInv /\ WritesInv /\ TypesOfLink /\ allWrites \in Seq(Write)
      /\ InIdOrder(allWrites) /\ Len(allWrites) \in Nat
  BY TypeParts, LenProperties DEF ClientInv, WritesInv, OrderInv
<1>c. allWrites' # allWrites
  BY <1>i
<1>1. AckPuts \/ OnPutAnswer
  BY Settling
<1>2. allWrites # <<>> /\ allWrites' = Tail(allWrites)
  BY <1>1, <1>c, AckTakesOldest
<1>3. UNCHANGED <<view, serverSnap>>
  BY <1>1 DEF AckPuts, OnPutAnswer, AckWrite, caches
<1>4. Acknowledging /\ Accepted.id = allWrites[1].id
  <2>1. CASE AckPuts
    <3>1. acking /\ putsToAck # <<>>
      BY <1>i, <2>1 DEF AckPuts, WritesInv
    <3>2. WriteIndex(Head(putsToAck).id) = 1 /\ Head(putsToAck).id \in Ids(allWrites)
      BY <1>i, <3>1, HeldIsForTheOldest, OldestIsFirst
    <3> QED BY <1>i, <3>1, <3>2, WriteFound DEF Acknowledging, Accepted
  <2>2. CASE OnPutAnswer
    <3> DEFINE id == Head(toClient).id
    <3>1. /\ Connected /\ id \in outstandingPuts
          /\ \A n \in outstandingPuts : n = id \/ id < n
      BY <2>2, AnswerIsForTheOldest
    <3>2. ~acking /\ toClient # <<>> /\ Head(toClient).kind = "put"
      BY <2>2 DEF OnPutAnswer, Message
    <3>3. unackedListensCount = 0
      BY <1>c, <2>2, <3>1 DEF OnPutAnswer, caches
    <3>4. putsToAck = <<>>
      BY <3>1, <3>2, <3>3 DEF Stranded
    <3>5. Ids(allWrites) = outstandingPuts
      BY <1>i, <3>4 DEF WritesInv, Ids
    <3> HIDE DEF id
    <3>6. WriteIndex(id) = 1 /\ allWrites[WriteIndex(id)].id = id
      BY <1>i, <3>1, <3>5, OldestIsFirst, WriteFound
    <3> QED BY <3>2, <3>3, <3>6 DEF Acknowledging, Accepted, id
  <2> QED BY <1>1, <2>1, <2>2
<1>5. CASE view = 0
  BY <1>3, <1>5 DEF SnapInv
<1>6. CASE view # 0
  <2>1. /\ eventSnap = Derived(serverSnap, LayerTree(allWrites))
        /\ eventSnap' = Derived(serverSnap, LayerTree(Tail(allWrites)))
    BY <1>2, <1>3, <1>6 DEF SnapInv, VisibleIsLayered
  <2> QED BY <1>2, <1>4, <1>6, <2>1, ToldOfAll
<1> QED BY <1>5, <1>6

LEMMA ToldInits ==
    CommentsInit => WatchInv /\ KnownPuts /\ HashInv /\ Alone
<1> SUFFICES ASSUME CommentsInit PROVE WatchInv /\ KnownPuts /\ HashInv /\ Alone
  OBVIOUS
<1>1. /\ connectionState = "disconnected" /\ allWrites = <<>> /\ putsToAck = <<>>
      /\ toServer = <<>> /\ toClient = <<>> /\ view = 0
      /\ serverSnap = NewServerSnap /\ eventSnap = NewServerSnap
  BY DEF CommentsInit, DatabaseInit
<1>2. ~Connected
  BY <1>1 DEF Connected
<1>3. WatchInv /\ HearInv
  BY <1>2 DEF WatchInv, HearInv, Watching
<1>4. KnownPuts
  BY <1>1 DEF KnownPuts
<1>5. HashInv
  BY <1>1 DEF HashInv
<1>6. EmptyInv
  BY <1>1 DEF EmptyInv, NoData, Hashless, NewServerSnap
<1>7. AcceptInv
  BY <1>1 DEF AcceptInv, Accepts
<1>8. SnapInv
  BY <1>1 DEF SnapInv
<1> QED BY <1>3, <1>4, <1>5, <1>6, <1>7, <1>8 DEF Alone

LEMMA AloneHolds == CommentsSpec /\ []~Stranded => [](WatchInv /\ Alone)
<1> QED
  BY ToldInits, NextWatchInv, NextKnownPuts, NextHashInv, NextAlone,
     ClientInvHolds, OrderInvHolds, ListenInvHolds, LayeredUnlessStranded, PTL
  DEF CommentsSpec

\* Until answers are stranded, a comment that is accepted does not flicker,
\* unless another client has changed the list: the client has been told of the
\* comment by then, though the server only sends what has changed, listens are
\* answered by a hash and puts are made twice.
THEOREM AckUnseenUnlessStranded == CommentsSpec /\ []~Stranded => AckIsInvisible
<1> DEFINE A == Len(allWrites') < Len(allWrites) /\ remote = 0
                  /\ (IF acking THEN Head(putsToAck).ok ELSE Head(toClient).ok)
                  => eventSnap' = eventSnap
<1>1. ASSUME ClientInv, OrderInv, ListenInv, VisibleIsLayered, VisibleIsLayered',
             WatchInv, Alone, Alone', ~Stranded, [CommentsNext]_allVars
      PROVE  [A]_allVars
  <2> SUFFICES ASSUME CommentsNext, Len(allWrites') < Len(allWrites), remote = 0,
                      IF acking THEN Head(putsToAck).ok ELSE Head(toClient).ok
               PROVE  eventSnap' = eventSnap
    BY <1>1
  <2>1. HearInv /\ SnapInv
    BY <1>1 DEF Alone
  <2>2. remote' = 0
    BY <1>1, Settling
  <2>3. SnapInv'
    BY <1>1, <2>2 DEF Alone
  <2> QED BY <1>1, <2>1, <2>3, AckUnseen
<1>2. AckIsInvisible <=> [][A]_allVars
  BY DEF AckIsInvisible
<1> HIDE DEF A
<1> QED
  BY <1>1, <1>2, AloneHolds, ClientInvHolds, OrderInvHolds, ListenInvHolds,
     LayeredUnlessStranded, PTL
  DEF CommentsSpec

\* And with no other client nothing misleads the client: the promise of latency
\* compensation is kept until answers are stranded.
THEOREM AloneCompensates == CommentsSpec /\ []~Stranded /\ [](remote = 0) => Compensates
<1>1. ClientInv /\ OrderInv /\ ListenInv /\ WatchInv /\ Alone /\ remote = 0 => ~Misled
  BY NeverMisled DEF Alone
<1> QED
  BY <1>1, AloneHolds, ClientInvHolds, OrderInvHolds, ListenInvHolds, CachesCompensate, PTL
=============================================================================
