------------------------- MODULE SearchScreenProofs -------------------------
(***************************************************************************)
(* Results reach the table in the order of the queries, and a selection is *)
(* looked up in the result it was made in, for any texts, any number of    *)
(* queries and any size of their answers.                                  *)
(***************************************************************************)
EXTENDS SearchScreen, TLAPS

\* The result in the table, those on their way and the query in flight are in
\* the order the queries were sent.
Ordered ==
    /\ rows.query <= sent
    /\ \A i \in 1 .. Len(pending) :
          /\ rows.query < pending[i].query /\ pending[i].query <= sent
          /\ \A j \in 1 .. i - 1 : pending[j].query < pending[i].query
    /\ \A n \in inflight :
          /\ n = sent /\ rows.query < n
          /\ \A i \in 1 .. Len(pending) : pending[i].query < n

LookedUp == latest = rows /\ fate # "index"

SearchInv == SearchTypeOK /\ Ordered /\ LookedUp

-----------------------------------------------------------------------------
\* The initial state: nothing asked, nothing shown.
LEMMA SearchInitInv == SearchInit => SearchInv
<1> SUFFICES ASSUME SearchInit PROVE SearchInv
  OBVIOUS
<1> USE TextsAssumption, MaxAssumption
<1>1. NoResult \in Results
  BY DEF NoResult, Result, Results
<1>2. SearchTypeOK
  <2>1. pending \in Seq(Results) /\ rows \in Results /\ latest \in Results
    BY <1>1 DEF SearchInit
  <2>2. sent \in 0 .. MaxQueries /\ inflight \subseteq 1 .. sent
    BY DEF SearchInit
  <2>3. /\ text \in Texts /\ focused \in BOOLEAN /\ window \in BOOLEAN
        /\ last \in Texts \cup {NoText}
        /\ profile \in {NoUser} \cup ((0 .. MaxQueries) \X (1 .. MaxFound))
        /\ fate \in {"ok", "index", "outlet"}
    BY DEF SearchInit
  <2> QED
    BY <2>1, <2>2, <2>3 DEF SearchTypeOK
<1>3. Ordered /\ LookedUp
  BY DEF Ordered, LookedUp, SearchInit, NoResult, Result
<1> QED
  BY <1>2, <1>3 DEF SearchInv

\* A text that passes the throttle keeps the order: only the newest query is
\* in flight afterwards.
LEMMA EmitInv ==
    ASSUME SearchInv, NEW t \in Texts, Emit(t), UNCHANGED <<resultVars, profile, fate>>,
           text' \in Texts, focused' \in BOOLEAN
    PROVE  SearchInv'
<1> USE TextsAssumption, MaxAssumption DEF SearchInv, queryVars, resultVars
<1>1. CASE UNCHANGED queryVars
  BY <1>1 DEF SearchTypeOK, Ordered, LookedUp
<1>2. CASE window' = TRUE /\ UNCHANGED <<last, sent, inflight>>
  BY <1>2 DEF SearchTypeOK, Ordered, LookedUp
<1>3. CASE window' = TRUE /\ sent < MaxQueries /\ SearchUser(t)
  <2>1. sent \in Nat /\ sent' = sent + 1 /\ inflight' = {sent + 1} /\ last' = t
    BY <1>3 DEF SearchUser, SearchTypeOK
  <2>2. SearchTypeOK'
    BY <1>3, <2>1 DEF SearchTypeOK
  <2>3. \A i \in 1 .. Len(pending) : pending[i].query \in Int
    <3>1. \A i \in 1 .. Len(pending) : pending[i] \in Results
      BY DEF SearchTypeOK
    <3> QED
      BY <3>1 DEF Results
  <2>4. rows.query \in Int
    BY DEF SearchTypeOK, Results
  <2>5. Ordered'
    BY <2>1, <2>3, <2>4 DEF Ordered
  <2> QED
    BY <2>2, <2>5 DEF LookedUp
<1> QED
  BY <1>1, <1>2, <1>3 DEF Emit

\* An answer is later than everything on its way, and joins its end.
LEMMA AnswerInv ==
    ASSUME SearchInv, NEW n \in inflight, NEW c \in 0 .. MaxFound, Answer(n, c)
    PROVE  SearchInv'
<1> USE MaxAssumption DEF SearchInv, Answer
<1> DEFINE r == Result(n, c)
<1>1. n = sent /\ n \in 1 .. MaxQueries /\ r \in Results /\ r.query = n
  BY DEF Ordered, SearchTypeOK, Result, Results
<1>2. SearchTypeOK'
  BY <1>1 DEF SearchTypeOK
<1>3. /\ Len(pending') = Len(pending) + 1 /\ pending'[Len(pending) + 1].query = n
      /\ \A i \in 1 .. Len(pending) : pending'[i] = pending[i]
  BY <1>1 DEF SearchTypeOK
<1>4. Len(pending) \in Nat /\ inflight' = {}
  BY DEF SearchTypeOK, Ordered
<1>5. Ordered'
  <2>1. ASSUME NEW i \in 1 .. Len(pending')
        PROVE  /\ rows'.query < pending'[i].query /\ pending'[i].query <= sent'
               /\ \A j \in 1 .. i - 1 : pending'[j].query < pending'[i].query
    <3>1. CASE i = Len(pending) + 1
      <4>1. \A j \in 1 .. i - 1 : pending'[j].query < n
        BY <1>1, <1>3, <1>4, <3>1 DEF Ordered
      <4> QED
        BY <1>1, <1>3, <3>1, <4>1 DEF Ordered
    <3>2. CASE i \in 1 .. Len(pending)
      <4>1. \A j \in 1 .. i - 1 : pending'[j].query < pending'[i].query
        BY <1>3, <1>4, <3>2 DEF Ordered
      <4> QED
        BY <1>3, <3>2, <4>1 DEF Ordered
    <3> QED
      BY <1>3, <1>4, <3>1, <3>2
  <2> QED
    BY <1>4, <2>1 DEF Ordered
<1> QED
  BY <1>2, <1>5 DEF LookedUp

\* The first result on its way is later than the one it replaces, and earlier
\* than the rest.
LEMMA ShowInv ==
    ASSUME SearchInv, Show
    PROVE  SearchInv' /\ rows'.query > rows.query
<1> USE MaxAssumption DEF SearchInv, Show, queryVars
<1>1. /\ Len(pending) \in Nat \ {0} /\ Head(pending) = pending[1]
      /\ Len(pending') = Len(pending) - 1 /\ pending[1] \in Results
      /\ \A i \in 1 .. Len(pending') : pending'[i] = pending[i + 1]
  BY DEF SearchTypeOK
<1>2. SearchTypeOK'
  BY <1>1 DEF SearchTypeOK
<1>3. rows' = pending[1] /\ rows'.query > rows.query /\ rows'.query <= sent
  BY <1>1 DEF Ordered, SearchTypeOK, Results
<1>4. ASSUME NEW i \in 1 .. Len(pending')
      PROVE  /\ rows'.query < pending'[i].query /\ pending'[i].query <= sent'
             /\ \A j \in 1 .. i - 1 : pending'[j].query < pending'[i].query
  <2>1. i + 1 \in 1 .. Len(pending) /\ pending'[i] = pending[i + 1]
    BY <1>1
  <2>2. \A k \in 1 .. i : pending[k].query < pending[i + 1].query
    BY <1>1, <2>1 DEF Ordered
  <2>3. \A j \in 1 .. i - 1 : pending'[j] = pending[j + 1] /\ j + 1 \in 1 .. i
    BY <1>1
  <2> QED
    BY <1>3, <2>1, <2>2, <2>3 DEF Ordered
<1>5. \A n \in inflight : rows'.query < n /\ \A i \in 1 .. Len(pending') : pending'[i].query < n
  BY <1>1, <1>3 DEF Ordered
<1>6. Ordered'
  BY <1>3, <1>4, <1>5 DEF Ordered
<1> QED
  BY <1>2, <1>3, <1>6 DEF LookedUp

\* A selection finds its row in the latest result.
LEMMA SelectInv ==
    ASSUME SearchInv, NEW i \in 1 .. MaxFound, Select(i)
    PROVE  /\ SearchInv' /\ fate' # "index"
           /\ profile' \in {rows.query} \X (1 .. rows.count)
<1> USE MaxAssumption DEF SearchInv, Select, queryVars, resultVars
<1>1. profile' = <<rows.query, i>> /\ fate' = fate /\ i \in 1 .. rows.count
  BY DEF LookedUp, SearchTypeOK, Results
<1>2. SearchTypeOK'
  BY <1>1 DEF SearchTypeOK, Results
<1> QED
  BY <1>1, <1>2 DEF Ordered, LookedUp

-----------------------------------------------------------------------------
\* Every step keeps the invariant, shows newer results only and opens the
\* profile of a row.
LEMMA SearchStep ==
    ASSUME SearchInv, [SearchNext]_searchVars
    PROVE  /\ SearchInv'
           /\ rows' # rows => rows'.query > rows.query
           /\ fate' # "index"
           /\ profile' \notin {profile, NoUser} =>
                 profile' \in {rows.query} \X (1 .. rows.count)
<1> DEFINE Quiet == rows' = rows /\ profile' \in {profile, NoUser} /\ fate' # "index"
<1>1. CASE Focus
  <2>1. SearchInv' /\ Quiet
    BY <1>1 DEF Focus, SearchInv, SearchTypeOK, Ordered, LookedUp, queryVars, resultVars
  <2> QED
    BY <2>1
<1>2. ASSUME NEW t \in Texts, Type(t) PROVE SearchInv' /\ Quiet
  <2>1. SearchInv'
    BY <1>2, EmitInv DEF Type, SearchInv, SearchTypeOK
  <2> QED
    BY <1>2, <2>1 DEF Type, resultVars, SearchInv, LookedUp
<1>3. CASE EndEditing
  <2>1. SearchInv'
    BY <1>3, EmitInv DEF EndEditing, SearchInv, SearchTypeOK
  <2>2. Quiet
    BY <1>3 DEF EndEditing, resultVars, SearchInv, LookedUp
  <2> QED
    BY <2>1, <2>2
<1>4. CASE WindowEnds
  <2>1. SearchInv' /\ Quiet
    BY <1>4 DEF WindowEnds, SearchInv, SearchTypeOK, Ordered, LookedUp, resultVars
  <2> QED
    BY <2>1
<1>5. ASSUME NEW n \in inflight, NEW c \in 0 .. MaxFound, Answer(n, c) PROVE SearchInv' /\ Quiet
  <2>1. SearchInv'
    BY <1>5, AnswerInv
  <2> QED
    BY <1>5, <2>1 DEF Answer, SearchInv, LookedUp
<1>6. CASE Show
  <2>1. SearchInv' /\ rows'.query > rows.query
    BY <1>6, ShowInv
  <2>2. profile' = profile /\ fate' # "index"
    BY <1>6 DEF Show, SearchInv, LookedUp
  <2> QED
    BY <2>1, <2>2
<1>7. ASSUME NEW i \in 1 .. MaxFound, Select(i)
      PROVE  /\ SearchInv' /\ rows' = rows /\ fate' # "index"
             /\ profile' \in {rows.query} \X (1 .. rows.count)
  BY <1>7, SelectInv DEF Select, resultVars
<1>8. CASE Back \/ ShowComments
  <2>1. SearchInv' /\ Quiet
    BY <1>8 DEF Back, ShowComments, SearchInv, SearchTypeOK, Ordered, LookedUp, queryVars, resultVars
  <2> QED
    BY <2>1
<1>9. CASE UNCHANGED searchVars
  <2>1. SearchInv' /\ Quiet
    BY <1>9 DEF searchVars, SearchInv, SearchTypeOK, Ordered, LookedUp, queryVars, resultVars
  <2> QED
    BY <2>1
<1>10. ASSUME NEW n \in inflight, AnswerFails(n) PROVE SearchInv' /\ Quiet
  BY <1>5, <1>10, MaxAssumption DEF AnswerFails
<1> QED
  BY <1>1, <1>2, <1>3, <1>4, <1>5, <1>6, <1>7, <1>8, <1>9, <1>10 DEF SearchNext

\* The invariant holds in every state.
THEOREM SearchInvHolds == SearchSpec => []SearchInv
BY SearchInitInv, SearchStep, PTL DEF SearchSpec

\* Types: every variable of the search screen stays in its range.
THEOREM SearchTyped == SearchSpec => []SearchTypeOK
<1>1. SearchInv => SearchTypeOK
  BY DEF SearchInv
<1> QED
  BY <1>1, SearchInvHolds, PTL

\* The answer to an earlier query never replaces that to a later one, for any
\* typing, throttling and delay of answers.
THEOREM ResultsStayInOrder == SearchSpec => ResultsInOrder
<1>1. SearchInv /\ [SearchNext]_searchVars => [rows' # rows => rows'.query > rows.query]_searchVars
  BY SearchStep
<1> QED
  BY <1>1, SearchInvHolds, PTL DEF SearchSpec, ResultsInOrder

\* The profile that opens is that of the row touched, and looking a row up
\* never ends the program.
THEOREM TappedIsOpened == SearchSpec => ProfileIsTapped
<1>1. SearchInv /\ [SearchNext]_searchVars =>
         [/\ fate' # "index"
          /\ profile' \notin {profile, NoUser} =>
                profile' \in {rows.query} \X (1 .. rows.count)]_searchVars
  BY SearchStep
<1> QED
  BY <1>1, SearchInvHolds, PTL DEF SearchSpec, ProfileIsTapped
=============================================================================
