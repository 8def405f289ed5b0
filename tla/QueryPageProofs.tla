---------------------------- MODULE QueryPageProofs ----------------------------
(***************************************************************************)
(* What the query page shows, for any events, filters, edits and page      *)
(* sizes: in descending order without repetition, down to the token, for   *)
(* the last request made, and what that asked for with nothing missing.    *)
(***************************************************************************)
EXTENDS QueryPage, RequestConversionProofs, SequenceTheorems

(* A list of events as it stands on the screen. *)
Shown == AuditEventRecord \cup {DomainEventToResponse(e) : e \in AuditEventRecord}

Descends(s) == \A i, j \in DOMAIN s : i < j => s[i].id > s[j].id

-----------------------------------------------------------------------------
(* For each place in a page there is an event with that many newer ones.   *)
LEMMA PlaceTaken ==
  ASSUME NEW S, Keyed(S), NEW n \in 1..Cardinality(S)
  PROVE  \E e \in S : Cardinality(Newer(S, e)) = n - 1
<1>1. Cardinality(S) \in Nat
  BY FS_CardinalityType DEF Keyed
<1> SUFFICES ASSUME \A e \in S : Cardinality(Newer(S, e)) # n - 1
             PROVE  FALSE
  OBVIOUS
<1>2. PICK m \in Nat : m = n - 1
  BY <1>1
<1>3. Newest(S, n) = Newest(S, m)
  <2>1. \A e \in S : Cardinality(Newer(S, e)) < n <=> Cardinality(Newer(S, e)) < m
    BY <1>1, <1>2, NewerCount
  <2> QED
    BY <2>1 DEF Newest, Newer
<1>4. Cardinality(Newest(S, m)) \in Nat /\ Cardinality(Newest(S, m)) =< m
  BY <1>2, PageBound
<1>5. Newest(S, n) = S
  BY <1>1, <1>2, <1>3, <1>4, ShortPageIsAll
<1> QED
  BY <1>1, <1>2, <1>3, <1>4, <1>5

(* ORDER BY id DESC: the list has the events of the set, newest first, and *)
(* ends with the oldest.                                                   *)
LEMMA DescendingOf ==
  ASSUME NEW S, Keyed(S)
  PROVE  LET s == Descending(S)
         IN /\ s \in Seq(S) /\ Len(s) = Cardinality(S)
            /\ Descends(s)
            /\ \A e \in S : \E i \in DOMAIN s : s[i] = e
            /\ S # {} => Len(s) > 0 /\ \A e \in S : e.id >= s[Len(s)].id
<1> DEFINE N == Cardinality(S)
           at(n) == CHOOSE e \in S : Cardinality(Newer(S, e)) = n - 1
           s == [n \in 1..N |-> at(n)]
<1>1. N \in Nat
  BY FS_CardinalityType DEF Keyed
<1>2. Descending(S) = s
  BY DEF Descending, Newer
<1>3. \A n \in 1..N : s[n] \in S /\ Cardinality(Newer(S, s[n])) = n - 1
  <2> SUFFICES ASSUME NEW n \in 1..N
               PROVE  at(n) \in S /\ Cardinality(Newer(S, at(n))) = n - 1
    OBVIOUS
  <2> QED
    BY PlaceTaken
<1> HIDE DEF at
<1>4. s \in Seq(S) /\ Len(s) = N /\ DOMAIN s = 1..N
  <2>1. s \in [1..N -> S]
    BY <1>3
  <2> QED
    BY <1>1, <2>1
<1> HIDE DEF s, N
<1>5. ASSUME NEW i \in 1..N, NEW e \in S, Cardinality(Newer(S, e)) < i - 1
      PROVE  e.id > s[i].id
  <2>1. e # s[i]
    BY <1>1, <1>3, <1>5
  <2>2. ~(s[i].id > e.id)
    <3> SUFFICES ASSUME s[i].id > e.id
                 PROVE  FALSE
      OBVIOUS
    <3>1. s[i] \in Newer(S, e)
      BY <1>3 DEF Newer
    <3>2. Cardinality(Newer(S, s[i])) < Cardinality(Newer(S, e))
      BY <3>1, NewerFewer
    <3> QED
      BY <1>1, <1>3, <1>5, <3>2, NewerCount
  <2>3. e.id \in Nat /\ s[i].id \in Nat /\ e.id # s[i].id
    BY <1>3, <2>1 DEF Keyed
  <2> QED
    BY <2>2, <2>3
<1>6. Descends(s)
  <2> SUFFICES ASSUME NEW i \in 1..N, NEW j \in 1..N, i < j
               PROVE  s[i].id > s[j].id
    BY <1>4 DEF Descends
  <2>1. s[i] \in S /\ Cardinality(Newer(S, s[i])) < j - 1
    BY <1>1, <1>3
  <2> QED
    BY <1>5, <2>1
<1>7. ASSUME NEW e \in S
      PROVE  Cardinality(Newer(S, e)) < N /\ \E i \in 1..N : s[i] = e
  <2>1. Cardinality(Newer(S, e)) < N
    <3>1. Newer(S, e) \subseteq S /\ e \notin Newer(S, e)
      BY DEF Newer, Keyed
    <3>2. /\ Cardinality(Newer(S, e)) =< N
          /\ Cardinality(Newer(S, e)) = N => Newer(S, e) = S
      BY <3>1, FS_Subset DEF Keyed, N
    <3> QED
      BY <1>1, <3>1, <3>2, NewerCount
  <2>2. PICK i \in 1..N : i - 1 = Cardinality(Newer(S, e))
    <3>1. Cardinality(Newer(S, e)) + 1 \in 1..N
      BY <1>1, <2>1, NewerCount
    <3> QED
      BY <3>1, NewerCount
  <2>3. s[i] \in S /\ Cardinality(Newer(S, s[i])) = Cardinality(Newer(S, e))
    BY <1>3, <2>2
  <2>4. ~(s[i].id > e.id) /\ ~(e.id > s[i].id)
    <3>1. s[i].id > e.id => s[i] \in Newer(S, e)
      BY <2>3 DEF Newer
    <3>2. e.id > s[i].id => e \in Newer(S, s[i])
      BY DEF Newer
    <3> QED
      BY <2>3, <3>1, <3>2, NewerFewer, NewerCount
  <2>5. s[i] = e
    BY <2>3, <2>4 DEF Keyed
  <2> QED
    BY <2>1, <2>5
<1>8. ASSUME S # {}
      PROVE  N > 0 /\ \A e \in S : e.id >= s[N].id
  <2>1. N > 0
    BY <1>1, <1>8, FS_EmptySet DEF Keyed, N
  <2>2. ASSUME NEW e \in S
        PROVE  e.id >= s[N].id
    <3>1. Cardinality(Newer(S, e)) < N
      BY <1>7
    <3>2. N \in 1..N /\ s[N] \in S /\ Cardinality(Newer(S, s[N])) = N - 1
      BY <1>1, <1>3, <2>1
    <3>3. CASE Cardinality(Newer(S, e)) < N - 1
      BY <1>5, <3>2, <3>3 DEF Keyed
    <3>4. CASE Cardinality(Newer(S, e)) = N - 1
      <4>1. ~(s[N].id > e.id)
        <5> SUFFICES ASSUME s[N].id > e.id
                     PROVE  FALSE
          OBVIOUS
        <5>1. Cardinality(Newer(S, s[N])) < Cardinality(Newer(S, e))
          BY <3>2, NewerFewer DEF Newer
        <5> QED
          BY <1>1, <3>2, <3>4, <5>1
      <4> QED
        BY <3>2, <4>1 DEF Keyed
    <3> QED
      BY <1>1, <3>1, <3>3, <3>4, NewerCount
  <2> QED
    BY <2>1, <2>2
<1> QED
  BY <1>2, <1>4, <1>6, <1>7, <1>8 DEF N

LEMMA ShownId ==
  ASSUME NEW e \in Shown
  PROVE  e.id \in Nat
BY ResponseKeepsId DEF Shown, AuditEventRecord

(* A list that goes on below another one descends with it.                 *)
LEMMA Joined ==
  ASSUME NEW s \in Seq(Shown), NEW t \in Seq(Shown), Descends(s), Descends(t),
         \A i \in DOMAIN s, j \in DOMAIN t : s[i].id > t[j].id
  PROVE  /\ s \o t \in Seq(Shown) /\ Descends(s \o t)
         /\ Len(t) > 0 => Len(s \o t) > 0 /\ (s \o t)[Len(s \o t)] = t[Len(t)]
<1>1. /\ Len(s) \in Nat /\ DOMAIN s = 1..Len(s)
      /\ Len(t) \in Nat /\ DOMAIN t = 1..Len(t)
  BY LenProperties
<1>2. /\ s \o t \in Seq(Shown) /\ Len(s \o t) = Len(s) + Len(t)
      /\ \A i \in 1..(Len(s) + Len(t)) :
           (s \o t)[i] = IF i =< Len(s) THEN s[i] ELSE t[i - Len(s)]
  BY ConcatProperties
<1>3. DOMAIN (s \o t) = 1..(Len(s) + Len(t))
  BY <1>2, LenProperties
<1>4. Descends(s \o t)
  <2> SUFFICES ASSUME NEW i \in 1..(Len(s) + Len(t)), NEW j \in 1..(Len(s) + Len(t)),
                      i < j
               PROVE  (s \o t)[i].id > (s \o t)[j].id
    BY <1>3 DEF Descends
  <2>1. CASE j =< Len(s)
    BY <1>1, <1>2, <2>1 DEF Descends
  <2>2. CASE i =< Len(s) /\ ~(j =< Len(s))
    <3>1. i \in DOMAIN s /\ j - Len(s) \in DOMAIN t
      BY <1>1, <2>2
    <3> QED
      BY <1>2, <2>2, <3>1
  <2>3. CASE ~(i =< Len(s))
    <3>1. /\ i - Len(s) \in DOMAIN t /\ j - Len(s) \in DOMAIN t
          /\ i - Len(s) < j - Len(s) /\ ~(j =< Len(s))
      BY <1>1, <2>3
    <3> QED
      BY <1>2, <2>3, <3>1 DEF Descends
  <2> QED
    BY <1>1, <2>1, <2>2, <2>3
<1> QED
  BY <1>1, <1>2, <1>4

(* Nothing is out once the only request that was is settled.               *)
LEMMA SettleOne ==
  ASSUME NEW r
  PROVE  SubSeq(<<r>>, 1, 1 - 1) \o SubSeq(<<r>>, 1 + 1, Len(<<r>>)) = <<>>
<1>1. SubSeq(<<r>>, 1, 1 - 1) = <<>> /\ SubSeq(<<r>>, 1 + 1, Len(<<r>>)) = <<>>
  <2>1. Len(<<r>>) = 1
    OBVIOUS
  <2> QED
    BY <2>1, SubSeqEmpty
<1> QED
  BY <1>1, EmptySeq, ConcatEmptySeq

-----------------------------------------------------------------------------
TableOK == rows \subseteq Candidates /\ \A e, f \in rows : e.id = f.id => e = f

(* What can be read off an answer: a page that descends to its token, below *)
(* the token it was asked with.                                            *)
Follows(answer, append) ==
  answer.status = "200" =>
    /\ Keyed(answer.events) /\ answer.events \subseteq Shown
    /\ append => \A e \in answer.events, t \in token : e.id < t
    /\ answer.next # {} =>
         \E l \in answer.events :
           answer.next = {l.id} /\ \A e \in answer.events : e.id >= l.id

(* The one request that may be out: it is the last one made, and Load more *)
(* asked with the token that the page still has.                           *)
Out(r) ==
  /\ {"append", "url", "newest", "answer", "seen"} \subseteq DOMAIN r
  /\ r.newest = TRUE
  /\ r.append \in BOOLEAN
  /\ r.append => \E t \in Nat : token = {t} /\ r.url.parsed["token"] = <<Value(t)>>
  /\ \A answer \in r.answer : Follows(answer, r.append)

OneOut ==
  /\ loading \in BOOLEAN
  /\ loading => \E r : inFlight = <<r>> /\ Out(r)
  /\ ~loading => inFlight = <<>>

ShownOK == shown \in Seq(Shown) /\ ShownDescends /\ TokenIsLastShown

OriginOK ==
  origin = [first |-> origin.first, asked |-> origin.asked,
            seen |-> origin.seen, current |-> origin.current]

PageInv == TableOK /\ OneOut /\ ShownOK /\ OriginOK /\ ShownIsCurrent

LEMMA TableKeyed ==
  ASSUME TableOK
  PROVE  Keyed(rows) /\ rows \subseteq AuditEventRecord
BY PageAssumption, FS_Subset DEF TableOK, Keyed, AuditEventRecord

LEMMA PageInit == Init => PageInv
<1> SUFFICES ASSUME Init
             PROVE  PageInv
  OBVIOUS
<1>1. shown \in Seq(Shown) /\ DOMAIN shown = {}
  <2>1. shown = <<>>
    BY DEF Init
  <2> QED
    BY <2>1
<1>2. OneOut /\ TableOK /\ OriginOK
  BY DEF Init, OneOut, TableOK, OriginOK, NoOrigin
<1>3. ShownIsCurrent
  BY DEF Init, ShownIsCurrent, NoOrigin
<1> QED
  BY <1>1, <1>2, <1>3 DEF Init, PageInv, ShownOK, ShownDescends, TokenIsLastShown

(* What does not touch the page keeps the invariant. *)
LEMMA Around ==
  ASSUME PageInv, TableOK',
         UNCHANGED <<shown, token, loading, error, inFlight, origin>>
  PROVE  PageInv'
BY DEF PageInv, OneOut, Out, Follows, ShownOK, ShownDescends, TokenIsLastShown,
       OriginOK, ShownIsCurrent

LEMMA WorldKeeps ==
  ASSUME PageInv,
         \/ Insert \/ PassTime \/ LoadNamespaces
         \/ ToggleNamespace \/ EditFilters \/ EditPageSize
         \/ UNCHANGED vars
  PROVE  PageInv'
<1>1. TableOK
  BY DEF PageInv
<1>2. CASE Insert
  BY <1>1, <1>2, Around DEF Insert, TableOK, FindByID
<1>3. CASE PassTime \/ LoadNamespaces \/ UNCHANGED vars
  BY <1>1, <1>3, Around DEF PassTime, LoadNamespaces, vars, TableOK
<1>4. ASSUME NEW new, Edit(new)
      PROVE  PageInv'
  BY <1>1, <1>4, Around DEF Edit, world, TableOK
<1> QED
  BY <1>2, <1>3, <1>4 DEF ToggleNamespace, EditFilters, EditPageSize

(* A search or Load more, pressed while nothing is loading.                *)
LEMMA StartKeeps ==
  ASSUME PageInv, ~loading, NEW append \in BOOLEAN, NEW pageToken,
         append => pageToken = token /\ token # {},
         StartSearch(append, pageToken)
  PROVE  PageInv'
<1>1. /\ TableOK' /\ ShownOK'
  BY DEF StartSearch, world, PageInv, TableOK, ShownOK, ShownDescends,
         TokenIsLastShown
<1>2. /\ OriginOK' /\ UNCHANGED token
  BY DEF StartSearch, PageInv, OriginOK
<1>3. inFlight = <<>>
  BY DEF PageInv, OneOut
<1>4. CASE error' = TRUE /\ UNCHANGED <<loading, inFlight>>
  BY <1>1, <1>2, <1>3, <1>4 DEF PageInv, OneOut, ShownIsCurrent
<1>5. ASSUME NEW params, loading' = TRUE,
             inFlight' = Append(
               [i \in DOMAIN inFlight |-> [inFlight[i] EXCEPT !.newest = FALSE]],
               [append |-> append, url |-> BuildUrl(params, pageToken),
                form |-> form, at |-> now, newest |-> TRUE,
                answer |-> {}, seen |-> {}])
      PROVE  OneOut' /\ ShownIsCurrent'
  <2>1. PICK r :
          r = [append |-> append, url |-> BuildUrl(params, pageToken),
               form |-> form, at |-> now, newest |-> TRUE,
               answer |-> {}, seen |-> {}]
    OBVIOUS
  <2>2. inFlight' = <<r>>
    <3>1. [i \in DOMAIN inFlight |-> [inFlight[i] EXCEPT !.newest = FALSE]] = <<>>
      BY <1>3
    <3>2. inFlight' = Append(<<>>, r)
      BY <1>5, <2>1, <3>1
    <3> QED
      BY <3>2
  <2>3. append => \E t \in Nat : token = {t} /\ r.url.parsed["token"] = <<Value(t)>>
    <3> SUFFICES ASSUME append
                 PROVE  \E t \in Nat : token = {t} /\ r.url.parsed["token"] = <<Value(t)>>
      OBVIOUS
    <3>1. PICK t \in Nat : token = {t}
      <4>1. shown \in Seq(Shown) /\ shown # <<>> /\ token = {shown[Len(shown)].id}
        BY DEF PageInv, ShownOK, TokenIsLastShown
      <4>2. shown[Len(shown)] \in Shown
        BY <4>1, EmptySeq, ElementOfSeq
      <4> QED
        BY <4>1, <4>2, ShownId
    <3>2. (CHOOSE u \in pageToken : TRUE) = t /\ pageToken # {}
      BY <3>1
    <3>3. \A names : Parameters(params, names, pageToken).parsed["token"] = <<Value(t)>>
      BY <3>2 DEF Parameters, Parsed
    <3>4. r.url = BuildUrl(params, pageToken)
      BY <2>1
    <3> QED
      BY <3>1, <3>3, <3>4 DEF BuildUrl
  <2>4. /\ {"append", "url", "newest", "answer", "seen"} \subseteq DOMAIN r
        /\ r.newest = TRUE
        /\ r.append = append /\ r.answer = {}
    BY <2>1
  <2>5. Out(r)'
    BY <1>2, <2>3, <2>4 DEF Out
  <2> QED
    BY <1>5, <2>2, <2>5 DEF OneOut, ShownIsCurrent
<1> QED
  BY <1>1, <1>2, <1>4, <1>5 DEF StartSearch, PageInv

(* What JSON makes of a page is keyed as the page is.                      *)
LEMMA ResponseKeyed ==
  ASSUME NEW S, Keyed(S), S \subseteq AuditEventRecord
  PROVE  LET T == {DomainEventToResponse(e) : e \in S}
         IN Keyed(T) /\ T \subseteq Shown
<1> DEFINE T == {DomainEventToResponse(e) : e \in S}
           f == [e \in S |-> DomainEventToResponse(e)]
<1>1. f \in Surjection(S, T)
  BY DEF Surjection
<1>2. \A e \in S : DomainEventToResponse(e).id = e.id
  BY ResponseKeepsId
<1>3. /\ \A e \in T : e.id \in Nat
      /\ \A e, g \in T : e.id = g.id => e = g
  BY <1>2 DEF Keyed
<1>4. T \subseteq Shown
  BY DEF Shown
<1> HIDE DEF f, T
<1>5. IsFiniteSet(T)
  BY <1>1, FS_Surjection DEF Keyed
<1> QED
  BY <1>3, <1>4, <1>5 DEF Keyed, T

LEMMA AnswerFollows ==
  ASSUME TableOK, NEW r, Out(r), NEW db
  PROVE  Follows(HttpQueryEvents(rows, db, r.url), r.append)
<1> DEFINE answer == HttpQueryEvents(rows, db, r.url)
<1> SUFFICES ASSUME answer.status = "200"
             PROVE  Follows(answer, r.append)
  BY DEF Follows
<1>1. PICK o \in QueryParamsToOpts(r.url) :
        /\ ValidPageSize(o.pageSize) /\ Shaped(o)
        /\ answer.events = {DomainEventToResponse(e) : e \in QueryEvents(rows, o).events}
        /\ answer.next = QueryEvents(rows, o).next
  BY HttpAnswer
<1> DEFINE page == QueryEvents(rows, o)
<1>2. /\ page.events \subseteq Remaining(rows, o)
      /\ page.next # {} =>
           \E l \in page.events :
             page.next = {l.id} /\ \A e \in page.events : e.id >= l.id
  <2>1. LET rest == Remaining(rows, o)
        IN /\ page.events \subseteq rest
           /\ page.next # {} =>
                \E l \in page.events :
                  /\ page.next = {l.id}
                  /\ \A e \in rest : e \in page.events <=> e.id >= l.id
    BY <1>1, TableKeyed, PageOfShape
  <2> HIDE DEF page
  <2> QED
    BY <2>1
<1> HIDE DEF page, answer
<1>3. page.events \subseteq rows
  BY <1>2 DEF Remaining, BelowToken, ApplyQueryFilters
<1>4. answer.events = {DomainEventToResponse(e) : e \in page.events} /\ answer.next = page.next
  BY <1>1 DEF page
<1>5. Keyed(page.events) /\ page.events \subseteq AuditEventRecord
  BY <1>3, TableKeyed, KeyedSubset
<1>6. Keyed(answer.events) /\ answer.events \subseteq Shown
  BY <1>4, <1>5, ResponseKeyed
<1>7. \A e \in page.events : DomainEventToResponse(e).id = e.id
  BY <1>5, ResponseKeepsId
<1>8. r.append => \A e \in page.events, t \in token : e.id < t
  <2> SUFFICES ASSUME r.append
               PROVE  \A e \in page.events, t \in token : e.id < t
    OBVIOUS
  <2>1. PICK t \in Nat : token = {t} /\ r.url.parsed["token"] = <<Value(t)>>
    BY DEF Out
  <2>2. o.token = {t}
    BY <1>1, <2>1, TokenDecoded
  <2> QED
    BY <1>2, <2>1, <2>2 DEF Remaining, BelowToken
<1> QED
  BY <1>2, <1>4, <1>6, <1>7, <1>8 DEF Follows

LEMMA ServeKeeps ==
  ASSUME PageInv, Serve
  PROVE  PageInv'
<1>1. PICK i \in DOMAIN inFlight, db \in BOOLEAN :
        /\ inFlight[i].answer = {}
        /\ inFlight' = [inFlight EXCEPT
             ![i].answer = {HttpQueryEvents(rows, db, inFlight[i].url)},
             ![i].seen = rows]
  BY DEF Serve
<1>2. UNCHANGED <<rows, shown, token, loading, error, origin>>
  BY DEF Serve, world
<1>3. loading
  BY DEF PageInv, OneOut
<1>4. PICK r : inFlight = <<r>> /\ Out(r)
  BY <1>3 DEF PageInv, OneOut
<1>5. PICK answer : answer = HttpQueryEvents(rows, db, r.url)
  OBVIOUS
<1>6. PICK q : q = [r EXCEPT !.answer = {answer}, !.seen = rows]
  OBVIOUS
<1>7. inFlight' = <<q>>
  <2>1. i = 1 /\ inFlight[i] = r
    BY <1>1, <1>4
  <2>2. inFlight' = [<<r>> EXCEPT ![1].answer = {answer}, ![1].seen = rows]
    BY <1>1, <1>4, <1>5, <2>1
  <2>3. \A x, y : [<<r>> EXCEPT ![1].answer = x, ![1].seen = y]
                  = <<[r EXCEPT !.answer = x, !.seen = y]>>
    OBVIOUS
  <2> QED
    BY <1>6, <2>2, <2>3
<1>8. Follows(answer, r.append)
  BY <1>4, <1>5, AnswerFollows DEF PageInv
<1>9. Out(q)'
  <2>1. /\ DOMAIN q = DOMAIN r /\ q.append = r.append /\ q.url = r.url
        /\ q.newest = r.newest /\ q.answer = {answer}
    BY <1>4, <1>6 DEF Out
  <2> QED
    BY <1>2, <1>4, <1>8, <2>1 DEF Out, Follows
<1>10. OneOut'
  BY <1>2, <1>3, <1>7, <1>9 DEF OneOut
<1> QED
  BY <1>2, <1>10
  DEF PageInv, TableOK, ShownOK, ShownDescends, TokenIsLastShown, OriginOK,
      ShownIsCurrent

-----------------------------------------------------------------------------
(* Once the request that is out is settled, nothing is.                    *)
LEMMA SettledNone ==
  ASSUME PageInv, NEW i \in DOMAIN inFlight, Settle(i)
  PROVE  /\ i = 1 /\ Out(inFlight[i])
         /\ OneOut' /\ TableOK' /\ loading' = FALSE
<1>1. loading
  BY DEF PageInv, OneOut
<1>2. PICK r : inFlight = <<r>> /\ Out(r)
  BY <1>1 DEF PageInv, OneOut
<1>3. i = 1 /\ inFlight[i] = r
  BY <1>2
<1>4. inFlight' = <<>>
  BY <1>2, <1>3, SettleOne DEF Settle
<1> QED
  BY <1>2, <1>3, <1>4 DEF Settle, world, PageInv, TableOK, OneOut

(* Its answer goes on where the screen ends, or replaces what is shown.    *)
LEMMA ReceiveShown ==
  ASSUME PageInv, NEW r, Out(r), NEW answer, Follows(answer, r.append),
         answer.status = "200",
         shown' = IF r.append THEN shown \o Descending(answer.events)
                  ELSE Descending(answer.events),
         token' = answer.next
  PROVE  ShownOK'
<1> DEFINE D == Descending(answer.events)
<1>1. /\ Keyed(answer.events) /\ answer.events \subseteq Shown
      /\ r.append => \A e \in answer.events, t \in token : e.id < t
      /\ answer.next # {} =>
           \E l \in answer.events :
             answer.next = {l.id} /\ \A e \in answer.events : e.id >= l.id
  BY DEF Follows
<1>2. /\ D \in Seq(answer.events) /\ Descends(D)
      /\ answer.events # {} =>
           Len(D) > 0 /\ \A e \in answer.events : e.id >= D[Len(D)].id
  BY <1>1, DescendingOf
<1> HIDE DEF D
<1>3. D \in Seq(Shown)
  BY <1>1, <1>2, SeqMonotonic
<1>4. /\ Len(D) \in Nat /\ DOMAIN D = 1..Len(D)
      /\ \A j \in DOMAIN D : D[j] \in answer.events
  BY <1>2, LenProperties, ElementOfSeq
<1>5. /\ shown' \in Seq(Shown) /\ Descends(shown')
      /\ Len(D) > 0 => Len(shown') > 0 /\ shown'[Len(shown')] = D[Len(D)]
  <2>1. CASE ~r.append
    BY <1>2, <1>3, <2>1 DEF D
  <2>2. CASE r.append
    <3>1. shown \in Seq(Shown) /\ Descends(shown)
      BY DEF PageInv, ShownOK, ShownDescends, Descends
    <3>2. PICK t \in Nat : token = {t}
      BY <2>2 DEF Out
    <3>3. shown # <<>> /\ t = shown[Len(shown)].id
      BY <3>2 DEF PageInv, ShownOK, TokenIsLastShown
    <3>4. Len(shown) \in Nat \ {0} /\ DOMAIN shown = 1..Len(shown)
      BY <3>1, <3>3, EmptySeq, LenProperties
    <3>5. ASSUME NEW k \in DOMAIN shown, NEW j \in DOMAIN D
          PROVE  shown[k].id > D[j].id
      <4>1. D[j].id < t
        BY <1>1, <1>4, <2>2, <3>2
      <4>2. shown[k].id \in Nat /\ D[j].id \in Nat
        <5>1. shown[k] \in Shown
          BY <3>1, <3>4, ElementOfSeq
        <5>2. D[j] \in Shown
          BY <1>1, <1>4
        <5> QED
          BY <5>1, <5>2, ShownId
      <4>3. shown[k].id >= t
        <5>1. k = Len(shown) \/ shown[k].id > shown[Len(shown)].id
          BY <3>1, <3>4 DEF Descends
        <5> QED
          BY <3>2, <3>3, <4>2, <5>1
      <4> QED
        BY <3>2, <4>1, <4>2, <4>3
    <3>6. shown' = shown \o D
      BY <2>2 DEF D
    <3> QED
      BY <1>2, <1>3, <3>1, <3>5, <3>6, Joined
  <2> QED
    BY <2>1, <2>2 DEF Out
<1>6. token' # {} => shown' # <<>> /\ token' = {shown'[Len(shown')].id}
  <2> SUFFICES ASSUME token' # {}
               PROVE  shown' # <<>> /\ token' = {shown'[Len(shown')].id}
    OBVIOUS
  <2>1. PICK l \in answer.events :
          answer.next = {l.id} /\ \A e \in answer.events : e.id >= l.id
    BY <1>1
  <2>2. Len(D) > 0 /\ l.id >= D[Len(D)].id
    BY <1>2, <2>1
  <2>3. D[Len(D)] \in answer.events
    BY <1>4, <2>2
  <2>4. D[Len(D)].id = l.id
    <3>1. D[Len(D)].id >= l.id
      BY <2>1, <2>3
    <3>2. D[Len(D)].id \in Nat /\ l.id \in Nat
      BY <1>1, <2>1, <2>3 DEF Keyed
    <3> QED
      BY <2>2, <3>1, <3>2
  <2>5. Len(shown') > 0 /\ shown'[Len(shown')].id = l.id
    BY <1>5, <2>2, <2>4
  <2>6. shown' # <<>>
    BY <2>5
  <2> QED
    BY <2>1, <2>5, <2>6
<1> QED
  BY <1>5, <1>6 DEF ShownOK, ShownDescends, TokenIsLastShown, Descends

LEMMA ReceiveKeeps ==
  ASSUME PageInv, NEW i \in DOMAIN inFlight, Receive(i)
  PROVE  PageInv'
<1>1. PICK answer \in inFlight[i].answer : answer.status = "200" /\ Show(i, answer)
  BY DEF Receive
<1>2. /\ Out(inFlight[i]) /\ OneOut' /\ TableOK'
  BY SettledNone DEF Receive
<1>3. ShownOK'
  BY <1>1, <1>2, ReceiveShown DEF Show, Out
<1>4. OriginOK' /\ origin'.current = TRUE
  <2>1. inFlight[i].newest = TRUE
    BY <1>2 DEF Out
  <2> QED
    BY <2>1 DEF Receive, PageInv, OriginOK
<1> QED
  BY <1>2, <1>3, <1>4 DEF PageInv, ShownIsCurrent

LEMMA FailKeeps ==
  ASSUME PageInv, NEW i \in DOMAIN inFlight, Fail(i)
  PROVE  PageInv'
<1>1. OneOut' /\ TableOK'
  BY SettledNone DEF Fail
<1> QED
  BY <1>1
  DEF Fail, PageInv, ShownOK, ShownDescends, TokenIsLastShown, OriginOK,
      ShownIsCurrent

LEMMA PageNext == PageInv /\ [Next]_vars => PageInv'
<1> SUFFICES ASSUME PageInv, [Next]_vars
             PROVE  PageInv'
  OBVIOUS
<1>1. CASE \/ Insert \/ PassTime \/ LoadNamespaces
           \/ ToggleNamespace \/ EditFilters \/ EditPageSize
           \/ UNCHANGED vars
  BY <1>1, WorldKeeps
<1>2. CASE ClickSearch \/ PressEnter
  <2>1. ~loading /\ StartSearch(FALSE, {})
    BY <1>2 DEF ClickSearch, PressEnter
  <2> QED
    BY <2>1, StartKeeps
<1>3. CASE ClickLoadMore
  <2>1. ~loading /\ token # {} /\ StartSearch(TRUE, token)
    BY <1>3 DEF ClickLoadMore
  <2> QED
    BY <2>1, StartKeeps
<1>4. CASE Serve
  BY <1>4, ServeKeeps
<1>5. CASE SettleAny
  BY <1>5, ReceiveKeeps, FailKeeps DEF SettleAny
<1> QED
  BY <1>1, <1>2, <1>3, <1>4, <1>5 DEF Next

LEMMA Inductive == Spec => []PageInv
BY PageInit, PageNext, PTL DEF Spec

(* Nothing is shown twice or out of order, for any events, page sizes and  *)
(* edits between the pages (QueryPage.tsx:75-79,319).                      *)
THEOREM ScreenDescends == Spec => []ShownDescends
BY Inductive, PTL DEF PageInv, ShownOK

(* Load more goes on where the screen ends (QueryPage.tsx:79-83).          *)
THEOREM TokenFollowsScreen == Spec => []TokenIsLastShown
BY Inductive, PTL DEF PageInv, ShownOK

(* No answer comes late: a request is made only when none is out           *)
(* (QueryPage.tsx:75,99,178,320).                                          *)
THEOREM ScreenIsCurrent == Spec => []ShownIsCurrent
BY Inductive, PTL DEF PageInv
-----------------------------------------------------------------------------
(* What stands at some places of a list, each of them in its turn.         *)
LEMMA PlacesInOrder ==
  ASSUME NEW S, NEW list \in Seq(S), NEW places \in SUBSET DOMAIN list
  PROVE  LET r == AtPlaces(list, places)
         IN /\ r \in Seq(S)
            /\ Elements(r) = {list[i] : i \in places}
            /\ places = {} => r = <<>>
            /\ \A i \in places : (\A j \in places : i =< j) =>
                 r # <<>> /\ Head(r) = list[i]
<1> DEFINE N == Cardinality(places)
           f == [i \in places |-> Cardinality({j \in places : j < i})]
           at(n) == CHOOSE i \in places : Cardinality({j \in places : j < i}) = n - 1
           r == [n \in 1..N |-> list[at(n)]]
<1>1. /\ Len(list) \in Nat /\ DOMAIN list = 1..Len(list)
      /\ \A i \in DOMAIN list : list[i] \in S
  BY LenProperties, ElementOfSeq
<1>2. places \subseteq Nat /\ IsFiniteSet(places) /\ N \in Nat
  <2>1. IsFiniteSet(DOMAIN list)
    BY <1>1, FS_Interval
  <2> QED
    BY <1>1, <2>1, FS_Subset, FS_CardinalityType
<1>3. r = AtPlaces(list, places)
  BY DEF AtPlaces
<1>4. ASSUME NEW i \in places
      PROVE  /\ f[i] \in 0..(N - 1)
             /\ f[i] = 0 <=> \A j \in places : i =< j
             /\ \A k \in places : i < k => f[i] < f[k]
  <2> DEFINE before(k) == {j \in places : j < k}
  <2>1. \A k \in places : f[k] = Cardinality(before(k))
    OBVIOUS
  <2>2. \A k \in places : IsFiniteSet(before(k)) /\ Cardinality(before(k)) \in Nat
    BY <1>2, FS_Subset, FS_CardinalityType
  <2>3. f[i] \in 0..(N - 1)
    <3>1. before(i) \subseteq places /\ i \notin before(i)
      BY <1>2
    <3> HIDE DEF before, f
    <3>2. Cardinality(before(i)) =< N /\ (N = Cardinality(before(i)) => places = before(i))
      BY <1>2, <3>1, FS_Subset
    <3> QED
      BY <1>2, <2>1, <2>2, <3>1, <3>2
  <2>4. f[i] = 0 <=> \A j \in places : i =< j
    <3>1. before(i) = {} <=> \A j \in places : i =< j
      BY <1>2
    <3> HIDE DEF before, f
    <3> QED
      BY <2>1, <2>2, <3>1, FS_EmptySet
  <2>5. ASSUME NEW k \in places, i < k
        PROVE  f[i] < f[k]
    <3>1. before(i) \subseteq before(k) /\ i \in before(k) /\ i \notin before(i)
      BY <1>2, <2>5
    <3> HIDE DEF before, f
    <3>2. /\ Cardinality(before(i)) =< Cardinality(before(k))
          /\ Cardinality(before(k)) = Cardinality(before(i)) => before(k) = before(i)
      BY <2>2, <3>1, FS_Subset
    <3> QED
      BY <2>1, <2>2, <3>1, <3>2
  <2> HIDE DEF f
  <2> QED
    BY <2>3, <2>4, <2>5
<1>5. f \in [places -> 0..(N - 1)]
  <2>1. \A i \in places : f[i] \in 0..(N - 1)
    BY <1>4
  <2> QED
    BY <2>1
<1>6. \A i, j \in places : f[i] = f[j] => i = j
  <2> HIDE DEF f
  <2> QED
    BY <1>2, <1>4
<1>7. \A n \in 1..N : at(n) \in places /\ f[at(n)] = n - 1
  <2>1. f \in Injection(places, 0..(N - 1))
    BY <1>5, <1>6 DEF Injection, IsInjective
  <2>2. IsFiniteSet(0..(N - 1)) /\ Cardinality(0..(N - 1)) = N
    <3> HIDE DEF N
    <3>1. N - 1 \in Int /\ N \in Nat
      BY <1>2
    <3>2. /\ IsFiniteSet(0..(N - 1))
          /\ Cardinality(0..(N - 1)) = IF 0 > N - 1 THEN 0 ELSE (N - 1) - 0 + 1
      BY <3>1, FS_Interval
    <3> QED
      BY <3>1, <3>2
  <2>3. f \in Surjection(places, 0..(N - 1))
    <3> HIDE DEF f
    <3> QED
      BY <2>1, <2>2, FS_Injection
  <2> HIDE DEF N
  <2>4. ASSUME NEW n \in 1..N
        PROVE  \E i \in places : f[i] = n - 1
    <3>1. n - 1 \in 0..(N - 1)
      BY <1>2
    <3> HIDE DEF f
    <3> QED
      BY <2>3, <3>1 DEF Surjection
  <2> SUFFICES ASSUME NEW n \in 1..N
               PROVE  at(n) \in places /\ f[at(n)] = n - 1
    OBVIOUS
  <2>5. PICK i \in places : Cardinality({j \in places : j < i}) = n - 1
    BY <2>4
  <2>6. at(n) \in places /\ Cardinality({j \in places : j < at(n)}) = n - 1
    BY <2>5
  <2> HIDE DEF at
  <2> QED
    BY <2>6
<1> HIDE DEF at, f
<1>8. r \in Seq(S) /\ DOMAIN r = 1..N /\ Len(r) = N
  <2>1. r \in [1..N -> S]
    BY <1>1, <1>7
  <2> QED
    BY <1>2, <2>1
<1>9. Elements(r) = {list[i] : i \in places}
  <2>1. ASSUME NEW i \in places
        PROVE  \E n \in 1..N : at(n) = i
    <3>1. f[i] + 1 \in 1..N /\ (f[i] + 1) - 1 = f[i]
      BY <1>2, <1>4
    <3>2. at(f[i] + 1) = i
      BY <1>6, <1>7, <3>1
    <3> QED
      BY <3>1, <3>2
  <2> QED
    BY <1>7, <1>8, <2>1 DEF Elements
<1>10. ASSUME NEW i \in places, \A j \in places : i =< j
       PROVE  r # <<>> /\ Head(r) = list[i]
  <2>1. f[i] = 0 /\ N > 0
    BY <1>2, <1>4, <1>10
  <2>2. 1 \in 1..N /\ at(1) = i
    BY <1>2, <1>6, <1>7, <2>1
  <2>3. r[1] = list[i]
    BY <2>2
  <2> HIDE DEF r
  <2>4. r # <<>>
    BY <1>8, <2>1
  <2> QED
    BY <1>8, <2>3, <2>4
<1>11. places = {} => r = <<>>
  BY FS_EmptySet
<1> QED
  BY <1>3, <1>8, <1>9, <1>10, <1>11

(* The values given for a key, and the first of them, which counts.        *)
LEMMA ValuesGiven ==
  ASSUME NEW tokens \in Seq(Token), NEW key
  PROVE  /\ ValuesOf(tokens, key) \in Seq(STRING)
         /\ (\A i \in DOMAIN tokens : tokens[i].key # key) =>
              ValuesOf(tokens, key) = <<>>
         /\ \A i \in DOMAIN tokens :
              /\ tokens[i].key = key
              /\ \A j \in 1..(i - 1) : tokens[j].key # key
              => Get(ValuesOf(tokens, key), "") = {tokens[i].value} \ {""}
<1> DEFINE places == {i \in DOMAIN tokens : tokens[i].key = key}
           given == AtPlaces(tokens, places)
<1>1. /\ given \in Seq(Token)
      /\ places = {} => given = <<>>
      /\ \A i \in places : (\A j \in places : i =< j) =>
           given # <<>> /\ Head(given) = tokens[i]
  BY PlacesInOrder
<1>2. ValuesOf(tokens, key) = [i \in DOMAIN given |-> given[i].value]
  BY DEF ValuesOf
<1> HIDE DEF given
<1>3. /\ Len(given) \in Nat /\ DOMAIN given = 1..Len(given)
      /\ \A i \in 1..Len(given) : given[i].value \in STRING
  <2>1. \A i \in 1..Len(given) : given[i] \in Token
    BY <1>1, ElementOfSeq
  <2> QED
    BY <1>1, <2>1, LenProperties DEF Token
<1>4. ValuesOf(tokens, key) \in Seq(STRING)
  BY <1>2, <1>3
<1>5. ASSUME \A i \in DOMAIN tokens : tokens[i].key # key
      PROVE  ValuesOf(tokens, key) = <<>>
  BY <1>1, <1>2, <1>5
<1>6. ASSUME NEW i \in DOMAIN tokens, tokens[i].key = key,
             \A j \in 1..(i - 1) : tokens[j].key # key
      PROVE  Get(ValuesOf(tokens, key), "") = {tokens[i].value} \ {""}
  <2>1. i \in places /\ \A j \in places : i =< j
    BY <1>6, LenProperties
  <2>2. given # <<>> /\ Head(given) = tokens[i]
    BY <1>1, <2>1
  <2> HIDE DEF places
  <2>3. 1 \in DOMAIN given /\ given[1] = tokens[i]
    BY <1>1, <1>3, <2>2
  <2>4. ValuesOf(tokens, key) # <<>> /\ Head(ValuesOf(tokens, key)) = tokens[i].value
    BY <1>2, <1>3, <1>4, <2>3
  <2> QED
    BY <2>4 DEF Get
<1> QED
  BY <1>4, <1>5, <1>6
-----------------------------------------------------------------------------
(* The screen shows what was asked for.  A request asks for what the form  *)
(* said when it was built.                                                 *)

FormOK ==
  /\ \A names \in listed : names \subseteq STRING
  /\ {"selected", "dateRange", "search", "pageSize"} \subseteq DOMAIN form
  /\ form.selected \in Seq(STRING) /\ form.search \in SearchQueries

Bound(value, at, end) ==
  IF Complete(value) THEN <<Value(ResolveDateRange(value, at)[end])>> ELSE <<>>

Asks(r) ==
  /\ r.form.selected \in Seq(STRING) /\ r.form.search \in SearchQueries
  /\ \A t \in Elements(r.form.search) : t.key \in SEARCH_KEYS /\ t.value # ""
  /\ r.url.fields = [col \in Columns |-> ValuesOf(r.form.search, col)]
  /\ r.url.namespace = r.form.selected \o ValuesOf(r.form.search, "namespace")
  /\ \A end \in {"from", "to"} :
       r.url.parsed[end] = Bound(r.form.dateRange, r.at, end)

(* The request that may be out has been answered from the table as it was, *)
(* later than the first page shown.                                        *)
Sent(r) ==
  /\ Asks(r)
  /\ {"form", "at"} \subseteq DOMAIN r
  /\ ~r.append => r.url.parsed["token"] = <<>>
  /\ \A answer \in r.answer :
       /\ r.seen \subseteq rows
       /\ r.append => origin.seen \subseteq r.seen
       /\ \E db \in BOOLEAN : answer = HttpQueryEvents(r.seen, db, r.url)

ShownAreWanted ==
  \A i \in DOMAIN shown : \E asked \in origin.asked, row \in rows :
    row.id = shown[i].id /\ Wanted(asked, row)

FilterInv ==
  /\ FormOK
  /\ \A i \in DOMAIN inFlight : Sent(inFlight[i])
  /\ origin.seen \subseteq rows
  /\ origin.first \subseteq origin.asked
  /\ ShownAreWanted /\ NothingSkipped

LEMMA ElementsOfConcat ==
  ASSUME NEW S, NEW s \in Seq(S), NEW t \in Seq(S)
  PROVE  Elements(s \o t) = Elements(s) \cup Elements(t)
<1>1. /\ Len(s) \in Nat /\ DOMAIN s = 1..Len(s)
      /\ Len(t) \in Nat /\ DOMAIN t = 1..Len(t)
  BY LenProperties
<1>2. /\ s \o t \in Seq(S) /\ Len(s \o t) = Len(s) + Len(t)
      /\ \A i \in 1..(Len(s) + Len(t)) :
           (s \o t)[i] = IF i =< Len(s) THEN s[i] ELSE t[i - Len(s)]
  BY ConcatProperties
<1>3. DOMAIN (s \o t) = 1..(Len(s) + Len(t))
  BY <1>2, LenProperties
<1>4. ASSUME NEW i \in DOMAIN (s \o t)
      PROVE  (s \o t)[i] \in Elements(s) \cup Elements(t)
  <2>1. i \in DOMAIN s \/ i - Len(s) \in DOMAIN t
    BY <1>1, <1>3
  <2> QED
    BY <1>1, <1>2, <1>3, <1>4, <2>1 DEF Elements
<1>5. ASSUME NEW i \in DOMAIN s
      PROVE  s[i] \in Elements(s \o t)
  BY <1>1, <1>2, <1>3 DEF Elements
<1>6. ASSUME NEW i \in DOMAIN t
      PROVE  t[i] \in Elements(s \o t)
  <2>1. i + Len(s) \in DOMAIN (s \o t) /\ (s \o t)[i + Len(s)] = t[i]
    BY <1>1, <1>2, <1>3
  <2> QED
    BY <2>1 DEF Elements
<1> QED
  BY <1>4, <1>5, <1>6 DEF Elements

(* What the options of a request select: exactly what was asked for.       *)
LEMMA OptionsOfUrl ==
  ASSUME NEW url, NEW o \in QueryParamsToOpts(url), ValidPageSize(o.pageSize)
  PROVE  /\ \A col \in Columns : o.fields[col] = Get(url.fields[col], "")
         /\ o.namespaces = Elements(url.namespace)
         /\ o.from = Numbers(Get(url.parsed["from"], NoValue))
         /\ o.to = Numbers(Get(url.parsed["to"], NoValue))
         /\ o.token = Numbers(Get(url.parsed["token"], NoValue))
<1> DEFINE given == [q \in Parsed |-> Get(url.parsed[q], NoValue)]
           fields == [col \in Columns |-> Get(url.fields[col], "")]
<1>1. /\ given["from"] = Get(url.parsed["from"], NoValue)
      /\ given["to"] = Get(url.parsed["to"], NoValue)
      /\ given["token"] = Get(url.parsed["token"], NoValue)
  BY DEF Parsed
<1>2. \A col \in Columns : fields[col] = Get(url.fields[col], "")
  OBVIOUS
<1>3. o \in Options(fields, Elements(url.namespace), given, DefaultPageSize)
  BY DEF QueryParamsToOpts
<1> HIDE DEF given, fields
<1>4. /\ o.fields = fields /\ o.namespaces = Elements(url.namespace)
      /\ o.from = Numbers(given["from"]) /\ o.to = Numbers(given["to"])
      /\ o.token = Numbers(given["token"])
  BY <1>3, OptionsShape
<1> QED
  BY <1>1, <1>2, <1>4

LEMMA OneValue ==
  ASSUME NEW n
  PROVE  /\ Numbers(Get(<<Value(n)>>, NoValue)) = {n}
         /\ Numbers(Get(<<>>, NoValue)) = {}
<1>1. Value(n) # NoValue /\ Value(n).is = n
  BY DEF Value, NoValue
<1>2. Get(<<Value(n)>>, NoValue) = {Value(n)}
  BY <1>1 DEF Get
<1>3. Get(<<>>, NoValue) = {}
  BY DEF Get
<1> QED
  BY <1>1, <1>2, <1>3 DEF Numbers

LEMMA PlacesBefore ==
  ASSUME NEW S, NEW s \in Seq(S), NEW i \in DOMAIN s
  PROVE  i \in Nat /\ \A j \in 1..(i - 1) : j \in DOMAIN s /\ ~(i =< j)
<1>1. Len(s) \in Nat /\ DOMAIN s = 1..Len(s)
  BY LenProperties
<1> QED
  BY <1>1

(* The first value given for each key counts, in the query as for the user. *)
LEMMA FirstValueCounts ==
  ASSUME NEW tokens \in Seq(Token), NEW row,
         \A t \in Elements(tokens) : t.key \in SEARCH_KEYS /\ t.value # ""
  PROVE  (\A col \in Columns : \A v \in Get(ValuesOf(tokens, col), "") : row[col] = v)
         <=> (\A i \in DOMAIN tokens :
                \/ tokens[i].key = "namespace"
                \/ \E j \in 1..(i - 1) : tokens[j].key = tokens[i].key
                \/ row[tokens[i].key] = tokens[i].value)
<1>1. \A i \in DOMAIN tokens :
        i \in Nat /\ \A j \in 1..(i - 1) : j \in DOMAIN tokens /\ ~(i =< j)
  BY PlacesBefore
<1>2. \A i \in DOMAIN tokens : tokens[i].key \in SEARCH_KEYS /\ tokens[i].value # ""
  BY DEF Elements
<1>3. ASSUME \A col \in Columns : \A v \in Get(ValuesOf(tokens, col), "") : row[col] = v,
             NEW i \in DOMAIN tokens, tokens[i].key # "namespace",
             \A j \in 1..(i - 1) : tokens[j].key # tokens[i].key
      PROVE  row[tokens[i].key] = tokens[i].value
  <2>1. tokens[i].key \in Columns
    BY <1>2, <1>3 DEF SEARCH_KEYS
  <2>2. PICK col \in Columns : col = tokens[i].key
    BY <2>1
  <2>3. Get(ValuesOf(tokens, col), "") = {tokens[i].value} \ {""}
    BY <1>3, <2>2, ValuesGiven
  <2>4. tokens[i].value \in Get(ValuesOf(tokens, col), "")
    BY <1>2, <2>3
  <2> QED
    BY <1>3, <2>2, <2>4
<1>4. ASSUME \A i \in DOMAIN tokens :
               \/ tokens[i].key = "namespace"
               \/ \E j \in 1..(i - 1) : tokens[j].key = tokens[i].key
               \/ row[tokens[i].key] = tokens[i].value,
             NEW col \in Columns, NEW v \in Get(ValuesOf(tokens, col), "")
      PROVE  row[col] = v
  <2> DEFINE places == {i \in DOMAIN tokens : tokens[i].key = col}
  <2>1. places # {}
    <3> SUFFICES ASSUME \A i \in DOMAIN tokens : tokens[i].key # col
                 PROVE  FALSE
      OBVIOUS
    <3>1. ValuesOf(tokens, col) = <<>>
      BY ValuesGiven
    <3> QED
      BY <1>4, <3>1 DEF Get
  <2>2. places \in SUBSET Nat
    BY <1>1
  <2>3. PICK i \in places : \A j \in places : i =< j
    BY <2>1, <2>2, SmallestOf
  <2>4. \A j \in 1..(i - 1) : tokens[j].key # col
    <3> SUFFICES ASSUME NEW j \in 1..(i - 1), tokens[j].key = col
                 PROVE  FALSE
      OBVIOUS
    <3>1. i \in DOMAIN tokens
      BY <2>3
    <3>2. j \in DOMAIN tokens /\ ~(i =< j)
      BY <1>1, <3>1
    <3> QED
      BY <2>3, <3>2
  <2>5. Get(ValuesOf(tokens, col), "") = {tokens[i].value} \ {""}
    BY <2>3, <2>4, ValuesGiven
  <2>6. col # "namespace"
    BY <1>4 DEF Columns
  <2>7. row[tokens[i].key] = tokens[i].value /\ tokens[i].key = col
    BY <1>4, <2>3, <2>4, <2>6
  <2> QED
    BY <1>4, <2>5, <2>7
<1> QED
  BY <1>3, <1>4

LEMMA SelectsWanted ==
  ASSUME NEW asked, Asks(asked), NEW url, url = asked.url,
         NEW o \in QueryParamsToOpts(url), ValidPageSize(o.pageSize),
         NEW row \in AuditEventRecord, NEW table, row \in table
  PROVE  row \in ApplyQueryFilters(table, o) <=> Wanted(asked, row)
<1> DEFINE tokens == asked.form.search
           value == asked.form.dateRange
           range == ResolveDateRange(value, asked.at)
           selected == asked.form.selected
<1>1. /\ url.fields = asked.url.fields /\ url.namespace = asked.url.namespace
      /\ url.parsed["from"] = asked.url.parsed["from"]
      /\ url.parsed["to"] = asked.url.parsed["to"]
  OBVIOUS
<1>2. /\ tokens \in Seq(Token)
      /\ \A t \in Elements(tokens) : t.key \in SEARCH_KEYS /\ t.value # ""
      /\ selected \in Seq(STRING)
  BY PageAssumption DEF Asks
<1>3. \A col \in Columns : o.fields[col] = Get(ValuesOf(tokens, col), "")
  <2>1. asked.url.fields = [col \in Columns |-> ValuesOf(tokens, col)]
    BY DEF Asks
  <2>2. \A col \in Columns : url.fields[col] = ValuesOf(tokens, col)
    BY <1>1, <2>1
  <2> HIDE DEF tokens
  <2> QED
    BY <2>2, OptionsOfUrl
<1>4. o.namespaces = Elements(selected) \cup Elements(ValuesOf(tokens, "namespace"))
  <2>1. ValuesOf(tokens, "namespace") \in Seq(STRING)
    BY <1>2, ValuesGiven
  <2>2. url.namespace = selected \o ValuesOf(tokens, "namespace")
    BY <1>1 DEF Asks
  <2> HIDE DEF tokens
  <2>3. o.namespaces = Elements(selected \o ValuesOf(tokens, "namespace"))
    BY <2>2, OptionsOfUrl
  <2>4. selected \in Seq(STRING)
    BY <1>2
  <2> HIDE DEF selected
  <2> QED
    BY <2>1, <2>3, <2>4, ElementsOfConcat
<1>5. /\ Complete(value) => o.from = {range.from} /\ o.to = {range.to}
      /\ ~Complete(value) => o.from = {} /\ o.to = {}
  <2>1. range["from"] = range.from /\ range["to"] = range.to
    OBVIOUS
  <2>2. /\ url.parsed["from"] = Bound(value, asked.at, "from")
        /\ url.parsed["to"] = Bound(value, asked.at, "to")
    BY <1>1 DEF Asks
  <2>3. /\ o.from = Numbers(Get(url.parsed["from"], NoValue))
        /\ o.to = Numbers(Get(url.parsed["to"], NoValue))
    BY OptionsOfUrl
  <2> HIDE DEF value
  <2> QED
    BY <2>1, <2>2, <2>3, OneValue DEF Bound
<1>6. row.timestamp \in Nat
  BY DEF AuditEventRecord
<1>7. (/\ \A t \in o.from : row.timestamp >= t
       /\ \A t \in o.to : row.timestamp =< t)
      <=> (Complete(value) => row.timestamp \in range.from..range.to)
  <2> HIDE DEF value, range
  <2> QED
    BY <1>5, <1>6
<1>8. row \in ApplyQueryFilters(table, o) <=>
        /\ \A col \in Columns : \A v \in o.fields[col] : row[col] = v
        /\ o.namespaces # {} => row.namespace \in o.namespaces
        /\ \A t \in o.from : row.timestamp >= t
        /\ \A t \in o.to : row.timestamp =< t
  BY DEF ApplyQueryFilters
<1>9. Wanted(asked, row) <=>
        /\ o.namespaces # {} => row.namespace \in o.namespaces
        /\ \A i \in DOMAIN tokens :
             \/ tokens[i].key = "namespace"
             \/ \E j \in 1..(i - 1) : tokens[j].key = tokens[i].key
             \/ row[tokens[i].key] = tokens[i].value
        /\ Complete(value) => row.timestamp \in range.from..range.to
  BY <1>4 DEF Wanted
<1> HIDE DEF tokens, value, range, selected
<1>10. (\A col \in Columns : \A v \in o.fields[col] : row[col] = v)
       <=> (\A i \in DOMAIN tokens :
              \/ tokens[i].key = "namespace"
              \/ \E j \in 1..(i - 1) : tokens[j].key = tokens[i].key
              \/ row[tokens[i].key] = tokens[i].value)
  <2>1. (\A col \in Columns : \A v \in o.fields[col] : row[col] = v)
        <=> (\A col \in Columns : \A v \in Get(ValuesOf(tokens, col), "") : row[col] = v)
    BY <1>3
  <2>2. /\ tokens \in Seq(Token)
        /\ \A t \in Elements(tokens) : t.key \in SEARCH_KEYS /\ t.value # ""
    BY <1>2
  <2>3. (\A col \in Columns : \A v \in Get(ValuesOf(tokens, col), "") : row[col] = v)
        <=> (\A i \in DOMAIN tokens :
               \/ tokens[i].key = "namespace"
               \/ \E j \in 1..(i - 1) : tokens[j].key = tokens[i].key
               \/ row[tokens[i].key] = tokens[i].value)
    BY <2>2, FirstValueCounts
  <2> QED
    BY <2>1, <2>3
<1> QED
  BY <1>7, <1>8, <1>9, <1>10

(* Where a row lies: below the token a page was asked with, left for the   *)
(* next page, or among some events.                                        *)
Below(row, above) == \A t \in above : row.id < t
LeftOver(row, next) == \E t \in next : row.id < t
Among(row, events) == \E e \in events : e.id = row.id

(* An answer has nothing that is not wanted, and all that is wanted        *)
(* between the tokens it begins and ends with.                             *)
Answers(answer, asked, table, above) ==
  /\ \A e \in answer.events :
       \E row \in table : row.id = e.id /\ Wanted(asked, row)
  /\ \A row \in table :
       Wanted(asked, row) /\ Below(row, above) =>
         LeftOver(row, answer.next) \/ Among(row, answer.events)

LEMMA AnswersAsked ==
  ASSUME NEW table, Keyed(table), table \subseteq AuditEventRecord, NEW db,
         NEW asked, Asks(asked), NEW url, url = asked.url,
         NEW above, above = Numbers(Get(url.parsed["token"], NoValue)),
         NEW answer, answer = HttpQueryEvents(table, db, url), answer.status = "200"
  PROVE  Answers(answer, asked, table, above)
<1>1. PICK o \in QueryParamsToOpts(url) :
        /\ ValidPageSize(o.pageSize) /\ Shaped(o)
        /\ answer.events = {DomainEventToResponse(e) : e \in QueryEvents(table, o).events}
        /\ answer.next = QueryEvents(table, o).next
  BY HttpAnswer
<1>2. o.token = above
  BY <1>1, OptionsOfUrl
<1> DEFINE page == QueryEvents(table, o)
           matching == ApplyQueryFilters(table, o)
           rest == Remaining(table, o)
<1>3. /\ page.events \subseteq rest
      /\ page.next = {} => page.events = rest
      /\ page.next # {} =>
           \E l \in page.events :
             /\ page.next = {l.id}
             /\ \A e \in rest : e \in page.events <=> e.id >= l.id
  BY <1>1, PageOfShape
<1>4. \A row \in rest : row \in matching
  BY DEF Remaining, BelowToken
<1>5. \A row \in matching : Below(row, above) => row \in rest
  BY <1>2 DEF Remaining, BelowToken, Below
<1>6. \A row \in matching : row \in table
  BY DEF ApplyQueryFilters
<1>7. \A row \in table : row \in matching <=> Wanted(asked, row)
  BY <1>1, SelectsWanted
<1>8. /\ answer.events = {DomainEventToResponse(e) : e \in page.events}
      /\ answer.next = page.next
  BY <1>1
<1> HIDE DEF page, rest, matching
<1>9. \A row \in page.events :
        row \in table /\ Wanted(asked, row) /\ DomainEventToResponse(row).id = row.id
  BY <1>3, <1>4, <1>6, <1>7, ResponseKeepsId
<1>10. ASSUME NEW row \in table, Wanted(asked, row), Below(row, above)
       PROVE  LeftOver(row, answer.next) \/ Among(row, answer.events)
  <2>1. row \in rest
    BY <1>5, <1>7, <1>10
  <2>2. CASE row \in page.events
    BY <1>8, <1>9, <2>2 DEF Among
  <2>3. CASE row \notin page.events
    <3>1. PICK l \in page.events :
            page.next = {l.id} /\ \A e \in rest : e \in page.events <=> e.id >= l.id
      BY <1>3, <2>1, <2>3
    <3>2. ~(row.id >= l.id) /\ row.id \in Nat /\ l.id \in Nat
      BY <1>9, <2>1, <2>3, <3>1 DEF Keyed
    <3> QED
      BY <1>8, <3>1, <3>2 DEF LeftOver
  <2> QED
    BY <2>2, <2>3
<1> QED
  BY <1>8, <1>9, <1>10 DEF Answers

(* The request that is out, when it is settled.                            *)
LEMMA SettledOf ==
  ASSUME PageInv, FilterInv, NEW i \in DOMAIN inFlight, Settle(i)
  PROVE  Out(inFlight[i]) /\ Sent(inFlight[i]) /\ inFlight' = <<>> /\ FormOK'
<1>1. Out(inFlight[i]) /\ OneOut' /\ loading' = FALSE
  BY SettledNone
<1>2. inFlight' = <<>>
  BY <1>1 DEF OneOut
<1> QED
  BY <1>1, <1>2 DEF FilterInv, FormOK, Settle, world

(* The first page of a search. *)
LEMMA FirstPageFilters ==
  ASSUME PageInv, FilterInv, NEW r, Out(r), Sent(r), ~r.append,
         NEW answer \in r.answer, answer.status = "200",
         rows' = rows, shown' = Descending(answer.events), token' = answer.next,
         NEW asked, asked = [form |-> r.form, at |-> r.at, url |-> r.url],
         origin'.first = {asked}, origin'.asked = {asked}, origin'.seen = r.seen
  PROVE  /\ (origin.seen \subseteq rows)' /\ (origin.first \subseteq origin.asked)'
         /\ ShownAreWanted' /\ NothingSkipped'
<1> DEFINE D == Descending(answer.events)
<1>1. Follows(answer, r.append)
  BY DEF Out
<1>2. Keyed(answer.events)
  BY <1>1 DEF Follows
<1>3. /\ \A i \in DOMAIN D : D[i] \in answer.events
      /\ \A e \in answer.events : \E i \in DOMAIN D : D[i] = e
  <2>1. D \in Seq(answer.events) /\ \A e \in answer.events : \E i \in DOMAIN D : D[i] = e
    BY <1>2, DescendingOf
  <2> HIDE DEF D
  <2> QED
    BY <2>1, LenProperties, ElementOfSeq
<1>4. PICK db : answer = HttpQueryEvents(r.seen, db, r.url)
  BY DEF Sent
<1>5. r.seen \subseteq rows /\ Keyed(r.seen) /\ r.seen \subseteq AuditEventRecord
  <2>1. r.seen \subseteq rows
    BY DEF Sent
  <2> QED
    BY <2>1, TableKeyed, KeyedSubset DEF PageInv
<1>6. Asks(asked) /\ asked.url = r.url
  BY DEF Sent, Asks
<1>7. r.url.parsed["token"] = <<>>
  BY DEF Sent
<1>8. /\ \A e \in answer.events :
           \E row \in r.seen : row.id = e.id /\ Wanted(asked, row)
      /\ \A row \in r.seen : Wanted(asked, row) =>
           LeftOver(row, answer.next) \/ Among(row, answer.events)
  <2> DEFINE above == {}
  <2>1. above = Numbers(Get(r.url.parsed["token"], NoValue))
    BY <1>7, OneValue
  <2>2. \A row : Below(row, above)
    BY DEF Below
  <2> HIDE DEF above
  <2>3. Answers(answer, asked, r.seen, above)
    BY <1>4, <1>5, <1>6, <2>1, AnswersAsked
  <2> QED
    BY <2>2, <2>3 DEF Answers
<1> HIDE DEF D
<1>9. shown' = D
  BY DEF D
<1>10. ShownAreWanted'
  <2> SUFFICES ASSUME NEW i \in DOMAIN D
               PROVE  \E row \in rows : row.id = D[i].id /\ Wanted(asked, row)
    BY <1>9 DEF ShownAreWanted
  <2> QED
    BY <1>3, <1>5, <1>8
<1>11. NothingSkipped'
  <2> SUFFICES ASSUME NEW row \in r.seen, Wanted(asked, row)
               PROVE  \/ \E t \in answer.next : row.id < t
                      \/ \E i \in DOMAIN D : D[i].id = row.id
    BY <1>9 DEF NothingSkipped
  <2>1. LeftOver(row, answer.next) \/ Among(row, answer.events)
    BY <1>8
  <2> QED
    BY <1>3, <2>1 DEF LeftOver, Among
<1> QED
  BY <1>5, <1>10, <1>11

(* A later page, whatever the filters are by then. *)
LEMMA LaterPageFilters ==
  ASSUME PageInv, FilterInv, NEW r, Out(r), Sent(r), r.append,
         NEW answer \in r.answer, answer.status = "200",
         rows' = rows, shown' = shown \o Descending(answer.events),
         token' = answer.next,
         NEW asked, asked = [form |-> r.form, at |-> r.at, url |-> r.url],
         origin'.first = origin.first, origin'.asked = origin.asked \cup {asked},
         origin'.seen = origin.seen
  PROVE  /\ (origin.seen \subseteq rows)' /\ (origin.first \subseteq origin.asked)'
         /\ ShownAreWanted' /\ NothingSkipped'
<1> DEFINE D == Descending(answer.events)
<1>1. Follows(answer, r.append)
  BY DEF Out
<1>2. Keyed(answer.events) /\ answer.events \subseteq Shown
  BY <1>1 DEF Follows
<1>3. /\ D \in Seq(Shown)
      /\ \A i \in DOMAIN D : D[i] \in answer.events
      /\ \A e \in answer.events : \E i \in DOMAIN D : D[i] = e
  <2>1. D \in Seq(answer.events) /\ \A e \in answer.events : \E i \in DOMAIN D : D[i] = e
    BY <1>2, DescendingOf
  <2> HIDE DEF D
  <2> QED
    BY <1>2, <2>1, LenProperties, ElementOfSeq, SeqMonotonic
<1>4. PICK db : answer = HttpQueryEvents(r.seen, db, r.url)
  BY DEF Sent
<1>5. /\ r.seen \subseteq rows /\ Keyed(r.seen) /\ r.seen \subseteq AuditEventRecord
      /\ origin.seen \subseteq r.seen
  <2>1. r.seen \subseteq rows /\ origin.seen \subseteq r.seen
    BY DEF Sent
  <2> QED
    BY <2>1, TableKeyed, KeyedSubset DEF PageInv
<1>6. /\ \E t \in Nat : token = {t}
      /\ token = Numbers(Get(r.url.parsed["token"], NoValue))
  BY OneValue DEF Out
<1>7. Answers(answer, asked, r.seen, token)
  <2>1. Asks(asked) /\ asked.url = r.url
    BY DEF Sent, Asks
  <2> QED
    BY <1>4, <1>5, <1>6, <2>1, AnswersAsked
<1> HIDE DEF D
<1>8. shown' = shown \o D /\ shown \in Seq(Shown)
  BY DEF D, PageInv, ShownOK
<1>9. Elements(shown') = Elements(shown) \cup Elements(D)
  BY <1>3, <1>8, ElementsOfConcat
<1>10. ASSUME NEW e \in Elements(shown')
       PROVE  \E a \in origin'.asked, row \in rows : row.id = e.id /\ Wanted(a, row)
  <2>1. CASE e \in Elements(shown)
    <3>1. PICK i \in DOMAIN shown : e = shown[i]
      BY <2>1 DEF Elements
    <3> QED
      BY <3>1 DEF FilterInv, ShownAreWanted
  <2>2. CASE e \in Elements(D)
    <3>1. e \in answer.events
      BY <1>3, <2>2 DEF Elements
    <3> QED
      BY <1>5, <1>7, <3>1 DEF Answers
  <2> QED
    BY <1>9, <2>1, <2>2
<1>11. ShownAreWanted'
  <2> SUFFICES ASSUME NEW i \in DOMAIN shown'
               PROVE  \E a \in origin'.asked, row \in rows :
                        row.id = shown'[i].id /\ Wanted(a, row)
    BY DEF ShownAreWanted
  <2> QED
    BY <1>10 DEF Elements
<1>12. ASSUME NEW row \in origin.seen, \A a \in origin'.asked : Wanted(a, row)
       PROVE  LeftOver(row, answer.next) \/ Among(row, Elements(shown'))
  <2>1. CASE Below(row, token)
    <3>1. LeftOver(row, answer.next) \/ Among(row, answer.events)
      BY <1>5, <1>7, <1>12, <2>1 DEF Answers
    <3>2. answer.events \subseteq Elements(D)
      BY <1>3 DEF Elements
    <3> QED
      BY <1>9, <3>1, <3>2 DEF Among
  <2>2. CASE ~Below(row, token)
    <3>1. ~LeftOver(row, token)
      BY <1>6, <2>2 DEF LeftOver, Below
    <3>2. origin.asked # {}
      <4>1. shown # <<>>
        BY <1>6 DEF PageInv, ShownOK, TokenIsLastShown
      <4>2. 1 \in DOMAIN shown
        BY <1>8, <4>1
      <4> QED
        BY <4>2 DEF FilterInv, ShownAreWanted
    <3>3. \E i \in DOMAIN shown : shown[i].id = row.id
      BY <1>12, <3>1, <3>2 DEF FilterInv, NothingSkipped, LeftOver
    <3> QED
      BY <1>9, <3>3 DEF Among, Elements
  <2> QED
    BY <2>1, <2>2
<1>13. NothingSkipped'
  <2> SUFFICES ASSUME NEW row \in origin.seen, \A a \in origin'.asked : Wanted(a, row)
               PROVE  \/ \E t \in answer.next : row.id < t
                      \/ \E i \in DOMAIN shown' : shown'[i].id = row.id
    BY DEF NothingSkipped
  <2>1. LeftOver(row, answer.next) \/ Among(row, Elements(shown'))
    BY <1>12
  <2> QED
    BY <2>1 DEF LeftOver, Among, Elements
<1> QED
  BY <1>11, <1>13 DEF FilterInv

LEMMA ReceiveFilters ==
  ASSUME PageInv, FilterInv, NEW i \in DOMAIN inFlight, Receive(i)
  PROVE  FilterInv'
<1>1. PICK answer \in inFlight[i].answer :
        /\ answer.status = "200"
        /\ shown' = IF inFlight[i].append THEN shown \o Descending(answer.events)
                    ELSE Descending(answer.events)
        /\ token' = answer.next
  BY DEF Receive, Show
<1>2. PICK r : r = inFlight[i]
  OBVIOUS
<1>3. Out(r) /\ Sent(r) /\ inFlight' = <<>> /\ FormOK' /\ rows' = rows
  BY <1>2, SettledOf DEF Receive, Settle, world
<1>4. PICK asked : asked = [form |-> r.form, at |-> r.at, url |-> r.url]
  OBVIOUS
<1>5. /\ (origin.seen \subseteq rows)' /\ (origin.first \subseteq origin.asked)'
      /\ ShownAreWanted' /\ NothingSkipped'
  <2>1. CASE r.append
    <3>1. /\ origin'.first = origin.first /\ origin'.asked = origin.asked \cup {asked}
          /\ origin'.seen = origin.seen
      <4>1. origin' = [origin EXCEPT !.asked = @ \cup {asked}, !.current = r.newest]
        BY <1>2, <1>4, <2>1 DEF Receive
      <4> QED
        BY <4>1 DEF PageInv, OriginOK
    <3> QED
      BY <1>1, <1>2, <1>3, <1>4, <2>1, <3>1, LaterPageFilters
  <2>2. CASE ~r.append
    <3>1. origin' = [first |-> {asked}, asked |-> {asked}, seen |-> r.seen,
                     current |-> r.newest]
      BY <1>2, <1>4, <2>2 DEF Receive
    <3>2. origin'.first = {asked} /\ origin'.asked = {asked} /\ origin'.seen = r.seen
      BY <3>1
    <3> QED
      BY <1>1, <1>2, <1>3, <1>4, <2>2, <3>2, FirstPageFilters
  <2> QED
    BY <2>1, <2>2
<1>6. (\A j \in DOMAIN inFlight : Sent(inFlight[j]))'
  BY <1>3
<1> QED
  BY <1>3, <1>5, <1>6 DEF FilterInv

LEMMA FilterInit == Init => FilterInv
<1> SUFFICES ASSUME Init
             PROVE  FilterInv
  OBVIOUS
<1>1. FormOK
  BY PageAssumption DEF Init, FormOK
<1>2. /\ inFlight = <<>> /\ shown = <<>>
      /\ origin.seen = {} /\ origin.asked = {} /\ origin.first = {}
  BY DEF Init, NoOrigin
<1> QED
  BY <1>1, <1>2 DEF FilterInv, ShownAreWanted, NothingSkipped

(* The page keeps what it shows while the table grows and the form changes. *)
LEMMA FiltersAround ==
  ASSUME FilterInv, FormOK', rows \subseteq rows',
         UNCHANGED <<shown, token, inFlight, origin>>
  PROVE  FilterInv'
<1>1. (\A i \in DOMAIN inFlight : Sent(inFlight[i]))'
  <2>1. \A r : Sent(r) => Sent(r)'
    BY DEF Sent, Asks
  <2> QED
    BY <2>1 DEF FilterInv
<1>2. (origin.seen \subseteq rows)' /\ (origin.first \subseteq origin.asked)'
  BY DEF FilterInv
<1>3. ShownAreWanted' /\ NothingSkipped'
  BY DEF FilterInv, ShownAreWanted, NothingSkipped
<1> QED
  BY <1>1, <1>2, <1>3 DEF FilterInv

LEMMA EditFiltered ==
  ASSUME FilterInv, NEW new, Edit(new),
         {"selected", "dateRange", "search", "pageSize"} \subseteq DOMAIN new,
         new.selected \in Seq(STRING), new.search \in SearchQueries
  PROVE  FilterInv'
<1>1. FormOK'
  BY DEF Edit, world, FilterInv, FormOK
<1> QED
  BY <1>1, FiltersAround DEF Edit, world

LEMMA WorldFilters ==
  ASSUME PageInv, FilterInv,
         \/ Insert \/ PassTime \/ LoadNamespaces
         \/ ToggleNamespace \/ EditFilters \/ EditPageSize
         \/ UNCHANGED vars
  PROVE  FilterInv'
<1>1. FormOK
  BY DEF FilterInv
<1>2. CASE Insert \/ PassTime \/ UNCHANGED vars
  BY <1>1, <1>2, FiltersAround DEF Insert, PassTime, vars, FormOK
<1>3. CASE LoadNamespaces
  <2>1. PICK db \in BOOLEAN : listed' = {HttpListNamespaces(rows, db).namespaces}
    BY <1>3 DEF LoadNamespaces
  <2>2. HttpListNamespaces(rows, db).namespaces \subseteq STRING
    <3>1. rows \subseteq AuditEventRecord
      BY TableKeyed DEF PageInv
    <3> QED
      BY <3>1 DEF HttpListNamespaces, Refusal, QueryNamespaces, AuditEventRecord
  <2> QED
    BY <1>1, <1>3, <2>1, <2>2, FiltersAround DEF LoadNamespaces, FormOK
<1>4. CASE ToggleNamespace
  <2>1. PICK namespace \in UNION listed :
          Edit([form EXCEPT !.selected =
            IF namespace \in Elements(@)
            THEN AtPlaces(@, {i \in DOMAIN @ : @[i] # namespace})
            ELSE Append(@, namespace)])
    BY <1>4 DEF ToggleNamespace
  <2>2. PICK new : new = IF namespace \in Elements(form.selected)
                         THEN AtPlaces(form.selected,
                           {i \in DOMAIN form.selected : form.selected[i] # namespace})
                         ELSE Append(form.selected, namespace)
    OBVIOUS
  <2>3. namespace \in STRING /\ form.selected \in Seq(STRING)
    BY <1>1 DEF FormOK
  <2>4. new \in Seq(STRING)
    <3>1. {i \in DOMAIN form.selected : form.selected[i] # namespace}
            \in SUBSET DOMAIN form.selected
      OBVIOUS
    <3>2. AtPlaces(form.selected,
            {i \in DOMAIN form.selected : form.selected[i] # namespace}) \in Seq(STRING)
      BY <2>3, <3>1, PlacesInOrder
    <3>3. Append(form.selected, namespace) \in Seq(STRING)
      BY <2>3
    <3> QED
      BY <2>2, <3>2, <3>3
  <2>5. Edit([form EXCEPT !.selected = new])
    BY <2>1, <2>2
  <2> QED
    BY <1>1, <2>4, <2>5, EditFiltered DEF FormOK
<1>5. CASE EditFilters
  <2>1. ASSUME NEW v, Edit([form EXCEPT !.dateRange = v])
        PROVE  FilterInv'
    BY <1>1, <2>1, EditFiltered DEF FormOK
  <2>2. ASSUME NEW s \in SearchQueries, Edit([form EXCEPT !.search = s])
        PROVE  FilterInv'
    BY <1>1, <2>2, EditFiltered DEF FormOK
  <2> QED
    BY <1>5, <2>1, <2>2 DEF EditFilters
<1>6. CASE EditPageSize
  <2>1. PICK n : Edit([form EXCEPT !.pageSize = n])
    BY <1>6 DEF EditPageSize
  <2> QED
    BY <1>1, <2>1, EditFiltered DEF FormOK
<1> QED
  BY <1>2, <1>3, <1>4, <1>5, <1>6

(* What is sent asks for what the form says. *)
LEMMA BuiltAsks ==
  ASSUME FilterInv, NEW params \in ParseSearchQuery(form.search), NEW pageToken,
         NEW r, r.form = form, r.at = now, r.url = BuildUrl(params, pageToken)
  PROVE  Asks(r) /\ (pageToken = {} => r.url.parsed["token"] = <<>>)
<1>1. FormOK
  BY DEF FilterInv
<1>2. params = form.search
      /\ \A t \in Elements(form.search) : t.key \in SEARCH_KEYS /\ t.value # ""
  BY DEF ParseSearchQuery
<1> DEFINE range == ResolveDateRange(form.dateRange, now)
           url == Parameters(params, form.selected \o ValuesOf(params, "namespace"),
                             pageToken)
<1>3. /\ url.fields = [col \in Columns |-> ValuesOf(params, col)]
      /\ url.namespace = form.selected \o ValuesOf(params, "namespace")
  BY DEF Parameters
<1>4. \A end \in {"from", "to"} :
        url.parsed[end] = IF Complete(form.dateRange) THEN <<Value(range[end])>> ELSE <<>>
  BY DEF Parameters, Parsed
<1>5. pageToken = {} => url.parsed["token"] = <<>>
  BY DEF Parameters, Parsed
<1>6. r.url = url
  BY DEF BuildUrl
<1>7. \A end \in {"from", "to"} : url.parsed[end] = Bound(form.dateRange, now, end)
  BY <1>4 DEF Bound
<1> HIDE DEF url
<1> QED
  BY <1>1, <1>2, <1>3, <1>5, <1>6, <1>7 DEF Asks, FormOK

LEMMA StartFilters ==
  ASSUME PageInv, FilterInv, ~loading, NEW append \in BOOLEAN, NEW pageToken,
         ~append => pageToken = {},
         StartSearch(append, pageToken)
  PROVE  FilterInv'
<1>1. inFlight = <<>>
  BY DEF PageInv, OneOut
<1>2. /\ UNCHANGED <<rows, listed, form, shown, token>>
      /\ origin'.first = origin.first /\ origin'.asked = origin.asked
      /\ origin'.seen = origin.seen
  BY DEF StartSearch, world, PageInv, OriginOK
<1>3. /\ FormOK' /\ (origin.seen \subseteq rows)'
      /\ (origin.first \subseteq origin.asked)'
      /\ ShownAreWanted' /\ NothingSkipped'
  BY <1>2 DEF FilterInv, FormOK, ShownAreWanted, NothingSkipped
<1>4. CASE UNCHANGED inFlight
  BY <1>1, <1>3, <1>4 DEF FilterInv
<1>5. ASSUME NEW params \in ParseSearchQuery(form.search),
             inFlight' = Append(
               [i \in DOMAIN inFlight |-> [inFlight[i] EXCEPT !.newest = FALSE]],
               [append |-> append, url |-> BuildUrl(params, pageToken),
                form |-> form, at |-> now, newest |-> TRUE,
                answer |-> {}, seen |-> {}])
      PROVE  (\A i \in DOMAIN inFlight : Sent(inFlight[i]))'
  <2>1. PICK r :
          r = [append |-> append, url |-> BuildUrl(params, pageToken),
               form |-> form, at |-> now, newest |-> TRUE,
               answer |-> {}, seen |-> {}]
    OBVIOUS
  <2>2. inFlight' = <<r>>
    <3>1. [i \in DOMAIN inFlight |-> [inFlight[i] EXCEPT !.newest = FALSE]] = <<>>
      BY <1>1
    <3>2. inFlight' = Append(<<>>, r)
      BY <1>5, <2>1, <3>1
    <3> QED
      BY <3>2
  <2>3. /\ r.form = form /\ r.at = now /\ r.url = BuildUrl(params, pageToken)
        /\ r.append = append /\ r.answer = {} /\ {"form", "at"} \subseteq DOMAIN r
    BY <2>1
  <2>4. Asks(r) /\ (pageToken = {} => r.url.parsed["token"] = <<>>)
    BY <1>5, <2>3, BuiltAsks
  <2>5. Sent(r)'
    BY <2>3, <2>4 DEF Sent, Asks
  <2> QED
    BY <2>2, <2>5
<1> QED
  BY <1>3, <1>4, <1>5 DEF StartSearch, FilterInv

LEMMA ServeFilters ==
  ASSUME PageInv, FilterInv, Serve
  PROVE  FilterInv'
<1>1. PICK i \in DOMAIN inFlight, db \in BOOLEAN :
        /\ inFlight[i].answer = {}
        /\ inFlight' = [inFlight EXCEPT
             ![i].answer = {HttpQueryEvents(rows, db, inFlight[i].url)},
             ![i].seen = rows]
  BY DEF Serve
<1>2. UNCHANGED <<rows, listed, form, shown, token, loading, origin>>
  BY DEF Serve, world
<1>3. PICK r : inFlight = <<r>> /\ Out(r)
  BY DEF PageInv, OneOut
<1>4. i = 1 /\ inFlight[i] = r /\ Sent(r)
  BY <1>1, <1>3 DEF FilterInv
<1>5. PICK answer : answer = HttpQueryEvents(rows, db, r.url)
  OBVIOUS
<1>6. PICK q : q = [r EXCEPT !.answer = {answer}, !.seen = rows]
  OBVIOUS
<1>7. inFlight' = <<q>>
  <2>1. inFlight' = [<<r>> EXCEPT ![1].answer = {answer}, ![1].seen = rows]
    BY <1>1, <1>3, <1>4, <1>5
  <2>2. \A x, y : [<<r>> EXCEPT ![1].answer = x, ![1].seen = y]
                  = <<[r EXCEPT !.answer = x, !.seen = y]>>
    OBVIOUS
  <2> QED
    BY <1>6, <2>1, <2>2
<1>8. /\ DOMAIN q = DOMAIN r /\ q.append = r.append /\ q.url = r.url
      /\ q.form = r.form /\ q.at = r.at
      /\ q.answer = {answer} /\ q.seen = rows
  BY <1>3, <1>4, <1>6 DEF Out, Sent
<1>9. Sent(q)'
  <2>1. Asks(r) /\ {"form", "at"} \subseteq DOMAIN r
        /\ (~r.append => r.url.parsed["token"] = <<>>)
    BY <1>4 DEF Sent
  <2>2. Asks(q)
    BY <1>8, <2>1 DEF Asks
  <2>3. origin.seen \subseteq rows
    BY DEF FilterInv
  <2>4. \E d \in BOOLEAN : answer = HttpQueryEvents(rows, d, r.url)
    BY <1>1, <1>5
  <2> QED
    BY <1>2, <1>8, <2>1, <2>2, <2>3, <2>4 DEF Sent, Asks
<1>10. (\A j \in DOMAIN inFlight : Sent(inFlight[j]))'
  BY <1>7, <1>9
<1>11. /\ FormOK' /\ (origin.seen \subseteq rows)'
       /\ (origin.first \subseteq origin.asked)'
  BY <1>2 DEF FilterInv, FormOK
<1>12. ShownAreWanted' /\ NothingSkipped'
  BY <1>2 DEF FilterInv, ShownAreWanted, NothingSkipped
<1> QED
  BY <1>10, <1>11, <1>12 DEF FilterInv

LEMMA FailFilters ==
  ASSUME PageInv, FilterInv, NEW i \in DOMAIN inFlight, Fail(i)
  PROVE  FilterInv'
<1>1. inFlight' = <<>> /\ FormOK'
  BY SettledOf DEF Fail
<1>2. UNCHANGED <<rows, shown, token, origin>>
  BY DEF Fail, Settle, world
<1>3. (origin.seen \subseteq rows)' /\ (origin.first \subseteq origin.asked)'
  BY <1>2 DEF FilterInv
<1>4. ShownAreWanted' /\ NothingSkipped'
  BY <1>2 DEF FilterInv, ShownAreWanted, NothingSkipped
<1>5. (\A j \in DOMAIN inFlight : Sent(inFlight[j]))'
  BY <1>1
<1> QED
  BY <1>1, <1>3, <1>4, <1>5 DEF FilterInv

LEMMA FilterNext == PageInv /\ FilterInv /\ [Next]_vars => FilterInv'
<1> SUFFICES ASSUME PageInv, FilterInv, [Next]_vars
             PROVE  FilterInv'
  OBVIOUS
<1>1. CASE \/ Insert \/ PassTime \/ LoadNamespaces
           \/ ToggleNamespace \/ EditFilters \/ EditPageSize
           \/ UNCHANGED vars
  BY <1>1, WorldFilters
<1>2. CASE ClickSearch \/ PressEnter
  <2>1. ~loading /\ StartSearch(FALSE, {})
    BY <1>2 DEF ClickSearch, PressEnter
  <2> QED
    BY <2>1, StartFilters
<1>3. CASE ClickLoadMore
  <2>1. ~loading /\ StartSearch(TRUE, token)
    BY <1>3 DEF ClickLoadMore
  <2> QED
    BY <2>1, StartFilters
<1>4. CASE Serve
  BY <1>4, ServeFilters
<1>5. CASE SettleAny
  BY <1>5, ReceiveFilters, FailFilters DEF SettleAny
<1> QED
  BY <1>1, <1>2, <1>3, <1>4, <1>5 DEF Next

LEMMA FiltersInductive == Spec => [](PageInv /\ FilterInv)
<1>1. Init => PageInv /\ FilterInv
  BY PageInit, FilterInit
<1>2. PageInv /\ FilterInv /\ [Next]_vars => (PageInv /\ FilterInv)'
  BY PageNext, FilterNext
<1> QED
  BY <1>1, <1>2, PTL DEF Spec

(* Every event on the screen is one that a search or a Load more whose     *)
(* page is on the screen asked for, for any events, searches, namespaces,  *)
(* date ranges and page sizes, whatever is edited, committed and lost and  *)
(* whichever days pass between the pages (QueryPage.tsx:45-86).            *)
THEOREM ScreenIsWanted == Spec => []ShownIsWanted
<1>1. PageInv /\ FilterInv => ShownIsWanted
  <2> SUFFICES ASSUME PageInv, FilterInv, NEW i \in DOMAIN shown
               PROVE  \E asked \in origin.asked : Wanted(asked, Row(shown[i]))
    BY DEF ShownIsWanted
  <2>1. PICK asked \in origin.asked, row \in rows :
          row.id = shown[i].id /\ Wanted(asked, row)
    BY DEF FilterInv, ShownAreWanted
  <2>2. \A e \in rows : e.id = shown[i].id <=> e = row
    BY <2>1 DEF PageInv, TableOK
  <2>3. Row(shown[i]) = row
    BY <2>2 DEF Row
  <2> QED
    BY <2>1, <2>3
<1> QED
  BY <1>1, FiltersInductive, PTL

(* What all pages on the screen were asked for, and was stored when the    *)
(* first was read, is on the screen or is left for Load more, for any page *)
(* size, number of pages and edits between them (QueryPage.tsx:75-86).     *)
THEOREM NothingIsSkipped == Spec => []NothingSkipped
BY FiltersInductive, PTL DEF FilterInv

(* The pages on the screen were asked for within the range of the first.   *)
SameRange ==
  \A first \in origin.first, asked \in origin.asked :
    ResolveDateRange(asked.form.dateRange, asked.at)
      = ResolveDateRange(first.form.dateRange, first.at)

(* Load more continues an unedited search as long as its date range does   *)
(* not resolve to other instants: nothing but the range that is resolved   *)
(* anew for each page can lose an event (QueryPage.tsx:48-52,319).         *)
THEOREM UnmovedSearchContinues == Spec => [](SameRange => LoadMoreContinues)
<1>1. FilterInv /\ SameRange => LoadMoreContinues
  <2> SUFFICES ASSUME FilterInv, SameRange,
                      NEW first \in origin.first, NEW row \in origin.seen,
                      \A asked \in origin.asked : SameFilters(asked.form, first.form),
                      Wanted(first, row)
               PROVE  \/ \E t \in token : row.id < t
                      \/ \E i \in DOMAIN shown : shown[i].id = row.id
    BY DEF LoadMoreContinues
  <2>1. first \in origin.asked
    BY DEF FilterInv
  <2>2. ASSUME NEW asked \in origin.asked
        PROVE  Wanted(asked, row)
    <3>1. /\ asked.form.selected = first.form.selected
          /\ asked.form.dateRange = first.form.dateRange
          /\ asked.form.search = first.form.search
      BY <2>2 DEF SameFilters
    <3>2. ResolveDateRange(asked.form.dateRange, asked.at)
            = ResolveDateRange(first.form.dateRange, first.at)
      BY <2>2 DEF SameRange
    <3> QED
      BY <3>1, <3>2 DEF Wanted
  <2> QED
    BY <2>1, <2>2 DEF FilterInv, NothingSkipped
<1> QED
  BY <1>1, FiltersInductive, PTL
=============================================================================
