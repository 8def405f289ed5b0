---------------------------- MODULE QueryApiProofs ----------------------------
(***************************************************************************)
(* Clients of both transports agree on what they saw, for any writers,     *)
(* requests and number of answers.                                         *)
(***************************************************************************)
EXTENDS QueryApi, RequestConversionProofs, SequenceTheorems

TableOK == rows \subseteq Candidates /\ \A e, f \in rows : e.id = f.id => e = f

HistoryOK == \E S : answers \in Seq(S)

IdsOf(events) == {e.id : e \in events}

(* Nothing is listed that is not stored. *)
ListedAreStored == \A i \in DOMAIN answers : Listed(i) \subseteq IdsOf(rows)

(* What an answer shows is a stored event as it is, or as JSON shows it.   *)
Shows(a) ==
  \A e \in a.answer.events : \E row \in rows :
    \/ e = row
    \/ a.method = "GET /api/events" /\ e = DomainEventToResponse(row)

ShownAreStored == \A i \in DOMAIN answers : Shows(answers[i])

ApiInv ==
  TableOK /\ HistoryOK /\ ListedAreStored /\ ShownAreStored /\ LaterAnswersKeep

LEMMA TableKeyed ==
  ASSUME TableOK
  PROVE  Keyed(rows) /\ rows \subseteq AuditEventRecord
BY CandidatesAssumption, FS_Subset DEF TableOK, Keyed, AuditEventRecord

(* One more answer. *)
LEMMA Appended ==
  ASSUME NEW S, NEW s \in Seq(S), NEW x
  PROVE  /\ Append(s, x) \in Seq(S \cup {x})
         /\ DOMAIN Append(s, x) = 1..(Len(s) + 1) /\ DOMAIN s = 1..Len(s)
         /\ Len(s) \in Nat
         /\ \A i \in 1..Len(s) : Append(s, x)[i] = s[i]
         /\ Append(s, x)[Len(s) + 1] = x
<1>1. s \in Seq(S \cup {x})
  BY SeqMonotonic
<1>2. x \in S \cup {x}
  OBVIOUS
<1> QED
  BY <1>1, <1>2, AppendProperties, LenProperties

-----------------------------------------------------------------------------
(* A row that matches, is below the cursor and not left for a later page   *)
(* is on the page.                                                         *)
LEMMA PageReaches ==
  ASSUME NEW table, Keyed(table), NEW o, Shaped(o),
         NEW e \in table, e \in BelowToken(ApplyQueryFilters({e}, o), o.token),
         \A t \in QueryEvents(table, o).next : e.id >= t
  PROVE  e \in QueryEvents(table, o).events
<1> DEFINE page == QueryEvents(table, o)
           rest == Remaining(table, o)
<1>1. e \in rest
  BY DEF Remaining, BelowToken, ApplyQueryFilters
<1>2. /\ page.next = {} => page.events = rest
      /\ page.next # {} =>
           \E l \in page.events :
             /\ page.next = {l.id}
             /\ \A f \in rest : f \in page.events <=> f.id >= l.id
  BY PageOfShape
<1> HIDE DEF page, rest
<1>3. \A t \in page.next : e.id >= t
  BY DEF page
<1> QED
  BY <1>1, <1>2, <1>3 DEF page

(* What a page lists is stored. *)
LEMMA PageStored ==
  ASSUME NEW table, Keyed(table), NEW o, Shaped(o)
  PROVE  QueryEvents(table, o).events \subseteq table
<1>1. QueryEvents(table, o).events \subseteq Remaining(table, o)
  BY PageOfShape
<1> QED
  BY <1>1 DEF Remaining, BelowToken, ApplyQueryFilters

(* What it takes for an answer to agree with those before it: it lists     *)
(* stored events, and each that it reaches.                                *)
Asked(a) ==
  CASE a.method = "GET /api/events" -> QueryParamsToOpts(a.request)
    [] a.method = "QueryEvents" -> QueryEventsRequestToOpts(a.request)
    [] OTHER -> {}

Reached(a, row) ==
  /\ a.answer.status \in {"200", "OK"}
  /\ \E o \in Asked(a) : row \in BelowToken(ApplyQueryFilters({row}, o), o.token)
  /\ \A t \in a.answer.next : row.id >= t

Agrees(a) ==
  /\ Shows(a)
  /\ IdsOf(a.answer.events) \subseteq IdsOf(rows)
  /\ \A e \in rows : Reached(a, e) => e.id \in IdsOf(a.answer.events)

Entry(method, request, answer) ==
  [method |-> method, request |-> request, answer |-> answer]

LEMMA HttpAgrees ==
  ASSUME TableOK, NEW r, NEW db
  PROVE  Agrees(Entry("GET /api/events", r, HttpQueryEvents(rows, db, r)))
<1> DEFINE answer == HttpQueryEvents(rows, db, r)
<1>1. CASE answer.status # "200" /\ answer.events = {} /\ answer.next = {}
  <2>1. answer.status # "OK"
    BY DEF HttpQueryEvents, Refusal, QueryResultToResponse
  <2> QED
    BY <1>1, <2>1 DEF Agrees, Shows, Reached, Entry, IdsOf
<1>2. ASSUME answer.status = "200",
             NEW o \in QueryParamsToOpts(r), ValidPageSize(o.pageSize), Shaped(o),
             answer.events = {DomainEventToResponse(e) : e \in QueryEvents(rows, o).events},
             answer.next = QueryEvents(rows, o).next
      PROVE  Agrees(Entry("GET /api/events", r, answer))
  <2>1. QueryEvents(rows, o).events \subseteq rows
    BY <1>2, TableKeyed, PageStored
  <2>2. IdsOf(answer.events) = IdsOf(QueryEvents(rows, o).events)
    BY <1>2, <2>1, TableKeyed, ResponseKeepsId DEF IdsOf
  <2>3. ASSUME NEW e \in rows, Reached(Entry("GET /api/events", r, answer), e)
        PROVE  e \in QueryEvents(rows, o).events
    <3>1. PICK p \in QueryParamsToOpts(r) :
            e \in BelowToken(ApplyQueryFilters({e}, p), p.token)
      BY <2>3 DEF Reached, Asked, Entry
    <3>2. p = o
      BY <1>2, OneQueryParams
    <3>3. \A t \in QueryEvents(rows, o).next : e.id >= t
      BY <1>2, <2>3 DEF Reached, Asked, Entry
    <3> QED
      BY <1>2, <3>1, <3>2, <3>3, TableKeyed, PageReaches
  <2>4. Shows(Entry("GET /api/events", r, answer))
    BY <1>2, <2>1 DEF Shows, Entry
  <2> HIDE DEF answer
  <2> QED
    BY <2>1, <2>2, <2>3, <2>4 DEF Agrees, Entry, IdsOf
<1> QED
  BY <1>1, <1>2, HttpAnswer

LEMMA GrpcAgrees ==
  ASSUME TableOK, NEW r \in Request, IsMessage(r), NEW db
  PROVE  Agrees(Entry("QueryEvents", r, GrpcQueryEvents(rows, db, r)))
<1> DEFINE answer == GrpcQueryEvents(rows, db, r)
<1>1. CASE answer.status # "OK" /\ answer.events = {} /\ answer.next = {}
  <2>1. answer.status # "200"
    BY DEF GrpcQueryEvents, Refusal
  <2> QED
    BY <1>1, <2>1 DEF Agrees, Shows, Reached, Entry, IdsOf
<1>2. ASSUME answer.status = "OK",
             NEW o \in QueryEventsRequestToOpts(r), Shaped(o),
             answer.events = QueryEvents(rows, o).events,
             answer.next = QueryEvents(rows, o).next
      PROVE  Agrees(Entry("QueryEvents", r, answer))
  <2>1. QueryEvents(rows, o).events \subseteq rows
    BY <1>2, TableKeyed, PageStored
  <2>2. ASSUME NEW e \in rows, Reached(Entry("QueryEvents", r, answer), e)
        PROVE  e \in QueryEvents(rows, o).events
    <3>1. PICK p \in QueryEventsRequestToOpts(r) :
            e \in BelowToken(ApplyQueryFilters({e}, p), p.token)
      BY <2>2 DEF Reached, Asked, Entry
    <3>2. p = o
      BY <1>2, OneMessage
    <3>3. \A t \in QueryEvents(rows, o).next : e.id >= t
      BY <1>2, <2>2 DEF Reached, Asked, Entry
    <3> QED
      BY <1>2, <3>1, <3>2, <3>3, TableKeyed, PageReaches
  <2> HIDE DEF answer
  <2> QED
    BY <1>2, <2>1, <2>2 DEF Agrees, Shows, Entry, IdsOf
<1> QED
  BY <1>1, <1>2, GrpcAnswer

(* The other methods have no page that could reach a row. *)
LEMMA GetAgrees ==
  ASSUME NEW id, NEW db
  PROVE  Agrees(Entry("GetEvent", id, GrpcGetEvent(rows, db, id)))
<1>1. GrpcGetEvent(rows, db, id).events \subseteq rows
  BY DEF GrpcGetEvent, Refusal, FindByID
<1>2. \A e : ~Reached(Entry("GetEvent", id, GrpcGetEvent(rows, db, id)), e)
  BY DEF Reached, Asked, Entry
<1> QED
  BY <1>1, <1>2 DEF Agrees, Shows, Entry, IdsOf

LEMMA NamespacesAgree ==
  ASSUME NEW db
  PROVE  Agrees(Entry("GET /api/namespaces", NoValue, HttpListNamespaces(rows, db)))
<1>1. HttpListNamespaces(rows, db).events = {}
  BY DEF HttpListNamespaces, Refusal
<1>2. \A e : ~Reached(Entry("GET /api/namespaces", NoValue,
                           HttpListNamespaces(rows, db)), e)
  BY DEF Reached, Asked, Entry
<1> QED
  BY <1>1, <1>2 DEF Agrees, Shows, Entry, IdsOf

-----------------------------------------------------------------------------
(* An answer that agrees keeps the invariant. *)
LEMMA ServeKeeps ==
  ASSUME ApiInv, NEW method, NEW request, NEW STATE answer,
         Serve(method, request, answer), Agrees(Entry(method, request, answer))
  PROVE  ApiInv'
<1> DEFINE last == Entry(method, request, answer)
<1>1. rows' = rows /\ answers' = Append(answers, last)
  BY DEF Serve, Entry
<1> HIDE DEF last
<1>2. PICK S : answers \in Seq(S)
  BY DEF ApiInv, HistoryOK
<1>3. PICK n \in Nat : n = Len(answers)
  BY <1>2, LenProperties
<1>4. /\ answers' \in Seq(S \cup {last})
      /\ DOMAIN answers' = 1..(n + 1) /\ DOMAIN answers = 1..n
      /\ \A i \in 1..n : answers'[i] = answers[i]
      /\ answers'[n + 1] = last
  BY <1>1, <1>2, <1>3, Appended
<1>5. \A i \in 1..n : Listed(i)' = Listed(i)
  BY <1>4 DEF Listed
<1>6. \A i \in 1..n : \A e : Reaches(i, e)' <=> Reaches(i, e)
  BY <1>4 DEF Reaches, OptionsOf
<1>7. Listed(n + 1)' = IdsOf(last.answer.events)
  BY <1>4 DEF Listed, IdsOf
<1>8. \A e : Reaches(n + 1, e)' <=> Reached(last, e)
  <2>1. OptionsOf(n + 1)' = Asked(last)
    BY <1>4 DEF OptionsOf, Asked
  <2> QED
    BY <1>4, <2>1 DEF Reaches, Reached
<1>9. Agrees(last)
  BY DEF last
<1>10. ListedAreStored'
  <2>1. \A i \in 1..n : Listed(i)' \subseteq IdsOf(rows)
    BY <1>4, <1>5 DEF ApiInv, ListedAreStored
  <2>2. Listed(n + 1)' \subseteq IdsOf(rows)
    BY <1>7, <1>9 DEF Agrees
  <2>3. IdsOf(rows)' = IdsOf(rows)
    BY <1>1 DEF IdsOf
  <2> QED
    BY <1>4, <2>1, <2>2, <2>3 DEF ListedAreStored
<1>11. ShownAreStored'
  <2>1. \A i \in 1..n : Shows(answers[i])' <=> Shows(answers[i])
    BY <1>1, <1>4 DEF Shows
  <2>2. Shows(answers[n + 1])'
    BY <1>1, <1>4, <1>9 DEF Agrees, Shows
  <2> QED
    BY <1>4, <2>1, <2>2 DEF ApiInv, ShownAreStored
<1>12. LaterAnswersKeep'
  <2> SUFFICES ASSUME NEW i \in DOMAIN answers', NEW j \in DOMAIN answers', i < j,
                      NEW e \in rows, e.id \in Listed(i)', Reaches(j, e)'
               PROVE  e.id \in Listed(j)'
    BY <1>1 DEF LaterAnswersKeep
  <2>1. CASE j = n + 1
    BY <1>7, <1>8, <1>9, <2>1 DEF Agrees
  <2>2. CASE j # n + 1
    <3>1. i \in 1..n /\ j \in 1..n
      BY <1>4, <2>2
    <3> QED
      BY <1>4, <1>5, <1>6, <3>1 DEF ApiInv, LaterAnswersKeep
  <2> QED
    BY <2>1, <2>2
<1> QED
  BY <1>1, <1>4, <1>10, <1>12, <1>11 DEF ApiInv, TableOK, HistoryOK

(* A row that is committed later was not listed before. *)
LEMMA InsertKeeps ==
  ASSUME ApiInv, Insert
  PROVE  ApiInv'
<1>1. PICK e \in Candidates : FindByID(rows, e.id) = {} /\ rows' = rows \cup {e}
  BY DEF Insert
<1>2. answers' = answers
  BY DEF Insert
<1>3. TableOK'
  BY <1>1 DEF ApiInv, TableOK, FindByID
<1>4. \A i : Listed(i)' = Listed(i) /\ \A f : Reaches(i, f)' <=> Reaches(i, f)
  BY <1>2 DEF Listed, Reaches, OptionsOf
<1>5. \A i \in DOMAIN answers : e.id \notin Listed(i)
  BY <1>1 DEF ApiInv, ListedAreStored, IdsOf, FindByID
<1>6. ListedAreStored'
  BY <1>1, <1>2, <1>4 DEF ApiInv, ListedAreStored, IdsOf
<1>7. LaterAnswersKeep'
  BY <1>1, <1>2, <1>4, <1>5 DEF ApiInv, LaterAnswersKeep
<1>8. ShownAreStored'
  <2>1. \A a : Shows(a) => Shows(a)'
    BY <1>1 DEF Shows
  <2> QED
    BY <1>2, <2>1 DEF ApiInv, ShownAreStored
<1> QED
  BY <1>2, <1>3, <1>6, <1>7, <1>8 DEF ApiInv, HistoryOK

LEMMA ApiInit == Init => ApiInv
<1> SUFFICES ASSUME Init
             PROVE  ApiInv
  OBVIOUS
<1>1. answers \in Seq({}) /\ Len(answers) = 0
  BY EmptySeq DEF Init
<1>2. DOMAIN answers = {}
  BY <1>1, LenProperties
<1> QED
  BY <1>1, <1>2
  DEF Init, ApiInv, TableOK, HistoryOK, ListedAreStored, ShownAreStored,
      LaterAnswersKeep

LEMMA ApiNext == ApiInv /\ [Next]_vars => ApiInv'
<1> SUFFICES ASSUME ApiInv, [Next]_vars
             PROVE  ApiInv'
  OBVIOUS
<1>0. TableOK
  BY DEF ApiInv
<1>1. CASE Insert
  BY <1>1, InsertKeeps
<1>2. CASE ServeHttpQuery
  BY <1>0, <1>2, HttpAgrees, ServeKeeps DEF ServeHttpQuery
<1>3. CASE ServeGrpcQuery
  BY <1>0, <1>3, GrpcAgrees, ServeKeeps, RequestsAssumption DEF ServeGrpcQuery
<1>4. CASE ServeGetEvent
  BY <1>4, GetAgrees, ServeKeeps DEF ServeGetEvent
<1>5. CASE ServeNamespaces
  BY <1>5, NamespacesAgree, ServeKeeps DEF ServeNamespaces
<1>6. CASE UNCHANGED vars
  <2>1. TableOK' /\ HistoryOK'
    BY <1>6 DEF vars, ApiInv, TableOK, HistoryOK
  <2>2. ListedAreStored' /\ LaterAnswersKeep'
    BY <1>6
    DEF vars, ApiInv, ListedAreStored, LaterAnswersKeep, Listed, Reaches, OptionsOf
  <2>3. ShownAreStored'
    <3>1. \A a : Shows(a)' <=> Shows(a)
      BY <1>6 DEF vars, Shows
    <3> QED
      BY <1>6, <3>1 DEF vars, ApiInv, ShownAreStored
  <2> QED
    BY <2>1, <2>2, <2>3 DEF ApiInv
<1> QED
  BY <1>1, <1>2, <1>3, <1>4, <1>5, <1>6 DEF Next

LEMMA Inductive == Spec => []ApiInv
BY ApiInit, ApiNext, PTL DEF Spec

(* What one answer listed is listed by every later page that reaches it,   *)
(* for any number of clients, requests and rows, whatever is committed in  *)
(* between (event_repository.go:154-179, audit_service.go:94-111).         *)
THEOREM AnswersKeep == Spec => []LaterAnswersKeep
BY Inductive, PTL DEF ApiInv

-----------------------------------------------------------------------------
(* A finite set can be listed, as the query page lists the namespaces. *)
LEMMA Enumerated ==
  ASSUME NEW S, IsFiniteSet(S)
  PROVE  LET f == CHOOSE s \in [1..Cardinality(S) -> S] : Elements(s) = S
         IN Elements(f) = S
<1>1. PICK f \in Bijection(1..Cardinality(S), S) : TRUE
  BY FS_CardinalityType DEF ExistsBijection
<1>2. f \in [1..Cardinality(S) -> S] /\ Elements(f) = S
  BY <1>1 DEF Bijection, Injection, Surjection, Elements
<1> QED
  BY <1>2

(* Every row is in one of the namespaces listed. *)
LEMMA NamespacesOfRows ==
  ASSUME TableOK
  PROVE  LET listed == HttpListNamespaces(rows, TRUE).namespaces
         IN IsFiniteSet(listed) /\ listed = {e.namespace : e \in rows}
<1> DEFINE listed == HttpListNamespaces(rows, TRUE).namespaces
           f == [e \in rows |-> e.namespace]
<1>1. listed = QueryNamespaces(rows)
  BY DEF HttpListNamespaces, Refusal
<1>2. listed = {e.namespace : e \in rows}
  BY <1>1, CandidatesAssumption DEF QueryNamespaces, TableOK
<1> HIDE DEF listed
<1>3. f \in Surjection(rows, listed)
  BY <1>2 DEF Surjection
<1>4. IsFiniteSet(rows)
  BY TableKeyed DEF Keyed
<1> HIDE DEF f
<1>5. IsFiniteSet(listed)
  BY <1>3, <1>4, FS_Surjection
<1> QED
  BY <1>2, <1>5 DEF listed

(* Options that differ in the namespaces only, and not for any row that is *)
(* there, select the same page.                                            *)
LEMMA SamePage ==
  ASSUME NEW table, NEW o, NEW p, Shaped(o), Shaped(p),
         o.fields = p.fields, o.from = p.from, o.to = p.to, o.token = p.token,
         o.pageSize = p.pageSize, o.namespaces = {},
         \A e \in table : e.namespace \in p.namespaces
  PROVE  QueryEvents(table, o) = QueryEvents(table, p)
<1> DEFINE ahead(q) == [q EXCEPT !.pageSize = @ + 1]
<1>1. /\ ahead(o).fields = ahead(p).fields
      /\ ahead(o).from = ahead(p).from /\ ahead(o).to = ahead(p).to
      /\ ahead(o).token = ahead(p).token
      /\ ahead(o).pageSize = ahead(p).pageSize
      /\ ahead(o).namespaces = {} /\ ahead(p).namespaces = p.namespaces
  BY DEF Shaped
<1> HIDE DEF ahead
<1>2. ApplyQueryFilters(table, ahead(o)) = ApplyQueryFilters(table, ahead(p))
  BY <1>1 DEF ApplyQueryFilters
<1>3. Query(table, ahead(o)) = Query(table, ahead(p))
  BY <1>1, <1>2 DEF Query
<1> QED
  BY <1>3 DEF QueryEvents, ahead

(* Asking for all the namespaces that are listed asks for none. *)
LEMMA AllIsNone ==
  ASSUME TableOK, NEW r \in Request, r.namespace = <<>>,
         NEW all, Elements(all) = HttpListNamespaces(rows, TRUE).namespaces
  PROVE  HttpQueryEvents(rows, TRUE, [r EXCEPT !.namespace = all])
           = HttpQueryEvents(rows, TRUE, r)
<1> DEFINE q == [r EXCEPT !.namespace = all]
           fields == [col \in Columns |-> Get(r.fields[col], "")]
           given == [k \in Parsed |-> Get(r.parsed[k], NoValue)]
           ValidOf(k) == {o \in QueryParamsToOpts(k) : ValidPageSize(o.pageSize)}
           Chosen(k) == CHOOSE o \in ValidOf(k) : TRUE
<1>1. /\ q.fields = r.fields /\ q.parsed = r.parsed /\ q.namespace = all
  BY DEF Request
<1>2. PICK every : every = Elements(all)
  OBVIOUS
<1>3. /\ QueryParamsToOpts(r) = Options(fields, {}, given, DefaultPageSize)
      /\ QueryParamsToOpts(q) = Options(fields, every, given, DefaultPageSize)
  <2>1. Elements(r.namespace) = {}
    BY DEF Elements
  <2> HIDE DEF q
  <2> QED
    BY <1>1, <1>2, <2>1 DEF QueryParamsToOpts
<1> HIDE DEF q, fields, given
<1>4. ASSUME NEW o \in ValidOf(r)
      PROVE  \E p \in ValidOf(q) : p.pageSize = o.pageSize
  <2>1. o \in Options(fields, {}, given, DefaultPageSize)
    BY <1>3
  <2>2. PICK p \in Options(fields, every, given, DefaultPageSize) :
          p.pageSize = o.pageSize
    BY <2>1, OtherNamespaces
  <2> QED
    BY <1>3, <2>2
<1>5. ASSUME NEW p \in ValidOf(q)
      PROVE  \E o \in ValidOf(r) : p.pageSize = o.pageSize
  <2>1. p \in Options(fields, every, given, DefaultPageSize)
    BY <1>3
  <2>2. PICK o \in Options(fields, {}, given, DefaultPageSize) :
          p.pageSize = o.pageSize
    BY <2>1, OtherNamespaces
  <2> QED
    BY <1>3, <2>2
<1>6. ASSUME NEW o \in ValidOf(r), NEW p \in ValidOf(q)
      PROVE  QueryEvents(rows, o) = QueryEvents(rows, p)
  <2>1. /\ Shaped(o) /\ o.fields = fields /\ o.namespaces = {}
        /\ o.from = Numbers(given["from"]) /\ o.to = Numbers(given["to"])
        /\ o.token = Numbers(given["token"])
    <3>1. o \in Options(fields, {}, given, DefaultPageSize)
      BY <1>3
    <3> QED
      BY <3>1, OptionsShape
  <2>2. /\ Shaped(p) /\ p.fields = fields /\ p.namespaces = every
        /\ p.from = Numbers(given["from"]) /\ p.to = Numbers(given["to"])
        /\ p.token = Numbers(given["token"])
    <3>1. p \in Options(fields, every, given, DefaultPageSize)
      BY <1>3
    <3> QED
      BY <3>1, OptionsShape
  <2>3. o.pageSize = p.pageSize
    <3>1. PICK l \in ValidOf(q) : l.pageSize = o.pageSize
      BY <1>4
    <3>2. l = p
      BY OneQueryParams
    <3> QED
      BY <3>1, <3>2
  <2>4. \A e \in rows : e.namespace \in p.namespaces
    BY <1>2, <2>2, NamespacesOfRows
  <2> HIDE DEF ValidOf
  <2> QED
    BY <2>1, <2>2, <2>3, <2>4, SamePage
<1>7. CASE ValidOf(r) = {}
  <2>1. ValidOf(q) = {}
    BY <1>5, <1>7
  <2> QED
    BY <1>7, <2>1 DEF HttpQueryEvents, q
<1>8. CASE ValidOf(r) # {}
  <2>1. Chosen(r) \in ValidOf(r) /\ ValidOf(q) # {} /\ Chosen(q) \in ValidOf(q)
    BY <1>4, <1>8
  <2>2. QueryEvents(rows, Chosen(r)) = QueryEvents(rows, Chosen(q))
    BY <1>6, <2>1
  <2>3. /\ HttpQueryEvents(rows, TRUE, r)
             = QueryResultToResponse(QueryEvents(rows, Chosen(r)))
        /\ HttpQueryEvents(rows, TRUE, q)
             = QueryResultToResponse(QueryEvents(rows, Chosen(q)))
    BY <1>8, <2>1 DEF HttpQueryEvents
  <2> QED
    BY <2>2, <2>3 DEF q
<1> QED
  BY <1>7, <1>8

(* All namespaces at once and none select the same, for any table and any  *)
(* other filters (httpapi mapconv.go:57-59).                               *)
THEOREM AllIsNoFilter == Spec => []AllNamespacesIsNone
<1>1. ApiInv => AllNamespacesIsNone
  <2> SUFFICES ASSUME TableOK, NEW r \in Requests, r.namespace = <<>>
               PROVE  LET listed == HttpListNamespaces(rows, TRUE).namespaces
                          all == CHOOSE s \in [1..Cardinality(listed) -> listed] :
                                   Elements(s) = listed
                      IN HttpQueryEvents(rows, TRUE, [r EXCEPT !.namespace = all])
                           = HttpQueryEvents(rows, TRUE, r)
    BY DEF ApiInv, AllNamespacesIsNone
  <2> QED
    BY NamespacesOfRows, Enumerated, AllIsNone, RequestsAssumption
<1> QED
  BY <1>1, Inductive, PTL

-----------------------------------------------------------------------------
(* Where at most one value is given, the first is all there is. *)
LEMMA GetIsElements ==
  ASSUME NEW S, NEW values \in Seq(S), Len(values) =< 1, NEW empty
  PROVE  Get(values, empty) = Elements(values) \ {empty}
<1>1. CASE values = <<>>
  BY <1>1 DEF Get, Elements
<1>2. CASE values # <<>>
  <2>1. Len(values) = 1 /\ DOMAIN values = 1..1
    <3>1. Len(values) \in Nat \ {0}
      BY <1>2, EmptySeq
    <3>2. DOMAIN values = 1..Len(values)
      BY LenProperties
    <3> QED
      BY <3>1, <3>2
  <2>2. Head(values) = values[1]
    BY <1>2
  <2>3. Elements(values) = {values[1]}
    BY <2>1 DEF Elements
  <2> QED
    BY <1>2, <2>2, <2>3 DEF Get
<1> QED
  BY <1>1, <1>2

LEMMA SomeElement ==
  ASSUME NEW S, NEW values \in Seq(S), values # <<>>
  PROVE  \E v : v \in Elements(values)
<1>1. Len(values) \in Nat \ {0} /\ DOMAIN values = 1..Len(values)
  BY EmptySeq, LenProperties
<1>2. 1 \in DOMAIN values
  BY <1>1
<1>3. values[1] \in Elements(values)
  BY <1>2 DEF Elements
<1> QED
  BY <1>3

(* Without empty filters, both transports decode a request with a page     *)
(* size alike.                                                             *)
LEMMA SameOptions ==
  ASSUME NEW r \in Request, IsMessage(r), ~GivesEmpty(r),
         r.parsed["pageSize"] # <<>>
  PROVE  QueryParamsToOpts(r) = QueryEventsRequestToOpts(r)
<1> DEFINE fields == [col \in Columns |-> Elements(r.fields[col])]
           given == [p \in Parsed |-> Elements(r.parsed[p]) \ {NoValue}]
           first == [col \in Columns |-> Get(r.fields[col], "")]
           value == [p \in Parsed |-> Get(r.parsed[p], NoValue)]
<1>1. first = fields
  <2>1. ASSUME NEW col \in Columns
        PROVE  Get(r.fields[col], "") = Elements(r.fields[col])
    <3>1. r.fields[col] \in Seq(STRING) /\ Len(r.fields[col]) =< 1
      BY DEF Request, IsMessage
    <3>2. "" \notin Elements(r.fields[col])
      BY DEF GivesEmpty
    <3>3. Get(r.fields[col], "") = Elements(r.fields[col]) \ {""}
      BY <3>1, GetIsElements
    <3> QED
      BY <3>2, <3>3
  <2> QED
    BY <2>1
<1>2. value = given
  <2>1. ASSUME NEW p \in Parsed
        PROVE  Get(r.parsed[p], NoValue) = Elements(r.parsed[p]) \ {NoValue}
    <3>1. r.parsed[p] \in Seq(Literal) /\ Len(r.parsed[p]) =< 1
      BY DEF Request, IsMessage
    <3> QED
      BY <3>1, GetIsElements
  <2> QED
    BY <2>1
<1>3. Elements(r.namespace) \ {""} = Elements(r.namespace)
  BY DEF GivesEmpty
<1>4. given["pageSize"] # {}
  <2>1. r.parsed["pageSize"] \in Seq(Literal)
    BY DEF Request, Parsed
  <2>2. PICK l : l \in Elements(r.parsed["pageSize"])
    BY <2>1, SomeElement
  <2>3. l # NoValue
    BY <2>2 DEF IsMessage, NoValue
  <2> QED
    BY <2>2, <2>3 DEF Parsed
<1>5. /\ QueryParamsToOpts(r) = Options(first, Elements(r.namespace), value, DefaultPageSize)
      /\ QueryEventsRequestToOpts(r) = Options(fields, Elements(r.namespace) \ {""}, given, 0)
  BY DEF QueryParamsToOpts, QueryEventsRequestToOpts
<1> HIDE DEF fields, given, first, value
<1>6. \A names : Options(fields, names, given, DefaultPageSize)
                  = Options(fields, names, given, 0)
  BY <1>4 DEF Options
<1> QED
  BY <1>1, <1>2, <1>3, <1>5, <1>6

(* The same options give the same page, or the same refusal.               *)
LEMMA SameAnswers ==
  ASSUME NEW table, NEW r, NEW db \in BOOLEAN,
         QueryParamsToOpts(r) = QueryEventsRequestToOpts(r)
  PROVE  LET http == HttpQueryEvents(table, db, r)
             grpc == GrpcQueryEvents(table, db, r)
         IN /\ <<http.status, grpc.status>> \in
                 {<<"200", "OK">>, <<"400", "InvalidArgument">>, <<"500", "Internal">>}
            /\ http.next = grpc.next
            /\ http.events = {DomainEventToResponse(e) : e \in grpc.events}
<1> DEFINE valid == {o \in QueryParamsToOpts(r) : ValidPageSize(o.pageSize)}
           page == QueryEvents(table, CHOOSE o \in valid : TRUE)
<1>1. CASE valid = {}
  <2>1. /\ HttpQueryEvents(table, db, r) = Refusal("400")
        /\ GrpcQueryEvents(table, db, r) = Refusal("InvalidArgument")
    BY <1>1 DEF HttpQueryEvents, GrpcQueryEvents
  <2> QED
    BY <2>1 DEF Refusal
<1>2. CASE valid # {} /\ ~db
  <2>1. /\ HttpQueryEvents(table, db, r) = Refusal("500")
        /\ GrpcQueryEvents(table, db, r) = Refusal("Internal")
    BY <1>2 DEF HttpQueryEvents, GrpcQueryEvents
  <2> QED
    BY <2>1 DEF Refusal
<1>3. CASE valid # {} /\ db
  <2>1. /\ HttpQueryEvents(table, db, r) = QueryResultToResponse(page)
        /\ GrpcQueryEvents(table, db, r)
             = [Refusal("OK") EXCEPT !.events = page.events, !.next = page.next]
    BY <1>3 DEF HttpQueryEvents, GrpcQueryEvents
  <2> HIDE DEF page
  <2> QED
    BY <2>1 DEF QueryResultToResponse, Refusal
<1> QED
  BY <1>1, <1>2, <1>3

(* A filter on the empty source, over gRPC, finds events without a source. *)
LEMMA EmptyIsAFilter ==
  ASSUME TableOK, NEW r \in Request, NEW db, "" \in Elements(r.fields["source"]),
         NEW e \in GrpcQueryEvents(rows, db, r).events
  PROVE  e.source = ""
<1>1. PICK o \in QueryEventsRequestToOpts(r) :
        /\ ValidPageSize(o.pageSize) /\ Shaped(o)
        /\ GrpcQueryEvents(rows, db, r).events = QueryEvents(rows, o).events
  BY GrpcAnswer
<1>2. e \in Remaining(rows, o)
  BY <1>1, TableKeyed, PageOfShape
<1>3. \A v \in o.fields["source"] : e["source"] = v
  BY <1>2 DEF Remaining, BelowToken, ApplyQueryFilters, Columns
<1>4. o.fields = [col \in Columns |-> Elements(r.fields[col])]
  BY <1>1, MessageFields
<1> QED
  BY <1>3, <1>4 DEF Columns

(* Both transports answer alike, for any table and requests.  An empty     *)
(* filter is where they part (grpcapi mapconv.go:66).                      *)
THEOREM TransportsAnswerAlike == Spec => []TransportsAgree
<1>1. ApiInv => TransportsAgree
  <2> SUFFICES ASSUME TableOK, NEW r \in Requests, IsMessage(r), NEW db \in BOOLEAN
               PROVE  LET http == HttpQueryEvents(rows, db, r)
                          grpc == GrpcQueryEvents(rows, db, r)
                      IN /\ ~GivesEmpty(r) /\ r.parsed["pageSize"] # <<>> =>
                              /\ <<http.status, grpc.status>> \in
                                   {<<"200", "OK">>, <<"400", "InvalidArgument">>,
                                    <<"500", "Internal">>}
                              /\ http.next = grpc.next
                              /\ http.events =
                                   {DomainEventToResponse(e) : e \in grpc.events}
                         /\ "" \in Elements(r.fields["source"]) =>
                              \A e \in grpc.events : e.source = ""
    BY DEF ApiInv, TransportsAgree
  <2>1. r \in Request
    BY RequestsAssumption
  <2> QED
    BY <2>1, SameOptions, SameAnswers, EmptyIsAFilter
<1> QED
  BY <1>1, Inductive, PTL
-----------------------------------------------------------------------------
(* Asked from a matching row on, a page holds it. *)
LEMMA FirstOfPage ==
  ASSUME NEW table, Keyed(table), NEW o, Shaped(o), NEW row \in table,
         row \in ApplyQueryFilters(table, o), o.token = {row.id + 1}
  PROVE  row \in QueryEvents(table, o).events
<1> DEFINE page == QueryEvents(table, o)
           rest == Remaining(table, o)
<1>1. /\ page.events \subseteq rest
      /\ page.next = {} => page.events = rest
      /\ page.next # {} =>
           \E l \in page.events : \A f \in rest : f \in page.events <=> f.id >= l.id
  BY PageOfShape
<1>2. \A f \in table : f.id \in Nat
  BY DEF Keyed
<1>3. row \in rest /\ \A f \in rest : f \in table /\ row.id >= f.id
  BY <1>2 DEF Remaining, BelowToken, ApplyQueryFilters
<1> HIDE DEF page, rest
<1> QED
  BY <1>1, <1>3 DEF page

(* JSON cuts a timestamp off and keeps the rest. *)
LEMMA CutOff ==
  ASSUME NEW e \in AuditEventRecord
  PROVE  LET f == DomainEventToResponse(e)
         IN /\ f \in AuditEventRecord /\ f.timestamp =< e.timestamp
            /\ f.id = e.id /\ f.namespace = e.namespace
            /\ \A col \in Columns : f[col] = e[col]
<1>1. PICK cut \in Int : cut = (e.timestamp \div Second) * Second
  BY SecondAssumption DEF AuditEventRecord
<1>2. cut \in Nat /\ cut =< e.timestamp
  <2>1. \A t \in Nat, s \in Nat \ {0} : (t \div s) * s \in Nat /\ (t \div s) * s =< t
    OBVIOUS
  <2> QED
    BY <1>1, <2>1, SecondAssumption DEF AuditEventRecord
<1>3. DomainEventToResponse(e) = [e EXCEPT !.timestamp = cut]
  BY <1>1 DEF DomainEventToResponse
<1> QED
  BY <1>2, <1>3 DEF AuditEventRecord, Columns

(* What Again asks for, over either transport. *)
Given(e, bounds) ==
  [p \in Parsed |->
     CASE p = "pageSize" -> {Value(1)}
       [] p = "token" -> {Value(e.id + 1)}
       [] OTHER -> IF p \in bounds THEN {Value(e.timestamp)} ELSE {}]

Asking(e) == [col \in Columns |-> {e[col]} \ {""}]

(* Such options select the event, wherever it was found. *)
LEMMA OptionsFind ==
  ASSUME TableOK, NEW row \in rows, NEW e \in AuditEventRecord, NEW bounds,
         e.id = row.id, e.namespace = row.namespace,
         \A col \in Columns : e[col] = row[col],
         "from" \in bounds => e.timestamp =< row.timestamp,
         "to" \in bounds => e.timestamp >= row.timestamp,
         NEW pageSize,
         NEW o \in Options(Asking(e), {e.namespace}, Given(e, bounds), pageSize)
  PROVE  ValidPageSize(o.pageSize) /\ row \in QueryEvents(rows, o).events
<1> DEFINE given == Given(e, bounds)
<1>1. /\ given["pageSize"] = {Value(1)} /\ given["token"] = {Value(e.id + 1)}
      /\ given["from"] = IF "from" \in bounds THEN {Value(e.timestamp)} ELSE {}
      /\ given["to"] = IF "to" \in bounds THEN {Value(e.timestamp)} ELSE {}
  BY DEF Given, Parsed
<1> HIDE DEF given
<1>2. \A n : Numbers({Value(n)}) = {n}
  BY DEF Numbers, Value
<1>3. Numbers({}) = {}
  BY DEF Numbers
<1>4. o.pageSize = 1
  BY <1>1, <1>2 DEF Options, given
<1>5. ValidPageSize(o.pageSize)
  BY <1>4 DEF ValidPageSize, MaxPageSize
<1>6. /\ Shaped(o) /\ o.fields = Asking(e) /\ o.namespaces = {e.namespace}
      /\ o.from = Numbers(given["from"]) /\ o.to = Numbers(given["to"])
      /\ o.token = {row.id + 1}
  BY <1>1, <1>2, <1>5, OptionsShape DEF given
<1>7. row \in ApplyQueryFilters(rows, o)
  <2>1. ASSUME NEW col \in Columns, NEW v \in o.fields[col]
        PROVE  row[col] = v
    <3>1. o.fields[col] = Asking(e)[col] /\ Asking(e)[col] = {e[col]} \ {""}
      BY <1>6 DEF Asking
    <3> QED
      BY <3>1
  <2>2. \A t \in o.from : row.timestamp >= t
    BY <1>1, <1>2, <1>3, <1>6 DEF AuditEventRecord
  <2>3. \A t \in o.to : row.timestamp =< t
    BY <1>1, <1>2, <1>3, <1>6 DEF AuditEventRecord
  <2>4. row.namespace \in o.namespaces
    BY <1>6
  <2> HIDE DEF given
  <2> QED
    BY <2>1, <2>2, <2>3, <2>4 DEF ApplyQueryFilters
<1> QED
  BY <1>5, <1>6, <1>7, TableKeyed, FirstOfPage

(* And there are such options. *)
LEMMA OptionsThere ==
  ASSUME NEW e, NEW bounds, NEW pageSize
  PROVE  Options(Asking(e), {e.namespace}, Given(e, bounds), pageSize) # {}
<1> DEFINE given == Given(e, bounds)
<1>1. \A p \in Parsed : Malformed \notin given[p]
  <2>1. \A n : Value(n) # Malformed
    BY DEF Value, Malformed
  <2> QED
    BY <2>1 DEF Given
<1>2. given["pageSize"] = {Value(1)}
  BY DEF Given, Parsed
<1> HIDE DEF given
<1>3. Numbers(given["pageSize"]) # {}
  BY <1>2 DEF Numbers
<1> QED
  BY <1>1, <1>2, <1>3 DEF Options, given

(* A parameter that is given once, or not at all. *)
LEMMA OneGiven ==
  ASSUME NEW x, NEW none
  PROVE  Elements(<<x>>) = {x} /\ (x # none => Get(<<x>>, none) = {x})
<1>1. DOMAIN <<x>> = {1} /\ <<x>>[1] = x /\ <<x>> # <<>> /\ Head(<<x>>) = x
  OBVIOUS
<1>2. Elements(<<x>>) = {x}
  BY <1>1 DEF Elements
<1> QED
  BY <1>1, <1>2 DEF Get

LEMMA NoneGiven ==
  ASSUME NEW none
  PROVE  Elements(<<>>) = {} /\ Get(<<>>, none) = {}
BY DEF Elements, Get

LEMMA AgainDecoded ==
  ASSUME NEW e \in AuditEventRecord, e.namespace # "", NEW bounds
  PROVE  LET r == Again(e, bounds)
         IN /\ QueryParamsToOpts(r) =
                 Options(Asking(e), {e.namespace}, Given(e, bounds), DefaultPageSize)
            /\ QueryEventsRequestToOpts(r) =
                 Options(Asking(e), {e.namespace}, Given(e, bounds), 0)
<1> DEFINE r == Again(e, bounds)
<1>1. \A n : Value(n) # NoValue
  BY DEF Value, NoValue
<1>5. r.namespace = <<e.namespace>>
  BY DEF Again
<1>6. ASSUME NEW col \in Columns
      PROVE  Get(r.fields[col], "") = Asking(e)[col]
             /\ Elements(r.fields[col]) = Asking(e)[col]
  <2>1. r.fields[col] = IF e[col] = "" THEN <<>> ELSE <<e[col]>>
    BY DEF Again
  <2>2. Asking(e)[col] = {e[col]} \ {""}
    BY DEF Asking
  <2> HIDE DEF r
  <2>3. CASE e[col] = ""
    BY <2>1, <2>2, <2>3, NoneGiven
  <2>4. CASE e[col] # ""
    <3>1. Elements(<<e[col]>>) = {e[col]} /\ Get(<<e[col]>>, "") = {e[col]}
      BY <2>4, OneGiven
    <3> QED
      BY <2>1, <2>2, <2>4, <3>1
  <2> QED
    BY <2>3, <2>4
<1>7. ASSUME NEW p \in Parsed
      PROVE  Get(r.parsed[p], NoValue) = Given(e, bounds)[p]
             /\ Elements(r.parsed[p]) \ {NoValue} = Given(e, bounds)[p]
  <2>1. r.parsed[p] = CASE p = "pageSize" -> <<Value(1)>>
                        [] p = "token" -> <<Value(e.id + 1)>>
                        [] OTHER -> IF p \in bounds THEN <<Value(e.timestamp)>>
                                    ELSE <<>>
    BY DEF Again
  <2>2. \/ \E n : r.parsed[p] = <<Value(n)>> /\ Given(e, bounds)[p] = {Value(n)}
        \/ r.parsed[p] = <<>> /\ Given(e, bounds)[p] = {}
    <3>1. Given(e, bounds)[p] =
            CASE p = "pageSize" -> {Value(1)}
              [] p = "token" -> {Value(e.id + 1)}
              [] OTHER -> IF p \in bounds THEN {Value(e.timestamp)} ELSE {}
      BY DEF Given
    <3> HIDE DEF r
    <3>2. CASE p = "pageSize"
      BY <2>1, <3>1, <3>2
    <3>3. CASE p = "token"
      BY <2>1, <3>1, <3>3
    <3>4. CASE p \notin {"pageSize", "token"}
      BY <2>1, <3>1, <3>4
    <3> QED
      BY <3>2, <3>3, <3>4
  <2> HIDE DEF r
  <2> QED
    BY <1>1, <2>2, OneGiven, NoneGiven
<1> HIDE DEF r
<1>8. /\ [col \in Columns |-> Get(r.fields[col], "")] = Asking(e)
      /\ [col \in Columns |-> Elements(r.fields[col])] = Asking(e)
  BY <1>6 DEF Asking
<1>9. /\ [p \in Parsed |-> Get(r.parsed[p], NoValue)] = Given(e, bounds)
      /\ [p \in Parsed |-> Elements(r.parsed[p]) \ {NoValue}] = Given(e, bounds)
  BY <1>7 DEF Given
<1>10. Elements(r.namespace) = {e.namespace} /\ Elements(r.namespace) \ {""} = {e.namespace}
  BY <1>5, OneGiven
<1> QED
  BY <1>8, <1>9, <1>10 DEF QueryParamsToOpts, QueryEventsRequestToOpts, r

(* Asked again over HTTP or gRPC, a stored event is found. *)
LEMMA FoundAgain ==
  ASSUME TableOK, NEW row \in rows, NEW e \in AuditEventRecord, NEW bounds,
         e.id = row.id, e.namespace = row.namespace,
         \A col \in Columns : e[col] = row[col],
         "from" \in bounds => e.timestamp =< row.timestamp,
         "to" \in bounds => e.timestamp >= row.timestamp
  PROVE  /\ Finds(HttpQueryEvents(rows, TRUE, Again(e, bounds)), e.id)
         /\ Finds(GrpcQueryEvents(rows, TRUE, Again(e, bounds)), e.id)
<1> DEFINE r == Again(e, bounds)
           http == {o \in QueryParamsToOpts(r) : ValidPageSize(o.pageSize)}
           grpc == {o \in QueryEventsRequestToOpts(r) : ValidPageSize(o.pageSize)}
<1>1. e.namespace # ""
  BY CandidatesAssumption DEF TableOK
<1>2. /\ QueryParamsToOpts(r) =
            Options(Asking(e), {e.namespace}, Given(e, bounds), DefaultPageSize)
      /\ QueryEventsRequestToOpts(r) =
            Options(Asking(e), {e.namespace}, Given(e, bounds), 0)
  BY <1>1, AgainDecoded
<1> HIDE DEF r
<1>3. \A o \in QueryParamsToOpts(r) \cup QueryEventsRequestToOpts(r) :
        ValidPageSize(o.pageSize) /\ row \in QueryEvents(rows, o).events
  BY <1>2, OptionsFind
<1>4. http # {} /\ grpc # {}
  BY <1>2, <1>3, OptionsThere
<1>5. PICK o \in http : o = CHOOSE p \in http : TRUE
  BY <1>4
<1>6. PICK o2 \in grpc : o2 = CHOOSE p \in grpc : TRUE
  BY <1>4
<1>7. HttpQueryEvents(rows, TRUE, r) = QueryResultToResponse(QueryEvents(rows, o))
  BY <1>4, <1>5 DEF HttpQueryEvents
<1>8. DomainEventToResponse(row).id = e.id
  BY ResponseKeepsId, TableKeyed
<1>9. Finds(HttpQueryEvents(rows, TRUE, r), e.id)
  <2>1. QueryResultToResponse(QueryEvents(rows, o)).events
          = {DomainEventToResponse(f) : f \in QueryEvents(rows, o).events}
    BY DEF QueryResultToResponse, Refusal
  <2>2. row \in QueryEvents(rows, o).events
    BY <1>3
  <2> QED
    BY <1>7, <1>8, <2>1, <2>2 DEF Finds
<1>10. Finds(GrpcQueryEvents(rows, TRUE, r), e.id)
  <2>1. GrpcQueryEvents(rows, TRUE, r).events = QueryEvents(rows, o2).events
    BY <1>4, <1>6 DEF GrpcQueryEvents, Refusal
  <2>2. row \in QueryEvents(rows, o2).events
    BY <1>3
  <2> QED
    BY <2>1, <2>2 DEF Finds
<1> QED
  BY <1>9, <1>10 DEF r

(* Whatever an answer has shown can be read again by its id and asked for  *)
(* by what it shows, for any table and answers: cutting a timestamp off    *)
(* keeps the event above the bound (httpapi mapconv.go:143).               *)
THEOREM ShownIsFound == Spec => []ShownIsQueryable
<1>1. ApiInv => ShownIsQueryable
  <2> SUFFICES ASSUME ApiInv, NEW i \in DOMAIN answers,
                      NEW e \in answers[i].answer.events
               PROVE  /\ GrpcGetEvent(rows, TRUE, Value(e.id)).status = "OK"
                      /\ Finds(HttpQueryEvents(rows, TRUE, Again(e, {"from"})), e.id)
                      /\ answers[i].method # "GET /api/events" =>
                           Finds(GrpcQueryEvents(rows, TRUE, Again(e, {"from", "to"})), e.id)
    BY DEF ShownIsQueryable
  <2>1. TableOK /\ Shows(answers[i])
    BY DEF ApiInv, ShownAreStored
  <2>2. PICK row \in rows :
          \/ e = row
          \/ answers[i].method = "GET /api/events" /\ e = DomainEventToResponse(row)
    BY <2>1 DEF Shows
  <2>3. row \in AuditEventRecord
    BY <2>1, TableKeyed
  <2>4. /\ e \in AuditEventRecord /\ e.id = row.id /\ e.namespace = row.namespace
        /\ \A col \in Columns : e[col] = row[col]
        /\ e.timestamp =< row.timestamp
        /\ answers[i].method # "GET /api/events" => e.timestamp = row.timestamp
    <3>1. CASE e = row
      BY <2>3, <3>1 DEF AuditEventRecord
    <3>2. CASE answers[i].method = "GET /api/events" /\ e = DomainEventToResponse(row)
      BY <2>3, <3>2, CutOff
    <3> QED
      BY <2>2, <3>1, <3>2
  <2>5. GrpcGetEvent(rows, TRUE, Value(e.id)).status = "OK"
    <3>1. Value(e.id).kind = "value" /\ Value(e.id).is = e.id
      BY DEF Value
    <3>2. FindByID(rows, e.id) # {}
      BY <2>4 DEF FindByID
    <3> QED
      BY <3>1, <3>2 DEF GrpcGetEvent, Refusal
  <2>6. Finds(HttpQueryEvents(rows, TRUE, Again(e, {"from"})), e.id)
    BY <2>1, <2>4, FoundAgain
  <2>7. ASSUME answers[i].method # "GET /api/events"
        PROVE  Finds(GrpcQueryEvents(rows, TRUE, Again(e, {"from", "to"})), e.id)
    <3>1. e.timestamp >= row.timestamp
      BY <2>3, <2>4, <2>7 DEF AuditEventRecord
    <3> QED
      BY <2>1, <2>4, <3>1, FoundAgain
  <2> QED
    BY <2>5, <2>6, <2>7
<1> QED
  BY <1>1, Inductive, PTL
=============================================================================
