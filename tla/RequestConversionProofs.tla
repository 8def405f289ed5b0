------------------------ MODULE RequestConversionProofs ------------------------
(***************************************************************************)
(* What an answer to a query holds, for any table, request and transport:  *)
(* the page of the options that were decoded.  The facts about clients     *)
(* that read pages rest on it.                                             *)
(***************************************************************************)
EXTENDS RequestConversion, EventRepositoryProofs

(* Some options decode to themselves and pass the check of the page size.  *)
LEMMA OptionsShape ==
  ASSUME NEW fields, NEW namespaces, NEW given, NEW pageSize,
         NEW o \in Options(fields, namespaces, given, pageSize),
         ValidPageSize(o.pageSize)
  PROVE  /\ Shaped(o)
         /\ o.fields = fields /\ o.namespaces = namespaces
         /\ o.from = Numbers(given["from"]) /\ o.to = Numbers(given["to"])
         /\ o.token = Numbers(given["token"])
BY DEF Options, Shaped, ValidPageSize, MaxPageSize

(* A request decodes to one thing only.                                    *)
LEMMA OneOption ==
  ASSUME NEW fields, NEW namespaces, NEW given, NEW pageSize,
         \A k, l \in given["pageSize"] : k = l,
         NEW o \in Options(fields, namespaces, given, pageSize),
         NEW p \in Options(fields, namespaces, given, pageSize)
  PROVE  o = p
BY DEF Options, Numbers

(* Whether it decodes, and with which page size, is not up to the          *)
(* namespaces.                                                             *)
LEMMA OtherNamespaces ==
  ASSUME NEW fields, NEW a, NEW b, NEW given, NEW pageSize,
         NEW o \in Options(fields, a, given, pageSize)
  PROVE  \E p \in Options(fields, b, given, pageSize) : p.pageSize = o.pageSize
<1> DEFINE sizes == IF given["pageSize"] = {} THEN {pageSize}
                    ELSE Numbers(given["pageSize"])
           with(c, n) == [fields |-> fields, namespaces |-> c,
                          from |-> Numbers(given["from"]), to |-> Numbers(given["to"]),
                          token |-> Numbers(given["token"]), pageSize |-> n]
<1>1. PICK n \in sizes : o = with(a, n)
  BY DEF Options
<1>2. with(b, n) \in Options(fields, b, given, pageSize)
  BY DEF Options
<1>3. with(b, n).pageSize = o.pageSize
  BY <1>1
<1> QED
  BY <1>2, <1>3

LEMMA OneQueryParams ==
  ASSUME NEW r, NEW o \in QueryParamsToOpts(r), NEW p \in QueryParamsToOpts(r)
  PROVE  o = p
<1> DEFINE given == [q \in Parsed |-> Get(r.parsed[q], NoValue)]
<1>1. \A k, l \in given["pageSize"] : k = l
  BY DEF Get, Parsed
<1> HIDE DEF given
<1> QED
  BY <1>1, OneOption DEF QueryParamsToOpts, given

LEMMA OneMessage ==
  ASSUME NEW r \in Request, IsMessage(r),
         NEW o \in QueryEventsRequestToOpts(r), NEW p \in QueryEventsRequestToOpts(r)
  PROVE  o = p
<1> DEFINE given == [q \in Parsed |-> Elements(r.parsed[q]) \ {NoValue}]
<1>1. r.parsed["pageSize"] \in Seq(Literal) /\ Len(r.parsed["pageSize"]) =< 1
  BY DEF Request, IsMessage, Parsed
<1>2. \A k, l \in given["pageSize"] : k = l
  BY <1>1 DEF Elements, Parsed
<1> HIDE DEF given
<1> QED
  BY <1>2, OneOption DEF QueryEventsRequestToOpts, given

-----------------------------------------------------------------------------
(* The token of a request, when it is the only one given.                  *)
LEMMA TokenDecoded ==
  ASSUME NEW r, NEW o \in QueryParamsToOpts(r), ValidPageSize(o.pageSize),
         NEW t \in Nat, r.parsed["token"] = <<Value(t)>>
  PROVE  o.token = {t}
<1> DEFINE given == [q \in Parsed |-> Get(r.parsed[q], NoValue)]
           fields == [col \in Columns |-> Get(r.fields[col], "")]
<1>1. given["token"] = {Value(t)}
  <2>1. Value(t) # NoValue
    BY DEF Value, NoValue
  <2> QED
    BY <2>1 DEF Get, Parsed
<1> HIDE DEF given
<1>2. Numbers({Value(t)}) = {t}
  <2>1. Value(t).is = t
    BY DEF Value
  <2> QED
    BY <2>1 DEF Numbers
<1>3. o \in Options(fields, Elements(r.namespace), given, DefaultPageSize)
  BY DEF QueryParamsToOpts, given
<1> HIDE DEF fields
<1>4. o.token = Numbers(given["token"])
  BY <1>3, OptionsShape
<1> QED
  BY <1>1, <1>2, <1>4

(* The filters of a message are kept as they are.                          *)
LEMMA MessageFields ==
  ASSUME NEW r, NEW o \in QueryEventsRequestToOpts(r), ValidPageSize(o.pageSize)
  PROVE  o.fields = [col \in Columns |-> Elements(r.fields[col])]
<1> DEFINE fields == [col \in Columns |-> Elements(r.fields[col])]
           names == Elements(r.namespace) \ {""}
           given == [q \in Parsed |-> Elements(r.parsed[q]) \ {NoValue}]
           size == 0
<1>1. o \in Options(fields, names, given, size)
  BY DEF QueryEventsRequestToOpts
<1> HIDE DEF fields, names, given, size
<1>2. o.fields = fields
  BY <1>1, OptionsShape
<1> QED
  BY <1>2 DEF fields

(* An answer over HTTP is a refusal or the page of the options decoded.    *)
LEMMA HttpAnswer ==
  ASSUME NEW rows, NEW db, NEW r
  PROVE  LET answer == HttpQueryEvents(rows, db, r)
         IN \/ answer.status # "200" /\ answer.events = {} /\ answer.next = {}
            \/ /\ answer.status = "200"
               /\ \E o \in QueryParamsToOpts(r) :
                    /\ ValidPageSize(o.pageSize) /\ Shaped(o)
                    /\ answer.events =
                         {DomainEventToResponse(e) : e \in QueryEvents(rows, o).events}
                    /\ answer.next = QueryEvents(rows, o).next
<1> DEFINE valid == {o \in QueryParamsToOpts(r) : ValidPageSize(o.pageSize)}
           o == CHOOSE o \in valid : TRUE
           answer == HttpQueryEvents(rows, db, r)
<1>1. CASE valid = {}
  <2>1. answer = Refusal("400")
    BY <1>1 DEF HttpQueryEvents
  <2> QED
    BY <2>1 DEF Refusal
<1>2. CASE valid # {} /\ ~db
  <2>1. answer = Refusal("500")
    BY <1>2 DEF HttpQueryEvents
  <2> QED
    BY <2>1 DEF Refusal
<1>3. CASE valid # {} /\ db
  <2>1. answer = QueryResultToResponse(QueryEvents(rows, o))
    BY <1>3 DEF HttpQueryEvents
  <2>2. o \in valid
    BY <1>3
  <2>3. Shaped(o)
    BY <2>2, OptionsShape DEF QueryParamsToOpts
  <2> HIDE DEF o
  <2> QED
    BY <2>1, <2>2, <2>3 DEF QueryResultToResponse, Refusal
<1> QED
  BY <1>1, <1>2, <1>3

(* An answer over gRPC likewise.                                           *)
LEMMA GrpcAnswer ==
  ASSUME NEW rows, NEW db, NEW r
  PROVE  LET answer == GrpcQueryEvents(rows, db, r)
         IN \/ answer.status # "OK" /\ answer.events = {} /\ answer.next = {}
            \/ /\ answer.status = "OK"
               /\ \E o \in QueryEventsRequestToOpts(r) :
                    /\ ValidPageSize(o.pageSize) /\ Shaped(o)
                    /\ answer.events = QueryEvents(rows, o).events
                    /\ answer.next = QueryEvents(rows, o).next
<1> DEFINE valid == {o \in QueryEventsRequestToOpts(r) : ValidPageSize(o.pageSize)}
           o == CHOOSE o \in valid : TRUE
           answer == GrpcQueryEvents(rows, db, r)
<1>1. CASE valid = {}
  <2>1. answer = Refusal("InvalidArgument")
    BY <1>1 DEF GrpcQueryEvents
  <2> QED
    BY <2>1 DEF Refusal
<1>2. CASE valid # {} /\ ~db
  <2>1. answer = Refusal("Internal")
    BY <1>2 DEF GrpcQueryEvents
  <2> QED
    BY <2>1 DEF Refusal
<1>3. CASE valid # {} /\ db
  <2>1. answer = [Refusal("OK") EXCEPT !.events = QueryEvents(rows, o).events,
                                       !.next = QueryEvents(rows, o).next]
    BY <1>3 DEF GrpcQueryEvents
  <2>2. o \in valid
    BY <1>3
  <2>3. Shaped(o)
    BY <2>2, OptionsShape DEF QueryEventsRequestToOpts
  <2> HIDE DEF o
  <2> QED
    BY <2>1, <2>2, <2>3 DEF Refusal
<1> QED
  BY <1>1, <1>2, <1>3

(* JSON keeps the id of an event.                                          *)
LEMMA ResponseKeepsId ==
  ASSUME NEW e \in AuditEventRecord
  PROVE  DomainEventToResponse(e).id = e.id
BY DEF DomainEventToResponse, AuditEventRecord
=============================================================================
