------------------------------- MODULE QueryApi -------------------------------
(***************************************************************************)
(* Readers of the audit log over both transports while writers commit      *)
(* rows.  A handler shares nothing but the table, and reads it with one    *)
(* statement, so that serving a request is one step: its decoding, the     *)
(* service call and the conversion of what was found.  answers is the      *)
(* history of the requests served, in the order of their reads.            *)
(***************************************************************************)
EXTENDS RequestConversion

CONSTANTS
  Candidates,   \* the events that writers may store
  Requests,     \* what clients ask QueryEvents
  Ids,          \* literals asked of GetEvent
  MaxAnswers    \* bound on the requests served

ASSUME CandidatesAssumption ==
  /\ IsFiniteSet(Candidates)
  /\ Candidates \subseteq AuditEventRecord
  /\ \A e \in Candidates : e.namespace # ""

ASSUME RequestsAssumption == Requests \subseteq Request /\ Ids \subseteq Literal

VARIABLES rows, answers

vars == <<rows, answers>>

Init == rows = {} /\ answers = <<>>

(* A writer's INSERT commits; the namespace of a row is never empty. *)
Insert ==
  /\ \E e \in Candidates :
       /\ FindByID(rows, e.id) = {}
       /\ rows' = rows \cup {e}
  /\ UNCHANGED answers

Serve(method, request, answer) ==
  /\ Len(answers) < MaxAnswers
  /\ answers' = Append(answers, [method |-> method, request |-> request,
                                 answer |-> answer])
  /\ UNCHANGED rows

ServeHttpQuery ==
  \E r \in Requests, db \in BOOLEAN :
    Serve("GET /api/events", r, HttpQueryEvents(rows, db, r))

ServeGrpcQuery ==
  \E r \in Requests, db \in BOOLEAN :
    IsMessage(r) /\ Serve("QueryEvents", r, GrpcQueryEvents(rows, db, r))

ServeGetEvent ==
  \E id \in Ids, db \in BOOLEAN :
    Serve("GetEvent", id, GrpcGetEvent(rows, db, id))

ServeNamespaces ==
  \E db \in BOOLEAN :
    Serve("GET /api/namespaces", NoValue, HttpListNamespaces(rows, db))

Next ==
  Insert \/ ServeHttpQuery \/ ServeGrpcQuery \/ ServeGetEvent \/ ServeNamespaces

Spec == Init /\ [][Next]_vars

-----------------------------------------------------------------------------
Listed(i) == {e.id : e \in answers[i].answer.events}

(* The options a page was answered with, {} for the other methods. *)
OptionsOf(i) ==
  LET a == answers[i]
  IN CASE a.method = "GET /api/events" -> QueryParamsToOpts(a.request)
       [] a.method = "QueryEvents" -> QueryEventsRequestToOpts(a.request)
       [] OTHER -> {}

(* The page of answer i reaches the row: it matches, is below the cursor,  *)
(* and is not left for a later page.                                       *)
Reaches(i, row) ==
  /\ answers[i].answer.status \in {"200", "OK"}
  /\ \E o \in OptionsOf(i) : row \in BelowToken(ApplyQueryFilters({row}, o), o.token)
  /\ \A t \in answers[i].answer.next : row.id >= t

(* Clients agree on what they saw: an event that one answer listed, over   *)
(* either transport and by any method, is listed by every later page that  *)
(* reaches it (event_repository.go:154-179, audit_service.go:94-111).      *)
LaterAnswersKeep ==
  \A i, j \in DOMAIN answers : i < j =>
    \A e \in rows : e.id \in Listed(i) /\ Reaches(j, e) => e.id \in Listed(j)

(* The question a client asks next about an event it is shown: its own     *)
(* values as filters, its timestamp as bounds, and one event from its      *)
(* place on.                                                               *)
Again(e, bounds) ==
  [fields |-> [col \in Columns |-> IF e[col] = "" THEN <<>> ELSE <<e[col]>>],
   namespace |-> <<e.namespace>>,
   parsed |-> [p \in Parsed |->
     CASE p = "pageSize" -> <<Value(1)>>
       [] p = "token" -> <<Value(e.id + 1)>>
       [] OTHER -> IF p \in bounds THEN <<Value(e.timestamp)>> ELSE <<>>]]

Finds(answer, id) == id \in {e.id : e \in answer.events}

(* Whatever an answer has shown can be asked for again: over gRPC by its   *)
(* id and by the very instant shown; over HTTP from the second shown on,   *)
(* for the fraction is cut off, never rounded (httpapi mapconv.go:143).    *)
ShownIsQueryable ==
  \A i \in DOMAIN answers : \A e \in answers[i].answer.events :
    /\ GrpcGetEvent(rows, TRUE, Value(e.id)).status = "OK"
    /\ Finds(HttpQueryEvents(rows, TRUE, Again(e, {"from"})), e.id)
    /\ answers[i].method # "GET /api/events" =>
         Finds(GrpcQueryEvents(rows, TRUE, Again(e, {"from", "to"})), e.id)

GivesEmpty(r) ==
  "" \in Elements(r.namespace) \cup UNION {Elements(r.fields[col]) : col \in Columns}

(* Asked the same, with a page size and no empty filter, both transports   *)
(* answer with the same page or the same refusal.  An empty filter narrows *)
(* the answer of gRPC to events without that value (grpcapi mapconv.go:66).*)
TransportsAgree ==
  \A r \in {q \in Requests : IsMessage(q)}, db \in BOOLEAN :
    LET http == HttpQueryEvents(rows, db, r)
        grpc == GrpcQueryEvents(rows, db, r)
    IN /\ ~GivesEmpty(r) /\ r.parsed["pageSize"] # <<>> =>
            /\ <<http.status, grpc.status>> \in
                 {<<"200", "OK">>, <<"400", "InvalidArgument">>, <<"500", "Internal">>}
            /\ http.next = grpc.next
            /\ http.events = {DomainEventToResponse(e) : e \in grpc.events}
       /\ "" \in Elements(r.fields["source"]) =>
            \A e \in grpc.events : e.source = ""

(* Selecting every namespace that is listed shows what selecting none      *)
(* shows, which the query page labels "All namespaces": each of several    *)
(* namespaces counts, and every row has one (httpapi mapconv.go:57-59).    *)
AllNamespacesIsNone ==
  \A r \in {q \in Requests : q.namespace = <<>>} :
    LET listed == HttpListNamespaces(rows, TRUE).namespaces
        all == CHOOSE s \in [1..Cardinality(listed) -> listed] :
                 Elements(s) = listed
    IN HttpQueryEvents(rows, TRUE, [r EXCEPT !.namespace = all])
         = HttpQueryEvents(rows, TRUE, r)
=============================================================================
