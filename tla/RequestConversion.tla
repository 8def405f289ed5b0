-------------------------- MODULE RequestConversion --------------------------
(***************************************************************************)
(* How the two transports turn a request into the options of a query, and  *)
(* the rows they find into an answer: the mapconv packages of grpcapi and  *)
(* httpapi, and the handlers around them.                                  *)
(*                                                                         *)
(* A request names the values given for each parameter, in order.  A query *)
(* string may repeat a parameter or leave its value empty; a message holds *)
(* at most one value of each.  Instants are in units shorter than a second *)
(* so that what the formats keep and lose can be told apart.               *)
(***************************************************************************)
EXTENDS EventRepository, Sequences

CONSTANT Second  \* units of time in a second

ASSUME SecondAssumption == Second \in Nat \ {0}

(* A row of audit_events, as far as queries and their answers tell rows    *)
(* apart.                                                                  *)
AuditEventRecord ==
  [id : Nat, timestamp : Nat, tenant : STRING, namespace : STRING,
   action : STRING, source : STRING]

(* A value that has to be parsed: an instant, an id or a number. *)
Literal == [kind : {"empty", "malformed", "value"}, is : Int]
NoValue == [kind |-> "empty", is |-> 0]
Malformed == [kind |-> "malformed", is |-> 0]
Value(n) == [kind |-> "value", is |-> n]

Parsed == {"from", "to", "pageSize", "token"}

Request ==
  [fields : [Columns -> Seq(STRING)], namespace : Seq(STRING),
   parsed : [Parsed -> Seq(Literal)]]

Elements(values) == {values[i] : i \in DOMAIN values}

(* q.Get: the first value, dropped by its caller when it is empty. *)
Get(values, empty) == (IF values = <<>> THEN {} ELSE {Head(values)}) \ {empty}

Numbers(literals) == {l.is : l \in literals}

DefaultPageSize == 20

(* The options decoded, or {} when a value that was given does not parse.  *)
Options(fields, namespaces, given, pageSize) ==
  IF \E p \in Parsed : Malformed \in given[p] THEN {} ELSE
  {[fields |-> fields, namespaces |-> namespaces,
    from |-> Numbers(given["from"]), to |-> Numbers(given["to"]),
    token |-> Numbers(given["token"]), pageSize |-> n] :
      n \in IF given["pageSize"] = {} THEN {pageSize}
            ELSE Numbers(given["pageSize"])}

(* Mutation of QueryParamsToOpts: one namespace, like the other filters.   *)
QueryParamsFirstNamespace(r) ==
  Options([col \in Columns |-> Get(r.fields[col], "")], Get(r.namespace, ""),
          [p \in Parsed |-> Get(r.parsed[p], NoValue)], DefaultPageSize)

(* A query string.  All values of "namespace" count, an empty one too.     *)
QueryParamsToOpts(r) ==
  Options([col \in Columns |-> Get(r.fields[col], "")], Elements(r.namespace),
          [p \in Parsed |-> Get(r.parsed[p], NoValue)], DefaultPageSize)

(* What a protobuf message can hold: optional strings, timestamps that may *)
(* be out of range, an int32 and a string for the token.                   *)
IsMessage(r) ==
  /\ \A col \in Columns : Len(r.fields[col]) =< 1
  /\ Len(r.namespace) =< 1
  /\ \A p \in Parsed : Len(r.parsed[p]) =< 1
  /\ \A p \in {"from", "to"} : NoValue \notin Elements(r.parsed[p])
  /\ \A l \in Elements(r.parsed["pageSize"]) : l.kind = "value"

(* Mutation of QueryEventsRequestToOpts: the bounds change places.         *)
QueryEventsRequestSwapped(r) ==
  Options([col \in Columns |-> Elements(r.fields[col])],
          Elements(r.namespace) \ {""},
          [p \in Parsed |-> Elements(r.parsed[
             IF p = "from" THEN "to" ELSE IF p = "to" THEN "from" ELSE p])
               \ {NoValue}], 0)

(* A message.  Only an empty namespace and an empty token count as unset.  *)
QueryEventsRequestToOpts(r) ==
  Options([col \in Columns |-> Elements(r.fields[col])],
          Elements(r.namespace) \ {""},
          [p \in Parsed |-> Elements(r.parsed[p]) \ {NoValue}], 0)

-----------------------------------------------------------------------------
(* Answers. *)

(* Mutation of DomainEventToResponse: the timestamp is rounded up.         *)
DomainEventRoundedUp(e) ==
  [e EXCEPT !.timestamp = ((@ + Second - 1) \div Second) * Second]

(* JSON shows whole seconds (RFC3339). *)
DomainEventToResponse(e) == [e EXCEPT !.timestamp = (@ \div Second) * Second]

Refusal(status) ==
  [status |-> status, events |-> {}, next |-> {}, namespaces |-> {}]

QueryResultToResponse(page) ==
  [Refusal("200") EXCEPT !.events = {DomainEventToResponse(e) : e \in page.events},
                         !.next = page.next]

(* A page, or a refusal: of the client's request, or because the database  *)
(* failed to answer (db = FALSE).                                          *)
HttpQueryEvents(rows, db, r) ==
  LET valid == {o \in QueryParamsToOpts(r) : ValidPageSize(o.pageSize)}
      page == QueryEvents(rows, CHOOSE o \in valid : TRUE)
  IN IF valid = {} THEN Refusal("400") ELSE IF ~db THEN Refusal("500")
     ELSE QueryResultToResponse(page)

(* A protobuf message holds what was stored, a timestamp to the nanosecond. *)
GrpcQueryEvents(rows, db, r) ==
  LET valid == {o \in QueryEventsRequestToOpts(r) : ValidPageSize(o.pageSize)}
      page == QueryEvents(rows, CHOOSE o \in valid : TRUE)
  IN IF valid = {} THEN Refusal("InvalidArgument")
     ELSE IF ~db THEN Refusal("Internal") ELSE
     [Refusal("OK") EXCEPT !.events = page.events, !.next = page.next]

GrpcGetEvent(rows, db, id) ==
  LET found == FindByID(rows, id.is)
  IN IF id.kind # "value" THEN Refusal("InvalidArgument")
     ELSE IF ~db THEN Refusal("Internal")
     ELSE IF found = {} THEN Refusal("NotFound")
     ELSE [Refusal("OK") EXCEPT !.events = found]

HttpListNamespaces(rows, db) ==
  IF ~db THEN Refusal("500")
  ELSE [Refusal("200") EXCEPT !.namespaces = QueryNamespaces(rows)]
=============================================================================
