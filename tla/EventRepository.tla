--------------------------- MODULE EventRepository ---------------------------
(***************************************************************************)
(* The audit_events table as internal/auditlog/persistence reads it: pure  *)
(* operators over the set of committed rows, and the service operation     *)
(* QueryEvents that is built on them (usecases/audit_service.go).          *)
(*                                                                         *)
(* An optional value (a Go pointer) is a set with at most one element, so  *)
(* "IF set THEN test" is a quantifier.  The rows of an answer are a set:   *)
(* ORDER BY id DESC fixes their order once the set is known.               *)
(***************************************************************************)
EXTENDS Integers, FiniteSets

(* The zero uuid stands for "compensates nothing"; NewV7 never mints it. *)
NoId == 0

(* Where("id = ?").First: the row with that id, if there is one. *)
FindByID(rows, id) == {e \in rows : e.id = id}

(* What both transports decode a query into.  Of the twelve columns with   *)
(* an equality filter, two that are never empty and one that may be.       *)
Columns == {"tenant", "action", "source"}

QueryOptions ==
  [fields : [Columns -> SUBSET STRING],  \* value asked of a column, if any
   namespaces : SUBSET STRING,       \* {} when there is no such filter
   from : SUBSET Nat, to : SUBSET Nat,  \* bounds on the timestamp
   token : SUBSET Nat,               \* the cursor
   pageSize : Int]

ApplyQueryFilters(rows, opts) ==
  {e \in rows :
     /\ \A col \in Columns : \A v \in opts.fields[col] : e[col] = v
     /\ opts.namespaces # {} => e.namespace \in opts.namespaces
     /\ \A t \in opts.from : e.timestamp >= t
     /\ \A t \in opts.to : e.timestamp =< t}

(* Mutation of BelowToken: the cursor's own row is returned again. *)
FromToken(rows, token) == {e \in rows : \A t \in token : e.id =< t}

(* Where("id < ?", token): the rows strictly older than the cursor. *)
BelowToken(rows, token) == {e \in rows : \A t \in token : e.id < t}

(* ORDER BY id DESC LIMIT n. *)
Newest(rows, n) == {e \in rows : Cardinality({f \in rows : f.id > e.id}) < n}

(* LIMIT is asked for with a positive page size only. *)
Limit(rows, n) == IF n > 0 THEN Newest(rows, n) ELSE rows

(* The last row of an answer, as a set: {} for the empty answer. *)
Oldest(rows) == {e \in rows : \A f \in rows : e.id =< f.id}

(* Mutation of Query: the filters are lost. *)
QueryUnfiltered(rows, opts) == Limit(BelowToken(rows, opts.token), opts.pageSize)

Query(rows, opts) ==
  Limit(BelowToken(ApplyQueryFilters(rows, opts), opts.token), opts.pageSize)

(* The distinct non-empty namespaces. *)
QueryNamespaces(rows) == {e.namespace : e \in rows} \ {""}

MaxPageSize == 500

ValidPageSize(n) == n \in 1..MaxPageSize

(* Mutations of QueryEvents: the token is the row that was fetched ahead;  *)
(* a full page is taken for a sign that another one follows.               *)
QueryEventsTokenAhead(rows, opts) ==
  LET fetched == Query(rows, [opts EXCEPT !.pageSize = @ + 1])
      more == Cardinality(fetched) > opts.pageSize
  IN [events |-> Newest(fetched, opts.pageSize),
      next |-> IF more THEN {e.id : e \in Oldest(fetched)} ELSE {}]

QueryEventsNoLookahead(rows, opts) ==
  LET events == Query(rows, opts)
      more == Cardinality(events) = opts.pageSize
  IN [events |-> events,
      next |-> IF more THEN {e.id : e \in Oldest(events)} ELSE {}]

(* One row more than asked for is fetched to learn whether a page follows. *)
QueryEvents(rows, opts) ==
  LET fetched == Query(rows, [opts EXCEPT !.pageSize = @ + 1])
      more == Cardinality(fetched) > opts.pageSize
      events == IF more THEN Newest(fetched, opts.pageSize) ELSE fetched
  IN [events |-> events,
      next |-> IF more THEN {e.id : e \in Oldest(events)} ELSE {}]
=============================================================================
