------------------------------- MODULE PageWalk -------------------------------
(***************************************************************************)
(* A client that walks the pages of QueryEvents, over gRPC or GET          *)
(* /api/events, handing each next_page_token back, while writers commit    *)
(* rows.  A row may be committed below rows that are already there: its id *)
(* was minted earlier, or in another process.                              *)
(***************************************************************************)
EXTENDS EventRepository

CONSTANTS
  Candidates,   \* the events that writers may store
  Queries       \* the first requests of a walk, without a token

ASSUME CandidatesAssumption ==
  /\ IsFiniteSet(Candidates)
  /\ \A e \in Candidates : e.id \in Nat /\ e.timestamp \in Nat

ASSUME QueriesAssumption ==
  /\ Queries \subseteq QueryOptions
  /\ \A q \in Queries : q.token = {}

VARIABLES
  rows,         \* committed rows
  phase,        \* of the client: idle, asking, answered, refused or done
  query,        \* its filters, page size and current token
  reply,        \* the page on its way to the client
  collected,    \* the events it was given
  atStart       \* the matching rows that were there when it started

vars == <<rows, phase, query, reply, collected, atStart>>

NoReply == [events |-> {}, next |-> {}]

Init ==
  /\ rows = {}
  /\ phase = "idle"
  /\ query \in Queries
  /\ reply = NoReply
  /\ collected = {}
  /\ atStart = {}

(* Mutation of Insert: older rows are pruned. *)
InsertPruning ==
  /\ \E e \in Candidates : FindByID(rows, e.id) = {} /\ rows' = {e}
  /\ UNCHANGED <<phase, query, reply, collected, atStart>>

(* A writer's INSERT commits. *)
Insert ==
  /\ \E e \in Candidates :
       /\ FindByID(rows, e.id) = {}
       /\ rows' = rows \cup {e}
  /\ UNCHANGED <<phase, query, reply, collected, atStart>>

Start ==
  /\ phase = "idle"
  /\ phase' = "asking"
  /\ atStart' = ApplyQueryFilters(rows, query)
  /\ UNCHANGED <<rows, query, reply, collected>>

(* The service answers from the rows committed so far, or refuses. *)
Answer ==
  /\ phase = "asking"
  /\ \/ /\ ValidPageSize(query.pageSize)
        /\ phase' = "answered"
        /\ reply' = QueryEvents(rows, query)
     \/ /\ ~ValidPageSize(query.pageSize)
        /\ phase' = "refused"
        /\ UNCHANGED reply
  /\ UNCHANGED <<rows, query, collected, atStart>>

(* The answer is lost, and the client asks for the same page again. *)
Lose ==
  /\ phase = "answered"
  /\ phase' = "asking"
  /\ reply' = NoReply
  /\ UNCHANGED <<rows, query, collected, atStart>>

Receive ==
  /\ phase = "answered"
  /\ collected' = collected \cup reply.events
  /\ phase' = IF reply.next = {} THEN "done" ELSE "asking"
  /\ query' = [query EXCEPT !.token = reply.next]
  /\ reply' = NoReply
  /\ UNCHANGED <<rows, atStart>>

Next == Insert \/ Start \/ Answer \/ Lose \/ Receive

Spec == Init /\ [][Next]_vars

(* The client keeps asking, and not every answer is lost.  Nothing is      *)
(* asked of the writers.                                                   *)
FairSpec == Spec /\ WF_vars(Answer) /\ SF_vars(Receive)

-----------------------------------------------------------------------------
(* Every variable keeps its type. *)
TypeOK ==
  /\ rows \subseteq Candidates
  /\ phase \in {"idle", "asking", "answered", "refused", "done"}
  /\ query \in QueryOptions
  /\ reply.events \subseteq rows /\ reply.next \subseteq Nat
  /\ collected \subseteq rows
  /\ atStart \subseteq rows

(* A finished walk has returned every matching event that was stored when  *)
(* it started, whatever was stored since (event_repository.go:154-163,     *)
(* audit_service.go:94-111).                                               *)
WalkComplete == phase = "done" => atStart \subseteq collected

(* It returned nothing else than stored events that match. *)
WalkSound == collected \subseteq ApplyQueryFilters(rows, query)

(* Each page is older than all the pages before it: the walk is newest     *)
(* first throughout and returns no event twice, lost answers included.     *)
PagesDescend ==
  phase = "answered" =>
    \A e \in collected, f \in reply.events : f.id < e.id

(* A token is handed out with a full page only, and only when there is     *)
(* something to fetch with it: no page after the first is empty.           *)
TokenPromisesPage ==
  phase = "answered" =>
    /\ Cardinality(reply.events) =< query.pageSize
    /\ reply.next # {} => Cardinality(reply.events) = query.pageSize
    /\ query.token # {} => reply.events # {}

(* A walk ends, although writers may go on and answers be lost. *)
WalkEnds == phase = "asking" ~> phase \in {"done", "refused"}
=============================================================================
