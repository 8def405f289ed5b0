---------------------------- MODULE AuditService ----------------------------
(***************************************************************************)
(* The write path: gRPC handlers WriteEvent and WriteCompensation          *)
(* (grpcapi/server.go), the use cases behind them                          *)
(* (usecases/audit_service.go), the event builder (domain/builder.go) and  *)
(* the INSERT (persistence/event_repository.go), run by concurrent calls   *)
(* on one or more server processes over one database.                      *)
(*                                                                         *)
(* A handler is interrupted where another one can matter: around the       *)
(* lookup of the compensated event, between minting the id and reading the *)
(* clock for the timestamp, before the INSERT, and between the commit and  *)
(* the answer.                                                             *)
(***************************************************************************)
EXTENDS EventRepository

CONSTANTS
  Calls,        \* handler invocations; a client's retry is another call
  Servers,      \* processes, each with its own id generator
  Requests,     \* what clients send
  RandomSpan,   \* number of values of an id's random tail
  Durable,      \* TRUE: DB_DSN names a database; FALSE: in-memory SQLite
  MaxTime,      \* bound on the clock
  MaxCrashes,   \* bound on process restarts
  SetBacks      \* by how much the system clock may be set back

(* The actions the domain names; the code treats any other like CREATED. *)
Actions == {"CREATED", "UPDATED", "DELETED", "COMPENSATED"}

(* before, after and the diff of the two, and metadata. *)
Maps ==
  {"none",            \* no before or after state: no diff
   "states",          \* before or after: a diff is stored with them
   "undiffable",      \* a state that is no JSON (a NaN)
   "unencodable"}     \* metadata that is no JSON

Request ==
  [op : {"WriteEvent", "WriteCompensation"},
   wellFormed : BOOLEAN,      \* base present, uuid and occurred_at parse
   tenant : STRING, namespace : STRING,
   entity : STRING,           \* type and id, "" when either is missing
   action : Actions,
   compensates : Nat,         \* compensates_id, of a WriteCompensation
   maps : Maps]

Event ==
  [id : Nat \ {NoId}, timestamp : Nat,
   tenant : STRING, namespace : STRING, entity : STRING, action : Actions,
   compensates : Nat, maps : Maps]

ASSUME RequestsAssumption == Requests \subseteq Request

ASSUME SpanAssumption == RandomSpan \in Nat \ {0}

(* An in-memory database lives and dies with its one process. *)
ASSUME DurableAssumption ==
  /\ Durable \in BOOLEAN
  /\ ~Durable => \A s, t \in Servers : s = t

ASSUME BoundsAssumption ==
  MaxTime \in Nat /\ MaxCrashes \in Nat /\ SetBacks \subseteq Nat

VARIABLES
  rows,         \* committed rows of audit_events
  clock,        \* system time, in ticks of the id generator (1/4096 ms)
  lastV7,       \* lastV7[s]: the generator's last time in process s
  crashes,      \* restarts so far
  pc,           \* pc[c]: where the handler of c is
  server,       \* server[c]: the process that runs it
  req,          \* req[c]: its request
  event,        \* event[c]: the event it builds
  answer        \* answer[c]: what the client was told

vars == <<rows, clock, lastV7, crashes, pc, server, req, event, answer>>
world == <<clock, lastV7, crashes>>

NoEvent == [id |-> NoId]
NoRequest == [op |-> "none"]

(* Handlers that run: before the commit, and between it and the answer. *)
Open == {"lookup", "build", "stamp", "save"}
Running == Open \cup {"saved"}
Recorded == {"saved", "stored"}

Statuses == {"OK", "InvalidArgument", "NotFound", "Internal", "Unavailable"}

Init ==
  /\ rows = {}
  /\ clock = 1
  /\ lastV7 = [s \in Servers |-> 0]
  /\ crashes = 0
  /\ pc = [c \in Calls |-> "new"]
  /\ server \in [Calls -> Servers]
  /\ req = [c \in Calls |-> NoRequest]
  /\ event = [c \in Calls |-> NoEvent]
  /\ answer = [c \in Calls |-> "none"]

-----------------------------------------------------------------------------
(* How a handler goes on, and how it ends. *)

MapUsecaseError(err) ==
  CASE err = "ErrReferencedEventNotFound" -> "NotFound"
    [] err \in {"ErrTenantMismatch", "ErrInvalidPageSize"} -> "InvalidArgument"
    [] OTHER -> "Internal"

(* A client that stopped waiting does not see the answer any more. *)
Deliver(c, status) ==
  answer' = [answer EXCEPT ![c] = IF @ = "none" THEN status ELSE @]

Advance(c, where) ==
  /\ pc' = [pc EXCEPT ![c] = where]
  /\ UNCHANGED answer

Refuse(c, status) ==
  /\ pc' = [pc EXCEPT ![c] = "aborted"]
  /\ Deliver(c, status)

Fail(c, err) == Refuse(c, MapUsecaseError(err))

-----------------------------------------------------------------------------
(* The steps of a handler. *)

(* The transport decodes the request. *)
Receive(c) ==
  /\ pc[c] = "new"
  /\ \E r \in Requests :
       /\ req' = [req EXCEPT ![c] = r]
       /\ \/ ~r.wellFormed /\ Refuse(c, "InvalidArgument")
          \/ r.wellFormed /\ r.op = "WriteEvent" /\ Advance(c, "build")
          \/ r.wellFormed /\ r.op = "WriteCompensation" /\ Advance(c, "lookup")
  /\ UNCHANGED <<rows, world, server, event>>

(* Mutation of SameTenant: the ownership check is forgotten. *)
AnyTenant(ref, r) == TRUE

SameTenant(ref, r) == ref.tenant = r.tenant

(* WriteCompensation reads the event it is about to compensate. *)
LookupReferenced(c) ==
  /\ pc[c] = "lookup"
  /\ LET found == FindByID(rows, req[c].compensates) IN
       \/ Fail(c, "database")
       \/ found = {} /\ Fail(c, "ErrReferencedEventNotFound")
       \/ \E ref \in found :
            \/ ~SameTenant(ref, req[c]) /\ Fail(c, "ErrTenantMismatch")
            \/ SameTenant(ref, req[c]) /\ Advance(c, "build")
  /\ UNCHANGED <<rows, world, server, req, event>>

(* Mutation of Buildable: an event without a namespace is let through. *)
BuildableWithoutNamespace(r) ==
  /\ "" \notin {r.tenant, r.entity}
  /\ r.op = "WriteEvent" => r.action # "COMPENSATED"

Buildable(r) ==
  /\ "" \notin {r.tenant, r.namespace, r.entity}
  /\ r.op = "WriteEvent" => r.action # "COMPENSATED"

(* The generator's time never repeats within a process. *)
V7Time(s) == IF clock > lastV7[s] THEN clock ELSE lastV7[s] + 1

Built(r, id) ==
  [id |-> id, timestamp |-> 0,
   tenant |-> r.tenant, namespace |-> r.namespace, entity |-> r.entity,
   action |-> IF r.op = "WriteCompensation" THEN "COMPENSATED" ELSE r.action,
   compensates |-> IF r.op = "WriteCompensation" THEN r.compensates ELSE NoId,
   maps |-> r.maps]

(* Mutations of MintId: a random uuid in the place of a V7; no id at all. *)
MintRandomId(c) ==
  /\ Buildable(req[c])
  /\ \E id \in 1..(MaxTime + 1) * RandomSpan :
       event' = [event EXCEPT ![c] = Built(req[c], id)]
  /\ UNCHANGED lastV7
  /\ Advance(c, "stamp")

MintNoId(c) ==
  /\ Buildable(req[c])
  /\ event' = [event EXCEPT ![c] = Built(req[c], NoId)]
  /\ UNCHANGED lastV7
  /\ Advance(c, "stamp")

(* Build validates and mints the id; NewV7 fails when it gets no entropy. *)
MintId(c) ==
  /\ Buildable(req[c])
  /\ \E tail \in 0..(RandomSpan - 1) :
       event' = [event EXCEPT ![c] =
                   Built(req[c], V7Time(server[c]) * RandomSpan + tail)]
  /\ lastV7' = [lastV7 EXCEPT ![server[c]] = V7Time(server[c])]
  /\ Advance(c, "stamp")

BuildFails(c) ==
  /\ Fail(c, IF Buildable(req[c]) THEN "entropy" ELSE "validation")
  /\ UNCHANGED <<lastV7, event>>

BuildEvent(c) ==
  /\ pc[c] = "build"
  /\ MintId(c) \/ BuildFails(c)
  /\ UNCHANGED <<rows, clock, crashes, server, req>>

(* Build reads the clock, and the use case computes the diff. *)
StampEvent(c) ==
  /\ pc[c] = "stamp"
  /\ event' = [event EXCEPT ![c].timestamp = clock]
  /\ \/ req[c].maps = "undiffable" /\ Fail(c, "diff")
     \/ req[c].maps # "undiffable" /\ Advance(c, "save")
  /\ UNCHANGED <<rows, world, server, req>>

(* toRecord: every field is copied; the maps are encoded, which may fail. *)
Encodable(e) == e.maps # "unencodable"

(* Mutations of Save: its error is not looked at; id is no primary key. *)
SaveIgnoringError(c) ==
  /\ pc[c] = "save"
  /\ rows' \in {rows, rows \cup {event[c]}}
  /\ Advance(c, "saved")
  /\ UNCHANGED <<world, server, req, event>>

SaveWithoutKey(c) ==
  /\ pc[c] = "save"
  /\ \/ /\ Encodable(event[c])
        /\ rows' = rows \cup {event[c]}
        /\ Advance(c, "saved")
     \/ /\ Fail(c, "database")
        /\ UNCHANGED rows
  /\ UNCHANGED <<world, server, req, event>>

(* INSERT: all of the row or none of it; id is the primary key. *)
Save(c) ==
  /\ pc[c] = "save"
  /\ \/ /\ Encodable(event[c])
        /\ FindByID(rows, event[c].id) = {}
        /\ rows' = rows \cup {event[c]}
        /\ Advance(c, "saved")
     \/ /\ Fail(c, "database")
        /\ UNCHANGED rows
  /\ UNCHANGED <<world, server, req, event>>

(* The answer can still be an error: the commit's own, or the conversion's. *)
Reply(c) ==
  /\ pc[c] = "saved"
  /\ pc' = [pc EXCEPT ![c] = "stored"]
  /\ \E status \in {"OK", "Internal"} : Deliver(c, status)
  /\ UNCHANGED <<rows, world, server, req, event>>

(* The deadline passes or the connection breaks; the handler may run on. *)
GiveUp(c) ==
  /\ pc[c] \in Running /\ answer[c] = "none"
  /\ Deliver(c, "Unavailable")
  /\ UNCHANGED <<rows, world, pc, server, req, event>>

-----------------------------------------------------------------------------
(* What happens around the handlers. *)

(* Process s dies with its handlers and its generator, and starts again. *)
Restart(s) ==
  LET dying == {c \in Calls : server[c] = s /\ pc[c] \in Running} IN
  /\ crashes < MaxCrashes
  /\ crashes' = crashes + 1
  /\ lastV7' = [lastV7 EXCEPT ![s] = 0]
  /\ rows' = IF Durable THEN rows ELSE {}
  /\ pc' = [c \in Calls |->
              IF c \notin dying THEN pc[c]
              ELSE IF pc[c] = "saved" THEN "stored" ELSE "aborted"]
  /\ answer' = [c \in Calls |->
                  IF c \in dying /\ answer[c] = "none" THEN "Unavailable"
                  ELSE answer[c]]
  /\ UNCHANGED <<clock, server, req, event>>

Tick ==
  /\ clock < MaxTime
  /\ clock' = clock + 1
  /\ UNCHANGED <<rows, lastV7, crashes, pc, server, req, event, answer>>

SetBack ==
  /\ \E d \in SetBacks : clock > d /\ clock' = clock - d
  /\ UNCHANGED <<rows, lastV7, crashes, pc, server, req, event, answer>>

Handler(c) ==
  \/ Receive(c) \/ LookupReferenced(c) \/ BuildEvent(c)
  \/ StampEvent(c) \/ Save(c) \/ Reply(c)

Next ==
  \/ \E c \in Calls : Handler(c) \/ GiveUp(c)
  \/ \E s \in Servers : Restart(s)
  \/ Tick \/ SetBack

Spec == Init /\ [][Next]_vars

-----------------------------------------------------------------------------
(* Every variable keeps its type. *)
TypeOK ==
  /\ rows \subseteq Event
  /\ clock \in Nat \ {0}
  /\ lastV7 \in [Servers -> Nat]
  /\ crashes \in Nat
  /\ pc \in [Calls -> Running \cup {"new", "stored", "aborted"}]
  /\ server \in [Calls -> Servers]
  /\ req \in [Calls -> Requests \cup {NoRequest}]
  /\ event \in [Calls -> Event \cup {NoEvent}]
  /\ answer \in [Calls -> Statuses \cup {"none"}]

(* A stored compensation refers to a stored event of its own tenant, and   *)
(* only compensations refer to one.  The lookup and the INSERT are apart,  *)
(* with other handlers and restarts between them (audit_service.go:24-36). *)
CompensationIntegrity ==
  \A e \in rows :
    /\ e.action = "COMPENSATED" <=> e.compensates # NoId
    /\ e.compensates # NoId =>
         \E f \in rows : f.id = e.compensates /\ f.tenant = e.tenant

(* Every row was written by exactly one call that committed it: a call     *)
(* that failed, at whatever step, left nothing behind, and no two stored   *)
(* events share an id, although the generators of two processes, or of one *)
(* before and after a restart, may mint the same one                       *)
(* (audit_service.go:67-91, audit_event_record.go:11).                     *)
RowsHaveOneOrigin ==
  \A e \in rows :
    \E c \in Calls :
      /\ pc[c] \in Recorded /\ event[c] = e
      /\ \A d \in Calls \ {c} :
           pc[d] \in Recorded /\ event[d].id = e.id => event[d] \notin rows

(* In a durable database a confirmed event is stored as confirmed, and a   *)
(* request refused as wrong is never stored, whatever the client's         *)
(* deadline, other calls and restarts do (grpcapi/server.go:25-65).        *)
AnswersAreTrue ==
  \A c \in Calls :
    /\ Durable /\ answer[c] = "OK" => event[c] \in rows
    /\ answer[c] \in {"InvalidArgument", "NotFound"} =>
         pc[c] = "aborted" /\ event[c] \notin rows

(* Every stored event is found under a namespace of the list the query     *)
(* page offers: the filter of QueryNamespaces (event_repository.go:186)    *)
(* hides no row that the builder lets through (builder.go:191).            *)
NamespacesAreListed ==
  \A e \in rows : e.namespace \in QueryNamespaces(rows)

(* In one process that does not restart, a new id is larger than every     *)
(* stored one, also when the clock stands still or is set back: the        *)
(* order of pages and their cursor rest on it (builder.go:203,             *)
(* event_repository.go:155-161).                                           *)
IdsGrow ==
  [][\A c \in Calls :
       pc[c] = "build" /\ pc'[c] = "stamp" =>
         \A e \in rows : e.id < event'[c].id]_vars

(* Hence chains of compensations run backwards and end, and an event is    *)
(* never compensated by one that a page shows below it                     *)
(* (audit_service.go:24-36).                                               *)
CompensationsPointBack ==
  \A e \in rows : e.compensates # NoId => e.compensates < e.id

(* event_repository.go:155-157: "ordering by id descending is ordering by  *)
(* date descending".                                                       *)
NewestFirst ==
  \A e, f \in rows : e.id > f.id => e.timestamp >= f.timestamp

(* The service implements the audit log (usecases/api.go): what is stored, *)
(* the calls that stored it and the calls that were told so.               *)
Log == INSTANCE AuditLog WITH
         log <- rows,
         recorded <- {c \in Calls : pc[c] \in Recorded},
         confirmed <- {c \in Calls : answer[c] = "OK"}

ImplementsAuditLog == Log!Spec
=============================================================================
