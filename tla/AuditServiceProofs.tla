------------------------- MODULE AuditServiceProofs -------------------------
(***************************************************************************)
(* Type correctness and integrity of compensations, for any number of      *)
(* calls, processes, restarts and requests.                                *)
(***************************************************************************)
EXTENDS AuditService, TLAPS

USE DEF NoId

-----------------------------------------------------------------------------
(* What a handler knows by where it is. *)
HandlersOK ==
  \A c \in Calls :
    /\ pc[c] \in Running => req[c] \in Requests
    /\ pc[c] \in {"stamp", "save", "saved"} => event[c] \in Event

TypeInv == TypeOK /\ HandlersOK

(* An event may be stored: what it refers to is. *)
Founded(e) ==
  /\ e.action = "COMPENSATED" <=> e.compensates # NoId
  /\ e.compensates # NoId =>
       \E f \in rows : f.id = e.compensates /\ f.tenant = e.tenant

(* What the lookup found stays true until the INSERT. *)
LookupHolds ==
  \A c \in Calls :
    /\ pc[c] = "build" /\ req[c].op = "WriteCompensation" =>
         \E f \in rows : f.id = req[c].compensates /\ f.tenant = req[c].tenant
    /\ pc[c] \in {"stamp", "save"} => Founded(event[c])

IInv == TypeInv /\ LookupHolds /\ \A e \in rows : Founded(e)

-----------------------------------------------------------------------------
(* The builder makes an event of any request. *)
LEMMA BuiltType ==
  ASSUME NEW r \in Requests, NEW id \in Nat \ {0}
  PROVE  Built(r, id) \in Event
<1>1. r \in Request
  BY RequestsAssumption
<1>2. r.action \in Actions /\ r.compensates \in Nat /\ r.maps \in Maps
       /\ r.tenant \in STRING /\ r.namespace \in STRING /\ r.entity \in STRING
  BY <1>1 DEF Request
<1>3. CASE r.op = "WriteCompensation"
  BY <1>2, <1>3 DEF Built, Event, Actions
<1>4. CASE r.op # "WriteCompensation"
  BY <1>2, <1>4 DEF Built, Event, Actions
<1> QED
  BY <1>3, <1>4

(* An id is never the zero uuid. *)
LEMMA IdType ==
  ASSUME NEW t \in Nat \ {0}, NEW tail \in 0..(RandomSpan - 1)
  PROVE  t * RandomSpan + tail \in Nat \ {0}
<1>1. RandomSpan \in Nat \ {0}
  BY SpanAssumption
<1>2. t * RandomSpan \in Nat \ {0}
  BY <1>1
<1> QED
  BY <1>1, <1>2

(* The generator's time is a positive number. *)
LEMMA V7TimeType ==
  ASSUME TypeOK, NEW s \in Servers
  PROVE  V7Time(s) \in Nat \ {0}
BY DEF TypeOK, V7Time

(* The initial states are typed. *)
LEMMA InitTyped == Init => TypeInv
BY DEF Init, TypeInv, TypeOK, HandlersOK, Running, Open, Event, NoEvent, NoRequest

(* Every status a failing step answers with is a status. *)
LEMMA StatusType == \A err : MapUsecaseError(err) \in Statuses
BY DEF MapUsecaseError, Statuses

(* A step of one handler keeps the types. *)
LEMMA HandlerTyped ==
  ASSUME TypeInv, NEW c \in Calls, Handler(c)
  PROVE  TypeInv'
<1> USE DEF TypeInv, TypeOK, HandlersOK, Running, Open, Statuses
<1>1. CASE Receive(c)
  BY <1>1 DEF Receive, Refuse, Deliver, Advance, world
<1>2. CASE LookupReferenced(c)
  BY <1>2, StatusType DEF LookupReferenced, Fail, Refuse, Deliver, Advance, world
<1>3. CASE BuildEvent(c)
  <2>1. CASE BuildFails(c)
    BY <1>3, <2>1, StatusType DEF BuildEvent, BuildFails, Fail, Refuse, Deliver
  <2>2. CASE MintId(c)
    <3>1. PICK tail \in 0..(RandomSpan - 1) :
            event' = [event EXCEPT ![c] =
              Built(req[c], V7Time(server[c]) * RandomSpan + tail)]
      BY <2>2 DEF MintId
    <3>2. V7Time(server[c]) \in Nat \ {0} /\ req[c] \in Requests
      BY <1>3, V7TimeType DEF BuildEvent
    <3>3. Built(req[c], V7Time(server[c]) * RandomSpan + tail) \in Event
      BY <3>2, IdType, BuiltType
    <3> QED
      BY <1>3, <2>2, <3>1, <3>2, <3>3 DEF BuildEvent, MintId, Advance
  <2> QED
    BY <1>3, <2>1, <2>2 DEF BuildEvent
<1>4. CASE StampEvent(c)
  BY <1>4, StatusType DEF StampEvent, Fail, Refuse, Deliver, Advance, world, Event
<1>5. CASE Save(c)
  BY <1>5, StatusType DEF Save, Fail, Refuse, Deliver, Advance, world
<1>6. CASE Reply(c)
  BY <1>6 DEF Reply, Deliver, world
<1> QED
  BY <1>1, <1>2, <1>3, <1>4, <1>5, <1>6 DEF Handler

(* So does every other step. *)
LEMMA NextTyped == TypeInv /\ [Next]_vars => TypeInv'
<1> SUFFICES ASSUME TypeInv, [Next]_vars
             PROVE  TypeInv'
  OBVIOUS
<1>1. CASE \E c \in Calls : Handler(c)
  BY <1>1, HandlerTyped
<1> USE DEF TypeInv, TypeOK, HandlersOK, Running, Open, Statuses
<1>2. ASSUME NEW c \in Calls, GiveUp(c)
      PROVE  TypeInv'
  BY <1>2 DEF GiveUp, Deliver, world
<1>3. ASSUME NEW s \in Servers, Restart(s)
      PROVE  TypeInv'
  BY <1>3 DEF Restart
<1>4. CASE Tick
  BY <1>4 DEF Tick
<1>5. CASE SetBack
  <2>1. PICK d \in SetBacks : clock > d /\ clock' = clock - d
    BY <1>5 DEF SetBack
  <2>2. clock' \in Nat \ {0}
    BY <2>1, BoundsAssumption
  <2> QED
    BY <1>5, <2>2 DEF SetBack
<1>6. CASE UNCHANGED vars
  BY <1>6 DEF vars
<1> QED
  BY <1>1, <1>2, <1>3, <1>4, <1>5, <1>6 DEF Next

(* Every variable of the write path keeps its type, in every instance      *)
(* (grpcapi/server.go:25-65, audit_service.go:20-92).                      *)
THEOREM TypeCorrect == Spec => []TypeOK
<1>1. TypeInv => TypeOK
  BY DEF TypeInv
<1> QED
  BY InitTyped, NextTyped, <1>1, PTL DEF Spec

-----------------------------------------------------------------------------
(* The builder copies what the lookup was about. *)
LEMMA BuiltFounded ==
  ASSUME TypeInv, NEW r \in Requests, NEW id \in Nat \ {0}, Buildable(r),
         r.op = "WriteCompensation" =>
           \E f \in rows : f.id = r.compensates /\ f.tenant = r.tenant
  PROVE  Founded(Built(r, id))
<1>1. r.op \in {"WriteEvent", "WriteCompensation"}
  BY RequestsAssumption DEF Request
<1>2. CASE r.op = "WriteEvent"
  BY <1>2 DEF Buildable, Built, Founded
<1>3. CASE r.op = "WriteCompensation"
  <2>1. PICK f \in rows : f.id = r.compensates /\ f.tenant = r.tenant
    BY <1>3
  <2>2. f.id # 0
    BY DEF TypeInv, TypeOK, Event
  <2> QED
    BY <1>3, <2>1, <2>2 DEF Built, Founded
<1> QED
  BY <1>1, <1>2, <1>3

(* A step of one handler keeps the inductive invariant: rows are only      *)
(* added, so what the lookup found is there when the INSERT happens.       *)
LEMMA HandlerFounded ==
  ASSUME IInv, NEW c \in Calls, Handler(c)
  PROVE  LookupHolds' /\ \A e \in rows' : Founded(e)'
<1> USE DEF IInv, LookupHolds, TypeInv, TypeOK, HandlersOK, Running, Open
<1>1. CASE Receive(c)
  BY <1>1 DEF Receive, Refuse, Advance, world, Founded
<1>2. CASE LookupReferenced(c)
  <2>1. rows' = rows /\ req' = req /\ event' = event
    BY <1>2 DEF LookupReferenced
  <2>2. CASE pc' = [pc EXCEPT ![c] = "aborted"]
    BY <2>1, <2>2 DEF Founded
  <2>3. CASE pc' = [pc EXCEPT ![c] = "build"]
             /\ \E f \in rows : f.id = req[c].compensates
                             /\ f.tenant = req[c].tenant
    BY <2>1, <2>3 DEF Founded
  <2> QED
    BY <1>2, <2>2, <2>3 DEF LookupReferenced, Fail, Refuse, Advance,
                            SameTenant, FindByID
<1>3. CASE BuildEvent(c)
  <2>1. rows' = rows /\ req' = req /\ pc[c] = "build"
    BY <1>3 DEF BuildEvent
  <2>2. CASE BuildFails(c)
    BY <2>1, <2>2 DEF BuildFails, Fail, Refuse, Founded
  <2>3. CASE MintId(c)
    <3>1. PICK tail \in 0..(RandomSpan - 1) :
            event' = [event EXCEPT ![c] =
              Built(req[c], V7Time(server[c]) * RandomSpan + tail)]
      BY <2>3 DEF MintId
    <3>2. V7Time(server[c]) \in Nat \ {0} /\ req[c] \in Requests
      BY <2>1, V7TimeType
    <3>3. Founded(Built(req[c], V7Time(server[c]) * RandomSpan + tail))
      BY <2>1, <2>3, <3>2, IdType, BuiltFounded DEF MintId
    <3> QED
      BY <2>1, <2>3, <3>1, <3>3 DEF MintId, Advance, Founded
  <2> QED
    BY <1>3, <2>2, <2>3 DEF BuildEvent
<1>4. CASE StampEvent(c)
  <2>1. /\ rows' = rows /\ req' = req /\ pc[c] = "stamp"
        /\ event' = [event EXCEPT ![c].timestamp = clock]
        /\ \E w \in {"save", "aborted"} : pc' = [pc EXCEPT ![c] = w]
    BY <1>4 DEF StampEvent, Fail, Refuse, Advance
  <2>2. /\ event'[c].action = event[c].action
        /\ event'[c].compensates = event[c].compensates
        /\ event'[c].tenant = event[c].tenant
    BY <2>1 DEF Event
  <2> QED
    BY <2>1, <2>2 DEF Founded
<1>5. CASE Save(c)
  <2>1. req' = req /\ event' = event /\ pc[c] = "save"
    BY <1>5 DEF Save
  <2>2. CASE rows' = rows \cup {event[c]} /\ pc' = [pc EXCEPT ![c] = "saved"]
    BY <2>1, <2>2 DEF Founded
  <2>3. CASE rows' = rows /\ pc' = [pc EXCEPT ![c] = "aborted"]
    BY <2>1, <2>3 DEF Founded
  <2> QED
    BY <1>5, <2>2, <2>3 DEF Save, Fail, Refuse, Advance
<1>6. CASE Reply(c)
  BY <1>6 DEF Reply, Founded
<1> QED
  BY <1>1, <1>2, <1>3, <1>4, <1>5, <1>6 DEF Handler

(* So does every other step; losing the rows of an in-memory database      *)
(* takes every handler with it, because one process has it to itself.      *)
LEMMA NextFounded == IInv /\ [Next]_vars => IInv'
<1> SUFFICES ASSUME IInv, [Next]_vars
             PROVE  LookupHolds' /\ \A e \in rows' : Founded(e)'
  BY NextTyped DEF IInv
<1>1. CASE \E c \in Calls : Handler(c)
  BY <1>1, HandlerFounded
<1> USE DEF IInv, LookupHolds, TypeInv, TypeOK, HandlersOK, Running, Open
<1>2. ASSUME NEW c \in Calls, GiveUp(c)
      PROVE  LookupHolds' /\ \A e \in rows' : Founded(e)'
  BY <1>2 DEF GiveUp, Founded
<1>3. ASSUME NEW s \in Servers, Restart(s)
      PROVE  LookupHolds' /\ \A e \in rows' : Founded(e)'
  <2>1. req' = req /\ event' = event
    BY <1>3 DEF Restart
  <2>2. \A c \in Calls : pc'[c] \in Running => pc'[c] = pc[c] /\ server[c] # s
    BY <1>3 DEF Restart
  <2>3. CASE Durable
    <3>1. rows' = rows
      BY <1>3, <2>3 DEF Restart
    <3> QED
      BY <2>1, <2>2, <3>1 DEF Founded
  <2>4. CASE ~Durable
    <3>1. rows' = {}
      BY <1>3, <2>4 DEF Restart
    <3>2. \A c \in Calls : pc'[c] \notin Running
      BY <2>2, <2>4, DurableAssumption
    <3> QED
      BY <3>1, <3>2
  <2> QED
    BY <2>3, <2>4
<1>4. CASE Tick
  BY <1>4 DEF Tick, Founded
<1>5. CASE SetBack
  BY <1>5 DEF SetBack, Founded
<1>6. CASE UNCHANGED vars
  BY <1>6 DEF vars, Founded
<1> QED
  BY <1>1, <1>2, <1>3, <1>4, <1>5, <1>6 DEF Next

(* A stored compensation always refers to a stored event of its tenant:    *)
(* the check and the INSERT of WriteCompensation (audit_service.go:24-36)  *)
(* may be apart because rows are only added, or are all lost together with *)
(* the handlers.                                                           *)
THEOREM CompensationsFounded == Spec => []CompensationIntegrity
<1>1. Init => IInv
  BY InitTyped DEF Init, IInv, LookupHolds
<1>2. IInv => CompensationIntegrity
  BY DEF IInv, Founded, CompensationIntegrity
<1> QED
  BY <1>1, <1>2, NextFounded, PTL DEF Spec
-----------------------------------------------------------------------------
(* How an answer, the handler's end and the rows agree. *)
OutcomesAgree ==
  \A c \in Calls :
    /\ pc[c] \in {"new", "lookup", "build"} => event[c] = NoEvent
    /\ answer[c] = "OK" => pc[c] = "stored"
    /\ answer[c] \in {"InvalidArgument", "NotFound"} =>
         pc[c] = "aborted" /\ event[c] = NoEvent
    /\ Durable /\ pc[c] \in Recorded => event[c] \in rows

OInv == TypeInv /\ OutcomesAgree

(* The errors that are not the client's fault all answer Internal. *)
LEMMA InternalErrors ==
  \A err \in {"database", "entropy", "validation", "diff"} :
    MapUsecaseError(err) = "Internal"
BY DEF MapUsecaseError

(* One handler's step keeps answer, end and rows in agreement. *)
LEMMA HandlerAgrees ==
  ASSUME OInv, NEW c \in Calls, Handler(c)
  PROVE  OutcomesAgree'
<1> USE DEF OInv, OutcomesAgree, TypeInv, TypeOK, HandlersOK, Running, Open,
            Recorded
<1>1. CASE Receive(c)
  BY <1>1 DEF Receive, Refuse, Deliver, Advance, world
<1>2. CASE LookupReferenced(c)
  BY <1>2, StatusType, InternalErrors
  DEF LookupReferenced, Fail, Refuse, Deliver, Advance, MapUsecaseError
<1>3. CASE BuildEvent(c)
  <2>1. CASE BuildFails(c)
    BY <1>3, <2>1, InternalErrors
    DEF BuildEvent, BuildFails, Fail, Refuse, Deliver
  <2>2. CASE MintId(c)
    BY <1>3, <2>2 DEF BuildEvent, MintId, Advance
  <2> QED
    BY <1>3, <2>1, <2>2 DEF BuildEvent
<1>4. CASE StampEvent(c)
  BY <1>4, InternalErrors DEF StampEvent, Fail, Refuse, Deliver, Advance
<1>5. CASE Save(c)
  BY <1>5, InternalErrors DEF Save, Fail, Refuse, Deliver, Advance
<1>6. CASE Reply(c)
  BY <1>6 DEF Reply, Deliver
<1> QED
  BY <1>1, <1>2, <1>3, <1>4, <1>5, <1>6 DEF Handler

(* So does every other step. *)
LEMMA NextAgrees == OInv /\ [Next]_vars => OInv'
<1> SUFFICES ASSUME OInv, [Next]_vars
             PROVE  OutcomesAgree'
  BY NextTyped DEF OInv
<1>1. CASE \E c \in Calls : Handler(c)
  BY <1>1, HandlerAgrees
<1> USE DEF OInv, OutcomesAgree, TypeInv, TypeOK, HandlersOK, Running, Open,
            Recorded
<1>2. ASSUME NEW c \in Calls, GiveUp(c)
      PROVE  OutcomesAgree'
  BY <1>2 DEF GiveUp, Deliver
<1>3. ASSUME NEW s \in Servers, Restart(s)
      PROVE  OutcomesAgree'
  BY <1>3 DEF Restart
<1>4. CASE Tick \/ SetBack
  BY <1>4 DEF Tick, SetBack
<1>5. CASE UNCHANGED vars
  BY <1>5 DEF vars
<1> QED
  BY <1>1, <1>2, <1>3, <1>4, <1>5 DEF Next

(* The initial states agree. *)
LEMMA InitAgrees == Init => OInv
BY InitTyped DEF Init, OInv, OutcomesAgree, Recorded

(* A confirmed event is stored in a durable database, and a refused one    *)
(* never is: the answer follows the INSERT (server.go:25-65).              *)
THEOREM AnswersTrue == Spec => []AnswersAreTrue
<1>1. OInv => AnswersAreTrue
  <2> SUFFICES ASSUME OInv, NEW c \in Calls
      PROVE  /\ Durable /\ answer[c] = "OK" => event[c] \in rows
             /\ answer[c] \in {"InvalidArgument", "NotFound"} =>
                  pc[c] = "aborted" /\ event[c] \notin rows
    BY DEF AnswersAreTrue
  <2>1. \A e \in rows : e.id # NoId
    BY DEF OInv, TypeInv, TypeOK, Event
  <2>2. NoEvent \notin rows
    BY <2>1 DEF NoEvent
  <2> QED
    BY <2>2 DEF OInv, OutcomesAgree, Recorded
<1> QED
  BY InitAgrees, NextAgrees, <1>1, PTL DEF Spec

-----------------------------------------------------------------------------
(* What the log shows: the rows, and which calls are recorded or confirmed. *)
Unseen ==
  /\ rows' = rows
  /\ \A c \in Calls :
       /\ pc'[c] \in Recorded <=> pc[c] \in Recorded
       /\ answer'[c] = "OK" <=> answer[c] = "OK"

LEMMA UnseenStutters == Unseen => UNCHANGED Log!logVars
<1> SUFFICES ASSUME Unseen
             PROVE  UNCHANGED Log!logVars
  OBVIOUS
<1>1. {c \in Calls : pc[c] \in Recorded}' = {c \in Calls : pc[c] \in Recorded}
  BY DEF Unseen
<1>2. {c \in Calls : answer[c] = "OK"}' = {c \in Calls : answer[c] = "OK"}
  BY DEF Unseen
<1> QED
  BY <1>1, <1>2 DEF Unseen, Log!logVars

(* A handler fails, or goes on without a commit: the log shows nothing.    *)
LEMMA QuietHandler ==
  ASSUME OInv, NEW c \in Calls, pc[c] \in {"new"} \cup Open, rows' = rows,
         \/ \E where \in Open : Advance(c, where)
         \/ \E status \in Statuses \ {"OK"} : Refuse(c, status)
  PROVE  Unseen
<1> USE DEF OInv, TypeInv, TypeOK, Open, Recorded
<1>1. CASE \E where \in Open : Advance(c, where)
  BY <1>1 DEF Advance, Unseen
<1>2. CASE \E status \in Statuses \ {"OK"} : Refuse(c, status)
  BY <1>2 DEF Refuse, Deliver, Unseen
<1> QED
  BY <1>1, <1>2

(* A failing step never answers OK. *)
LEMMA FailRefuses ==
  ASSUME NEW c \in Calls, NEW err, Fail(c, err)
  PROVE  \E status \in Statuses \ {"OK"} : Refuse(c, status)
BY DEF Fail, MapUsecaseError, Statuses

(* Over a durable database each step of a handler is a step of the log, or *)
(* changes nothing that the log shows.                                     *)
LEMMA HandlerRefines ==
  ASSUME Durable, IInv, OInv, NEW c \in Calls, Handler(c)
  PROVE  Log!Next \/ Unseen
<1> DEFINE recordedCalls == {d \in Calls : pc[d] \in Recorded}
           confirmedCalls == {d \in Calls : answer[d] = "OK"}
<1>1. CASE Receive(c)
  BY <1>1, QuietHandler DEF Receive, Open, Statuses
<1>2. CASE LookupReferenced(c)
  BY <1>2, QuietHandler, FailRefuses DEF LookupReferenced, Open
<1>3. CASE BuildEvent(c)
  BY <1>3, QuietHandler, FailRefuses DEF BuildEvent, BuildFails, MintId, Open
<1>4. CASE StampEvent(c)
  BY <1>4, QuietHandler, FailRefuses DEF StampEvent, Open
<1>5. CASE Save(c)
  <2>1. CASE Fail(c, "database") /\ UNCHANGED rows
    BY <1>5, <2>1, QuietHandler, FailRefuses DEF Save, Open
  <2>2. CASE /\ FindByID(rows, event[c].id) = {}
             /\ rows' = rows \cup {event[c]}
             /\ Advance(c, "saved")
    <3>1. Founded(event[c])
      BY <1>5 DEF Save, IInv, LookupHolds
    <3>2. Log!Admissible(event[c])
      BY <2>2, <3>1 DEF Log!Admissible, Founded, FindByID
    <3>3. c \notin recordedCalls /\ recordedCalls' = recordedCalls \cup {c}
      BY <1>5, <2>2 DEF Save, Advance, Recorded, OInv, TypeInv, TypeOK
    <3>4. confirmedCalls' = confirmedCalls
      BY <2>2 DEF Advance
    <3> QED
      BY <2>2, <3>2, <3>3, <3>4 DEF Log!Next, Log!Record
  <2> QED
    BY <1>5, <2>1, <2>2 DEF Save
<1>6. CASE Reply(c)
  <2> USE DEF OInv, OutcomesAgree, TypeInv, TypeOK, Recorded
  <2>1. c \in recordedCalls \ confirmedCalls
    BY <1>6 DEF Reply
  <2>2. rows' = rows /\ recordedCalls' = recordedCalls
    BY <1>6 DEF Reply
  <2>3. CASE answer'[c] = "OK"
    <3>1. confirmedCalls' = confirmedCalls \cup {c}
      BY <1>6, <2>3 DEF Reply, Deliver
    <3> QED
      BY <2>1, <2>2, <3>1 DEF Log!Next, Log!Confirm
  <2>4. CASE answer'[c] # "OK"
    BY <1>6, <2>4, <2>1 DEF Reply, Deliver, Unseen
  <2> QED
    BY <2>3, <2>4
<1> QED
  BY <1>1, <1>2, <1>3, <1>4, <1>5, <1>6 DEF Handler

(* Restarts, deadlines and the clock change nothing that the log shows.    *)
LEMMA StepRefines ==
  ASSUME Durable, IInv, OInv, [Next]_vars
  PROVE  [Log!Next]_(Log!logVars)
<1> SUFFICES Log!Next \/ Unseen
  BY UnseenStutters
<1>1. CASE \E c \in Calls : Handler(c)
  BY <1>1, HandlerRefines
<1> USE DEF OInv, OutcomesAgree, TypeInv, TypeOK, Recorded, Running, Open
<1>2. ASSUME NEW c \in Calls, GiveUp(c)
      PROVE  Unseen
  BY <1>2 DEF GiveUp, Deliver, Unseen
<1>3. ASSUME NEW s \in Servers, Restart(s)
      PROVE  Unseen
  BY <1>3 DEF Restart, Unseen
<1>4. CASE Tick \/ SetBack
  BY <1>4 DEF Tick, SetBack, Unseen
<1>5. CASE UNCHANGED vars
  BY <1>5 DEF vars, Unseen
<1> QED
  BY <1>1, <1>2, <1>3, <1>4, <1>5 DEF Next

(* Over a durable database the service implements the audit log: an INSERT *)
(* records, the answer confirms, and all other steps of the handlers, of   *)
(* clients and of restarts are unseen (usecases/api.go:44-50).             *)
THEOREM Refinement == Durable => (Spec => ImplementsAuditLog)
<1> SUFFICES ASSUME Durable
             PROVE  Spec => ImplementsAuditLog
  OBVIOUS
<1>1. Init => Log!Init
  BY DEF Init, Log!Init, Recorded
<1>2. Init => IInv
  BY InitTyped DEF Init, IInv, LookupHolds
<1>3. IInv /\ OInv /\ [Next]_vars => [Log!Next]_(Log!logVars)
  BY StepRefines
<1> QED
  BY <1>1, <1>2, <1>3, InitAgrees, NextFounded, NextAgrees, PTL
  DEF Spec, ImplementsAuditLog, Log!Spec

-----------------------------------------------------------------------------
(* Every row was let through by the builder. *)
NamespacesGiven ==
  /\ \A c \in Calls : pc[c] \in {"stamp", "save"} => event[c].namespace # ""
  /\ \A e \in rows : e.namespace # ""

LEMMA NextNamed == TypeInv /\ NamespacesGiven /\ [Next]_vars => NamespacesGiven'
<1> SUFFICES ASSUME TypeInv, NamespacesGiven, [Next]_vars
             PROVE  NamespacesGiven'
  OBVIOUS
<1> USE DEF NamespacesGiven, TypeInv, TypeOK, HandlersOK, Running, Open
<1>1. ASSUME NEW c \in Calls, BuildEvent(c)
      PROVE  NamespacesGiven'
  <2>1. CASE BuildFails(c)
    BY <1>1, <2>1 DEF BuildEvent, BuildFails, Fail, Refuse
  <2>2. CASE MintId(c)
    <3>1. rows' = rows /\ req[c].namespace # ""
      BY <1>1, <2>2 DEF BuildEvent, MintId, Buildable
    <3>2. PICK id : event' = [event EXCEPT ![c] = Built(req[c], id)]
      BY <2>2 DEF MintId
    <3>3. event'[c].namespace = req[c].namespace
      BY <3>2 DEF Built
    <3>4. \A d \in Calls \ {c} : event'[d] = event[d] /\ pc'[d] = pc[d]
      BY <2>2, <3>2 DEF MintId, Advance
    <3> QED
      BY <3>1, <3>3, <3>4
  <2> QED
    BY <1>1, <2>1, <2>2 DEF BuildEvent
<1>2. ASSUME NEW c \in Calls, StampEvent(c)
      PROVE  NamespacesGiven'
  BY <1>2 DEF StampEvent, Fail, Refuse, Advance, Event
<1>3. ASSUME NEW c \in Calls, Save(c)
      PROVE  NamespacesGiven'
  BY <1>3 DEF Save, Fail, Refuse, Advance
<1>4. ASSUME NEW c \in Calls, Receive(c) \/ LookupReferenced(c)
      PROVE  NamespacesGiven'
  BY <1>4 DEF Receive, LookupReferenced, Fail, Refuse, Advance
<1>5. ASSUME NEW c \in Calls, Reply(c) \/ GiveUp(c)
      PROVE  NamespacesGiven'
  BY <1>5 DEF Reply, GiveUp
<1>6. ASSUME NEW s \in Servers, Restart(s)
      PROVE  NamespacesGiven'
  BY <1>6 DEF Restart
<1>7. CASE Tick \/ SetBack \/ UNCHANGED vars
  BY <1>7 DEF Tick, SetBack, vars
<1> QED
  BY <1>1, <1>2, <1>3, <1>4, <1>5, <1>6, <1>7 DEF Next, Handler

(* No stored event is out of reach of the namespaces that are offered: the *)
(* builder refuses the one that QueryNamespaces leaves out (builder.go:191,*)
(* event_repository.go:186).                                               *)
THEOREM NamespacesListed == Spec => []NamespacesAreListed
<1>1. Init => NamespacesGiven
  BY DEF Init, NamespacesGiven
<1>2. NamespacesGiven => NamespacesAreListed
  BY DEF NamespacesGiven, NamespacesAreListed, QueryNamespaces
<1> QED
  BY <1>1, <1>2, InitTyped, NextTyped, NextNamed, PTL DEF Spec

-----------------------------------------------------------------------------
(* Rows and the calls that recorded them, one to one. *)
OneToOne ==
  /\ \A e \in rows : \E c \in Calls : pc[c] \in Recorded /\ event[c] = e
  /\ \A c, d \in Calls :
       pc[c] \in Recorded /\ pc[d] \in Recorded /\ c # d =>
         event[c].id # event[d].id

LEMMA NextOneToOne ==
  Durable /\ OInv /\ OneToOne /\ [Next]_vars => OneToOne'
<1> SUFFICES ASSUME Durable, OInv, OneToOne, [Next]_vars
             PROVE  OneToOne'
  OBVIOUS
<1> USE DEF OneToOne, OInv, OutcomesAgree, TypeInv, TypeOK, HandlersOK,
            Running, Open, Recorded
<1>1. ASSUME NEW c \in Calls, Receive(c) \/ LookupReferenced(c)
      PROVE  OneToOne'
  BY <1>1 DEF Receive, LookupReferenced, Fail, Refuse, Advance
<1>2. ASSUME NEW c \in Calls, BuildEvent(c)
      PROVE  OneToOne'
  BY <1>2 DEF BuildEvent, BuildFails, MintId, Fail, Refuse, Advance
<1>3. ASSUME NEW c \in Calls, StampEvent(c)
      PROVE  OneToOne'
  BY <1>3 DEF StampEvent, Fail, Refuse, Advance
<1>4. ASSUME NEW c \in Calls, Save(c)
      PROVE  OneToOne'
  <2>1. CASE UNCHANGED rows /\ Fail(c, "database")
    BY <1>4, <2>1 DEF Save, Fail, Refuse
  <2>2. CASE /\ FindByID(rows, event[c].id) = {}
             /\ rows' = rows \cup {event[c]}
             /\ Advance(c, "saved")
    <3>1. \A d \in Calls : pc[d] \in Recorded => event[d].id # event[c].id
      BY <2>2 DEF FindByID
    <3> QED
      BY <1>4, <2>2, <3>1 DEF Save, Advance
  <2> QED
    BY <1>4, <2>1, <2>2 DEF Save
<1>5. ASSUME NEW c \in Calls, Reply(c) \/ GiveUp(c)
      PROVE  OneToOne'
  BY <1>5 DEF Reply, GiveUp
<1>6. ASSUME NEW s \in Servers, Restart(s)
      PROVE  OneToOne'
  BY <1>6 DEF Restart
<1>7. CASE Tick \/ SetBack \/ UNCHANGED vars
  BY <1>7 DEF Tick, SetBack, vars
<1> QED
  BY <1>1, <1>2, <1>3, <1>4, <1>5, <1>6, <1>7 DEF Next, Handler

(* In a durable database every row was written by one call, and no two     *)
(* share an id, for any number of processes and restarts: the primary key  *)
(* keeps out what the generators let through (audit_event_record.go:11).   *)
THEOREM RowsOriginate == Durable => (Spec => []RowsHaveOneOrigin)
<1> SUFFICES ASSUME Durable
             PROVE  Spec => []RowsHaveOneOrigin
  OBVIOUS
<1>1. Init => OneToOne
  BY DEF Init, OneToOne, Recorded
<1>2. OInv /\ OneToOne => RowsHaveOneOrigin
  BY DEF OneToOne, RowsHaveOneOrigin
<1>3. OInv /\ OneToOne /\ [Next]_vars => OneToOne'
  BY NextOneToOne
<1> QED
  BY <1>1, <1>2, <1>3, InitAgrees, NextAgrees, PTL DEF Spec

-----------------------------------------------------------------------------
(* One process that is never restarted. *)
OneGenerator == MaxCrashes = 0 /\ \A s, t \in Servers : s = t

(* The smallest id that a process may mint from now on. *)
Ahead(s) == (lastV7[s] + 1) * RandomSpan

(* Every id that was minted lies behind, and compensations point back.     *)
IdsBehind ==
  /\ \A e \in rows, s \in Servers : e.id < Ahead(s)
  /\ \A c \in Calls, s \in Servers :
       pc[c] \in {"stamp", "save"} => event[c].id < Ahead(s)

PointBack ==
  /\ CompensationsPointBack
  /\ \A c \in Calls :
       pc[c] \in {"stamp", "save"} /\ event[c].compensates # NoId =>
         event[c].compensates < event[c].id

GInv == IInv /\ IdsBehind /\ PointBack

(* A new id lies ahead of the generator's last time, and behind its next.  *)
LEMMA MintedAhead ==
  ASSUME NEW last \in Nat, NEW time \in Nat, last < time,
         NEW tail \in 0..(RandomSpan - 1)
  PROVE  /\ (last + 1) * RandomSpan =< time * RandomSpan + tail
         /\ time * RandomSpan + tail < (time + 1) * RandomSpan
         /\ (last + 1) * RandomSpan \in Nat
<1>1. RandomSpan \in Nat \ {0}
  BY SpanAssumption
<1>2. PICK more \in Nat : time = last + 1 + more
  <2>1. time - (last + 1) \in Nat /\ time = last + 1 + (time - (last + 1))
    OBVIOUS
  <2> QED
    BY <2>1
<1>3. more * RandomSpan \in Nat /\ (last + 1) * RandomSpan \in Nat
  BY <1>1
<1>4. time * RandomSpan = (last + 1) * RandomSpan + more * RandomSpan
  BY <1>1, <1>2
<1>5. (time + 1) * RandomSpan = time * RandomSpan + RandomSpan
  BY <1>1
<1>6. time * RandomSpan \in Nat
  BY <1>1
<1> QED
  BY <1>1, <1>3, <1>4, <1>5, <1>6

(* Minting in the one process there is. *)
LEMMA MintGrows ==
  ASSUME OneGenerator, GInv, NEW c \in Calls, pc[c] = "build", MintId(c)
  PROVE  /\ \A e \in rows : e.id < event'[c].id
         /\ \A s \in Servers :
              /\ event'[c].id < Ahead(s)'
              /\ Ahead(s) =< event'[c].id /\ Ahead(s) \in Nat
         /\ event'[c].id \in Nat
         /\ event'[c].compensates # NoId =>
              \E f \in rows : f.id = event'[c].compensates
<1> DEFINE s == server[c]
           time == V7Time(s)
<1> USE DEF GInv, IInv, TypeInv, TypeOK, HandlersOK, Running, Open
<1>1. PICK tail \in 0..(RandomSpan - 1) :
        event' = [event EXCEPT ![c] = Built(req[c], time * RandomSpan + tail)]
  BY DEF MintId
<1>2. s \in Servers /\ lastV7[s] \in Nat /\ time \in Nat \ {0} /\ lastV7[s] < time
  BY V7TimeType DEF V7Time
<1>3. lastV7' = [lastV7 EXCEPT ![s] = time]
  BY DEF MintId
<1>4. event'[c] = Built(req[c], time * RandomSpan + tail)
  BY <1>1
<1>5. event'[c].id = time * RandomSpan + tail /\ event'[c].id \in Nat
  BY <1>2, <1>4, IdType DEF Built
<1>6. /\ (lastV7[s] + 1) * RandomSpan =< event'[c].id
      /\ event'[c].id < (time + 1) * RandomSpan
      /\ (lastV7[s] + 1) * RandomSpan \in Nat
  BY <1>2, <1>5, MintedAhead
<1>7. \A t \in Servers :
        Ahead(t) = (lastV7[s] + 1) * RandomSpan /\ Ahead(t)' = (time + 1) * RandomSpan
  BY <1>2, <1>3 DEF OneGenerator, Ahead
<1>8. \A e \in rows : e.id < event'[c].id
  <2> SUFFICES ASSUME NEW e \in rows
               PROVE  e.id < event'[c].id
    OBVIOUS
  <2>1. e.id \in Nat /\ e.id < Ahead(s)
    BY <1>2 DEF IdsBehind, Event
  <2> QED
    BY <1>2, <1>5, <1>6, <1>7, <2>1
<1>9. ASSUME event'[c].compensates # NoId
      PROVE  \E f \in rows : f.id = event'[c].compensates
  <2>1. req[c].op = "WriteCompensation"
        /\ event'[c].compensates = req[c].compensates
    BY <1>4, <1>9 DEF Built
  <2> QED
    BY <2>1 DEF LookupHolds
<1> QED
  BY <1>5, <1>6, <1>7, <1>8, <1>9

(* Every step of one process keeps the ids behind its generator.           *)
LEMMA NextBehind == OneGenerator /\ GInv /\ [Next]_vars => GInv'
<1> SUFFICES ASSUME OneGenerator, GInv, [Next]_vars
             PROVE  IdsBehind' /\ PointBack'
  BY NextFounded DEF GInv
<1> USE DEF GInv, IInv, TypeInv, TypeOK, HandlersOK, Running, Open
<1>1. ASSUME NEW c \in Calls, BuildEvent(c)
      PROVE  IdsBehind' /\ PointBack'
  <2>1. rows' = rows /\ pc[c] = "build"
    BY <1>1 DEF BuildEvent
  <2>2. CASE BuildFails(c)
    BY <2>1, <2>2 DEF BuildFails, Fail, Refuse, IdsBehind, PointBack, Ahead,
                      CompensationsPointBack
  <2>3. CASE MintId(c)
    <3>1. \A s \in Servers : Ahead(s) < Ahead(s)' /\ Ahead(s) \in Nat
                            /\ event'[c].id < Ahead(s)'
      <4> SUFFICES ASSUME NEW s \in Servers
                   PROVE  Ahead(s) < Ahead(s)' /\ Ahead(s) \in Nat
                          /\ event'[c].id < Ahead(s)'
        OBVIOUS
      <4>1. Ahead(s)' \in Int
        <5>1. lastV7'[s] \in Nat
          BY <2>1, <2>3, NextTyped DEF IInv
        <5> QED
          BY <5>1, SpanAssumption DEF Ahead
      <4> QED
        BY <2>1, <2>3, <4>1, MintGrows
    <3>2. pc' = [pc EXCEPT ![c] = "stamp"]
          /\ \A d \in Calls \ {c} : event'[d] = event[d]
      BY <2>3 DEF MintId, Advance
    <3>3. \A s \in Servers : Ahead(s)' \in Int
      <4>1. \A s \in Servers : lastV7'[s] \in Nat
        BY NextTyped DEF IInv
      <4> QED
        BY <4>1, SpanAssumption DEF Ahead
    <3>4. IdsBehind'
      <4>1. \A e \in rows : e.id \in Nat
        BY DEF Event
      <4>2. \A d \in Calls : pc[d] \in {"stamp", "save"} => event[d].id \in Nat
        BY DEF Event
      <4>3. \A e \in rows, s \in Servers : e.id < Ahead(s)'
        BY <3>1, <3>3, <4>1 DEF IdsBehind
      <4>4. ASSUME NEW d \in Calls, NEW s \in Servers, pc'[d] \in {"stamp", "save"}
            PROVE  event'[d].id < Ahead(s)'
        BY <3>1, <3>2, <3>3, <4>2, <4>4 DEF IdsBehind
      <4> QED
        BY <2>1, <4>3, <4>4 DEF IdsBehind
    <3>5. PointBack'
      <4>1. event'[c].compensates # NoId => event'[c].compensates < event'[c].id
        BY <2>1, <2>3, MintGrows
      <4> QED
        BY <2>1, <3>2, <4>1 DEF PointBack, CompensationsPointBack
    <3> QED
      BY <3>4, <3>5
  <2> QED
    BY <1>1, <2>2, <2>3 DEF BuildEvent
<1> USE DEF IdsBehind, PointBack, CompensationsPointBack, Ahead
<1>2. ASSUME NEW c \in Calls, StampEvent(c)
      PROVE  IdsBehind' /\ PointBack'
  <2>1. /\ rows' = rows /\ lastV7' = lastV7 /\ pc[c] = "stamp"
        /\ event' = [event EXCEPT ![c].timestamp = clock]
        /\ \E w \in {"save", "aborted"} : pc' = [pc EXCEPT ![c] = w]
    BY <1>2 DEF StampEvent, Fail, Refuse, Advance, world
  <2>2. /\ event'[c].id = event[c].id
        /\ event'[c].compensates = event[c].compensates
    BY <2>1 DEF Event
  <2> QED
    BY <2>1, <2>2
<1>3. ASSUME NEW c \in Calls, Save(c)
      PROVE  IdsBehind' /\ PointBack'
  <2>1. lastV7' = lastV7 /\ event' = event /\ pc[c] = "save"
    BY <1>3 DEF Save, world
  <2>2. CASE rows' = rows \cup {event[c]} /\ pc' = [pc EXCEPT ![c] = "saved"]
    BY <2>1, <2>2
  <2>3. CASE rows' = rows /\ pc' = [pc EXCEPT ![c] = "aborted"]
    BY <2>1, <2>3
  <2> QED
    BY <1>3, <2>2, <2>3 DEF Save, Fail, Refuse, Advance
<1>4. ASSUME NEW c \in Calls, Receive(c) \/ LookupReferenced(c)
      PROVE  IdsBehind' /\ PointBack'
  BY <1>4 DEF Receive, LookupReferenced, Fail, Refuse, Advance, world
<1>5. ASSUME NEW c \in Calls, Reply(c) \/ GiveUp(c)
      PROVE  IdsBehind' /\ PointBack'
  BY <1>5 DEF Reply, GiveUp, world
<1>6. ASSUME NEW s \in Servers, Restart(s)
      PROVE  FALSE
  BY <1>6 DEF Restart, OneGenerator
<1>7. CASE Tick \/ SetBack \/ UNCHANGED vars
  BY <1>7 DEF Tick, SetBack, vars
<1> QED
  BY <1>1, <1>2, <1>3, <1>4, <1>5, <1>6, <1>7 DEF Next, Handler

LEMMA InitBehind == Init => GInv
BY InitTyped DEF Init, GInv, IInv, LookupHolds, IdsBehind, PointBack,
                 CompensationsPointBack

(* In one process that is not restarted each new id is larger than every   *)
(* stored one, for any number of concurrent calls and whatever the clock   *)
(* does: the generator's time only grows (builder.go:203).                 *)
THEOREM IdsAlwaysGrow == OneGenerator => (Spec => IdsGrow)
<1> SUFFICES ASSUME OneGenerator
             PROVE  Spec => IdsGrow
  OBVIOUS
<1> DEFINE Grows == \A c \in Calls : pc[c] = "build" /\ pc'[c] = "stamp" =>
                      \A e \in rows : e.id < event'[c].id
<1>1. GInv /\ [Next]_vars => [Grows]_vars
  <2> SUFFICES ASSUME GInv, Next, NEW c \in Calls, pc[c] = "build", pc'[c] = "stamp"
               PROVE  \A e \in rows : e.id < event'[c].id
    OBVIOUS
  <2>1. MintId(c)
    <3> USE DEF GInv, IInv, TypeInv, TypeOK
    <3>1. ASSUME NEW d \in Calls, Handler(d) \/ GiveUp(d)
          PROVE  BuildEvent(c)
      BY <3>1 DEF Handler, Receive, LookupReferenced, BuildEvent, StampEvent,
                  Save, Reply, GiveUp, Fail, Refuse, Advance, BuildFails, MintId
    <3>2. ASSUME NEW s \in Servers, Restart(s)
          PROVE  FALSE
      BY <3>2 DEF Restart, OneGenerator
    <3>3. ~ Tick /\ ~ SetBack
      BY DEF Tick, SetBack
    <3>4. BuildEvent(c)
      BY <3>1, <3>2, <3>3 DEF Next
    <3> QED
      BY <3>4 DEF BuildEvent, BuildFails, Fail, Refuse
  <2> QED
    BY <2>1, MintGrows
<1>2. GInv /\ [Next]_vars => GInv'
  BY NextBehind
<1> QED
  BY <1>1, <1>2, InitBehind, PTL DEF Spec, IdsGrow

(* And a compensation is younger than the event it refers to, so that      *)
(* chains of them end and a page shows it first (audit_service.go:24-36).  *)
THEOREM CompensationsLookBack == OneGenerator => (Spec => []CompensationsPointBack)
<1> SUFFICES ASSUME OneGenerator
             PROVE  Spec => []CompensationsPointBack
  OBVIOUS
<1>1. GInv => CompensationsPointBack
  BY DEF GInv, PointBack
<1>2. GInv /\ [Next]_vars => GInv'
  BY NextBehind
<1> QED
  BY <1>1, <1>2, InitBehind, PTL DEF Spec
=============================================================================
