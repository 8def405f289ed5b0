---------------------------- MODULE PageWalkProofs ----------------------------
(***************************************************************************)
(* A walk over the pages misses no row that was there when it started and  *)
(* returns none twice, for any table, page size, filters and writers.      *)
(***************************************************************************)
EXTENDS PageWalk, EventRepositoryProofs

Walking == phase \in {"asking", "answered"}

Matching == ApplyQueryFilters(rows, query)

Rest == Remaining(rows, query)

(* Ids are unique, so the cursor separates what was returned from the rest. *)
TableInv == \A e, f \in rows : e.id = f.id => e = f

(* Above the cursor everything of the start is collected, below it nothing *)
(* is, and a cursor has something below it.                                *)
CursorInv ==
  Walking =>
    /\ \A e \in atStart : e \in collected \/ e \in Rest
    /\ query.token = {} => collected = {}
    /\ \A t \in query.token : \A e \in collected : e.id >= t
    /\ query.token # {} => Rest # {}

(* The page on its way is what PageAndToken says of some earlier table.    *)
ReplyInv ==
  phase = "answered" =>
    /\ reply.events \subseteq Rest
    /\ Cardinality(reply.events) =< query.pageSize
    /\ reply.next = {} => atStart \subseteq collected \cup reply.events
    /\ query.token # {} => reply.events # {}
    /\ reply.next # {} =>
         /\ Cardinality(reply.events) = query.pageSize
         /\ \E o \in reply.events :
              /\ reply.next = {o.id}
              /\ \A e \in reply.events : e.id >= o.id
              /\ \A e \in atStart :
                   e \in collected \/ e \in reply.events \/ e.id < o.id
              /\ \E e \in Matching : e.id < o.id

WalkInv ==
  /\ TypeOK
  /\ TableInv
  /\ atStart \subseteq Matching
  /\ collected \subseteq Matching
  /\ phase = "idle" => query.token = {} /\ collected = {}
  /\ CursorInv
  /\ ReplyInv
  /\ WalkComplete

-----------------------------------------------------------------------------
(* The table is finite and keyed by id. *)
LEMMA TableKeyed ==
  ASSUME TypeOK, TableInv
  PROVE  Keyed(rows)
BY CandidatesAssumption, FS_Subset DEF TypeOK, TableInv, Keyed

(* The initial states satisfy the invariant. *)
LEMMA WalkInit == Init => WalkInv
BY QueriesAssumption
DEF Init, WalkInv, TypeOK, TableInv, CursorInv, ReplyInv, WalkComplete, Walking,
    NoReply

(* Writers only add rows. *)
LEMMA InsertKeeps ==
  ASSUME WalkInv, Insert
  PROVE  WalkInv'
<1> USE DEF WalkInv
<1>1. PICK e \in Candidates : FindByID(rows, e.id) = {} /\ rows' = rows \cup {e}
  BY DEF Insert
<1>2. UNCHANGED <<phase, query, reply, collected, atStart>>
  BY DEF Insert
<1>3. TypeOK'
  BY <1>1, <1>2 DEF TypeOK
<1>4. TableInv'
  BY <1>1 DEF TableInv, FindByID
<1>5. Matching \subseteq Matching' /\ Rest \subseteq Rest'
  BY <1>1, <1>2 DEF Matching, Rest, Remaining, BelowToken, ApplyQueryFilters
<1>6. CursorInv'
  BY <1>2, <1>5 DEF CursorInv, Walking
<1>7. ReplyInv'
  BY <1>2, <1>5 DEF ReplyInv
<1> QED
  BY <1>2, <1>3, <1>4, <1>5, <1>6, <1>7 DEF WalkComplete

(* A walk starts with nothing collected and everything remaining. *)
LEMMA StartKeeps ==
  ASSUME WalkInv, Start
  PROVE  WalkInv'
<1> USE DEF WalkInv
<1>1. /\ phase = "idle" /\ phase' = "asking"
      /\ atStart' = Matching
      /\ UNCHANGED <<rows, query, reply, collected>>
  BY DEF Start, Matching
<1>2. Matching' = Matching /\ Rest' = Rest
  BY <1>1 DEF Matching, Rest
<1>3. Rest = Matching
  BY <1>1 DEF Matching, Rest, Remaining, BelowToken
<1>4. TypeOK'
  BY <1>1 DEF TypeOK, Matching, ApplyQueryFilters
<1> QED
  BY <1>1, <1>2, <1>3, <1>4
  DEF TableInv, CursorInv, ReplyInv, WalkComplete, Walking

(* The page answered is the one PageAndToken describes. *)
LEMMA AnswerKeeps ==
  ASSUME WalkInv, Answer
  PROVE  WalkInv'
<1> USE DEF WalkInv
<1>1. /\ phase = "asking"
      /\ UNCHANGED <<rows, query, collected, atStart>>
  BY DEF Answer
<1>2. Matching' = Matching /\ Rest' = Rest
  BY <1>1 DEF Matching, Rest
<1>3. CASE phase' = "refused" /\ UNCHANGED reply
  BY <1>1, <1>2, <1>3
  DEF TypeOK, TableInv, CursorInv, ReplyInv, WalkComplete, Walking
<1>4. CASE /\ ValidPageSize(query.pageSize)
           /\ phase' = "answered"
           /\ reply' = QueryEvents(rows, query)
  <2>1. query \in QueryOptions /\ query.pageSize > 0
    BY <1>4 DEF TypeOK, ValidPageSize, MaxPageSize
  <2>2. /\ reply'.events \subseteq Rest
        /\ Cardinality(reply'.events) =< query.pageSize
        /\ reply'.next = {} => reply'.events = Rest
        /\ reply'.next # {} =>
             /\ Cardinality(reply'.events) = query.pageSize
             /\ \E o \in reply'.events :
                  /\ reply'.next = {o.id}
                  /\ \A e \in Rest : e \in reply'.events <=> e.id >= o.id
                  /\ \E e \in Rest : e.id < o.id
    BY <1>4, <2>1, TableKeyed, PageAndToken DEF Rest
  <2>3. Rest \subseteq Matching /\ Matching \subseteq rows
    BY DEF Rest, Remaining, Matching, BelowToken, ApplyQueryFilters
  <2>4. \A e \in rows : e.id \in Nat
    BY CandidatesAssumption DEF TypeOK
  <2>5. TypeOK'
    BY <1>1, <1>4, <2>2, <2>3, <2>4 DEF TypeOK
  <2>6. ReplyInv'
    <3>1. query.token # {} => reply'.events # {}
      BY <1>1, <2>2 DEF CursorInv, Walking
    <3>2. reply'.next = {} => atStart \subseteq collected \cup reply'.events
      BY <1>1, <2>2 DEF CursorInv, Walking
    <3>3. ASSUME NEW o \in reply'.events,
                 \A e \in Rest : e \in reply'.events <=> e.id >= o.id
          PROVE  /\ \A e \in reply'.events : e.id >= o.id
                 /\ \A e \in atStart :
                      e \in collected \/ e \in reply'.events \/ e.id < o.id
      BY <1>1, <2>2, <2>3, <2>4, <3>3 DEF CursorInv, Walking
    <3> QED
      BY <1>1, <1>2, <2>2, <2>3, <3>1, <3>2, <3>3 DEF ReplyInv
  <2> QED
    BY <1>1, <1>2, <1>4, <2>5, <2>6 DEF TableInv, CursorInv, WalkComplete, Walking
<1> QED
  BY <1>3, <1>4 DEF Answer

(* A lost answer leaves the walk where it was. *)
LEMMA LoseKeeps ==
  ASSUME WalkInv, Lose
  PROVE  WalkInv'
<1> USE DEF WalkInv
<1>1. Matching' = Matching /\ Rest' = Rest
  BY DEF Lose, Matching, Rest
<1> QED
  BY <1>1
  DEF Lose, NoReply, TypeOK, TableInv, CursorInv, ReplyInv, WalkComplete, Walking

(* The cursor moves to the oldest event returned. *)
LEMMA ReceiveKeeps ==
  ASSUME WalkInv, Receive
  PROVE  WalkInv'
<1> USE DEF WalkInv
<1>1. /\ phase = "answered"
      /\ collected' = collected \cup reply.events
      /\ phase' = IF reply.next = {} THEN "done" ELSE "asking"
      /\ query' = [query EXCEPT !.token = reply.next]
      /\ reply' = NoReply
      /\ UNCHANGED <<rows, atStart>>
  BY DEF Receive
<1>2. query' \in QueryOptions /\ query'.token = reply.next
  BY <1>1 DEF TypeOK, QueryOptions
<1>3. TypeOK'
  BY <1>1, <1>2 DEF TypeOK, NoReply
<1>4. Matching' = Matching
  BY <1>1 DEF TypeOK, QueryOptions, Matching, ApplyQueryFilters
<1>5. Rest \subseteq Matching /\ Rest' = {e \in Matching : \A t \in reply.next : e.id < t}
  BY <1>2, <1>4 DEF Rest, Remaining, Matching, BelowToken
<1>6. collected' \subseteq Matching
  BY <1>1, <1>5 DEF ReplyInv
<1>7. \A e \in rows : e.id \in Nat
  BY CandidatesAssumption DEF TypeOK
<1>8. CASE reply.next = {}
  BY <1>1, <1>3, <1>4, <1>6, <1>8
  DEF TableInv, CursorInv, ReplyInv, WalkComplete, Walking
<1>9. CASE reply.next # {}
  <2>1. PICK o \in reply.events :
          /\ reply.next = {o.id}
          /\ \A e \in reply.events : e.id >= o.id
          /\ \A e \in atStart :
               e \in collected \/ e \in reply.events \/ e.id < o.id
          /\ \E e \in Matching : e.id < o.id
    BY <1>1, <1>9 DEF ReplyInv
  <2>2. Rest' = {e \in Matching : e.id < o.id}
    BY <1>5, <2>1
  <2>3. \A e \in collected : e.id >= o.id
    <3>1. o \in Rest
      BY <1>1 DEF ReplyInv
    <3>2. \A t \in query.token : o.id < t
      BY <3>1 DEF Rest, Remaining, BelowToken
    <3>3. \A t \in query.token : t \in Nat
      BY DEF TypeOK, QueryOptions
    <3>4. o.id \in Nat /\ \A e \in collected : e.id \in Nat
      BY <1>7, <3>1 DEF TypeOK, Rest, Remaining, BelowToken, ApplyQueryFilters
    <3> QED
      BY <1>1, <3>2, <3>3, <3>4 DEF CursorInv, Walking
  <2>4. CursorInv'
    BY <1>1, <1>2, <1>9, <2>1, <2>2, <2>3 DEF CursorInv, Walking
  <2> QED
    BY <1>1, <1>3, <1>4, <1>6, <1>9, <2>4 DEF TableInv, ReplyInv, WalkComplete
<1> QED
  BY <1>8, <1>9

(* Every step keeps the invariant. *)
LEMMA WalkNext == WalkInv /\ [Next]_vars => WalkInv'
<1> SUFFICES ASSUME WalkInv, [Next]_vars
             PROVE  WalkInv'
  OBVIOUS
<1>1. CASE UNCHANGED vars
  BY <1>1
  DEF vars, WalkInv, TypeOK, TableInv, CursorInv, ReplyInv, WalkComplete,
      Walking, Matching, Rest
<1> QED
  BY <1>1, InsertKeeps, StartKeeps, AnswerKeeps, LoseKeeps, ReceiveKeeps DEF Next

-----------------------------------------------------------------------------
(* Every variable of a walk over QueryEvents keeps its type, and what the  *)
(* client holds are rows of the table (audit_service.go:94-111).           *)
THEOREM WalkTyped == Spec => []TypeOK
<1>1. WalkInv => TypeOK
  BY DEF WalkInv
<1> QED
  BY WalkInit, WalkNext, <1>1, PTL DEF Spec

(* No matching event that was stored when the walk started is missed, for  *)
(* any rows committed meanwhile: the cursor is an id, not an offset        *)
(* (event_repository.go:155-165, audit_service.go:104-109).                *)
THEOREM WalkMissesNothing == Spec => []WalkComplete
<1>1. WalkInv => WalkComplete
  BY DEF WalkInv
<1> QED
  BY WalkInit, WalkNext, <1>1, PTL DEF Spec

(* Nothing that does not match is returned: every page applies the filters *)
(* again (event_repository.go:159).                                        *)
THEOREM WalkReturnsMatches == Spec => []WalkSound
<1>1. WalkInv => WalkSound
  BY DEF WalkInv, WalkSound, Matching
<1> QED
  BY WalkInit, WalkNext, <1>1, PTL DEF Spec

(* Each page is older than those before it, so no event is returned twice, *)
(* by ORDER BY id DESC and id < token (event_repository.go:158-162).       *)
THEOREM WalkDescends == Spec => []PagesDescend
<1>1. WalkInv => PagesDescend
  <2> SUFFICES ASSUME WalkInv, phase = "answered",
                      NEW e \in collected, NEW f \in reply.events
               PROVE  f.id < e.id
    BY DEF PagesDescend
  <2>1. f \in Rest /\ query.token # {}
    BY DEF WalkInv, ReplyInv, CursorInv, Walking
  <2>2. PICK t \in query.token : TRUE
    BY <2>1
  <2>3. f.id < t /\ e.id >= t
    BY <2>1, <2>2
    DEF WalkInv, CursorInv, Walking, Rest, Remaining, BelowToken
  <2>4. f.id \in Nat /\ e.id \in Nat /\ t \in Nat
    BY <2>1, <2>2, CandidatesAssumption
    DEF WalkInv, TypeOK, QueryOptions, Rest, Remaining, BelowToken,
        ApplyQueryFilters
  <2> QED
    BY <2>3, <2>4
<1> QED
  BY WalkInit, WalkNext, <1>1, PTL DEF Spec

(* A token is handed out with a full page, and a page follows it, because  *)
(* one row more is fetched than is returned (audit_service.go:99-109).     *)
THEOREM TokensKept == Spec => []TokenPromisesPage
<1>1. WalkInv => TokenPromisesPage
  BY DEF WalkInv, ReplyInv, TokenPromisesPage
<1> QED
  BY WalkInit, WalkNext, <1>1, PTL DEF Spec
=============================================================================
