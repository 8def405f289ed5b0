------------------------ MODULE EventRepositoryProofs ------------------------
(***************************************************************************)
(* What ORDER BY id DESC LIMIT n returns, for every finite table whose ids *)
(* are unique: the facts that pagination rests on.                         *)
(***************************************************************************)
EXTENDS EventRepository, FiniteSetTheorems, WellFoundedInduction, TLAPS

(* A finite set of rows with id as its key. *)
Keyed(S) ==
  /\ IsFiniteSet(S)
  /\ \A e \in S : e.id \in Nat
  /\ \A e, f \in S : e.id = f.id => e = f

Newer(S, e) == {f \in S : f.id > e.id}

-----------------------------------------------------------------------------
(* A nonempty set of natural numbers has a smallest element. *)
LEMMA SmallestOf ==
  ASSUME NEW T \in SUBSET Nat, T # {}
  PROVE  \E m \in T : \A k \in T : m =< k
<1>1. PICK m \in T : \A k \in T : ~ (<<k, m>> \in OpToRel(<, Nat))
  BY NatLessThanWellFounded, WFMin
<1>2. \A k \in T : ~ (k < m)
  BY <1>1 DEF OpToRel
<1> QED
  BY <1>2

(* A subset of a keyed set is keyed. *)
LEMMA KeyedSubset ==
  ASSUME NEW S, Keyed(S), NEW T \in SUBSET S
  PROVE  Keyed(T)
BY FS_Subset DEF Keyed

(* The rows newer than a given one can be counted. *)
LEMMA NewerCount ==
  ASSUME NEW S, Keyed(S), NEW e
  PROVE  IsFiniteSet(Newer(S, e)) /\ Cardinality(Newer(S, e)) \in Nat
BY FS_Subset, FS_CardinalityType DEF Keyed, Newer

(* Fewer rows are newer than a newer row. *)
LEMMA NewerFewer ==
  ASSUME NEW S, Keyed(S), NEW e \in S, NEW f \in Newer(S, e)
  PROVE  Cardinality(Newer(S, f)) < Cardinality(Newer(S, e))
<1>1. Newer(S, f) \subseteq Newer(S, e) /\ f \notin Newer(S, f)
  BY DEF Keyed, Newer
<1>2. Newer(S, f) # Newer(S, e)
  BY <1>1
<1> QED
  BY <1>1, <1>2, NewerCount, FS_Subset

(* Some row of a nonempty set is the oldest. *)
LEMMA OldestExists ==
  ASSUME NEW S, Keyed(S), S # {}
  PROVE  \E e \in S : Oldest(S) = {e}
<1> DEFINE ids == {e.id : e \in S}
<1>0. ids \in SUBSET Nat /\ ids # {}
  BY DEF Keyed
<1>1. PICK m \in ids : \A k \in ids : m =< k
  BY <1>0, SmallestOf
<1>2. PICK e \in S : e.id = m
  BY <1>1
<1>3. \A f \in S : e.id =< f.id
  BY <1>1, <1>2
<1>4. \A f \in Oldest(S) : f.id = e.id
  BY <1>3 DEF Oldest, Keyed
<1>5. e \in Oldest(S)
  BY <1>3 DEF Oldest
<1> QED
  BY <1>4, <1>5 DEF Keyed, Oldest

(* The page is closed upwards: a row newer than one of the page is in it.  *)
LEMMA NewestUpward ==
  ASSUME NEW S, Keyed(S), NEW n \in Int,
         NEW e \in Newest(S, n), NEW f \in S, f.id > e.id
  PROVE  f \in Newest(S, n)
<1>1. Cardinality(Newer(S, f)) < Cardinality(Newer(S, e))
  BY NewerFewer DEF Newest, Newer
<1> QED
  BY <1>1, NewerCount DEF Newest, Newer

(* A page of less than n rows holds every row there is. *)
LEMMA ShortPageIsAll ==
  ASSUME NEW S, Keyed(S), NEW n \in Nat, Cardinality(Newest(S, n)) < n
  PROVE  Newest(S, n) = S
<1> SUFFICES ASSUME S \ Newest(S, n) # {}
             PROVE  FALSE
  BY DEF Newest
<1> DEFINE counts == {Cardinality(Newer(S, e)) : e \in S \ Newest(S, n)}
<1>1. counts \in SUBSET Nat /\ counts # {}
  BY NewerCount
<1>2. PICK m \in counts : \A k \in counts : m =< k
  BY <1>1, SmallestOf
<1>3. PICK e \in S \ Newest(S, n) : Cardinality(Newer(S, e)) = m
  BY <1>2
<1>4. Newer(S, e) \subseteq Newest(S, n)
  <2> SUFFICES ASSUME NEW f \in Newer(S, e), f \notin Newest(S, n)
               PROVE  FALSE
    OBVIOUS
  <2>1. f \in S /\ Cardinality(Newer(S, f)) < m
    BY <1>3, NewerFewer DEF Newer
  <2>2. Cardinality(Newer(S, f)) \in counts
    BY <2>1
  <2> QED
    BY <1>1, <1>2, <2>1, <2>2
<1>5. Cardinality(Newer(S, e)) >= n
  <2>1. ~ (Cardinality(Newer(S, e)) < n)
    BY <1>3 DEF Newest, Newer
  <2> QED
    BY <2>1, NewerCount
<1>6. IsFiniteSet(Newest(S, n)) /\ Cardinality(Newest(S, n)) \in Nat
  BY FS_Subset, FS_CardinalityType DEF Newest, Keyed
<1> QED
  BY <1>4, <1>5, <1>6, NewerCount, FS_Subset

(* A page holds at most n rows. *)
LEMMA PageBound ==
  ASSUME NEW S, Keyed(S), NEW n \in Nat
  PROVE  Keyed(Newest(S, n)) /\ Cardinality(Newest(S, n)) \in Nat
         /\ Cardinality(Newest(S, n)) =< n
<1>1. Keyed(Newest(S, n)) /\ Cardinality(Newest(S, n)) \in Nat
  BY KeyedSubset, FS_CardinalityType DEF Newest, Keyed
<1>2. CASE Newest(S, n) = {}
  BY <1>1, <1>2, FS_EmptySet
<1>3. CASE Newest(S, n) # {}
  <2>1. PICK e \in Newest(S, n) : Oldest(Newest(S, n)) = {e}
    BY <1>1, <1>3, OldestExists
  <2>2. Newest(S, n) \ {e} \subseteq Newer(S, e)
    <3> SUFFICES ASSUME NEW f \in Newest(S, n), f # e
                 PROVE  f \in Newer(S, e)
      OBVIOUS
    <3>1. e.id =< f.id /\ e.id # f.id /\ e.id \in Nat /\ f.id \in Nat
      BY <1>1, <2>1 DEF Oldest, Keyed
    <3> QED
      BY <3>1 DEF Newer, Newest
  <2>3. Cardinality(Newest(S, n) \ {e}) =< Cardinality(Newer(S, e))
    BY <2>2, NewerCount, FS_Subset
  <2>4. Cardinality(Newer(S, e)) < n
    BY <2>1 DEF Newest, Newer
  <2>5. Cardinality(Newest(S, n) \ {e}) = Cardinality(Newest(S, n)) - 1
    BY <1>1, FS_RemoveElement DEF Keyed
  <2> QED
    BY <1>1, <2>3, <2>4, <2>5, NewerCount
<1> QED
  BY <1>1, <1>2, <1>3
-----------------------------------------------------------------------------
(* The rows a query is about: those that match, below its token. *)
Remaining(rows, opts) == BelowToken(ApplyQueryFilters(rows, opts), opts.token)

(* Options as the transports build them.  What the filters hold is left    *)
(* open: pagination does not depend on it.                                 *)
Shaped(opts) ==
  /\ opts = [fields |-> opts.fields, namespaces |-> opts.namespaces,
             from |-> opts.from, to |-> opts.to, token |-> opts.token,
             pageSize |-> opts.pageSize]
  /\ opts.pageSize \in Nat \ {0}

(* The page of a table for options of any shape: see PageAndToken.         *)
LEMMA PageOfShape ==
  ASSUME NEW rows, Keyed(rows), NEW opts, Shaped(opts)
  PROVE  LET page == QueryEvents(rows, opts)
             rest == Remaining(rows, opts)
         IN /\ page.events \subseteq rest
            /\ Cardinality(page.events) =< opts.pageSize
            /\ page.next = {} => page.events = rest
            /\ page.next # {} =>
                 /\ Cardinality(page.events) = opts.pageSize
                 /\ \E o \in page.events :
                      /\ page.next = {o.id}
                      /\ \A e \in rest : e \in page.events <=> e.id >= o.id
                      /\ \E e \in rest : e.id < o.id
<1> DEFINE rest == Remaining(rows, opts)
           n == opts.pageSize
           fetched == Newest(rest, n + 1)
           more == Cardinality(fetched) > n
           events == IF more THEN Newest(fetched, n) ELSE fetched
           next == IF more THEN {e.id : e \in Oldest(events)} ELSE {}
<1>1. n \in Nat \ {0}
  BY DEF Shaped
<1>2. Query(rows, [opts EXCEPT !.pageSize = @ + 1]) = fetched
  <2> DEFINE ahead == [opts EXCEPT !.pageSize = @ + 1]
  <2>1. /\ ahead.fields = opts.fields /\ ahead.namespaces = opts.namespaces
        /\ ahead.from = opts.from /\ ahead.to = opts.to
        /\ ahead.token = opts.token /\ ahead.pageSize = n + 1
    BY DEF Shaped
  <2> HIDE DEF ahead
  <2>2. Query(rows, ahead) = fetched
    BY <1>1, <2>1 DEF Query, Limit, Remaining, ApplyQueryFilters
  <2> QED
    BY <2>2 DEF ahead
<1>3. QueryEvents(rows, opts) = [events |-> events, next |-> next]
  BY <1>2 DEF QueryEvents
<1>4. Keyed(rest)
  BY KeyedSubset DEF Remaining, BelowToken, ApplyQueryFilters
<1> HIDE DEF rest, n
<1>5. Keyed(fetched) /\ Cardinality(fetched) \in Nat /\ fetched \subseteq rest
  <2>1. n + 1 \in Nat
    BY <1>1
  <2>2. fetched \subseteq rest
    BY DEF Newest
  <2> QED
    BY <1>4, <2>1, <2>2, PageBound
<1>6. CASE ~more
  <2>1. fetched = rest
    BY <1>1, <1>4, <1>5, <1>6, ShortPageIsAll
  <2> QED
    BY <1>1, <1>3, <1>5, <1>6, <2>1 DEF n, rest
<1>7. CASE more
  <2>1. Keyed(Newest(fetched, n)) /\ Cardinality(Newest(fetched, n)) \in Nat
        /\ Cardinality(Newest(fetched, n)) =< n
        /\ Newest(fetched, n) \subseteq fetched
    BY <1>1, <1>5, PageBound DEF Newest
  <2>2. Cardinality(Newest(fetched, n)) = n
    <3>1. ~ (Cardinality(Newest(fetched, n)) < n)
      BY <1>1, <1>5, <1>7, ShortPageIsAll
    <3> QED
      BY <1>1, <2>1, <3>1
  <2>3. Newest(fetched, n) # {}
    BY <1>1, <2>2, FS_EmptySet
  <2>4. PICK o \in Newest(fetched, n) : Oldest(Newest(fetched, n)) = {o}
    BY <2>1, <2>3, OldestExists
  <2>5. \A e \in Newest(fetched, n) : e.id \in Nat /\ e.id >= o.id
    BY <2>1, <2>4 DEF Oldest, Keyed
  <2>6. ASSUME NEW e \in rest, e.id >= o.id
        PROVE  e \in Newest(fetched, n)
    <3>1. CASE e.id > o.id
      <4>1. e \in fetched
        BY <1>1, <1>4, <2>1, <3>1, NewestUpward
      <4> QED
        BY <1>1, <1>5, <2>1, <3>1, <4>1, NewestUpward
    <3>2. CASE e.id = o.id
      BY <1>4, <1>5, <2>1, <3>2 DEF Keyed
    <3> QED
      BY <1>4, <1>5, <2>1, <2>6, <3>1, <3>2 DEF Keyed
  <2>7. \E e \in rest : e.id < o.id
    <3>1. Newest(fetched, n) # fetched
      BY <1>1, <1>5, <1>7, <2>2
    <3>2. PICK e \in fetched : e \notin Newest(fetched, n)
      BY <2>1, <3>1
    <3>3. e.id \in Nat /\ o.id \in Nat
      BY <1>5, <2>1 DEF Keyed
    <3> QED
      BY <1>5, <2>6, <3>2, <3>3
  <2>8. events = Newest(fetched, n) /\ next = {o.id}
    BY <1>7, <2>4
  <2> QED
    BY <1>1, <1>3, <1>5, <2>1, <2>2, <2>5, <2>6, <2>7, <2>8 DEF n, rest
<1> QED
  BY <1>6, <1>7

(* A page without a token is all that remains.  A page with one is full,   *)
(* the token is the id of its oldest event, it holds exactly the remaining *)
(* rows down to that event, and something is left below                    *)
(* (audit_service.go:94-111 over event_repository.go:154-165).             *)
THEOREM PageAndToken ==
  ASSUME NEW rows, Keyed(rows), NEW opts \in QueryOptions, opts.pageSize > 0
  PROVE  LET page == QueryEvents(rows, opts)
             rest == Remaining(rows, opts)
         IN /\ page.events \subseteq rest
            /\ Cardinality(page.events) =< opts.pageSize
            /\ page.next = {} => page.events = rest
            /\ page.next # {} =>
                 /\ Cardinality(page.events) = opts.pageSize
                 /\ \E o \in page.events :
                      /\ page.next = {o.id}
                      /\ \A e \in rest : e \in page.events <=> e.id >= o.id
                      /\ \E e \in rest : e.id < o.id
<1> SUFFICES Shaped(opts)
  BY PageOfShape
<1> QED
  BY DEF Shaped, QueryOptions
=============================================================================
