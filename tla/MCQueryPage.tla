----------------------------- MODULE MCQueryPage -----------------------------
(* A finite instance of QueryPage. *)
EXTENDS QueryPage, TLC

NoDays == {}

Today == Date(2024, 2, 1)

(* Noon of two days that follow each other; a day has six units. *)
TwoDays == {6 * Today + 3, 6 * (Today + 1) + 3}

Event(id, timestamp, namespace, action) ==
  [id |-> id, timestamp |-> timestamp, tenant |-> "t1", namespace |-> namespace,
   action |-> action, source |-> ""]

(* Two events of the first day and one of the second. *)
ThreeEvents ==
  {Event(1, 6 * Today, "a", "CREATED"), Event(2, 6 * Today + 3, "b", "CREATED"),
   Event(3, 6 * (Today + 1) + 1, "a", "UPDATED")}

SomeRanges == {CustomValue({Today}, {})}

Term(key, value) == [key |-> key, value |-> value]

(* Nothing, a namespace, a repeated key, and a token that does not parse. *)
SomeSearches ==
  {<<>>, <<Term("namespace", "b")>>,
   <<Term("action", "CREATED"), Term("action", "UPDATED")>>,
   <<Term("", "CREATED")>>}

One == Value(1)
SomeSizes == {Value(0), Value(2)}
=============================================================================
