----------------------------- MODULE MCPageWalk -----------------------------
(* Finite instances of PageWalk. *)
EXTENDS PageWalk, TLC

(* Five events: ids 1..5; timestamps run against the ids of 2 and 3. *)
Event(id, timestamp, tenant, namespace) ==
  [id |-> id, timestamp |-> timestamp, tenant |-> tenant,
   namespace |-> namespace, source |-> "", action |-> "CREATED"]

FiveEvents ==
  {Event(1, 1, "t1", "a"), Event(2, 3, "t1", "b"), Event(3, 2, "t2", "a"),
   Event(4, 4, "t1", "a"), Event(5, 5, "t1", "b")}

Everything(n) ==
  [fields |-> [col \in Columns |-> {}], namespaces |-> {}, from |-> {}, to |-> {}, token |-> {},
   pageSize |-> n]

(* Each kind of filter, and page sizes on both sides of each boundary. *)
SomeQueries ==
  {Everything(n) : n \in {-1, 0, 1, 2, 4, 5, 500, 501}}
    \cup {[Everything(1) EXCEPT !.fields["tenant"] = {"t1"}],
          [Everything(1) EXCEPT !.namespaces = {"a"}],
          [Everything(2) EXCEPT !.from = {2}, !.to = {4}]}
=============================================================================
