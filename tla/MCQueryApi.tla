----------------------------- MODULE MCQueryApi -----------------------------
(* A finite instance of QueryApi. *)
EXTENDS QueryApi, TLC

Event(id, timestamp, namespace, action, source) ==
  [id |-> id, timestamp |-> timestamp, tenant |-> "t1", namespace |-> namespace,
   action |-> action, source |-> source]

(* With two units in a second, 3 and 5 are instants with a fraction. *)
ThreeEvents ==
  {Event(1, 2, "a", "CREATED", ""), Event(2, 5, "b", "UPDATED", "ip"),
   Event(3, 3, "a", "CREATED", "ip")}

Plain(literals) ==
  [fields |-> [col \in Columns |-> <<>>], namespace |-> <<>>, parsed |-> literals]

PageOf(n) == Plain([p \in Parsed |-> IF p = "pageSize" THEN <<Value(n)>> ELSE <<>>])

With(p, literal) == [PageOf(2) EXCEPT !.parsed[p] = <<literal>>]

(* Pages, cursors, bounds and filters; values that do not parse, are       *)
(* empty, repeated or missing.                                             *)
SomeRequests ==
  {PageOf(n) : n \in {0, 1, 2, 501}}
    \cup {With("token", Value(3)), With("token", Malformed),
          With("token", NoValue), With("from", Malformed),
          [PageOf(2) EXCEPT !.parsed["from"] = <<Value(3)>>,
                            !.parsed["to"] = <<Value(5)>>],
          Plain([p \in Parsed |-> <<>>]),
          With("pageSize", Malformed),
          [PageOf(2) EXCEPT !.parsed["pageSize"] = <<Value(1), Malformed>>],
          [PageOf(2) EXCEPT !.fields["action"] = <<"CREATED">>],
          [PageOf(2) EXCEPT !.fields["action"] = <<"UPDATED", "CREATED">>],
          [PageOf(2) EXCEPT !.fields["source"] = <<"">>],
          [PageOf(2) EXCEPT !.namespace = <<"a">>],
          [PageOf(2) EXCEPT !.namespace = <<"">>],
          [PageOf(2) EXCEPT !.namespace = <<"a", "b">>]}

SomeIds == {Value(2), Value(9), Malformed}
=============================================================================
