--------------------------- MODULE MCAuditService ---------------------------
(* Finite instances of AuditService. *)
EXTENDS AuditService, TLC

Write(tenant, action, maps) ==
  [op |-> "WriteEvent", wellFormed |-> TRUE, tenant |-> tenant,
   namespace |-> "ns", entity |-> "order", action |-> action,
   compensates |-> NoId, maps |-> maps]

Compensate(tenant, id) ==
  [Write(tenant, "CREATED", "none") EXCEPT
     !.op = "WriteCompensation", !.compensates = id]

(* One tenant's events and compensations of the ids named. *)
OneTenant(ids) ==
  {Write("t1", "CREATED", "none")} \cup {Compensate("t1", id) : id \in ids}

(* Each way a request can be refused or fail before it is stored. *)
BadRequests ==
  {Write("", "CREATED", "none"), Write("t1", "COMPENSATED", "states"),
   Write("t1", "CREATED", "undiffable"), Write("t1", "CREATED", "unencodable"),
   [Write("t1", "CREATED", "states") EXCEPT !.wellFormed = FALSE],
   [Write("t1", "CREATED", "states") EXCEPT !.namespace = ""]}

(* With RandomSpan = 2 the first ids minted are 2 and 3, then 4 and 5; no *)
(* row ever has the id 0.  With RandomSpan = 1 the first id is 1.         *)
OneTenantRequests == OneTenant(2..5)
TwoTenantRequests == OneTenant(1..2) \cup {Compensate("t2", 1)}
AllRequests == OneTenant({0, 2, 3}) \cup {Compensate("t2", 2)} \cup BadRequests

CallSymmetry == Permutations(Calls)
=============================================================================
