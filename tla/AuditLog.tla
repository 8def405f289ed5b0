------------------------------- MODULE AuditLog -------------------------------
(***************************************************************************)
(* What the audit log promises, with no handlers, clocks, processes or     *)
(* database in it: a set of events that only grows, at most one event for  *)
(* each call, compensations that refer to an event already in the log and  *)
(* of the same tenant, and confirmations for logged events alone.          *)
(***************************************************************************)
CONSTANTS
  Calls,      \* write calls, each one request sent once
  NoId        \* the value of "compensates" in an ordinary event

VARIABLES
  log,        \* the recorded events
  recorded,   \* the calls whose event is in the log
  confirmed   \* the calls whose client was told that the event is recorded

logVars == <<log, recorded, confirmed>>

Init ==
  /\ log = {}
  /\ recorded = {}
  /\ confirmed = {}

Admissible(e) ==
  /\ \A f \in log : f.id # e.id
  /\ e.compensates # NoId =>
       \E f \in log : f.id = e.compensates /\ f.tenant = e.tenant

Record(c) ==
  /\ c \notin recorded
  /\ \E e \in log' : Admissible(e) /\ log' = log \cup {e}
  /\ recorded' = recorded \cup {c}
  /\ UNCHANGED confirmed

Confirm(c) ==
  /\ c \in recorded \ confirmed
  /\ confirmed' = confirmed \cup {c}
  /\ UNCHANGED <<log, recorded>>

Next == \E c \in Calls : Record(c) \/ Confirm(c)

Spec == Init /\ [][Next]_logVars
=============================================================================
