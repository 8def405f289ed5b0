-------------------------- MODULE MCDateRangeFilter --------------------------
(* A finite instance of DateRangeFilter. *)
EXTENDS DateRangeFilter, TLC

(* The winter with the leap day of 2024, up to and past the change to      *)
(* summer time, the change back, and the turn of the year after it.        *)
Days ==
  Date(2023, 11, 28)..Date(2024, 2, 13)
    \cup Date(2024, 10, 1)..Date(2024, 10, 12)
    \cup Date(2024, 11, 30)..Date(2025, 0, 7)

ForwardOn == {Date(2024, 2, 10)}
BackOn == {Date(2024, 10, 3)}

(* The first and the last instant of each day. *)
FirstAndLast == {StartOfDay(d) : d \in Days} \cup {StartOfDay(d + 1) - 1 : d \in Days}

(* One of them before the year 100. *)
SomeDates ==
  {Date(24, 2, 1), Date(2024, 1, 28), Date(2024, 2, 1), Date(2024, 2, 10)}
=============================================================================
