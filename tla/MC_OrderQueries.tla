-------------------------- MODULE MC_OrderQueries --------------------------
(* Small instances of OrderQueries for TLC.                                *)
EXTENDS OrderQueries, TLC

\* Orders 2 and 3 began in the same millisecond.
MCCreatedAt == [o \in OrderIds |-> IF o > 2 THEN o - 1 ELSE o]

\* No filter, by status, by date, and one that is refused.
MCFilters ==
  { NoFilter,
    [NoFilter EXCEPT !.status = "PENDING"],
    [NoFilter EXCEPT !.status = "PROCESSED"],
    [NoFilter EXCEPT !.dateFrom = 2],
    [NoFilter EXCEPT !.dateFrom = 1, !.dateTo = 2],
    [NoFilter EXCEPT !.dateFrom = 3, !.dateTo = 2] }
=============================================================================
