SPECIFICATION Spec
CONSTANTS
  OrderIds = {1, 2, 3, 4, 5}
  CreatedAt <- MCCreatedAt
  AtStart = {1, 2, 3, 4}
  Statuses = {"PENDING", "PROCESSED"}
  Filters <- MCFilters
  Absent = Absent
  Null = Null
  Limits = {Absent, Null, 0, 1, 2, 3}
  MaxWrites = 3
INVARIANTS WalkMatchesListing WalkUnderWrites
