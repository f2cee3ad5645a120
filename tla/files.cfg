SPECIFICATION Spec
CONSTANTS
  Requests = {r1, r2, r3}
  alice = alice
  UserIds = {alice, u2, u3}
  FileIds = {f1, f2, f3}
  mug = mug
  Products = {mug}
  old = old
  new = new
  Emails = {old, new}
  None = None
  Inputs <- MCInputs
  Roles <- MCRoles
  Scopes <- MCScopes
  MaxImageBytes = 1
  InitialUsers <- MCUsers
  MaxDeletes = 2
SYMMETRY Symmetry
INVARIANTS TypeOK OneUserPerEmail ReadyFilesAreUploaded ReadyFilesWereBound CompletedFilesAreReady LinksMatchKeys
