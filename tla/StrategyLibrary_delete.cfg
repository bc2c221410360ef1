SPECIFICATION Spec
CONSTANTS
  Clients = {c1, c2}
  Keys = {k1}
  Names = {2}
  Notes = {1, 2}
  SeedName = 1
  SeedNotes = 1
  MaxIds = 2
  MaxRequests = 2
  MaxFaults = 0
SYMMETRY Sym
INVARIANT ActiveExists
CHECK_DEADLOCK FALSE
