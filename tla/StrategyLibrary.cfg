SPECIFICATION Spec
CONSTANTS
  Clients = {c1, c2}
  Keys = {k1, k2}
  Names = {2}
  Notes = {1, 2}
  SeedName = 1
  SeedNotes = 1
  MaxIds = 2
  MaxRequests = 3
  MaxFaults = 1
SYMMETRY Sym
INVARIANTS TypeOK SnapshotWasCurrent NoVersionGap NotesAreKept NothingDangles HistoryShowsActive LogShowsRow
  ActivationShown
CHECK_DEADLOCK FALSE
