\* Two sheets that compete for names, short pages, one edit, one failure or
\* death.
CONSTANTS
  SheetIDs <- TwoSheets
  Names = {"n", "N", "m"}
  Targets = {"t", "u"}
  Contents <- FourContents
  Fold <- Words
  Foreign <- ByHandTwo
  PageSize = 2
  ServerPage = 1
  NamesNext = TRUE
  Prune = TRUE
  Once = FALSE
  DeleteWhileRead = FALSE
  StartRows <- TwoAndOne
  MaxRows = 3
  MaxEdits = 1
  MaxFailures = 1
  None = None
SPECIFICATION FairSpec
INVARIANTS TypeOK
PROPERTIES SteadyRowKept PruneKeepsTargets ForeignKept EventuallyInSync
CHECK_DEADLOCK FALSE
