\* Editing, saving, reloading and installing a film table.
SPECIFICATION Spec
CONSTANTS
  Entries <- MCEntries
  MaxWord = 7
  NameSize = 3
  InternalSize = 2
  Files <- MCFiles
  Names <- MCNames
  Curves <- MCCurves
  Scales = {1, 2}
  Donors = {0, 7}
  MaxEdits = 2
  None = None
  Torn = Torn
CHECK_DEADLOCK FALSE
INVARIANTS TypeOK SavedIsLoaded SavedIsStable NameEnds NormalizeConforms
PROPERTY LoadedIsInstalled
