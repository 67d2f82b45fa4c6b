SPECIFICATION FairSpec
CONSTANTS
  Urls <- MCUrls
  Home = "home"
  NewTabUrl = "other"
  Extents <- MCExtents
  Turns <- MCTurns
  CharBytes <- MCChars
  MinUrlBytes = 2
  MaxTabs = 2
  MaxHistory = 3
  MaxText = 2
  MaxQueue = 1
INVARIANTS FocusCoherent TextInputTracksFocus Drawable
PROPERTIES ViewLeavesPageOnlyBySwitch BackIsUndo QuitExits
CHECK_DEADLOCK FALSE
