SPECIFICATION CascadeSpec
CONSTANTS
  Words <- MCWords
  Fold <- MCFold
  Pieces <- MCPieces
  MaxPieces = 4
  Parent <- MCParent
  Name <- MCName
  Owner = 5
  Replaced = 6
  Inherited <- MCInherited
  Default <- MCDefault
  OldRules <- MCOldRules
  SizeOf <- MCSizeOf
  SmallSort = 2
INVARIANTS ErrorsStayInTheirPiece StyleFollowsCascade
CHECK_DEADLOCK FALSE
