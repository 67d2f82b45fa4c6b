SPECIFICATION FairSpec
CONSTANTS
  Bytes <- AllBytes
  MaxLen = 4
INVARIANTS WordsAreTheText SilentMeansWellFormed NoByteTwice
PROPERTIES Ends
CHECK_DEADLOCK FALSE
