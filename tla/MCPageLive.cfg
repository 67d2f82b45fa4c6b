SPECIFICATION FairSpec
CONSTANTS
  x1 = x1 x2 = x2 x3 = x3 x4 = x4 None = None
  Addresses <- MCAddresses
  Pages <- MCPages
  Fragments <- MCFragments
  MaxGen = 2
PROPERTIES ComesBack
CHECK_DEADLOCK FALSE
