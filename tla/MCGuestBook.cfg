SPECIFICATION Spec
CONSTANTS
  b1 = b1 b2 = b2 t1 = t1 t2 = t2 u1 = u1 u2 = u2 k1 = k1 k2 = k2
  n1 = n1 n2 = n2 n3 = n3 n4 = n4 None = None
  Browsers <- OneBrowser
  Tabs <- TwoTabs
  Users <- TwoUsers
  Tokens <- OneToken
  Nonces <- FourNonces
  MaxEntries = 3
  MaxRestarts = 1
SYMMETRY Symm
INVARIANTS FormSignsOnce SignedAsGreeted OnlyNewestFormLives
PROPERTIES ByTicket
CHECK_DEADLOCK FALSE
