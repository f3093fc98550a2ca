CONSTANTS
  a = a
  b = b
  tab1 = tab1
  tab2 = tab2
  Setups = {a, b}
  Tabs = {tab1, tab2}
  MaxLogins = 2
  Episodes <- ThreeEpisodes
SPECIFICATION FairSpec
INVARIANTS
  TypeOK
  ReferencesReady
  SeededOnce
  HalfSeededMeansCut
  OkMeansUsable
PROPERTIES
  OnlyElderTabsEndSession
  SignedOutTabsLeave
  GuardSettles
CHECK_DEADLOCK FALSE
