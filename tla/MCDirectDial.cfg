CONSTANTS
  Fronts = {f1}
  First = f1
  NProfiles = 3
  Configs <- MCConfigs
  Hellos <- MCHellos
  Dials = {d1, d2}
  Once = {d2}
  NoPair = NoPair
SPECIFICATION FairSpec
INVARIANTS TypeOK NoConnLeft HelloIsCut
PROPERTIES RememberedHasWon DialReturns

CHECK_DEADLOCK FALSE

