CONSTANTS
  s1 = s1  s2 = s2  a = a  b = b  c = c  d = d  e = e  f = f  mm = mm
  Msgs <- MCMsgs
  Parents <- MCParents
  Seps = {s1, s2}
  SepIndex <- MCSepIndex
  Missing = {mm}
  ConfAt <- MCConfAt
  StartIndex = 2
  MaxIndex = 4
  MaxCalls = 3
SPECIFICATION Spec
INVARIANTS CacheSound CachedPairsOrdered
CHECK_DEADLOCK FALSE
