CONSTANTS
  a = a  b = b  c = c  d = d  e = e  f = f  g = g  h = h  u = u  x = x
  Msgs <- MCMsgs
  Parents <- MCParents
  ConfIndex <- MCConfIndex
  MsMsg <- MCMsMsg
  MaybeMilestoneTxs <- MCMaybeMilestoneTxs
  BundledTxs <- MCBundledTxs
  MilestoneTxs <- MCMilestoneTxs
  UnconfAt <- MCUnconfAt
  MaxIndex = 6
  SnapshotIndex = 6
  ThresholdPast = 1
  AdditionalThreshold = 0
  MissingMilestones = {2}
  IndexModulus = 64
  MaxRuns = 3
  MaxCrashes = 2
SPECIFICATION Spec
INVARIANT ConePrunedBelowIndex
CHECK_DEADLOCK FALSE
