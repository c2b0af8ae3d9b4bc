SPECIFICATION PanelSpec
CONSTANTS
  Audience <- MCAudience
  KeySets <- MCKeySets
  MaxRedirects = 4
  MaxChanges = 0
CHECK_DEADLOCK FALSE
INVARIANT SubscribeReachable
