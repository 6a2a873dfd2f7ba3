CONSTANTS
  i1 = i1
  i2 = i2
  r1 = r1
  Instances = {i1, i2}
  FirstDays <- DaysAndTriples
  Ahead = 1
  Retention = 1
  OnExpiry <- DropAndDetach
  Rows = {r1}
  LongestTransaction = 1
  FirstParts <- Migrated
  LastDay = 2
  Nowhere = Nowhere
  Default = Default
  Gone = Gone
SPECIFICATION Spec
INVARIANTS TypeOK CoveredAhead LockHasARun
PROPERTIES OnlySentExpires GapsOnly
