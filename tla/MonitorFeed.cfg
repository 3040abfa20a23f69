SPECIFICATION FairSpec
CONSTANTS
  Monitors = {m1, m2}
  Slow = {m1}
  Places = {0, 1}
  MaxMods = 3
INVARIANTS
  FramesWhole
PROPERTIES
  PictureCurrent
  FullStateComes
