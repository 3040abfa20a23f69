SPECIFICATION FairHearSpec
CONSTANTS
  Players = {p1, p2, p3}
  HearMax = 2
  HearInc = 1
  HearDecay = 2
INVARIANTS
  SharesKept
PROPERTIES
  NothingOverwritten
  NeverDeaf
