SPECIFICATION FsmSpec
CONSTANTS
  None = None
  Songs <- MCSongs
  Codes <- MCCodes
  Count <- MCCount
  Repeat <- MCRepeat
  DrainAt = {}
  Broken <- MCBroken
  Roms <- MCRoms
  LowWater = 2
  MaxPhrase = 3
  RingSize = 5
INVARIANTS
  NoOverrun
PROPERTIES
  KeepsPromise OneShotEnds
