SPECIFICATION FairSpec
CONSTANTS
  None = None
  Songs <- MCSongs
  Codes <- MCCodes
  Count <- MCCount
  Repeat <- MCRepeat
  DrainAt <- boundary
  Broken = {}
  Roms <- MCRoms
  LowWater = 1
  MaxPhrase = 4
  RingSize = 5
PROPERTIES
  DrainsFirst KeepsPromise LoopIsFed
