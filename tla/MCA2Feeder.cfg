SPECIFICATION A2Spec
CONSTANTS
  None = None
  Songs <- MCSongs
  Codes <- MCCodes
  Count <- MCCount
  Repeat <- MCRepeat
  Music <- MCMusic
  DrainAt = {}
  Broken <- MCBroken
  Roms <- MCRoms
  LowWater = 1
  MaxPhrase = 4
  RingSize = 5
INVARIANTS
  CountIsOfSong
PROPERTIES
  DiesSilent KeepsPromise GateReopens
