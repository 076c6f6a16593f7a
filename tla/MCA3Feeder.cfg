SPECIFICATION FairSpec
CONSTANTS
  None = None
  Songs <- MCSongs
  Codes <- MCCodes
  Count <- MCCount
  Repeat <- MCRepeat
  DrainAt <- MCDrain
  Broken <- MCBroken
  Roms <- MCRoms
  LowWater = 1
  MaxPhrase = 4
  RingSize = 5
INVARIANTS
  TypeOK FeedIsNotSplit PhraseInTable NoOverrun AnswersLastRequest RingInOrder
PROPERTIES
  DiesOnlyAtStart KeepsPromise GateReopens LoopIsFed OneShotEnds
