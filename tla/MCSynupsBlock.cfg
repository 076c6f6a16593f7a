SPECIFICATION Spec
CONSTANTS
  s1 = s1
  s2 = s2
  refused = refused
  truncated = truncated
  alien = alien
  unreadable = unreadable
  None = None
  Scores <- MCScores
  Refused <- MCRefused
  Truncated <- MCTruncated
  Alien <- MCAlien
  Unreadable <- MCUnreadable
  Codes <- MCCodes
INVARIANTS
  PlaysItsOwnBlock
