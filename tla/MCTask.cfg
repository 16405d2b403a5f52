\* A target of each style, from its creation to its release, with two-bit
\* values and three-bit ticks that wrap.
SPECIFICATION FairSpec
CONSTANTS
  NoCall = NoCall
  Target = target
  n1 = n1
  n2 = n2
  Notifiers = {n1, n2}
  Creator = n1
  Slots = {0, 1}
  Modulus = 4
  BitOr <- MCBitOr
  BitAnd <- MCBitAnd
  Word = 8
  Styles <- MCStyles
  Starts <- MCStarts
  MaxElapsed = 3
  MaxSends = 4
INVARIANTS
  GivesConserved
  DeadlineKept
  BitsKept
  DestroyedOnce
PROPERTIES
  TargetServed
  Reclaimed
CHECK_DEADLOCK FALSE
