\* Every small image, two poll rounds and two core-only resets of hart 1.
SPECIFICATION FairSpec
CONSTANTS
  Word = 16
  Base = 4
  Addresses = {4, 8}
  Sizes = {0, 2, 4, 9, 12}
  NoFdt = NoFdt
  MaxPolls = 2
  MaxResets = 2
INVARIANTS
  EntryPrepared
  ValidFdt
  FirstHandoffKept
  HandshakeHeld
PROPERTIES
  ReportKept
  BootDecides
CHECK_DEADLOCK FALSE
