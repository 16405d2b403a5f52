\* The bring-up, Bluetooth, and Wi-Fi requests around the deferred driver start.
SPECIFICATION FairSpec
CONSTANTS
  home = home
  guest = guest
  Networks = {home, guest}
  NoNetwork = NoNetwork
  MaxEvents = 3
INVARIANTS
  PendingHasStart
  ScanAccounted
  ReportsTrue
PROPERTIES
  RequestsAnswered
CHECK_DEADLOCK FALSE
