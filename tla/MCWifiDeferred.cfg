\* The connect that is left to STA_START.
SPECIFICATION Spec
CONSTANTS
  home = home
  guest = guest
  Networks = {home, guest}
  NoNetwork = NoNetwork
  MaxEvents = 3
INVARIANT
  DeferredConnectKept
CHECK_DEADLOCK FALSE
