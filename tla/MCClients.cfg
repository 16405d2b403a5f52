\* Two Bluetooth or two Wi-Fi clients at once, over an adapter that may not answer.
SPECIFICATION FairSpec
CONSTANTS
  p1 = p1
  p2 = p2
  d1 = d1
  d2 = d2
  d3 = d3
  Procs = {p1, p2}
  Settings <- MCSettings
  Devices = {d1, d2, d3}
  MAX_DEVICES = 2
  MaxTries = 2
  MaxBss = 2
INVARIANTS
  OutcomeIsAnswer
  UniqueCount
  DiscoveryEnded
PROPERTIES
  ClientsEnd
CHECK_DEADLOCK FALSE
