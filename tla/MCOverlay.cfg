\* The record, the persisted set and the kernel over commands, failures and reboots.
SPECIFICATION OverlaySpec
CONSTANTS
  uart1 = uart1
  pwm = pwm
  sdm = sdm
  Names = {uart1, pwm, sdm}
  Gpios = {33, 35, 36}
  NoPad = NoPad
  NoFile = NoFile
  MaxLines = 2
INVARIANTS
  RecordedIsActive
  Restorable
PROPERTY
  RestoreReproduces
