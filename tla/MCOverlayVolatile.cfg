\* Temporary lines and the persisted set.
SPECIFICATION OverlaySpec
CONSTANTS
  uart1 = uart1
  pwm = pwm
  sdm = sdm
  Names = {uart1, pwm, sdm}
  Gpios = {35, 36}
  NoPad = NoPad
  NoFile = NoFile
  MaxLines = 2
INVARIANT
  VolatileForgotten
