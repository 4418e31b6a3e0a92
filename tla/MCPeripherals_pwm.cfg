SPECIFICATION DevSpec
CONSTANTS
  RingSize = 4
  BufSize = 4
  Kinds = {"char", "newline", "nul"}
  Timeouts = {0, 500}
  MaxBytes = 6
  Sessions = {{"pwm"}}
  Second = 1000000
  Word = 4294967
  Freqs <- PwmFreqs
  Duties <- PwmDuties
  Raws = {0, 2048, 4095}
  Hex <- HexWords
  MaxSpi = 4
  SpiOptional = 2
  MaxWords = 12
INVARIANT SimSeesPwm
