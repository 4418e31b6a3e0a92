SPECIFICATION DevFairSpec
CONSTANTS
  RingSize = 4
  BufSize = 4
  Kinds = {"char", "newline", "nul"}
  Timeouts = {0, 500}
  MaxBytes = 6
  Sessions = {{"gpio", "spi"}, {"pwm"}, {"adc", "host"}, {"dut"}, {"echo"}}
  Second = 1000000
  Word = 4294967
  Freqs <- PwmFreqs
  Duties <- PwmDuties
  Raws = {0, 2048, 4095}
  Hex <- HexWords
  MaxSpi = 4
  SpiOptional = 2
  MaxWords = 12
INVARIANT TypeOK
INVARIANT DevTypeOK
INVARIANT Fifo
INVARIANT GpioLoop
INVARIANT SpiLoop
INVARIANT PwmLoop
INVARIANT RoundTrip
PROPERTY RecvEnds
PROPERTY UartAlone
