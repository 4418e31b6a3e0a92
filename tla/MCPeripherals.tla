--------------------------- MODULE MCPeripherals ----------------------------
\* Peripherals for TLC. TLC counts on 32 bits, signed: Second and Word are 10^9 and
\* 2^32 divided by a thousand, which leaves the frequencies where the product wraps
\* where they are, at 23 Hz and below. The buffers are far smaller than 256, 128 and
\* 64; SpiOptional is 2 below MaxSpi, as 62 is below 64.
EXTENDS Peripherals

PwmFreqs  == {-5, 0, 20, 24, 1000, 7000, 10000}
PwmDuties == {-1, 0, 1, 25, 50, 90, 99, 100, 101}
HexWords  == {NotHex, 222, 427}
=============================================================================
