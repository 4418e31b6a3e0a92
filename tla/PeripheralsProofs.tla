-------------------------- MODULE PeripheralsProofs --------------------------
(***************************************************************************)
(* Theorems about Peripherals, for every size, every set of inputs and     *)
(* every mix of sessions: the composition is a DutUart for the ring buffer *)
(* and tb uart recv, and the GPIO, SPI and PWM loops of the fixture answer *)
(* what was put in.                                                        *)
(***************************************************************************)
EXTENDS Peripherals, DutUartProofs

-----------------------------------------------------------------------------
(* The composition                                                         *)

\* The peripheral handlers leave the UART and the echo alone.
LEMMA DeviceFrame == DeviceStep => UNCHANGED <<vars, echoVars>>
BY DEF DeviceStep, ShellRefuses, cmd_ping, cmd_gpio_get, cmd_gpio_set,
       cmd_spi_transfer, cmd_adc_read, cmd_pwm_set, cmd_pwm_capture, SimCapture, Handles

Wired == wire \in Seq({"char", "newline"})

LEMMA WiredInit == DevInit => Wired
BY DEF DevInit, Wired

LEMMA WiredNext == Wired /\ [DevNext]_devVars => Wired'
<1> DEFINE Wire == {"char", "newline"}
<1> SUFFICES ASSUME wire \in Seq(Wire), [DevNext]_devVars
             PROVE  wire' \in Seq(Wire)
  BY DEF Wired
<1>1. CASE UNCHANGED wire
  BY <1>1
<1>2. CASE Echoed
  <2>1. wire # <<>> /\ wire' = Tail(wire)
    BY <1>2 DEF Echoed
  <2> QED BY <2>1, HeadTailProperties
<1>3. ASSUME NEW words \in 1..MaxWords, cmd_uart_send(words)
      PROVE  wire' \in Seq(Wire)
  <2> DEFINE text == [i \in 1..(2 * words + 1) - 1 |-> "char"]
  <2>1. wire' = wire \o Append(text, "newline")
    BY <1>3 DEF cmd_uart_send
  <2>2. text \in Seq(Wire)
    <3>1. (2 * words + 1) - 1 \in Nat
      BY PeripheralsAssumption DEF PeripheralsAssumption
    <3> QED BY <3>1, IsASeq
  <2> HIDE DEF text
  <2>3. Append(text, "newline") \in Seq(Wire)
    BY <2>2, AppendProperties
  <2> QED BY <2>1, <2>3, ConcatProperties
<1> QED
  BY <1>1, <1>2, <1>3, DeviceFrame
  DEF DevNext, devVars, echoVars, UartStep, DutSends, Recv, RecvTurn, RecvOverdue,
      RecvGivesUp

\* A step of the composition is a step of DutUart, or none.
LEMMA UartSteps == Wired /\ [DevNext]_devVars => [Next]_vars
<1> SUFFICES ASSUME Wired, [DevNext]_devVars
             PROVE  [Next]_vars
  OBVIOUS
<1>1. CASE DeviceStep
  BY <1>1, DeviceFrame DEF vars
<1>2. ASSUME NEW words \in 1..MaxWords, cmd_uart_send(words)
      PROVE  [Next]_vars
  BY <1>2 DEF cmd_uart_send, Handles
<1>3. CASE Echoed
  <2>1. wire \in Seq({"char", "newline"}) /\ wire # <<>>
    BY <1>3 DEF Wired, Echoed
  <2>2. Head(wire) \in {"char", "newline"}
    BY <2>1, HeadTailProperties
  <2>3. Head(wire) \in Kinds
    BY <2>2, PeripheralsAssumption DEF PeripheralsAssumption
  <2> QED BY <1>3, <2>3 DEF Echoed, Next
<1>4. CASE DutSends
  BY <1>4 DEF DutSends, Next
<1>5. CASE Recv
  BY <1>5 DEF Recv, Next
<1>6. CASE RecvTurn \/ RecvOverdue \/ RecvGivesUp
  BY <1>6 DEF RecvTurn, RecvOverdue, RecvGivesUp, Next
<1>7. CASE UNCHANGED devVars
  BY <1>7 DEF devVars
<1> QED BY <1>1, <1>2, <1>3, <1>4, <1>5, <1>6, <1>7 DEF DevNext, UartStep

\* The other commands, the simulation and the echo are invisible to the ring buffer and
\* to tb uart recv: whatever was proved of DutUart holds in the composition.
THEOREM Composition == DevSpec => UartAlone
<1>1. DevInit => Init /\ Wired
  BY WiredInit DEF DevInit
<1> QED BY <1>1, WiredNext, UartSteps, PTL DEF DevSpec, UartAlone, Spec

\* In the composition, too, the bytes come out once and in the order they arrived.
THEOREM FifoInDevices == DevSpec => []Fifo
BY Composition, FifoCorrect, PTL DEF UartAlone
-----------------------------------------------------------------------------
(* GPIO                                                                    *)

GpioInv ==
  /\ asked \in [Pins -> {NoLevel, 0, 1}] /\ odr \in [Pins -> {0, 1}]
  /\ fn \in [Pins -> {"reset", "spi", "input", "output"}]
  /\ \A p \in Pins : asked[p] # NoLevel => fn[p] = "output" /\ odr[p] = asked[p]
  /\ GpioLoop

LEMMA GpioInit == DevInit => GpioInv
BY DEF DevInit, GpioInv, GpioLoop, OK, Reply, Pins, NoLevel

\* Only the two GPIO commands touch the pins or answer for them.
LEMMA GpioFrame ==
  ASSUME [DevNext]_devVars
  PROVE  \/ UNCHANGED pinVars /\ reply' = reply
         \/ UNCHANGED pinVars /\ reply'.path # "gpio_get"
         \/ \E pin \in Pins \cup {"BADPIN"} :
              cmd_gpio_get(pin) \/ \E val \in {0, 1, 2} : cmd_gpio_set(pin, val)
<1>1. CASE UartStep
  <2>1. ASSUME NEW words \in 1..MaxWords, cmd_uart_send(words)
        PROVE  UNCHANGED pinVars /\ reply'.path # "gpio_get"
    <3>1. UNCHANGED pinVars /\ reply' = OK("uart_send")
      BY <2>1 DEF cmd_uart_send
    <3> QED BY <3>1 DEF OK, Reply
  <2>2. CASE Echoed \/ DutSends \/ Recv \/ RecvTurn \/ RecvOverdue \/ RecvGivesUp
    BY <2>2, Zenon DEF Echoed, DutSends, Recv, RecvTurn, RecvOverdue, RecvGivesUp
  <2> QED BY <1>1, <2>1, <2>2, Zenon DEF UartStep
<1>2. CASE DeviceStep
  <2>1. CASE ShellRefuses
    <3>1. \A l \in KeywordLines : l[1] = "gpio_get" => Accepts(l[1], l[2])
      BY DEF KeywordLines, Accepts, Tree
    <3> QED BY <2>1, <3>1 DEF ShellRefuses, Reply
  <2>2. CASE cmd_ping \/ SimCapture
    BY <2>2 DEF cmd_ping, SimCapture, OK, Reply
  <2>3. CASE \E words \in Words : cmd_spi_transfer(words)
    BY <2>3 DEF cmd_spi_transfer, Error, Reply
  <2>4. CASE \E pin \in {"PA0", "PA3", "BADPIN"}, raw \in Raws : cmd_adc_read(pin, raw)
    BY <2>4 DEF cmd_adc_read, Error, Reply
  <2>5. CASE \E freq \in Freqs, duty \in Duties : cmd_pwm_set(freq, duty)
    BY <2>5 DEF cmd_pwm_set, Error, OK, Reply
  <2>6. CASE \E argc \in 1..2 : cmd_pwm_capture(argc)
    BY <2>6 DEF cmd_pwm_capture, Error, Reply
  <2> QED BY <1>2, <2>1, <2>2, <2>3, <2>4, <2>5, <2>6 DEF DeviceStep
<1> QED BY <1>1, <1>2 DEF DevNext, devVars

LEMMA GpioNext == GpioInv /\ [DevNext]_devVars => GpioInv'
<1> SUFFICES ASSUME GpioInv, [DevNext]_devVars
             PROVE  GpioInv'
  OBVIOUS
<1>1. CASE UNCHANGED pinVars /\ reply' = reply
  BY <1>1 DEF GpioInv, GpioLoop, pinVars
<1>2. CASE UNCHANGED pinVars /\ reply'.path # "gpio_get"
  BY <1>2 DEF GpioInv, GpioLoop, pinVars
<1>3. ASSUME NEW pin \in Pins \cup {"BADPIN"}, NEW val \in {0, 1, 2},
             cmd_gpio_set(pin, val)
      PROVE  GpioInv'
  BY <1>3 DEF cmd_gpio_set, GpioInv, GpioLoop, pinVars, Error, OK, Reply, NoLevel
<1>4. ASSUME NEW pin \in Pins \cup {"BADPIN"}, cmd_gpio_get(pin)
      PROVE  GpioInv'
  <2>1. CASE pin \notin Pins
    BY <1>4, <2>1 DEF cmd_gpio_get, GpioInv, GpioLoop, pinVars, Error, Reply
  <2>2. CASE pin \in Pins
    <3>1. /\ fn' = [fn EXCEPT ![pin] = "input"] /\ odr' = odr
          /\ asked' = [asked EXCEPT ![pin] = NoLevel]
      BY <1>4, <2>2 DEF cmd_gpio_get
    <3>2. PICK level \in Levels(fn', pin) :
            reply' = Reply("gpio_get", pin, <<>>, "value", <<level>>)
      BY <1>4, <2>2 DEF cmd_gpio_get
    <3>3. \A p \in Pins : asked'[p] # NoLevel => fn'[p] = "output" /\ odr'[p] = asked'[p]
      BY <3>1 DEF GpioInv
    <3>4. ASSUME NEW p \in Net(pin), asked'[p] # NoLevel
          PROVE  level = asked'[p]
      <4>1. p \in Pins /\ p # pin
        BY <2>2, <3>1, <3>4 DEF Net, Pins, GpioInv
      <4>2. {q \in Net(pin) : fn'[q] = "output"} = {p}
        BY <2>2, <3>1, <3>3, <3>4, <4>1 DEF Net, Pins, GpioInv
      <4>3. level \in {odr[q] : q \in {p}}
        BY <3>2, <4>2 DEF Levels
      <4> QED BY <3>1, <3>3, <3>4, <4>1, <4>3
    <3>5. GpioLoop'
      BY <3>2, <3>4 DEF GpioLoop, Reply
    <3> QED BY <3>1, <3>3, <3>5 DEF GpioInv
  <2> QED BY <2>1, <2>2
<1> QED BY <1>1, <1>2, <1>3, <1>4, GpioFrame

\* tb gpio get answers the level of the last tb gpio set on the pin wired to it,
\* through any sequence of commands on the four pins.
THEOREM GpioCorrect == DevSpec => []GpioLoop
<1>1. GpioInv => GpioLoop
  BY DEF GpioInv
<1> QED BY <1>1, GpioInit, GpioNext, PTL DEF DevSpec
-----------------------------------------------------------------------------
(* SPI                                                                     *)

\* Only tb spi trans answers for SPI, and what takes a pin from SPI1 answers too.
LEMMA SpiFrame ==
  ASSUME [DevNext]_devVars
  PROVE  \/ fn' = fn /\ reply' = reply
         \/ reply'.path # "spi_trans"
         \/ \E words \in Words : cmd_spi_transfer(words)
<1>1. CASE UartStep
  <2>1. ASSUME NEW words \in 1..MaxWords, cmd_uart_send(words)
        PROVE  reply'.path # "spi_trans"
    <3>1. reply' = OK("uart_send")
      BY <2>1 DEF cmd_uart_send
    <3> QED BY <3>1 DEF OK, Reply
  <2>2. CASE Echoed \/ DutSends \/ Recv \/ RecvTurn \/ RecvOverdue \/ RecvGivesUp
    BY <2>2, Zenon
    DEF Echoed, DutSends, Recv, RecvTurn, RecvOverdue, RecvGivesUp, pinVars
  <2> QED BY <1>1, <2>1, <2>2, Zenon DEF UartStep
<1>2. CASE DeviceStep
  <2>1. CASE ShellRefuses
    <3>1. \A l \in KeywordLines : l[1] # "spi_trans"
      BY DEF KeywordLines
    <3> QED BY <2>1, <3>1 DEF ShellRefuses, Reply
  <2>2. CASE cmd_ping \/ SimCapture
    BY <2>2 DEF cmd_ping, SimCapture, OK, Reply, pinVars
  <2>3. CASE \E pin \in Pins \cup {"BADPIN"} :
               cmd_gpio_get(pin) \/ \E val \in {0, 1, 2} : cmd_gpio_set(pin, val)
    BY <2>3 DEF cmd_gpio_get, cmd_gpio_set, Error, OK, Reply
  <2>4. CASE \E pin \in {"PA0", "PA3", "BADPIN"}, raw \in Raws : cmd_adc_read(pin, raw)
    BY <2>4 DEF cmd_adc_read, Error, Reply
  <2>5. CASE \E freq \in Freqs, duty \in Duties : cmd_pwm_set(freq, duty)
    BY <2>5 DEF cmd_pwm_set, Error, OK, Reply
  <2>6. CASE \E argc \in 1..2 : cmd_pwm_capture(argc)
    BY <2>6 DEF cmd_pwm_capture, Error, Reply
  <2> QED BY <1>2, <2>1, <2>2, <2>3, <2>4, <2>5, <2>6 DEF DeviceStep
<1> QED BY <1>1, <1>2 DEF DevNext, devVars, pinVars

\* With the shell's limit on the arguments parse_hex_args cuts nothing off.
LEMMA ParseAll ==
  ASSUME SpiOptional < MaxSpi, NEW words \in Words, Accepts("spi_trans", 2 + Len(words))
  PROVE  /\ Len(words) \in Nat
         /\ parse_hex_args(words) = [i \in 1..Len(words) |-> words[i] % 256]
<1>1. PICK n \in 1..MaxSpi + 1 : words \in [1..n -> Hex]
  BY DEF Words
<1>2. Len(words) = n /\ n \in Nat
  BY <1>1, PeripheralsAssumption DEF PeripheralsAssumption
<1>3. 2 + Len(words) <= 3 + SpiOptional
  BY <1>2, PeripheralsAssumption DEF Accepts, Tree, PeripheralsAssumption
<1>4. least(Len(words), MaxSpi) = Len(words)
  BY <1>2, <1>3, PeripheralsAssumption DEF least, PeripheralsAssumption
<1> QED BY <1>2, <1>4 DEF parse_hex_args

LEMMA SpiNext ==
  ASSUME SpiOptional < MaxSpi, SpiLoop, [DevNext]_devVars
  PROVE  SpiLoop'
<1>1. CASE fn' = fn /\ reply' = reply
  BY <1>1 DEF SpiLoop
<1>2. CASE reply'.path # "spi_trans"
  BY <1>2 DEF SpiLoop
<1>3. ASSUME NEW words \in Words, cmd_spi_transfer(words)
      PROVE  SpiLoop'
  <2> DEFINE tx == parse_hex_args(words)
  <2>1. /\ Len(words) \in Nat
        /\ tx = [i \in 1..Len(words) |-> words[i] % 256]
    <3>1. Accepts("spi_trans", 2 + Len(words))
      BY <1>3 DEF cmd_spi_transfer, Handles
    <3> QED BY <3>1, ParseAll
  <2> HIDE DEF tx
  <2>2. fn' = fn
    BY <1>3 DEF cmd_spi_transfer, pinVars
  <2>3. CASE reply' = Error("spi_trans")
    BY <2>3 DEF SpiLoop, Error, Reply
  <2>4. ASSUME NEW rx, fn["PA5"] = "spi" /\ fn["PA6"] = "spi" => rx = tx,
               reply' = Reply("spi_trans", "none", words, "value", rx)
        PROVE  SpiLoop'
    BY <2>1, <2>2, <2>4 DEF SpiLoop, Reply
  <2> QED BY <1>3, <2>3, <2>4 DEF cmd_spi_transfer, tx
<1> QED BY <1>1, <1>2, <1>3, SpiFrame

\* A loopback over SPI answers the whole command line, provided tb_cmds.c registers
\* fewer optional arguments than the buffers have bytes, as it does with 62 and 64.
THEOREM SpiCorrect == ASSUME SpiOptional < MaxSpi PROVE DevSpec => []SpiLoop
<1>1. DevInit => SpiLoop
  BY DEF DevInit, SpiLoop, OK, Reply
<1>2. SpiLoop /\ [DevNext]_devVars => SpiLoop'
  BY SpiNext
<1> QED BY <1>1, <1>2, PTL DEF DevSpec
-----------------------------------------------------------------------------
(* PWM                                                                     *)

\* The period of a frequency in range, read back as a frequency.
LEMMA FreqBack ==
  ASSUME NEW f \in Nat \ {0}, f * 100 <= Second
  PROVE  LET p == Second \div f
             g == Second \div p
         IN  /\ p \in Nat /\ p >= 100
             /\ g \in Nat /\ g >= f /\ 50 * (g - f) <= f
<1> DEFINE p == Second \div f
           g == Second \div p
<1>0. Second \in Nat
  BY PeripheralsAssumption DEF PeripheralsAssumption
<1>1. p \in Nat /\ f * p <= Second /\ Second < f * p + f
  BY <1>0
<1> HIDE DEF p
<1>2. p >= 100
  <2>1. SUFFICES ASSUME p <= 99 PROVE FALSE
    BY <1>1
  <2>2. f * p <= f * 99
    BY <1>1, <2>1
  <2> QED BY <1>0, <1>1, <2>2
<1>3. g \in Nat /\ p * g <= Second /\ Second < p * g + p
  BY <1>0, <1>1, <1>2
<1> HIDE DEF g
<1>4. g >= f
  <2>1. SUFFICES ASSUME g <= f - 1 PROVE FALSE
    BY <1>3
  <2>2. p * g <= p * (f - 1)
    BY <1>1, <1>3, <2>1
  <2>3. p * (f - 1) = f * p - p
    BY <1>1
  <2> QED BY <1>0, <1>1, <1>3, <2>2, <2>3
<1>5. 100 * (g - f) <= f
  <2>1. p * (g - f) = p * g - f * p
    BY <1>1, <1>3
  <2>2. 100 * (g - f) <= p * (g - f)
    BY <1>1, <1>2, <1>3, <1>4
  <2> QED BY <1>0, <1>1, <1>3, <2>1, <2>2
<1> QED BY <1>1, <1>2, <1>3, <1>4, <1>5 DEF p, g

\* The pulse of a duty cycle, read back as a duty cycle.
LEMMA DutyBack ==
  ASSUME NEW p \in Nat, p >= 100, NEW d \in 0..100
  PROVE  LET q == (p * d) \div 100
         IN  q \in Nat /\ (q * 100) \div p \in {d - 1, d}
<1> DEFINE q == (p * d) \div 100
           e == (q * 100) \div p
<1>1. p * d \in Nat
  OBVIOUS
<1>2. q \in Nat /\ 100 * q <= p * d /\ p * d < 100 * q + 100
  BY <1>1
<1> HIDE DEF q
<1>3. e \in Nat /\ p * e <= 100 * q /\ 100 * q < p * e + p
  BY <1>2
<1> HIDE DEF e
<1>4. e <= d
  <2>1. SUFFICES ASSUME e >= d + 1 PROVE FALSE
    BY <1>3
  <2>2. p * e >= p * (d + 1)
    BY <1>3, <2>1
  <2>3. p * (d + 1) = p * d + p
    OBVIOUS
  <2> QED BY <1>1, <1>2, <1>3, <2>2, <2>3
<1>5. e >= d - 1
  <2>1. SUFFICES ASSUME e + 2 <= d PROVE FALSE
    BY <1>3
  <2>2. p * (e + 2) <= p * d
    BY <1>3, <2>1
  <2>3. p * (e + 2) = p * e + p + p
    BY <1>3
  <2> QED BY <1>1, <1>2, <1>3, <2>2, <2>3
<1> QED BY <1>2, <1>3, <1>4, <1>5 DEF q, e

\* Inside the range the product of PulseOf does not wrap.
LEMMA PulseInRange ==
  ASSUME NEW p \in Nat, p * 100 < Word, NEW d \in 0..100
  PROVE  PulseOf(p, d) = (p * d) \div 100
<1>1. p * d \in Nat /\ p * d <= p * 100
  OBVIOUS
<1>2. (p * d) % Word = p * d
  <2>1. Word \in Nat \ {0}
    BY PeripheralsAssumption
  <2>2. ASSUME NEW n \in Nat, NEW w \in Nat \ {0}, n < w PROVE n % w = n
    BY <2>2, SMT
  <2>3. p * d < Word
    BY <1>1, <2>1
  <2> QED BY <1>1, <2>1, <2>2, <2>3
<1> QED BY <1>2 DEF PulseOf

\* The signal on PA8 is the one of the last set that was answered OK.
PwmInv ==
  /\ wanted \in [freq : Nat, duty : 0..100]
  /\ wanted.freq = 0 => pwm = NoSignal
  /\ wanted.freq # 0 /\ InRange(wanted.freq) =>
       /\ pwm.period = Second \div wanted.freq
       /\ pwm.pulse = (pwm.period * wanted.duty) \div 100
  /\ PwmLoop

\* Only tb pwm set and tb pwm capture touch PA8 or answer for the capture.
LEMMA PwmFrame ==
  ASSUME [DevNext]_devVars
  PROVE  \/ UNCHANGED <<pwm, wanted>> /\ (reply' = reply \/ reply'.path # "pwm_capture")
         \/ \E freq \in Freqs, duty \in Duties : cmd_pwm_set(freq, duty)
         \/ \E argc \in 1..2 : cmd_pwm_capture(argc)
<1>1. CASE UartStep
  <2>1. ASSUME NEW words \in 1..MaxWords, cmd_uart_send(words)
        PROVE  UNCHANGED <<pwm, wanted>> /\ reply'.path # "pwm_capture"
    <3>1. UNCHANGED pwmVars /\ reply' = OK("uart_send")
      BY <2>1 DEF cmd_uart_send
    <3> QED BY <3>1 DEF OK, Reply, pwmVars
  <2>2. CASE Echoed \/ DutSends \/ Recv \/ RecvTurn \/ RecvOverdue \/ RecvGivesUp
    BY <2>2, Zenon
    DEF Echoed, DutSends, Recv, RecvTurn, RecvOverdue, RecvGivesUp, pwmVars
  <2> QED BY <1>1, <2>1, <2>2, Zenon DEF UartStep
<1>2. CASE DeviceStep
  <2>1. CASE ShellRefuses
    <3>1. \A l \in KeywordLines : l[1] = "pwm_capture" => Accepts(l[1], l[2])
      BY DEF KeywordLines, Accepts, Tree
    <3> QED BY <2>1, <3>1 DEF ShellRefuses, Reply, pwmVars
  <2>2. CASE cmd_ping \/ SimCapture
    BY <2>2 DEF cmd_ping, SimCapture, OK, Reply, pwmVars
  <2>3. CASE \E pin \in Pins \cup {"BADPIN"} :
               cmd_gpio_get(pin) \/ \E val \in {0, 1, 2} : cmd_gpio_set(pin, val)
    BY <2>3 DEF cmd_gpio_get, cmd_gpio_set, Error, OK, Reply, pwmVars
  <2>4. CASE \E pin \in {"PA0", "PA3", "BADPIN"}, raw \in Raws : cmd_adc_read(pin, raw)
    BY <2>4 DEF cmd_adc_read, Error, Reply, pwmVars
  <2>5. CASE \E words \in Words : cmd_spi_transfer(words)
    BY <2>5 DEF cmd_spi_transfer, Error, Reply, pwmVars
  <2> QED BY <1>2, <2>1, <2>2, <2>3, <2>4, <2>5 DEF DeviceStep
<1> QED BY <1>1, <1>2 DEF DevNext, devVars, pwmVars

LEMMA PwmSet ==
  ASSUME PwmInv, NEW freq \in Freqs, NEW duty \in Duties, cmd_pwm_set(freq, duty)
  PROVE  PwmInv'
<1> DEFINE f == freq % Word
           d == duty % Word
           p == Second \div f
<1>0. freq \in Int /\ duty \in Int /\ Second \in Nat /\ Word \in Nat \ {0}
  BY PeripheralsAssumption DEF PeripheralsAssumption
<1>1. f \in Nat /\ d \in Nat
  BY <1>0
<1>2. \/ UNCHANGED pwmVars
      \/ /\ f # 0 /\ d <= 100
         /\ pwm' = [period |-> p, pulse |-> PulseOf(p, d)]
         /\ wanted' = [freq |-> f, duty |-> d]
  BY DEF cmd_pwm_set
<1>3. reply'.path = "pwm_set"
  BY DEF cmd_pwm_set, Error, OK, Reply
<1>4. PwmLoop'
  BY <1>3 DEF PwmLoop
<1> HIDE DEF f, d, p
<1>5. CASE UNCHANGED pwmVars
  BY <1>4, <1>5 DEF PwmInv, pwmVars, InRange
<1>6. CASE /\ f # 0 /\ d <= 100
           /\ pwm' = [period |-> p, pulse |-> PulseOf(p, d)]
           /\ wanted' = [freq |-> f, duty |-> d]
  <2>1. p \in Nat
    BY <1>0, <1>1, <1>6 DEF p
  <2>2. ASSUME InRange(f)
        PROVE  PulseOf(p, d) = (p * d) \div 100
    <3>1. p * 100 < Word
      BY <2>2 DEF InRange, p
    <3>2. d \in 0..100
      BY <1>1, <1>6
    <3> QED BY <2>1, <3>1, <3>2, PulseInRange, Zenon
  <2> QED BY <1>1, <1>4, <1>6, <2>2 DEF PwmInv, p
<1> QED BY <1>2, <1>5, <1>6

LEMMA PwmCapture ==
  ASSUME PwmInv, NEW argc \in 1..2, cmd_pwm_capture(argc)
  PROVE  PwmInv'
<1>1. UNCHANGED <<pwm, wanted>>
  BY DEF cmd_pwm_capture, pwmVars
<1>2. CASE reply' = Error("pwm_capture")
  BY <1>1, <1>2 DEF PwmInv, PwmLoop, Error, Reply, InRange
<1>3. CASE /\ CaptureOn(PwmInCh) # {}
           /\ reply' = Reply("pwm_capture", "none", <<>>, "value",
                       <<Second \div pwm.period, (pwm.pulse * 100) \div pwm.period>>)
  <2> DEFINE f == wanted.freq
             d == wanted.duty
  <2>1. f \in Nat /\ d \in 0..100
    BY DEF PwmInv
  <2>2. f # 0
    BY <1>3 DEF PwmInv, CaptureOn, NoSignal
  <2>3. ASSUME InRange(f)
        PROVE  /\ Second \div pwm.period >= f
               /\ 50 * ((Second \div pwm.period) - f) <= f
               /\ (pwm.pulse * 100) \div pwm.period \in {d - 1, d}
    <3>1. pwm.period = Second \div f /\ pwm.pulse = (pwm.period * d) \div 100
      BY <2>2, <2>3 DEF PwmInv
    <3>2. f * 100 <= Second
      BY <2>3 DEF InRange
    <3> HIDE DEF f, d
    <3>3. /\ pwm.period \in Nat /\ pwm.period >= 100
          /\ Second \div pwm.period >= f
          /\ 50 * ((Second \div pwm.period) - f) <= f
      BY <2>1, <2>2, <3>1, <3>2, FreqBack
    <3> QED BY <2>1, <3>1, <3>3, DutyBack
  <2>4. PwmLoop'
    BY <1>1, <1>3, <2>3 DEF PwmLoop, Reply, InRange
  <2> QED BY <1>1, <2>4 DEF PwmInv, InRange
<1> QED BY <1>2, <1>3 DEF cmd_pwm_capture, CaptureOn

\* For every frequency from 24 Hz to a hundredth of the clock, every duty cycle and any
\* history of accepted and refused sets, a capture reads back what was set.
THEOREM PwmCorrect == DevSpec => []PwmLoop
<1>1. DevInit => PwmInv
  BY DEF DevInit, PwmInv, PwmLoop, OK, Reply, NoSignal
<1>2. PwmInv /\ [DevNext]_devVars => PwmInv'
  <2>1. ASSUME PwmInv, UNCHANGED <<pwm, wanted>>,
               reply' = reply \/ reply'.path # "pwm_capture"
        PROVE  PwmInv'
    BY <2>1 DEF PwmInv, PwmLoop, InRange
  <2> QED BY <2>1, PwmFrame, PwmSet, PwmCapture
<1>3. PwmInv => PwmLoop
  BY DEF PwmInv
<1> QED BY <1>1, <1>2, <1>3, PTL DEF DevSpec
-----------------------------------------------------------------------------
(* The shell                                                               *)

\* The keywords' lines that reach no handler are exactly every line of SPI Transfer, which
\* says xfer where trans is registered, that of reset_testbench, and those of UART Send
\* without a word of text or with more than 11.
THEOREM LinesRefused ==
  ASSUME NEW l \in KeywordLines
  PROVE  ~Accepts(l[1], l[2]) <=> \/ l[1] \in {"spi_xfer", "reset"}
                                  \/ l[1] = "uart_send" /\ l[2] \notin 3..2 + 11
<1>1. MaxWords \in Nat
  BY PeripheralsAssumption DEF PeripheralsAssumption
<1>2. CASE \E n \in 0..MaxWords : l = <<"uart_send", 2 + n>>
  BY <1>1, <1>2 DEF Accepts, Tree
<1>3. CASE \E n \in 0..MaxWords : l = <<"spi_xfer", 2 + n>>
  BY <1>3 DEF Accepts, Tree
<1>4. CASE l \in {<<"gpio_set", 3>>, <<"gpio_get", 2>>, <<"adc_read", 2>>,
                  <<"uart_recv", 3>>, <<"pwm_set", 4>>, <<"pwm_capture", 2>>,
                  <<"ping", 1>>, <<"reset", 1>>}
  BY <1>4 DEF Accepts, Tree
<1> QED BY <1>2, <1>3, <1>4 DEF KeywordLines
-----------------------------------------------------------------------------
(* Types                                                                   *)

\* What the replies and the signals of the handlers range over.
Signals ==
  /\ pwm \in [period : 0..Second, pulse : 0..Word - 1]
  /\ wanted \in [freq : 0..Word - 1, duty : 0..100]
  /\ seen \in NotSeen..100

Replies ==
  /\ reply.path \in DOMAIN Tree \cup {"spi_xfer", "reset"}
  /\ reply.path = "spi_trans" => \A i \in DOMAIN reply.value : reply.value[i] \in 0..255

Counted == owed \in Nat /\ clean \in BOOLEAN

\* A frequency of at least 1 Hz and the product cut to 32 bits give a period and a pulse
\* that fit their types.
LEMMA SignalRange ==
  ASSUME NEW freq \in Int, NEW duty \in Int, freq % Word # 0, duty % Word <= 100
  PROVE  /\ freq % Word \in 0..Word - 1 /\ duty % Word \in 0..100
         /\ Second \div (freq % Word) \in 0..Second
         /\ PulseOf(Second \div (freq % Word), duty % Word) \in 0..Word - 1
<1> DEFINE f == freq % Word
           d == duty % Word
           p == Second \div f
<1>0. Second \in Nat /\ Word \in Nat \ {0}
  BY PeripheralsAssumption DEF PeripheralsAssumption
<1>1. f \in 0..Word - 1 /\ f # 0 /\ d \in 0..100
  BY <1>0
<1> HIDE DEF f, d
<1>2. p \in Nat /\ f * p <= Second
  BY <1>0, <1>1
<1> HIDE DEF p
<1>3. p <= f * p
  BY <1>1, <1>2
<1>4. p \in 0..Second
  BY <1>0, <1>1, <1>2, <1>3
<1> DEFINE q == p * d
           r == q % Word
<1>5. q \in Nat
  BY <1>1, <1>2
<1> HIDE DEF q
<1>6. r \in 0..Word - 1
  BY <1>0, <1>5
<1> HIDE DEF r
<1>7. r \div 100 \in 0..Word - 1
  BY <1>0, <1>6
<1> QED BY <1>1, <1>4, <1>7 DEF PulseOf, f, d, p, q, r

\* Every step keeps the types of the signal and of what was asked for,
LEMMA SignalsNext == Signals /\ [DevNext]_devVars => Signals'
<1> SUFFICES ASSUME Signals, [DevNext]_devVars PROVE Signals'
  OBVIOUS
<1>1. CASE UNCHANGED pwmVars
  BY <1>1 DEF Signals, pwmVars
<1>2. CASE SimCapture
  <2>1. UNCHANGED <<pwm, wanted>>
    BY <1>2 DEF SimCapture
  <2>2. seen' = 0 \/ (/\ 0 < pwm.pulse /\ pwm.pulse < pwm.period
                      /\ seen' = least(100, (pwm.pulse * 100) \div pwm.period))
    BY <1>2 DEF SimCapture, CaptureOn
  <2>3. pwm.pulse \in Nat /\ pwm.period \in Nat
    BY PeripheralsAssumption DEF Signals, PeripheralsAssumption
  <2>4. seen' \in 0..100
    <3>1. ASSUME 0 < pwm.pulse, pwm.pulse < pwm.period
          PROVE  (pwm.pulse * 100) \div pwm.period \in Nat
      BY <2>3, <3>1
    <3> QED BY <2>2, <3>1 DEF least
  <2> QED BY <2>1, <2>4 DEF Signals, NotSeen
<1>3. ASSUME NEW freq \in Freqs, NEW duty \in Duties, cmd_pwm_set(freq, duty)
      PROVE  Signals'
  <2>1. freq \in Int /\ duty \in Int
    BY PeripheralsAssumption DEF PeripheralsAssumption
  <2> DEFINE f == freq % Word
             d == duty % Word
             p == Second \div f
  <2>2. \/ UNCHANGED pwmVars
        \/ /\ f # 0 /\ d <= 100
           /\ pwm' = [period |-> p, pulse |-> PulseOf(p, d)]
           /\ wanted' = [freq |-> f, duty |-> d] /\ seen' = NotSeen
    BY <1>3 DEF cmd_pwm_set
  <2>3. f # 0 /\ d <= 100 =>
          /\ f \in 0..Word - 1 /\ d \in 0..100 /\ p \in 0..Second
          /\ PulseOf(p, d) \in 0..Word - 1
    BY <2>1, SignalRange
  <2> HIDE DEF f, d, p
  <2> QED BY <1>1, <2>2, <2>3 DEF Signals, NotSeen
<1>4. \/ UNCHANGED pwmVars \/ SimCapture
      \/ \E freq \in Freqs, duty \in Duties : cmd_pwm_set(freq, duty)
  <2>1. CASE UartStep
    BY <2>1, Zenon DEF UartStep, cmd_uart_send, Echoed, DutSends, Recv, RecvTurn,
                       RecvOverdue, RecvGivesUp
  <2>2. CASE DeviceStep
    BY <2>2, Zenon DEF DeviceStep, ShellRefuses, cmd_ping, cmd_gpio_get, cmd_gpio_set,
                       cmd_spi_transfer, cmd_adc_read, cmd_pwm_capture
  <2> QED BY <2>1, <2>2, Zenon DEF DevNext, devVars
<1> QED BY <1>1, <1>2, <1>3, <1>4

\* Every handler answers under its own path, and tb spi trans with bytes.
LEMMA RepliesNext == Replies /\ [DevNext]_devVars => Replies'
<1> SUFFICES ASSUME Replies, [DevNext]_devVars PROVE Replies'
  OBVIOUS
<1>0. DOMAIN Tree = {"gpio_set", "gpio_get", "adc_read", "spi_trans", "uart_send",
                     "uart_recv", "pwm_set", "pwm_capture", "ping"}
  BY DEF Tree
<1>1. CASE reply' = reply
  BY <1>1 DEF Replies
<1>2. ASSUME NEW words \in Words, cmd_spi_transfer(words)
      PROVE  Replies'
  <2> DEFINE tx == parse_hex_args(words)
  <2>1. /\ Accepts("spi_trans", 2 + Len(words))
        /\ \/ reply' = Error("spi_trans")
           \/ \E rx \in {tx} \cup {[i \in DOMAIN tx |-> noise] : noise \in {0, 255}} :
                reply' = Reply("spi_trans", "none", words, "value", rx)
    BY <1>2 DEF cmd_spi_transfer, Handles
  <2>2. /\ DOMAIN tx = 1..least(Len(words), MaxSpi)
        /\ \A i \in DOMAIN tx : tx[i] \in 0..255
    <3>1. PICK n \in 1..MaxSpi + 1 : words \in [1..n -> Hex]
      BY DEF Words
    <3>2. Len(words) = n /\ n \in Nat /\ least(n, MaxSpi) \in Nat /\ least(n, MaxSpi) <= n
      BY <3>1, PeripheralsAssumption DEF PeripheralsAssumption, least
    <3>3. \A h \in Hex : h \in Int
      BY PeripheralsAssumption DEF PeripheralsAssumption, NotHex
    <3> DEFINE k == least(n, MaxSpi)
    <3>4. tx = [i \in 1..k |-> words[i] % 256]
      BY <3>2 DEF parse_hex_args
    <3> HIDE DEF k, tx
    <3>5. ASSUME NEW i \in 1..k PROVE words[i] % 256 \in 0..255
      <4>1. i \in 1..n
        BY <3>2, <3>5 DEF k
      <4>2. words[i] \in Int
        BY <3>1, <3>3, <4>1
      <4> QED BY <4>2
    <3>6. DOMAIN tx = 1..k /\ \A i \in 1..k : tx[i] = words[i] % 256
      BY <3>4
    <3>7. k = least(Len(words), MaxSpi)
      BY <3>2 DEF k
    <3> QED BY <3>5, <3>6, <3>7
  <2> HIDE DEF tx
  <2>3. CASE reply' = Error("spi_trans")
    BY <1>0, <2>3 DEF Replies, Error, Reply
  <2>4. ASSUME NEW rx \in {tx} \cup {[i \in DOMAIN tx |-> noise] : noise \in {0, 255}},
               reply' = Reply("spi_trans", "none", words, "value", rx)
        PROVE  Replies'
    <3>1. ASSUME rx = tx PROVE \A i \in DOMAIN rx : rx[i] \in 0..255
      BY <2>2, <3>1
    <3>2. ASSUME NEW noise \in {0, 255}, rx = [i \in DOMAIN tx |-> noise]
          PROVE  \A i \in DOMAIN rx : rx[i] \in 0..255
      BY <3>2
    <3>3. \A i \in DOMAIN rx : rx[i] \in 0..255
      BY <2>4, <3>1, <3>2
    <3> QED BY <1>0, <2>4, <3>3 DEF Replies, Reply
  <2> QED BY <2>1, <2>3, <2>4
<1>3. CASE ShellRefuses
  <2>1. PICK l \in KeywordLines :
          ~Accepts(l[1], l[2]) /\ reply' = Reply(l[1], "none", <<l[2]>>, "refused", <<>>)
    BY <1>3 DEF ShellRefuses
  <2>2. l[1] \in {"spi_xfer", "reset", "uart_send"}
    BY <2>1, LinesRefused
  <2> QED BY <1>0, <2>1, <2>2 DEF Replies, Reply
<1>4. ASSUME \/ \E words \in 1..MaxWords : cmd_uart_send(words)
             \/ cmd_ping
             \/ \E pin \in Pins \cup {"BADPIN"} :
                  cmd_gpio_get(pin) \/ \E val \in {0, 1, 2} : cmd_gpio_set(pin, val)
             \/ \E pin \in {"PA0", "PA3", "BADPIN"}, raw \in Raws : cmd_adc_read(pin, raw)
             \/ \E freq \in Freqs, duty \in Duties : cmd_pwm_set(freq, duty)
             \/ \E argc \in 1..2 : cmd_pwm_capture(argc)
      PROVE  reply'.path \in {"uart_send", "ping", "gpio_get", "gpio_set", "adc_read",
                              "pwm_set", "pwm_capture"}
  <2>1. \A path, pin, sent, status, value : Reply(path, pin, sent, status, value).path = path
    BY DEF Reply
  <2>2. \A path : OK(path).path = path /\ Error(path).path = path
    BY <2>1 DEF OK, Error
  <2>3. ASSUME NEW words, cmd_uart_send(words) PROVE reply'.path = "uart_send"
    BY <2>2, <2>3 DEF cmd_uart_send
  <2>4. ASSUME cmd_ping PROVE reply'.path = "ping"
    BY <2>2, <2>4 DEF cmd_ping
  <2>5. ASSUME NEW pin, cmd_gpio_get(pin) PROVE reply'.path = "gpio_get"
    <3>1. \/ reply' = Error("gpio_get")
          \/ \E level \in Levels(fn', pin) :
               reply' = Reply("gpio_get", pin, <<>>, "value", <<level>>)
      BY <2>5 DEF cmd_gpio_get
    <3> QED BY <3>1 DEF Error, Reply
  <2>6. ASSUME NEW pin, NEW val, cmd_gpio_set(pin, val) PROVE reply'.path = "gpio_set"
    BY <2>2, <2>6 DEF cmd_gpio_set
  <2>7. ASSUME NEW pin, NEW raw, cmd_adc_read(pin, raw) PROVE reply'.path = "adc_read"
    BY <2>1, <2>2, <2>7 DEF cmd_adc_read
  <2>8. ASSUME NEW freq, NEW duty, cmd_pwm_set(freq, duty) PROVE reply'.path = "pwm_set"
    BY <2>2, <2>8 DEF cmd_pwm_set
  <2>9. ASSUME NEW argc, cmd_pwm_capture(argc) PROVE reply'.path = "pwm_capture"
    <3>1. \/ reply' = Error("pwm_capture")
          \/ \E c \in CaptureOn(PwmInCh) :
               reply' = Reply("pwm_capture", "none", <<>>, "value",
                              <<Second \div c.period, (c.pulse * 100) \div c.period>>)
      BY <2>9 DEF cmd_pwm_capture
    <3> QED BY <3>1 DEF Error, Reply
  <2> QED BY <1>4, <2>3, <2>4, <2>5, <2>6, <2>7, <2>8, <2>9
<1>5. CASE Echoed \/ DutSends \/ Recv \/ RecvTurn \/ RecvOverdue \/ RecvGivesUp \/ SimCapture
  BY <1>1, <1>5, Zenon
  DEF Echoed, DutSends, Recv, RecvTurn, RecvOverdue, RecvGivesUp, SimCapture
<1>6. ASSUME reply'.path \in {"uart_send", "ping", "gpio_get", "gpio_set", "adc_read",
                              "pwm_set", "pwm_capture"}
      PROVE  Replies'
  BY <1>0, <1>6 DEF Replies
<1> QED
  BY <1>1, <1>2, <1>3, <1>4, <1>5, <1>6, Zenon DEF DevNext, DeviceStep, UartStep, devVars

\* and those of the history of the echo.
LEMMA CountedNext == Counted /\ [DevNext]_devVars => Counted'
<1> SUFFICES ASSUME Counted, [DevNext]_devVars PROVE Counted'
  OBVIOUS
<1>1. CASE UNCHANGED echoVars
  BY <1>1 DEF Counted, echoVars
<1>2. ASSUME NEW words \in 1..MaxWords, cmd_uart_send(words) PROVE Counted'
  BY <1>2 DEF Counted, cmd_uart_send
<1>3. CASE Recv \/ RecvTurn \/ RecvGivesUp \/ Echoed
  <2>1. CASE Recv
    BY <2>1 DEF Counted, Recv
  <2>2. CASE RecvTurn
    <3>1. owed' \in {0, owed} /\ clean' = clean
      BY <2>2 DEF RecvTurn
    <3> QED BY <3>1 DEF Counted
  <2>3. CASE RecvGivesUp
    BY <2>3 DEF Counted, RecvGivesUp
  <2>4. CASE Echoed
    BY <2>4 DEF Counted, Echoed
  <2> QED BY <1>3, <2>1, <2>2, <2>3, <2>4
<1>4. CASE DutSends \/ RecvOverdue \/ DeviceStep
  BY <1>1, <1>4, DeviceFrame DEF DutSends, RecvOverdue
<1> QED
  BY <1>1, <1>2, <1>3, <1>4, Zenon DEF DevNext, UartStep, devVars

\* Every variable of the composition keeps its type: the pulse and the period fit 32
\* bits, tb spi trans answers bytes, a capture is a percentage, whatever is asked.
THEOREM DevTypeCorrect == DevSpec => []DevTypeOK
<1> DEFINE Typed == session \in Sessions /\ Signals /\ Replies /\ Counted
<1>1. DevInit => Typed /\ Wired /\ GpioInv
  <2> SUFFICES ASSUME DevInit PROVE Typed
    BY WiredInit, GpioInit
  <2>1. Signals
    BY PeripheralsAssumption
    DEF DevInit, Signals, NoSignal, NotSeen, PeripheralsAssumption
  <2>2. Replies
    BY DEF DevInit, Replies, Tree, OK, Reply
  <2> QED BY <2>1, <2>2 DEF DevInit, Counted
<1>2. Typed /\ Wired /\ GpioInv /\ [DevNext]_devVars => (Typed /\ Wired /\ GpioInv)'
  <2>1. [DevNext]_devVars => session' = session
    BY DEF DevNext, devVars
  <2> QED BY <2>1, SignalsNext, RepliesNext, CountedNext, WiredNext, GpioNext
<1>3. Typed /\ Wired /\ GpioInv => DevTypeOK
  BY DEF Signals, Replies, Counted, Wired, GpioInv, DevTypeOK
<1> QED BY <1>1, <1>2, <1>3, PTL DEF DevSpec
=============================================================================
