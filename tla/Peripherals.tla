----------------------------- MODULE Peripherals -----------------------------
(***************************************************************************)
(* The peripheral commands of the shell, tb_cmds.c and the handlers in     *)
(* tb_gpio.c, tb_spi.c, tb_adc.c, tb_pwm.c and tb_uart.c, composed with    *)
(* DutUart: one shell thread runs them all, one command at a time, while   *)
(* the receive ISR and the capture of the simulation go on beside it.      *)
(*                                                                         *)
(* The test fixture is part of the model: PA5 is wired to PB3, MOSI to     *)
(* MISO, the PWM output PA8 to the capture pin PA1, and, in sessions with  *)
(* "echo", PA2 to PA3. In sessions with "dut" a DUT drives PA3 instead and *)
(* sends what it likes.                                                    *)
(*                                                                         *)
(* The argument checks at the head of the handlers (argc < 3 and the like) *)
(* are left out: the shell counts the arguments first, against the table   *)
(* in tb_cmds.c, and they never fail.                                      *)
(***************************************************************************)
EXTENDS DutUart

CONSTANTS
  Sessions,     \* what is exercised together: sets of "gpio", "spi", "pwm", "adc",
                \* "echo", "dut", "host"
  Second,       \* 1000000000U, nanoseconds in a second
  Word,         \* 2^32, the number of values of a uint32_t
  Freqs, Duties,\* values of <hz> and <duty%> as atoi reads them
  Raws,         \* readings of the ADC
  Hex,          \* words of tb spi trans as strtoul reads them, NotHex for others
  MaxSpi,       \* size of tx_buf and rx_buf
  SpiOptional,  \* optional arguments tb_cmds.c registers for tb spi trans
  MaxWords      \* bound: words the keywords for SPI and UART put in a line

NotHex == -1
Pins   == {"PA5", "PA6", "PB3", "PB4"}

ASSUME PeripheralsAssumption ==
  /\ {"char", "newline"} \subseteq Kinds
  /\ Second \in Nat \ {0} /\ Word \in Nat \ {0}
  /\ Freqs \subseteq Int /\ Duties \subseteq Int
  /\ Raws \subseteq 0..4095 /\ Hex \subseteq Nat \cup {NotHex}
  /\ MaxSpi \in Nat /\ SpiOptional \in Nat /\ MaxWords \in Nat
  /\ \A s \in Sessions : ~({"echo", "dut"} \subseteq s)  \* one of them drives PA3

VARIABLES
  session,  \* chosen once, see Sessions
  fn,       \* what drives a pin: "reset" nothing, "spi" SPI1, or "input", "output"
  odr,      \* its bit in the output data register
  pwm,      \* the signal on PA8, in ns
  wire,     \* the bytes on their way from PA2 to PA3
  reply     \* to the last command but tb uart recv, whose reply is answer
\* History.
VARIABLES
  asked,    \* for each pin, the level of the last command on it if that was a set
  wanted,   \* the last tb pwm set that was answered OK
  seen,     \* duty the simulation has captured since, NotSeen before
  line,     \* numbers of the first and the last byte of the last tb uart send
  owed,     \* lines sent since the last tb uart recv ended
  clean     \* so far each line was received before the next one was sent

pinVars  == <<fn, odr, asked>>
pwmVars  == <<pwm, wanted, seen>>
echoVars == <<wire, line, owed, clean>>
devVars  == <<vars, session, pinVars, pwmVars, echoVars, reply>>
-----------------------------------------------------------------------------
NotSeen == -1
NoLevel == -1
NoSignal == [period |-> 0, pulse |-> 0]

Reply(path, pin, sent, status, value) ==
  [path |-> path, pin |-> pin, sent |-> sent, status |-> status, value |-> value]

OK(path)    == Reply(path, "none", <<>>, "OK", <<>>)
Error(path) == Reply(path, "none", <<>>, "ERROR", <<>>)

\* Mutant of Tree: as many optional arguments for tb spi trans as there are bytes.
TreeManyBytes ==
  [gpio_set    |-> <<3, 0>>,  gpio_get  |-> <<2, 0>>,  adc_read |-> <<2, 0>>,
   spi_trans   |-> <<3, MaxSpi>>,
   uart_send   |-> <<3, 10>>, uart_recv |-> <<3, 0>>,
   pwm_set     |-> <<4, 0>>,
   pwm_capture |-> <<1, 1>>,  ping      |-> <<1, 0>>]

\* The commands with the arguments they must and may have, their own name counted.
\* The subcommands of tb motorsim are in MotorSim.
Tree ==
  [gpio_set    |-> <<3, 0>>,  gpio_get  |-> <<2, 0>>,  adc_read |-> <<2, 0>>,
   spi_trans   |-> <<3, SpiOptional>>,
   uart_send   |-> <<3, 10>>, uart_recv |-> <<3, 0>>,
   pwm_set     |-> <<4, 0>>,
   pwm_capture |-> <<1, 1>>,  ping      |-> <<1, 0>>]

\* The shell runs the handler of a command it knows, with the arguments it expects.
Accepts(path, argc) ==
  /\ path \in DOMAIN Tree
  /\ argc \in Tree[path][1]..Tree[path][1] + Tree[path][2]

\* The lines the keywords of peripheral_keywords.py send. Pins, buses, devices and
\* numbers are one word each; a payload is any number of words as the shell splits it,
\* none if no bytes are given or the text is blank.
KeywordLines ==
  {<<"gpio_set", 3>>, <<"gpio_get", 2>>, <<"adc_read", 2>>, <<"uart_recv", 3>>,
   <<"pwm_set", 4>>, <<"pwm_capture", 2>>, <<"ping", 1>>, <<"reset", 1>>}
  \cup {<<path, 2 + n>> : path \in {"spi_xfer", "uart_send"}, n \in 0..MaxWords}

DevInit ==
  /\ Init
  /\ session \in Sessions
  /\ fn = [p \in Pins |-> IF p \in {"PA5", "PA6"} THEN "spi" ELSE "reset"]
  /\ odr = [p \in Pins |-> 0] /\ asked = [p \in Pins |-> NoLevel]
  /\ pwm = NoSignal /\ wanted = [freq |-> 0, duty |-> 0] /\ seen = NotSeen
  /\ wire = <<>> /\ line = <<1, 0>> /\ owed = 0 /\ clean = TRUE
  /\ reply = OK("ping")
-----------------------------------------------------------------------------
(* The shell                                                               *)

\* The shell thread starts the handler of path; no handler of this module touches
\* what the ISR and tb uart recv share.
Handles(path, argc) == pc = "idle" /\ Accepts(path, argc) /\ UNCHANGED vars

\* The shell answers a line it cannot run with a help text, no "ERROR" in it.
ShellRefuses ==
  /\ pc = "idle" /\ "host" \in session
  /\ \E l \in KeywordLines :
       /\ ~Accepts(l[1], l[2])
       /\ reply' = Reply(l[1], "none", <<l[2]>>, "refused", <<>>)
  /\ UNCHANGED <<vars, pinVars, pwmVars, echoVars>>

cmd_ping ==
  /\ "host" \in session
  /\ Handles("ping", 1)
  /\ reply' = OK("ping")
  /\ UNCHANGED <<pinVars, pwmVars, echoVars>>
-----------------------------------------------------------------------------
(* GPIO and SPI                                                            *)

\* GPIO_OUTPUT takes the pin from SPI1 for good: pinctrl is applied at boot only.
cmd_gpio_set(pin, val) ==
  /\ "gpio" \in session
  /\ Handles("gpio_set", 3)
  /\ \/ /\ pin \notin Pins
        /\ reply' = Error("gpio_set")
        /\ UNCHANGED pinVars
     \/ /\ pin \in Pins
        /\ fn' = [fn EXCEPT ![pin] = "output"]
        /\ odr' = [odr EXCEPT ![pin] = IF val = 0 THEN 0 ELSE 1]
        /\ asked' = [asked EXCEPT ![pin] = IF val = 0 THEN 0 ELSE 1]
        /\ reply' = OK("gpio_set")
  /\ UNCHANGED <<pwmVars, echoVars>>

\* The pins on the net of pin, itself included.
Net(pin) == IF pin \in {"PA5", "PB3"} THEN {"PA5", "PB3"} ELSE {pin}

\* The levels pin may read, with the pins configured as f says: that of an output
\* on its net, either one if nothing or SPI1 drives it.
Levels(f, pin) ==
  LET drivers == {p \in Net(pin) : f[p] = "output"}
  IN  IF drivers = {} THEN {0, 1} ELSE {odr[p] : p \in drivers}

\* Mutant of cmd_gpio_get: the pin is read as it is configured.
GetAsConfigured(pin) ==
  /\ "gpio" \in session
  /\ Handles("gpio_get", 2)
  /\ \/ /\ pin \notin Pins
        /\ reply' = Error("gpio_get")
        /\ UNCHANGED pinVars
     \/ /\ pin \in Pins
        /\ \E level \in Levels(fn, pin) :
             reply' = Reply("gpio_get", pin, <<>>, "value", <<level>>)
        /\ asked' = [asked EXCEPT ![pin] = NoLevel]
        /\ UNCHANGED <<fn, odr>>
  /\ UNCHANGED <<pwmVars, echoVars>>

\* Reading a pin makes it an input: it no longer drives what it drove.
cmd_gpio_get(pin) ==
  /\ "gpio" \in session
  /\ Handles("gpio_get", 2)
  /\ \/ /\ pin \notin Pins
        /\ reply' = Error("gpio_get")
        /\ UNCHANGED pinVars
     \/ /\ pin \in Pins
        /\ fn' = [fn EXCEPT ![pin] = "input"]
        /\ \E level \in Levels(fn', pin) :
             reply' = Reply("gpio_get", pin, <<>>, "value", <<level>>)
        /\ asked' = [asked EXCEPT ![pin] = NoLevel]
        /\ UNCHANGED odr
  /\ UNCHANGED <<pwmVars, echoVars>>

\* Mutant of parse_hex_args: the number is not cut to a byte.
ParseWhole(words) ==
  LET n == least(Len(words), MaxSpi) IN [i \in 1..n |-> words[i]]

\* The bytes of the first MaxSpi words. strtoul takes any number, the cast its last
\* byte; none of these words may be NotHex.
parse_hex_args(words) ==
  LET n == least(Len(words), MaxSpi) IN [i \in 1..n |-> words[i] % 256]

\* With SPI1 on its pins the bytes come back; without, the master may see MISO stuck.
\* The bus index is not looked at.
cmd_spi_transfer(words) ==
  /\ "spi" \in session
  /\ Handles("spi_trans", 2 + Len(words))
  /\ LET tx == parse_hex_args(words)
     IN  \/ /\ \E i \in DOMAIN tx : words[i] = NotHex
            /\ reply' = Error("spi_trans")
         \/ /\ \A i \in DOMAIN tx : words[i] # NotHex
            /\ \E rx \in {tx} \cup {[i \in DOMAIN tx |-> noise] : noise \in {0, 255}} :
                 /\ fn["PA5"] = "spi" /\ fn["PA6"] = "spi" => rx = tx
                 /\ reply' = Reply("spi_trans", "none", words, "value", rx)
         \/ /\ \A i \in DOMAIN tx : words[i] # NotHex
            /\ reply' = Error("spi_trans")   \* spi_transceive fails
  /\ UNCHANGED <<pinVars, pwmVars, echoVars>>
-----------------------------------------------------------------------------
(* ADC and PWM                                                             *)

\* adc_read fails or gives a reading of 12 bits.
cmd_adc_read(pin, raw) ==
  /\ "adc" \in session
  /\ Handles("adc_read", 2)
  /\ \/ reply' = Error("adc_read")
     \/ /\ pin \in {"PA0", "PA1", "PA2", "PA3"}
        /\ reply' = Reply("adc_read", pin, <<raw>>, "value", <<(raw * 3300) \div 4095>>)
  /\ UNCHANGED <<pinVars, pwmVars, echoVars>>

\* Mutant of PulseOf: the division comes first, so that nothing wraps.
PulseEarly(period, duty) == (period \div 100) * duty

\* pulse_ns: the product is taken on 32 bits.
PulseOf(period, duty) == ((period * duty) % Word) \div 100

\* The pin is not looked at. atoi gives an int, the uint32_t takes it modulo 2^32: a
\* negative frequency is a huge one and gives a period of 0.
cmd_pwm_set(freq, duty) ==
  /\ "pwm" \in session
  /\ Handles("pwm_set", 4)
  /\ LET freq_hz   == freq % Word
         duty_pct  == duty % Word
         period_ns == Second \div freq_hz
     IN  \/ /\ freq_hz = 0 \/ duty_pct > 100
            /\ reply' = Error("pwm_set")
            /\ UNCHANGED pwmVars
         \/ /\ freq_hz # 0 /\ duty_pct <= 100
            /\ reply' = Error("pwm_set")   \* pwm_set fails: beyond the timer
            /\ UNCHANGED pwmVars
         \/ /\ freq_hz # 0 /\ duty_pct <= 100
            /\ pwm' = [period |-> period_ns, pulse |-> PulseOf(period_ns, duty_pct)]
            /\ wanted' = [freq |-> freq_hz, duty |-> duty_pct]
            /\ seen' = NotSeen
            /\ reply' = OK("pwm_set")
  /\ UNCHANGED <<pinVars, echoVars>>

\* What channel ch of TIM2 captures within the timeout: on channel 2, PA1, the signal
\* of PA8, unless it has no edges.
CaptureOn(ch) == IF ch = 2 /\ 0 < pwm.pulse /\ pwm.pulse < pwm.period THEN {pwm} ELSE {}

\* PWM_IN_CH
PwmInCh == 2

cmd_pwm_capture(argc) ==
  /\ "pwm" \in session
  /\ Handles("pwm_capture", argc)
  /\ \/ /\ CaptureOn(PwmInCh) = {}
        /\ reply' = Error("pwm_capture")
     \/ \E c \in CaptureOn(PwmInCh) :
          reply' = Reply("pwm_capture", "none", <<>>, "value",
                         <<Second \div c.period, (c.pulse * 100) \div c.period>>)
  /\ UNCHANGED <<pinVars, pwmVars, echoVars>>

\* pin_to_pwm_channel("PA1")
SimChannel == 1

\* The work handler of a simulation started on pwm PA1 reads its input, in percent of
\* vmax; a capture that fails counts as 0.
SimCapture ==
  /\ "pwm" \in session
  /\ seen' = (IF CaptureOn(SimChannel) = {} THEN 0
              ELSE least(100, (pwm.pulse * 100) \div pwm.period))
  /\ UNCHANGED <<vars, pinVars, pwm, wanted, echoVars, reply>>
-----------------------------------------------------------------------------
(* UART                                                                    *)

\* Mutant of cmd_uart_send: what is still in the ring buffer is thrown away first.
SendFlushes(words) ==
  /\ "echo" \in session
  /\ pc = "idle" /\ Accepts("uart_send", 2 + words)
  /\ LET sent  == 2 * words + 1
         first == arrived + Len(wire) + 1
     IN  /\ first + sent - 1 <= MaxBytes
         /\ wire' = wire \o Append([i \in 1..sent - 1 |-> "char"], "newline")
         /\ line' = <<first, first + sent - 1>>
  /\ ring' = <<>>
  /\ owed' = owed + 1
  /\ clean' = (clean /\ owed = 0)
  /\ reply' = OK("uart_send")
  /\ UNCHANGED <<pc, buf, overdue, answer, arrived, dropped, printed, cut, pinVars,
                 pwmVars>>

\* Words of one character, joined by spaces, then a carriage return and a newline. The
\* device name is not looked at. The DUT echoes.
cmd_uart_send(words) ==
  /\ "echo" \in session
  /\ Handles("uart_send", 2 + words)
  /\ LET sent  == 2 * words + 1
         first == arrived + Len(wire) + 1
     IN  /\ first + sent - 1 <= MaxBytes
         /\ wire' = wire \o Append([i \in 1..sent - 1 |-> "char"], "newline")
         /\ line' = <<first, first + sent - 1>>
  /\ owed' = owed + 1
  /\ clean' = (clean /\ owed = 0)
  /\ reply' = OK("uart_send")
  /\ UNCHANGED <<pinVars, pwmVars>>

Echoed ==
  /\ wire # <<>>
  /\ uart_rx_isr(Head(wire))
  /\ wire' = Tail(wire)
  /\ UNCHANGED <<line, owed, clean, pinVars, pwmVars, reply>>

DutSends ==
  /\ "dut" \in session
  /\ \E kind \in Kinds : uart_rx_isr(kind)
  /\ UNCHANGED <<echoVars, pinVars, pwmVars, reply>>

Uses(what) == what \cap session # {}

Recv ==
  /\ Uses({"echo", "dut"}) /\ Accepts("uart_recv", 3)
  /\ \E timeout_ms \in Timeouts : RecvBegin(timeout_ms)
  /\ clean' = (clean /\ owed = 1)
  /\ UNCHANGED <<wire, line, owed, pinVars, pwmVars, reply>>

RecvTurn ==
  /\ RecvGet
  /\ owed' = (IF pc' = "idle" THEN 0 ELSE owed)
  /\ UNCHANGED <<wire, line, clean, pinVars, pwmVars, reply>>

RecvOverdue == Deadline /\ UNCHANGED <<echoVars, pinVars, pwmVars, reply>>

RecvGivesUp ==
  /\ RecvTimeout
  /\ owed' = 0 /\ clean' = FALSE
  /\ UNCHANGED <<wire, line, pinVars, pwmVars, reply>>
-----------------------------------------------------------------------------
\* Words of tb spi trans: up to one more than the buffers hold.
Words == UNION {[1..n -> Hex] : n \in 1..MaxSpi + 1}

DeviceStep ==
  \/ ShellRefuses \/ cmd_ping
  \/ \E pin \in Pins \cup {"BADPIN"} :
       cmd_gpio_get(pin) \/ \E val \in {0, 1, 2} : cmd_gpio_set(pin, val)
  \/ \E words \in Words : cmd_spi_transfer(words)
  \/ \E pin \in {"PA0", "PA3", "BADPIN"}, raw \in Raws : cmd_adc_read(pin, raw)
  \/ \E freq \in Freqs, duty \in Duties : cmd_pwm_set(freq, duty)
  \/ \E argc \in 1..2 : cmd_pwm_capture(argc)
  \/ SimCapture

UartStep ==
  \/ \E words \in 1..MaxWords : cmd_uart_send(words)
  \/ Echoed \/ DutSends \/ Recv \/ RecvTurn \/ RecvOverdue \/ RecvGivesUp

DevNext == (DeviceStep \/ UartStep) /\ UNCHANGED session

DevSpec == DevInit /\ [][DevNext]_devVars

\* As FairSpec of DutUart: time passes and the shell thread gets the CPU.
DevFairSpec == /\ DevSpec
               /\ WF_devVars(RecvOverdue /\ UNCHANGED session)
               /\ WF_devVars(RecvGivesUp /\ UNCHANGED session)
-----------------------------------------------------------------------------
(* Safety                                                                  *)

DevTypeOK ==
  /\ session \in Sessions
  /\ fn \in [Pins -> {"reset", "spi", "input", "output"}]
  /\ odr \in [Pins -> 0..1] /\ asked \in [Pins -> {NoLevel, 0, 1}]
  /\ pwm \in [period : 0..Second, pulse : 0..Word - 1]
  /\ wanted \in [freq : 0..Word - 1, duty : 0..100] /\ seen \in NotSeen..100
  /\ wire \in Seq({"char", "newline"}) /\ owed \in Nat /\ clean \in BOOLEAN
  /\ reply.path \in DOMAIN Tree \cup {"spi_xfer", "reset"}
  /\ reply.path = "spi_trans" => \A i \in DOMAIN reply.value : reply.value[i] \in 0..255

\* Whatever was done to either pin before, once tb gpio set was the last command on a
\* pin, tb gpio get on the pin wired to it answers that level, set to get across any
\* other commands: get first makes its own pin an input, which ends what it drove.
GpioLoop ==
  reply.path = "gpio_get" /\ reply.status = "value" =>
    \A p \in Net(reply.pin) : asked[p] # NoLevel => reply.value = <<asked[p]>>

\* While tb gpio has left its pins to SPI1 a loopback answers every word of the
\* command line, as a byte, and none is cut off: the arguments tb_cmds.c lets through
\* fit tx_buf and rx_buf.
SpiLoop ==
  reply.path = "spi_trans" /\ reply.status = "value"
    /\ fn["PA5"] = "spi" /\ fn["PA6"] = "spi"
    => /\ Len(reply.value) = Len(reply.sent)
       /\ \A i \in DOMAIN reply.value : reply.value[i] = reply.sent[i] % 256

\* The frequencies for which the product of cmd_pwm_set does not wrap, 24 Hz and above,
\* and a percent of the period is at least a nanosecond.
InRange(freq) == freq * 100 <= Second /\ (Second \div freq) * 100 < Word

\* Round trip PA8 to PA1: tb pwm capture finds the frequency of the last tb pwm set
\* that was answered OK within 2 percent and its duty within 1, however many sets were
\* refused since.
PwmLoop ==
  reply.path = "pwm_capture" /\ reply.status = "value" /\ InRange(wanted.freq) =>
    /\ reply.value[1] >= wanted.freq
    /\ 50 * (reply.value[1] - wanted.freq) <= wanted.freq
    /\ reply.value[2] \in {wanted.duty - 1, wanted.duty}

\* A host that receives each line before it sends the next, and whose deadlines
\* suffice, gets for each recv the line it sent last, whole and alone, wherever the ISR
\* interrupts, if the line fits the ring buffer.
RoundTrip ==
  clean /\ pc = "idle" /\ owed = 0 /\ answer # NoAnswer
    /\ line[2] - line[1] < RingSize
    => /\ Len(answer.text) = line[2] - line[1] + 1
       /\ \A i \in DOMAIN answer.text : answer.text[i].n = line[1] + i - 1
-----------------------------------------------------------------------------
(* Refinement                                                              *)

\* For the ring buffer and tb uart recv the other commands are as if they were not
\* there: the composition is a DutUart.
UartAlone == Spec
-----------------------------------------------------------------------------
(* What the documentation says and the code does not do                    *)

\* "a PWM duty cycle, interpreted as 0-100% -> 0-Vmax", PA1 being TIM2 CH2: the
\* simulation sees the duty cycle that is on the pin.
SimSeesPwm ==
  seen # NotSeen /\ CaptureOn(2) # {} /\ InRange(wanted.freq)
    => seen \in {wanted.duty - 1, wanted.duty}
=============================================================================
