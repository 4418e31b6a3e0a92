# Verification of the Zephyr DUT testbench

TLA+ models of the testbench firmware (`DUT_Master/`), the host library that
drives it (`host/ZephyrShellLib/`) and the live monitor
(`host/standalone_monitor/`), with TLC runs on small instances and TLAPS proofs
for every instance. Paths below are relative to `src/`. `PROJECT.json` maps each
definition to the lines it models and lists every run, hazard, finding and
theorem.

## 1. The system

A Blackpill board runs Zephyr and offers `tb ...` shell commands over one UART.
Robot Framework tests on a PC send such commands through `ZephyrShellLib`. The
firmware reads and drives a device under test (DUT), and can pretend to be the
DC motor the DUT controls: every 200 ms it measures the DUT's output voltage and
steps a generated ODE model. The monitor is a second, independent client of the
same shell.

```
 Robot tests ──calls──► ZephyrShellLib ──┐                 ┌── shell thread ── tb pwm/adc/spi/gpio/uart
  (threads)              lock, retries   ├── one UART ─────┤        │ stores          ▲ ring buffer
 live monitor ──────► ShellSession, ─────┘  commands up,   │        ▼                 │
  reader, CSV, cleanup   StreamReader       answers and    └── tb motorsim ◄── work handler ◄── timer ISR
                                            MSIM lines down                    (system workqueue)
```

### Inventory

| Component | State | Operations | What must be right |
|---|---|---|---|
| Plant simulation, `tb_motorsim.c` | `sim_running`, `stream_enabled`, source, channel, `vmax_mv`, `step_count`, the solver's `X` and `U`, timer, work item | timer ISR, work handler, `start stop get stream source params` | no lock protects any of it: time, plant, configuration and output must agree whatever preempts what; a stopped plant must come to rest; a running one must step |
| Solver, `dc_motor/` | `X`, `U`, parameters (which outlive a run), solver object | `initialize`, `step`, derivatives | initialised before it is stepped; both states integrated equally often; a step is what the method promises; the response is that of a motor |
| Shell link, `transport.py`, `__init__.py` | input buffer, lock, attempt | `run`, `_drain`, `_extract`, retry | an answer belongs to its command; commands take effect in call order; a call ends |
| Motor and peripheral keywords | none but the stream they leave on | one call each; `collect_motorsim_samples`, `reset_testbench` also use the port outside the lock | do not break the calls of other threads |
| UART to the DUT, `tb_uart.c` | ring buffer (256), local `buf` (128) | receive ISR, `uart send`, `uart recv` | no byte lost, repeated, reordered; `buf[len] = '\0'` inside `buf`; `recv` ends |
| Monitor, `motorsim_monitor_wayland.py` | deque, stop event, CSV position, port, process | set-up, reader, CSV writer, `cleanup`, SIGINT | recovers from a dead predecessor; CSV in order and complete; leaves nothing running |
| Monitor, `motorsim_monitor_script.py` | as above | as above, with `get` before `start` | starts a simulation when none is running; the rest as above |
| PWM, `tb_pwm.c` | the signal on PA8 | set, capture | a capture finds what the last accepted set asked for; 32-bit arithmetic does not wrap; the simulation captures on the same channel |
| SPI, `tb_spi.c` | none of its own; its pins | transfer | every word of the line is sent and answered; it needs pins `tb gpio` can take away |
| GPIO, pin table, `tb_gpio.c`, `tb_pinmap.c` | direction and output bit of four pins | set, get | a level set on one end of a wire is read on the other |
| ADC, `tb_adc.c` | none | read | a failed read is an error |
| Shell command tree, `tb_cmds.c`; boot | none | registration, argument counts; set-up of timer and work item | every line the host sends reaches a handler; argument counts fit the buffers |
| Fixture loader | the parsed file | look-ups | - |
| Generated headers, board overlay, `prj.conf`, tests, docs | none | - | read as the justification of assumptions, or for what they promise |

### How the parts interact, and what is hard

* *Shared variables without locks.* The timer ISR submits a work item, the
  handler runs on the cooperative system workqueue above the shell thread and
  **blocks** in `read_input_voltage` (ADC, or up to 50 ms for a PWM capture). In
  that window the shell thread may execute any command, store by store.
* *An unreliable question-and-answer protocol.* The host has no request ids: it
  takes the first prompt it sees for the end of its answer. Late prompts,
  retries, stream lines between the bytes of an answer, and keywords that touch
  the port outside the lock all disturb it.
* *Crash and restart.* Nothing resets the testbench when a host program dies or
  a new one connects.
* *Capacities.* One pending work item, 256 unread bytes, 128 bytes of answer, 64
  bytes of SPI buffer against 62 registered arguments, a bounded deque.
* *State the commands leave behind.* A pin keeps its direction, the timer its
  signal, the plant its parameters, whatever the next command is about; no
  command resets the board.
* *Numbers.* Products on 32 bits, an explicit ODE solver at a fixed 200 ms, a
  double cut into an integer and three digits.

Every hazard is listed in `PROJECT.json` at its line, with the properties that
cover it or why none does yet.

## 2. Modules

| Module | Models | Extends |
|---|---|---|
| `PlantRun` | abstract specification of a plant run | - |
| `MotorSim` | the simulation: ISR, work handler, six commands | instance of `PlantRun` |
| `MotorSimProofs` | theorems about `MotorSim` | `MotorSim` |
| `ShellLink` | host threads, lock, retry, serial line, shell | - |
| `ShellLinkProofs` | theorems about `ShellLink`: lock, order | `ShellLink` |
| `AnswerProofs` | theorems about `ShellLink`: what calls return | `ShellLinkProofs` |
| `DutUart` | receive ISR, ring buffer, `tb uart recv` | - |
| `DutUartProofs` | theorems about `DutUart` | `DutUart` |
| `Peripherals` | the command tree and the commands of GPIO, SPI, ADC, PWM and UART, on one shell thread | `DutUart` |
| `PeripheralsProofs` | theorems about `Peripherals` | `Peripherals`, `DutUartProofs` |
| `RoundTripProofs` | theorem about `Peripherals`: the loopback of the UART | `PeripheralsProofs` |
| `Solver` | the numbers of a run: input scaling, ODE3, `fmt_double` | - |
| `SolverProofs` | theorems about `Solver` | `Solver` |
| `Monitor` | the threads of either version of the monitor, its processes one after another, the testbench as it sees it | - |
| `MonitorProofs` | theorems about `Monitor` | `Monitor` |
| `MC*` | the TLC instances | one each |

Definitions whose comment begins "Mutant of" are no part of a specification:
each is a plausible wrong version of the definition it names, with which the
property it is paired with in `PROJECT.json` fails.

### MotorSim

* *Grain.* `Tick` is one timer expiry. The handler is `WorkBegin` (up to the
  blocking read) and `WorkFinish` (all the rest: cooperative, so nothing on the
  shell thread runs inside it). A shell command is `Cmd*`, its checks, and then
  one action for each store to a shared variable, in source order, named by `pc`
  (`start.vmax`, `init.speed`, ..., `reply`). `ShellRuns` says the shell has the
  CPU only when the workqueue is empty or blocked.
* *Data.* A continuous state is its age: the solver steps since its initial
  condition was stored. A voltage is where it was acquired from. A parameter is
  the name of the set it came from. The numbers are in `Solver`.
* *History variables* (`ticks`, `lost`, `late`, `quiet`, `solverReady`) are read
  by no action of the program.
* *Properties.* `ClockAccuracy`: `step_count`, the simulation's only clock,
  equals the timer expiries less the dropped ones, to within two steps a
  previous run left over. `StopDrains`: at most one late step. `PlantMatchesClock`:
  both states are as old as the step count or one step older. `SolverSetUp`.
  `ConfigurationWhole`: no run sees half a `source` or half a `params`.
  `SnapshotOrder`: what a torn `get` can look like. `NoStrayLine`: silence after
  an OK that promises it. `VoltageFresh`: `U` is never reset, but a `get` that
  shows two steps or more shows a voltage of this run's input. `Progress`, `ImplementsPlantRun`.

### PlantRun

Three variables and five actions: reset, launch, begin, finish, halt. It says
that steps are begun only in a run and one at a time, that a step finished is
counted even if the run was halted since it was begun, that the count is not
reset in a run, and that a run inherits at most one step. `MotorSim` implements
it with `running <- sim_running`, `inflight <- wq = "reading"`,
`steps <- step_count`.

### ShellLink

* *The line.* `up` and `down` hold messages: a command, a newline; an echo, a
  body, a prompt, noise. `down` is what the host has not read. The line loses
  nothing; each of the shell's steps (`FwNewline`, `FwTake`, `FwExecute`,
  `FwPrompt`) may take any time, so a call may time out at any point before it
  has seen a prompt. While lines are streamed any message may come with `Noise`,
  an MSIM line or text with one inside; further noise in one buffer changes
  nothing a property sees, so `Join` keeps the first.
* *The host.* `Call` takes the lock; `Send` is `run` up to its write; `Drain`
  and `Return` are `_drain`, `_extract` and the test for `ERROR:`; `Timeout`,
  `RetryNewline`, `RetryFlush` are `_run_with_retry`. `CollectFlush`, `Sample`,
  `SampleEnd`, `ResetWrite`, `ResetFlush` are what two keywords do outside the
  lock.
* *Properties.* `CleanAnswer`: an attempt that began on a quiet line and that
  nobody disturbed returns exactly its own answer, whatever timed out before it,
  and raises exactly when that answer is an error. `AnsweredIsExecuted`: lines
  may be streamed over it, yet a call that returns has been executed as often as it
  was written; so `collect_motorsim_samples` leaves the stream on only when its last
  call timed out or somebody else's prompt ended it. `InCallOrder`: no late or
  repeated attempt of one call is executed once the firmware has begun to execute a
  later call. `CallEnds`. The lock's mutual exclusion is part of `TypeOK`. Two
  properties are false (section 4): `AnswerIsOwn` and `ErrorsAreRaised`.

### DutUart

A byte is its number of arrival and its kind. `uart_rx_isr` interrupts anywhere;
`RecvBegin`, `RecvGet`, `Deadline`, `RecvTimeout` are `cmd_uart_recv`. `Fifo`:
over any number of commands, chunks and deadlines the bytes are printed once and
in order, and none is missing but those that found the ring full or stood behind
a NUL. `TypeOK` keeps room in `buf` for the terminator. `RecvEnds`.

### Peripherals

`DutUart` with the rest of the testbench's commands beside it. `Tree` is the
table of `tb_cmds.c`; the shell runs a handler only for a command in it with a
number of arguments it allows, and `ShellRefuses` is its answer to any other line
of `KeywordLines`. One thread runs all handlers, so a handler is one action, its
error paths and the driver's failures as disjuncts; the ISR (`Echoed`,
`DutSends`) and the simulation's capture (`SimCapture`) come between any two, and
between the turns of `tb uart recv`.

* *The fixture is part of the model*: PA5 wired to PB3, MOSI to MISO, PA8 to PA1,
  and a DUT that echoes. A pin has a function (`fn`: unset, SPI1, input, output)
  and an output bit; what `gpio_pin_get` reads follows from the outputs on the
  pin's net, either level if there is none. What a driver does is external; that
  pinctrl gives pins to SPI1 at boot and never again is what makes `tb gpio` on
  PA5 or PA6 end SPI.
* *Arithmetic.* `PulseOf` takes the product modulo `Word`, the wrap of
  `uint32_t`; `atoi`'s negative numbers become huge ones.
* *Properties* are round trips, each over any sequence of commands, refused ones
  included: `GpioLoop`, `SpiLoop`, `PwmLoop` (exact range: 24 Hz to a hundredth
  of the clock), `RoundTrip` (a host that receives each line before it sends the
  next gets each line whole and alone, wherever the ISR interrupts). `UartAlone`:
  the composition implements `DutUart`. Not every line of a keyword
  reaches a handler; the theorem `LinesRefused` says which do not.

### Solver

A run with its numbers, one action a command and one a step. A double is an
integer count of 1/10000; a quotient is rounded down, so properties leave a few
counts. `rt_ertODEUpdateContinuousStates` is the three stages with their
coefficients for h = 0.2; `dc_motor_math_step` at a minor time step is
`Derivatives`. `Params` may change the plant between runs, and nothing changes it
back.

*Properties.* `ThirdOrder`: each step agrees with the Taylor polynomial of degree
three of the plant's solution, an independent definition of what ODE3 has to
compute. `Rises`, `SaneResponse`, `Settles`: a run starts from rest, climbs while
its input is constant, never overshoots the steady state nor turns backwards
whatever reads fail, and is there after four seconds. `Printed`: an `MSIM` line
is its numbers to half a thousandth.

### Monitor

The main thread's set-up and cleanup command by command, the reader thread (check
and read are two steps, so it may read once more after its stop event), the CSV
writer (row by row), SIGINT in a plot or a cleanup, and the death of the process
anywhere (`Die`), after which the testbench goes on and the next process is
launched. Each process is of one of the two `Versions`, which differ in their
set-up (`Ping` and `StopLeftover`, or `Get`) and share the rest. A command is
answered, or times out executed or not: the reader can take its answer. A
streamed line in front of an `ERROR:` makes it an answer without one.

*Properties.* `StartFindsNothing`: what an earlier process left running, streaming
or half stopped never makes the Wayland version's `start` fail.
`CsvInOrder`: the deque may move under the writer's position and no row is written
twice or out of order. `CleanExit`: a cleanup whose commands were answered leaves
nothing running. `CleanupEnds`. Two are false (section 4): `LogsAll` and
`StoppedIsStarted`. A process ends as `refused` when a command of its set-up was
answered with an error, as `exited` when its cleanup is over, and as `gone` when it
died or raised.

## 3. What the runs check

| Run | Checks | Instance | Shows |
|---|---|---|---|
| `motorsim` | ten safety properties, the refinement among them; `Progress` | a pin of both sources, a pin of none, 2 parameter sets, 2 ticks a run | all interleavings keep clock, plant, configuration and output consistent; a run keeps stepping |
| `link_safety` | `TypeOK`, `CleanAnswer`, `AnsweredIsExecuted`, `InCallOrder` | 2 threads, 2 calls, 1 retry, 6 keywords | the lock and the retry work when the line is quiet |
| `link_progress` | `CallEnds`, `AnsweredIsExecuted` | 1 thread, 1 call, simulation left streaming | a call ends with a dead shell and an endless stream; a garbled answer is still an answer |
| `link_answer` | `AnswerIsOwn`, violated | | a late prompt empties an answer |
| `link_error` | `ErrorsAreRaised`, violated | | a stream line hides an `ERROR:` |
| `devices_safety` | type invariants, `Fifo`, four round trips, `RecvEnds`, `UartAlone` | ring 4, buf 4, 6 bytes, SPI buffer 4, 7 frequencies, 9 duties | what goes out through the fixture comes back |
| `devices_pwm` | `SimSeesPwm`, violated | | the simulation captures on the wrong channel |
| `solver_safety` | `TypeOK`, `SaneResponse`, `Settles`, `Printed`, `Rises`, `ThirdOrder` | 2 plants, 24 steps, 2 changes of the input, 5 readings and 4 captures | the step, the response and the text are right |
| `solver_stiff` | `NeverNegative`, violated | the parameters of `motorsim_tests.robot:57` | a fixed step of 200 ms is too long for them |
| `monitor_safety` | `TypeOK`, `StartFindsNothing`, `CsvInOrder`, `CleanExit`, `CleanupEnds` | both versions, deque 2, 4 samples, 2 processes, 1 SIGINT | recovery, order, clean exit |
| `monitor_csv` | `LogsAll`, violated | deque 1, 2 samples | a full deque ends the log |
| `monitor_script` | `StoppedIsStarted`, violated | script version, deque 1, 1 sample | a stopped testbench is refused, not started |

**Bounds.** `MotorSim` caps timer expiries at two a run but neither runs nor
commands: two expiries are what it takes for one work item to wait behind a
blocked handler and be found still queued, and for a run to inherit both. `PA1` is a pin of both sources, `PB3` of none, so each look-up
succeeds and fails; a run starts on channel 0 of the ADC, on channel 1 or on the PWM. The proofs remove the bounds. Two threads with one retry each are
the least in which a retry of one call can meet another call, a late prompt of
the first attempt satisfy the second, and a keyword outside the lock interfere
with a call. In `Peripherals` a session says which
commands and which DUT are exercised together: those that share state are, those
that touch disjoint state are not, which changes nothing a property can see.
The ring is larger than the room in `buf`, six bytes overflow both, and the
longest line the ring can hold is in reach; a line needs two characters at
least and its newline. `Second` and `Word` are 10^9 and 2^32 divided by a
thousand, since TLC counts on 32 bits: the frequency at which the product wraps
stays where it is, and 20 and 24 Hz lie on its two sides. `SpiOptional` is two
below `MaxSpi`, as 62 is below 64. The proofs remove all these bounds. In
`Solver` the readings are a failed one, both ends of the scale and two inside;
24 steps are more than the 20 after which `Settles` looks, and two changes of the input
take a run up, down and up again. The plants are the default one and one whose time constants are just
above the step; with a stiffer one the property is the finding `solver_stiff`. In `Monitor` four samples are
two deques full, and two processes are one that dies and one that recovers; the
first state of the testbench is arbitrary, so earlier processes are covered.

**Fairness.** *MotorSim*: weak for the timer and the workqueue thread, which has
the highest priority of the threads; strong for the shell's step, because every
tick takes the CPU from it and the handler leaves most of each 200 ms unused.
Nobody is obliged to type a command. *ShellLink*: weak for what the host does of
its own accord, its deadline included; nothing is asked of the shell or the
line. *DutUart*, *Peripherals*: the clock reaches a deadline and the shell thread then
runs (`DevFairSpec`); the DUT owes nothing. *Monitor*: each thread of the process is scheduled and a command
ends by its timeout; nobody need close the window.

**Deadlock** is checked for `MotorSim`, `Peripherals` and `Solver`. It is switched off for
`ShellLink` and `Monitor`, which stop when their bounded calls, or samples and
processes, are used up.

## 4. What the code does and its documentation does not say

| Run | Where | Difference |
|---|---|---|
| `devices_pwm` | `tb_motorsim.c:91` | PA1 is channel 2 of TIM2, as the comment there and `tb_pwm.c:8` say; the simulation captures on channel 1, every capture times out and the plant sees 0 V |
| `solver_stiff` | `dc_motor_math.c:261` | with the parameters `motorsim_tests.robot:57` sets, the first step from rest at 0.25 V gives -34 rad/s; they stay set, so the step-response test above it fails in the next run of the suite |
| `link_answer` | `transport.py:93` | any prompt ends a drain, one still due included; the call returns an empty or an older answer |
| `link_error` | `__init__.py:124` | `ERROR:` is looked for at the start of the text only |
| `monitor_csv` | `motorsim_monitor_wayland.py:297` | an index into a bounded deque: the CSV stops when the deque is full, after 10000 samples |
| `monitor_script` | `motorsim_monitor_script.py:216` | the check before the start is `tb motorsim get`, which a stopped testbench answers with an error: the script version exits and starts nothing (on a running one its `start` is refused) |

Smaller ones, which the models contain and the properties state exactly rather
than refute:

* the handler checks `sim_running` before it blocks and not after, so one step
  may follow the OK of `tb motorsim stop` (`StopDrains` says at most one);
* `U` is never reset, so `tb motorsim get` before the second step may report a
  voltage of the last run (`VoltageFresh` says not after it);
* `tb uart recv` looks for the newline in the last byte only: lines that arrived
  together are answered as one (`RoundTrip` asks for a host that receives each
  line before it sends the next);
* some lines of the host's keywords reach no handler, and as the shell's answer does
  not begin with `ERROR:` the keywords return normally: every `SPI Transfer`, which
  sends `tb spi xfer` (so does the example of `README.md:92`) where `trans` is
  registered; `reset_testbench`, whose `tb reset` is not registered, so nothing is
  reset; `UART Send` with no text, or with more than 11 words (`LinesRefused`: these
  and no others);
* `collect_motorsim_samples` and `reset_testbench` flush and read the port without
  the lock, and can take the prompt another thread waits for; if switching the
  stream on or off times out, `collect_motorsim_samples` raises and may leave the stream on
  (`CleanAnswer` and `AnsweredIsExecuted` say what holds without such disturbance);
* `cleanup` sends `stream off` and `stop` in one `try`: if the first is not answered,
  the second is not sent and the simulation runs on (`CleanExit` asks that no command
  failed);
* `tb gpio` on PA5 or PA6 disables SPI until the next boot (`SpiLoop` says what
  holds until then);
* below 24 Hz `tb pwm set` may answer OK for a pulse that wrapped (`PwmLoop`).

## 5. What is proved

All theorems hold for every value of the constants under the named assumption
of the module (`ConstantsAssumption`: voltage limits are natural numbers and
include the default, there is a default parameter set, the tick bound is a natural
number; `UartAssumption`: the sizes are positive, the kinds of bytes are among
the three modelled, timeouts are integers; `PeripheralsAssumption`: sizes and
units are natural numbers, what a user types is an integer, an echo and a DUT do
not both drive PA3;
`SolverAssumption`: plants have positive inductance and inertia, the ADC gives 12
bits or an error; `LinkAssumption`: `NoCaller` is no thread, retries and calls are natural
numbers; `MonitorAssumption`: the versions are the two, the deque holds a
sample, the bounds are natural numbers).

**MotorSimProofs.** None of the safety properties is inductive: each depends on
where the shell thread stands between two stores. `IInv` therefore adds to
`TypeOK`:

* `CommandOfLabel` - which command the thread executes at each label, with the
  channel its look-up gave;
* `Control` - the timer runs only in a run, and what the checks of a command
  established still holds at its stores, since only the shell thread writes
  `sim_running`. This is the step from "checked" to "used" that the code takes
  without a lock;
* `Clock`, `Drain`, `Alignment` - how far count, timer and the two states may be
  apart at each store of `start`; the key is that a stopped simulation has at
  most one step left, the handler in its read (`late + Reading <= 1`);
* `Solver`, `Silence`, `Configuration`, `Snapshot` - the other properties,
  extended to the labels between two stores;
* `Fresh` - once a run's first initial condition is stored, the only reading of
  another input that can still reach the plant is the one in progress, and it
  makes the first step. This is why two steps suffice in `VoltageFresh`.

One lemma per part shows that each action that can disturb it preserves it;
`TypeCorrect`, `ClockCorrect`, `StopCorrect`, `PlantCorrect`, `SolverCorrect`,
`ConfigurationCorrect`, `SnapshotCorrect`, `SilenceCorrect` and `FreshCorrect`
follow.
`Implementation` proves `Spec => ImplementsPlantRun`: every step maps to a step
of `PlantRun` or a stutter, where `Launch` needs `Drain`.

**DutUartProofs.** `IInv` is `TypeOK`, `Fifo`, and that `buf` is empty between two
commands. The argument is about the stream `printed \o buf \o ring`: the ISR
appends a byte with a larger number (`AppendIncreasing`); a chunk moves from ring
to buf and leaves the stream as it is (`Split`, `Regroup`); printing leaves out
one block, the bytes behind a NUL (`PrintShortens`), which keeps the order
(`ShortenedIncreasing`) and accounts for the numbers (`ShortenedNumbers`).
Results: `TypeCorrect` and `FifoCorrect`.

**PeripheralsProofs.** `Composition` proves `DevSpec => UartAlone`: each command
that is not of the UART is a stutter of `DutUart`, each UART step one of its
actions; `FifoInDevices` carries `FifoCorrect` over. The proof keeps one fact, `WiredInit`
and `WiredNext`: an echo in flight holds only kinds of bytes a DUT may send. Each round trip has
an invariant over the few variables it concerns, and one frame lemma says that
every other action leaves them alone: `GpioCorrect` (a pin last set is an output
with that bit, and on a net the last command decides), `SpiCorrect` (assumes
`SpiOptional < MaxSpi`; with as many arguments as bytes it is false),
`PwmCorrect` (the signal is that of the last accepted set; the rest is arithmetic:
where the product does not wrap, two roundings down cost one percent of duty and
two percent of frequency). `DevTypeCorrect` goes through the keywords' lines and the table of
commands (`LinesRefused`: which of them the shell refuses, for texts of any length,
the empty one included); it needs that what `tb spi trans` parses is a byte
and that a capture is of a pulse within its period.

**RoundTripProofs.** `RoundTripCorrect` follows one line from `tb uart send` to the
answer of `tb uart recv`. `Exchange` says, while the host has waited for each line
before it sent the next: either nothing is under way and the last answer is the whole
last line (`Settled`), or one line is, split between the wire and what has come off it
(`UnderWay`). There the newline is the last byte on the wire or of those that came
(`Closing`), and what came are the first bytes of the line, in order and with nothing
before them (`Coming`). So `recv`, which looks for a newline in the last byte only,
finds it exactly when the line is complete, wherever the ISR interrupts it.

**SolverProofs.** `FmtShows`, a lemma about `fmt_double` for every integer: three
digits, half a thousandth, the right sign, the carry included. With the invariant
that the line is the text of the last step's numbers, `PrintedCorrect`;
`TypeCorrect` for every plant.

`ThirdOrderCorrect` holds for every plant that is `Gentle`: the coefficients of each
equation add up, whatever their signs, to at most 14 a second. The default plant is, at
11; the method is unstable at 0.2 s beyond 12.5 a second, and the test's parameters of
`solver_stiff`, at 200, are far outside. The algebra of ODE3 is exact; what the
hypothesis bounds is how much a stage's rounding can grow in the next one.
`SecondStage` and `ThirdStage` compare the derivative found there with its Taylor
terms, for one equation of either state, and `Weighted` adds the stages up.

`SaneCorrect` and `SettlesCorrect` are about the plant of `dc_motor_math_params.c`
(`params = DefaultPlant`, whatever was set before; its parameters are whole numbers of
the unit, `Exact`), for every sequence of readings, every full scale and any number of
steps. Neither property is inductive: a speed within its bounds may come with a current that
takes it out of them. `Sane` adds a bound on `current - 5 * speed`, the direction in
which the two fall together; `SaneStep` shows that a step at any voltage from 0 to full
scale keeps the four bounds. On a constant input `Rising` says how much the current still
lacks, and `RisingStep` that a step leaves at most 18/25 of it; after 20 steps a five
hundredth is left (`Shrinks`), less than `Settles` allows.

**ShellLinkProofs.** `Host`: a thread is in a call exactly while it holds the lock,
and that call is the last one begun. `Attempts`: how often it has been written, at
each place of the retry loop. `Line` is about the commands on their way. They are in
call order (`Upward`), none is older than what has been executed (`Executed`), and
none is missing (`Numbered`): the attempts that were written and not yet taken are
on the line, each once. To say the last without counting, the invariant asks for a
numbering of the line; `TakeLine` shifts it, since the head is the next attempt of
its call, and `PushLine` extends it. Results: `TypeCorrect` (mutual exclusion) and
`OrderCorrect`, for any number of threads, calls and retries and any delay.

**AnswerProofs.** `AnswerCorrect` (`CleanAnswer`) and `ExecutedCorrect`
(`AnsweredIsExecuted`). The invariant `AInv` adds to `IInv` where an attempt stands
that was alone on the line when it was written and that nobody has disturbed since
(`Lone`): written, being executed, prompting or done. Each says what is on the line,
what the shell does and what has come down to the host, read or not
(`Raw`); no prompt has come before the last of them, which is why a prompt found there
ends the drain of this attempt and of no other. If in addition nothing was streamed,
`Raw` is echo, answer and prompt one after the other. `Join` keeps one piece of noise and drops
the rest, so `Raw` is a concatenation only without it (`JoinMembers`), and
`WithoutPrompt` is what `_extract` leaves of a clean buffer. Both go down to the least
element of a set of numbers (`LeastNumber`), a least counterexample in place of an
induction.

**MonitorProofs.** `IInv` has three parts. `Control` is what the main thread knows
where it stands (`Phase`): a stop that was answered has been executed, so nothing
runs at `start`; a closed port was closed by a cleanup that stopped the
testbench, unless a command failed. `Counts` are the bounds. `Flow` follows the
samples: numbers rise from the port through the deque to the file, and everything
behind the writer's position in the deque is above every row written or about to
be (`Ahead`). That part makes the moving deque harmless: forgetting elements
moves larger ones to the front (`LastOrder`), so a stale position skips samples
and never repeats one. Results: `TypeCorrect`, `StartCorrect`, `ExitCorrect` and
`CsvCorrect`, for any deque and any number of processes.

**Model-checked only.** Liveness (`Progress`,
`CallEnds`, `RecvEnds`, `CleanupEnds`): the prover does not reason about fairness
and ENABLED. `Rises`, and `ThirdOrder`, `SaneResponse` and `Settles` for plants the
theorems do not cover: in the fixed point of the model the speed may stand still or
give way by one count near its steady state, and no simple set of states that a step
keeps was found which excludes two.

## 6. Not modelled, and the plan

Not modelled on purpose: infinities, NaN and the rounding of doubles (`params`
accepts an inductance of 0; the model does not); wording and layout, plotting,
logging, the diagnostic watchdog, the macros and types of the generated headers,
the Zephyr drivers and shell tokeniser beyond what the code relies on. What two
captures on one timer at once do, and whether a capture may report a period of 0,
the driver decides, outside the repository. A 32-bit `step_count * 200` wraps
after fifty days of one run, beyond any count TLC can reach.

In the order planned:

1. **Proofs** - `Rises` for the default plant; `SaneResponse` and `Settles` for a
   class of plants instead of one; the wrap-free range of `PwmLoop` as a statement
   about `PulseOf` alone.
2. **TestSession** - `ShellLink`'s keywords over `MotorSim`'s commands: what a
   suite leaves behind when `collect_motorsim_samples` fails half-way, parsing
   of MSIM lines, the fixture's look-ups; an abstract specification of a call
   (asked, executed at most `retries + 1` times, answered) that `ShellLink`
   implements.
