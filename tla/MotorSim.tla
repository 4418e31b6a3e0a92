------------------------------ MODULE MotorSim ------------------------------
(***************************************************************************)
(* The DC motor plant simulation of the testbench firmware                 *)
(* (DUT_Master/src/tb_motorsim.c).                                         *)
(*                                                                         *)
(* Three contexts share the module's static variables without any lock:    *)
(*                                                                         *)
(*   - the kernel timer ISR, which only submits a work item (Tick);        *)
(*   - the system workqueue thread, which runs motorsim_work_handler. The  *)
(*     handler blocks in read_input_voltage and runs without blocking      *)
(*     after it, so it is two steps: WorkBegin and WorkFinish;             *)
(*   - the shell thread, of the lowest priority, which runs one tb         *)
(*     motorsim command at a time. It can lose the CPU between any two     *)
(*     stores, so a command is one Cmd* step that checks and one step per  *)
(*     store to a shared variable, ordered by pc.                          *)
(*                                                                         *)
(* Floating point is abstracted: each continuous state of the plant is     *)
(* the number of solver steps taken since its initial condition was        *)
(* stored (its age), and a voltage is the input it was acquired from.      *)
(***************************************************************************)
EXTENDS Integers, FiniteSets

CONSTANTS
  Pins,       \* pin names given on the command line
  VmaxVals,   \* values of the optional [vmax_mv] argument, its default too
  ParamSets,  \* names of the parameter sets given to tb motorsim params
  MaxTicks    \* bound: timer expiries of one run

ASSUME ConstantsAssumption ==
  /\ VmaxVals \subseteq Nat /\ 3300 \in VmaxVals
  /\ "default" \in ParamSets
  /\ MaxTicks \in Nat

VARIABLES
  sim_running, stream_enabled, input_source, input_channel, vmax_mv,
  step_count,  \* solver steps since cmd_motorsim_start reset it
  X,           \* dc_motor_math_X: the ages of its two continuous states
  U,           \* dc_motor_math_U.voltage_in: where the voltage came from
  params,      \* dc_motor_math_R, L, J, K, b: the set each one belongs to
  timer,       \* motorsim_timer is armed
  queued,      \* motorsim_work is queued
  wq,          \* motorsim_work_handler: "idle", or "reading" the input
  sample,      \* the input the handler is blocked on
  pc, arg,     \* the shell thread: its next store, and the command's arguments
  got,         \* the locals of cmd_motorsim_get
  out          \* the last message written to the shell UART
\* History: what has happened, read by no action of the program.
VARIABLES
  ticks,       \* timer expiries since step_count was reset
  lost,        \* of those, the ones that found the work item still queued
  late,        \* solver steps since sim_running was last cleared
  quiet,       \* the last reply about streaming promised that it is off
  solverReady  \* dc_motor_math_initialize has set up the solver object

config == <<input_source, input_channel, vmax_mv, params>>
plant  == <<X, U, step_count>>
work   == <<queued, wq, sample>>
hist   == <<ticks, lost, late, quiet, solverReady>>
vars   == <<sim_running, stream_enabled, config, plant, timer, work, pc, arg,
            got, out, hist>>
-----------------------------------------------------------------------------
Sources == {"adc", "pwm"}
AdcVrefMv == 3300

AdcPin == [PA0 |-> 0, PA1 |-> 1, PA2 |-> 2, PA3 |-> 3]
pin_to_adc_channel(pin) == IF pin \in DOMAIN AdcPin THEN AdcPin[pin] ELSE -1
pin_to_pwm_channel(pin) == IF pin = "PA1" THEN 1 ELSE -1
channel_of(src, pin) == IF src = "adc" THEN pin_to_adc_channel(pin)
                                       ELSE pin_to_pwm_channel(pin)

\* The channels a source can be configured with.
ChannelsOf(src) == IF src = "adc" THEN 0..3 ELSE {1}

NParams == 5    \* R, L, J, K, b, in the order they are stored

NoVoltage == [src |-> "none", chan |-> 0, full |-> 0]        \* 0.0 V
Voltages  == [src : Sources, chan : 0..3, full : Nat] \cup {NoVoltage}
States    == [speed : Nat, current : Nat]
Fields    == [current : Nat, speed : Nat, voltage : Voltages]
Samples   == [src : Sources, chan : 0..3]
NoSample  == [src |-> "none", chan |-> 0]
NoArg     == [cmd |-> "none", src |-> "adc", chan |-> 0, vmax |-> 0,
              set |-> "default", k |-> 0]
PlainArg(cmd) == [NoArg EXCEPT !.cmd = cmd]
ConfigArg(cmd, src, chan, vmax) ==
  [cmd |-> cmd, src |-> src, chan |-> chan, vmax |-> vmax, set |-> "default", k |-> 0]
ParamsArg(set) ==
  [cmd |-> "params", src |-> "adc", chan |-> 0, vmax |-> 0, set |-> set, k |-> 1]
NothingGot == [current |-> 0, speed |-> 0, voltage |-> NoVoltage]

Commands == {"start", "stop", "get", "stream", "stream_on", "stream_off", "source",
             "params"}
Codes    == {"OK", "EALREADY", "EINVAL", "ENODEV", "EAGAIN", "EBUSY"}

\* The arguments of a command, with the index of the next parameter to store.
Arguments == [cmd : Commands \cup {"none"}, src : Sources, chan : 0..3, vmax : Nat,
              set : ParamSets, k : 0..NParams]

\* What the shell UART carries: the answer to a command, a stream line, the state
\* get reads.
Boot == [kind |-> "boot"]
Reply(cmd, code) == [kind |-> "reply", cmd |-> cmd, code |-> code]
Line(t, voltage, x) == [kind |-> "line", t |-> t, voltage |-> voltage, x |-> x]
State(f, count) == [kind |-> "state", current |-> f.current, speed |-> f.speed,
                    voltage |-> f.voltage, count |-> count]
Messages ==
  {Boot} \cup [kind : {"reply"}, cmd : Commands, code : Codes]
  \cup [kind : {"line"}, t : Nat, voltage : Voltages, x : States]
  \cup [kind : {"state"}, current : Nat, speed : Nat, voltage : Voltages, count : Nat]

Labels == {"idle", "config.source", "config.channel", "start.vmax", "init.speed",
           "init.current", "start.count", "start.running", "start.stream",
           "start.timer", "stop.timer", "stop.running", "stop.stream",
           "get.current", "get.speed", "get.voltage", "get.count",
           "stream.store", "params.store", "reply"}

TypeOK ==
  /\ sim_running \in BOOLEAN /\ stream_enabled \in BOOLEAN
  /\ input_source \in Sources /\ input_channel \in 0..3 /\ vmax_mv \in Nat
  /\ step_count \in Nat
  /\ X \in States
  /\ U \in Voltages
  /\ params \in [1..NParams -> ParamSets]
  /\ timer \in BOOLEAN /\ queued \in BOOLEAN /\ wq \in {"idle", "reading"}
  /\ sample \in IF wq = "reading" THEN Samples ELSE {NoSample}
  /\ pc \in Labels
  /\ arg \in Arguments
  /\ got \in Fields
  /\ out \in Messages
  /\ ticks \in Nat /\ lost \in Nat /\ late \in Nat
  /\ quiet \in BOOLEAN /\ solverReady \in BOOLEAN

\* Static initialisation, then tb_motorsim_init: a stopped timer, an idle work item.
Init ==
  /\ sim_running = FALSE /\ stream_enabled = FALSE
  /\ input_source = "adc" /\ input_channel = 0 /\ vmax_mv = 3300
  /\ step_count = 0 /\ X = [speed |-> 0, current |-> 0] /\ U = NoVoltage
  /\ params = [i \in 1..NParams |-> "default"]
  /\ timer = FALSE /\ queued = FALSE /\ wq = "idle" /\ sample = NoSample
  /\ pc = "idle" /\ arg = NoArg /\ got = NothingGot /\ out = Boot
  /\ ticks = 0 /\ lost = 0 /\ late = 0 /\ quiet = TRUE /\ solverReady = FALSE
-----------------------------------------------------------------------------
(* The timer ISR and the workqueue thread                                  *)

\* Mutant of Tick: k_timer_start with a zero period, the timer fires once.
TickOnce ==
  /\ timer /\ ticks < MaxTicks
  /\ queued' = TRUE /\ timer' = FALSE
  /\ ticks' = ticks + 1
  /\ lost' = IF queued THEN lost + 1 ELSE lost
  /\ UNCHANGED <<sim_running, stream_enabled, config, plant, wq, sample, pc, arg,
                 got, out, late, quiet, solverReady>>

\* motorsim_timer_handler: k_work_submit leaves an item that is queued already as it is.
Tick ==
  /\ timer /\ ticks < MaxTicks
  /\ queued' = TRUE
  /\ ticks' = ticks + 1
  /\ lost' = IF queued THEN lost + 1 ELSE lost
  /\ UNCHANGED <<sim_running, stream_enabled, config, plant, timer, wq, sample,
                 pc, arg, got, out, late, quiet, solverReady>>

\* Mutant of WorkBegin: the handler does not look at sim_running.
WorkBeginUnchecked ==
  /\ wq = "idle" /\ queued
  /\ queued' = FALSE
  /\ wq' = "reading"
  /\ sample' = [src |-> input_source, chan |-> input_channel]
  /\ UNCHANGED <<sim_running, stream_enabled, config, plant, timer, pc, arg,
                 got, out, hist>>

\* motorsim_work_handler up to the blocking call in read_input_voltage.
WorkBegin ==
  /\ wq = "idle" /\ queued
  /\ queued' = FALSE
  /\ \/ /\ ~sim_running
        /\ UNCHANGED <<wq, sample>>
     \/ /\ sim_running
        /\ wq' = "reading"
        /\ sample' = [src |-> input_source, chan |-> input_channel]
  /\ UNCHANGED <<sim_running, stream_enabled, config, plant, timer, pc, arg,
                 got, out, hist>>

\* The voltage read_input_voltage returns: ADC counts scale to ADC_VREF_MV, a PWM
\* duty cycle to the vmax_mv of the moment the capture ends.
VoltageRead(s) == [src |-> s.src, chan |-> s.chan,
                   full |-> IF s.src = "adc" THEN AdcVrefMv ELSE vmax_mv]

\* One solver step integrates both continuous states.
dc_motor_math_step == X' = [speed |-> X.speed + 1, current |-> X.current + 1]

\* Mutant of WorkFinish: a failed read keeps the last good voltage.
WorkFinishKeeps ==
  /\ wq = "reading"
  /\ U' \in {VoltageRead(sample), U}
  /\ dc_motor_math_step
  /\ step_count' = step_count + 1
  /\ out' = IF stream_enabled THEN Line(step_count', U', X') ELSE out
  /\ wq' = "idle" /\ sample' = NoSample
  /\ late' = IF sim_running THEN late ELSE late + 1
  /\ UNCHANGED <<sim_running, stream_enabled, config, timer, queued, pc, arg,
                 got, ticks, lost, quiet, solverReady>>

\* The rest of motorsim_work_handler. It does not look at sim_running again. The
\* read fails with a driver error, or when no PWM edge arrives within 50 ms.
WorkFinish ==
  /\ wq = "reading"
  /\ U' \in {VoltageRead(sample), NoVoltage}
  /\ dc_motor_math_step
  /\ step_count' = step_count + 1
  /\ \/ /\ stream_enabled
        /\ out' = Line(step_count', U', X')
     \/ /\ ~stream_enabled
        /\ UNCHANGED out
  /\ wq' = "idle" /\ sample' = NoSample
  /\ late' = IF sim_running THEN late ELSE late + 1
  /\ UNCHANGED <<sim_running, stream_enabled, config, timer, queued, pc, arg,
                 got, ticks, lost, quiet, solverReady>>
-----------------------------------------------------------------------------
(* The shell thread: commands                                              *)

\* The workqueue thread is cooperative and above the shell: the shell runs only
\* while the workqueue has nothing to run or is blocked in a read.
ShellRuns == ~(wq = "idle" /\ queued)

\* The command prints an error and returns with a negative code.
Refuse(cmd, code) ==
  /\ out' = Reply(cmd, code)
  /\ UNCHANGED <<sim_running, stream_enabled, config, plant, timer, work, pc,
                 arg, got, hist>>

\* The command passed its checks and goes on with the stores from label l.
Accept(a, l) ==
  /\ pc' = l
  /\ arg' = a
  /\ UNCHANGED <<sim_running, stream_enabled, config, plant, timer, work, got,
                 out, hist>>

Idle == ShellRuns /\ pc = "idle"

\* The checks cmd_motorsim_start and cmd_motorsim_source make of <adc|pwm> <pin>.
BadSource(cmd, src, pin) ==
  \/ src \notin Sources /\ Refuse(cmd, "EINVAL")
  \/ src \in Sources /\ channel_of(src, pin) < 0 /\ Refuse(cmd, "ENODEV")

\* Mutant of GoodSource: the result of the pin lookup is not checked.
GoodSourceUnchecked(cmd, src, pin, vmax) ==
  /\ src \in Sources
  /\ Accept(ConfigArg(cmd, src, channel_of(src, pin), vmax), "config.source")

GoodSource(cmd, src, pin, vmax) ==
  /\ src \in Sources
  /\ channel_of(src, pin) >= 0
  /\ Accept(ConfigArg(cmd, src, channel_of(src, pin), vmax), "config.source")

CmdStart(src, pin, vmax) ==
  /\ Idle
  /\ \/ sim_running /\ Refuse("start", "EALREADY")
     \/ ~sim_running /\ BadSource("start", src, pin)
     \/ ~sim_running /\ GoodSource("start", src, pin, vmax)

CmdSource(src, pin) ==
  /\ Idle
  /\ \/ sim_running /\ Refuse("source", "EBUSY")
     \/ ~sim_running /\ BadSource("source", src, pin)
     \/ ~sim_running /\ GoodSource("source", src, pin, 0)

CmdStop ==
  /\ Idle
  /\ \/ ~sim_running /\ Refuse("stop", "EALREADY")
     \/ sim_running /\ Accept(PlainArg("stop"), "stop.timer")

CmdGet ==
  /\ Idle
  /\ \/ ~sim_running /\ Refuse("get", "EAGAIN")
     \/ sim_running /\ Accept(PlainArg("get"), "get.current")

\* Any other word than on and off is refused; sim_running is not looked at.
CmdStream(word) ==
  /\ Idle
  /\ \/ /\ word \notin {"on", "off"}
        /\ Refuse("stream", "EINVAL")
     \/ /\ word = "on"
        /\ pc' = "stream.store"
        /\ arg' = PlainArg("stream_on")
        /\ quiet' = FALSE
        /\ UNCHANGED <<sim_running, stream_enabled, config, plant, timer, work,
                       got, out, ticks, lost, late, solverReady>>
     \/ /\ word = "off"
        /\ Accept(PlainArg("stream_off"), "stream.store")

\* Mutant of CmdParams: parameters can be changed during a run.
CmdParamsAnytime(set) ==
  /\ Idle
  /\ Accept(ParamsArg(set), "params.store")

CmdParams(set) ==
  /\ Idle
  /\ \/ sim_running /\ Refuse("params", "EBUSY")
     \/ ~sim_running /\ Accept(ParamsArg(set), "params.store")
-----------------------------------------------------------------------------
(* The shell thread: the stores of an accepted command                     *)

At(l)   == ShellRuns /\ pc = l
Goto(l) == pc' = l /\ UNCHANGED arg

ConfigSource ==
  /\ At("config.source")
  /\ input_source' = arg.src
  /\ Goto("config.channel")
  /\ UNCHANGED <<sim_running, stream_enabled, input_channel, vmax_mv, params,
                 plant, timer, work, got, out, hist>>

\* start goes on with vmax_mv; source is done.
ConfigChannel ==
  /\ At("config.channel")
  /\ input_channel' = arg.chan
  /\ Goto(IF arg.cmd = "start" THEN "start.vmax" ELSE "reply")
  /\ UNCHANGED <<sim_running, stream_enabled, input_source, vmax_mv, params,
                 plant, timer, work, got, out, hist>>

\* Mutant of StartVmax: cmd_motorsim_start does not call dc_motor_math_initialize.
StartVmaxNoInit ==
  /\ At("start.vmax")
  /\ vmax_mv' = arg.vmax
  /\ Goto("start.count")
  /\ UNCHANGED <<sim_running, stream_enabled, input_source, input_channel, params,
                 plant, timer, work, got, out, hist>>

StartVmax ==
  /\ At("start.vmax")
  /\ vmax_mv' = arg.vmax
  /\ Goto("init.speed")
  /\ UNCHANGED <<sim_running, stream_enabled, input_source, input_channel, params,
                 plant, timer, work, got, out, hist>>

\* dc_motor_math_initialize sets up the solver object, then stores Integrator1_IC.
InitSpeed ==
  /\ At("init.speed")
  /\ X' = [X EXCEPT !.speed = 0]
  /\ solverReady' = TRUE
  /\ Goto("init.current")
  /\ UNCHANGED <<sim_running, stream_enabled, config, U, step_count, timer, work,
                 got, out, ticks, lost, late, quiet>>

\* Mutant of InitCurrent: Integrator_IC is not stored.
InitCurrentForgotten ==
  /\ At("init.current")
  /\ Goto("start.count")
  /\ UNCHANGED <<sim_running, stream_enabled, config, plant, timer, work, got, out,
                 hist>>

\* ... and Integrator_IC last. dc_motor_math_U keeps its value.
InitCurrent ==
  /\ At("init.current")
  /\ X' = [X EXCEPT !.current = 0]
  /\ Goto("start.count")
  /\ UNCHANGED <<sim_running, stream_enabled, config, U, step_count, timer, work,
                 got, out, hist>>

\* Mutant of StartCount: step_count goes on from the previous run.
StartCountForgotten ==
  /\ At("start.count")
  /\ ticks' = 0 /\ lost' = 0
  /\ Goto("start.running")
  /\ UNCHANGED <<sim_running, stream_enabled, config, plant, timer, work, got, out,
                 late, quiet, solverReady>>

StartCount ==
  /\ At("start.count")
  /\ step_count' = 0
  /\ ticks' = 0 /\ lost' = 0
  /\ Goto("start.running")
  /\ UNCHANGED <<sim_running, stream_enabled, config, X, U, timer, work, got, out,
                 late, quiet, solverReady>>

StartRunning ==
  /\ At("start.running")
  /\ sim_running' = TRUE
  /\ Goto("start.stream")
  /\ UNCHANGED <<stream_enabled, config, plant, timer, work, got, out, hist>>

StartStream ==
  /\ At("start.stream")
  /\ stream_enabled' = FALSE
  /\ Goto("start.timer")
  /\ UNCHANGED <<sim_running, config, plant, timer, work, got, out, hist>>

StartTimer ==
  /\ At("start.timer")
  /\ timer' = TRUE
  /\ Goto("reply")
  /\ UNCHANGED <<sim_running, stream_enabled, config, plant, work, got, out, hist>>

\* k_timer_stop leaves a queued work item queued. dc_motor_math_terminate is empty.
StopTimer ==
  /\ At("stop.timer")
  /\ timer' = FALSE
  /\ Goto("stop.running")
  /\ UNCHANGED <<sim_running, stream_enabled, config, plant, work, got, out, hist>>

StopRunning ==
  /\ At("stop.running")
  /\ sim_running' = FALSE
  /\ late' = 0
  /\ Goto("stop.stream")
  /\ UNCHANGED <<stream_enabled, config, plant, timer, work, got, out, ticks, lost,
                 quiet, solverReady>>

\* Mutant of StopStream: stop leaves streaming on.
StopStreamForgotten ==
  /\ At("stop.stream")
  /\ Goto("reply")
  /\ UNCHANGED <<sim_running, stream_enabled, config, plant, timer, work, got, out,
                 hist>>

StopStream ==
  /\ At("stop.stream")
  /\ stream_enabled' = FALSE
  /\ Goto("reply")
  /\ UNCHANGED <<sim_running, config, plant, timer, work, got, out, hist>>

StreamStore ==
  /\ At("stream.store")
  /\ stream_enabled' = (arg.cmd = "stream_on")
  /\ Goto("reply")
  /\ UNCHANGED <<sim_running, config, plant, timer, work, got, out, hist>>

ParamsStore ==
  /\ At("params.store")
  /\ params' = [params EXCEPT ![arg.k] = arg.set]
  /\ \/ /\ arg.k < NParams
        /\ arg' = [arg EXCEPT !.k = @ + 1]
        /\ UNCHANGED pc
     \/ /\ arg.k = NParams
        /\ Goto("reply")
  /\ UNCHANGED <<sim_running, stream_enabled, input_source, input_channel, vmax_mv,
                 plant, timer, work, got, out, hist>>

\* cmd_motorsim_get reads the plant field by field.
GetCurrent ==
  /\ At("get.current")
  /\ got' = [got EXCEPT !.current = X.current]
  /\ Goto("get.speed")
  /\ UNCHANGED <<sim_running, stream_enabled, config, plant, timer, work, out, hist>>

GetSpeed ==
  /\ At("get.speed")
  /\ got' = [got EXCEPT !.speed = X.speed]
  /\ Goto("get.voltage")
  /\ UNCHANGED <<sim_running, stream_enabled, config, plant, timer, work, out, hist>>

GetVoltage ==
  /\ At("get.voltage")
  /\ got' = [got EXCEPT !.voltage = U]
  /\ Goto("get.count")
  /\ UNCHANGED <<sim_running, stream_enabled, config, plant, timer, work, out, hist>>

GetCount ==
  /\ At("get.count")
  /\ out' = State(got, step_count)
  /\ pc' = "idle" /\ arg' = NoArg /\ got' = NothingGot
  /\ UNCHANGED <<sim_running, stream_enabled, config, plant, timer, work, hist>>

\* The closing shell_print. After start, stop and stream off the host was told
\* that streaming is off.
ReplyOK ==
  /\ At("reply")
  /\ out' = Reply(arg.cmd, "OK")
  /\ quiet' = (quiet \/ arg.cmd \in {"start", "stop", "stream_off"})
  /\ pc' = "idle" /\ arg' = NoArg
  /\ UNCHANGED <<sim_running, stream_enabled, config, plant, timer, work, got,
                 ticks, lost, late, solverReady>>
-----------------------------------------------------------------------------
StartStep  == StartVmax \/ InitSpeed \/ InitCurrent \/ StartCount \/ StartRunning
              \/ StartStream \/ StartTimer
StopStep   == StopTimer \/ StopRunning \/ StopStream
GetStep    == GetCurrent \/ GetSpeed \/ GetVoltage \/ GetCount
ShellStep  == ConfigSource \/ ConfigChannel \/ StartStep \/ StopStep \/ StreamStore
              \/ ParamsStore \/ GetStep \/ ReplyOK

Command ==
  \/ \E src \in Sources \cup {"other"}, pin \in Pins :
        CmdSource(src, pin) \/ \E vmax \in VmaxVals : CmdStart(src, pin, vmax)
  \/ CmdStop
  \/ CmdGet
  \/ \E word \in {"on", "off", "other"} : CmdStream(word)
  \/ \E set \in ParamSets : CmdParams(set)

Next == Tick \/ WorkBegin \/ WorkFinish \/ ShellStep \/ Command

Spec == Init /\ [][Next]_vars

\* The timer keeps firing and the two threads keep being scheduled. The shell is
\* ready again and again rather than for good, each tick takes the CPU from it:
\* strong fairness, as the handler leaves most of the 200 ms period unused.
\* Nobody is obliged to type a command.
Fairness == /\ WF_vars(Tick) /\ WF_vars(WorkBegin) /\ WF_vars(WorkFinish)
            /\ SF_vars(ShellStep)

FairSpec == Spec /\ Fairness
-----------------------------------------------------------------------------
(* Safety                                                                  *)

Reading     == IF wq = "reading" THEN 1 ELSE 0
Outstanding == Reading + (IF queued THEN 1 ELSE 0)

\* t_ms = step_count * 200 follows the timer: in a run, the steps taken or on their
\* way are the timer expiries less those that found the item still queued
\* (motorsim_timer_handler), plus at most two left over by the previous run (the
\* handler blocked in its read, and the work item k_timer_stop does not cancel).
ClockAccuracy ==
  /\ sim_running => ticks - lost <= step_count + Outstanding
  /\ step_count + Outstanding <= ticks - lost + 2

\* After stop clears sim_running the plant takes at most the one step of a handler
\* that was already past its check: a work item still queued takes none.
StopDrains == late <= 1

\* In a run both continuous states were integrated as often as step_count says, or
\* once more, when a handler of the previous run finished inside
\* dc_motor_math_initialize or between it and the reset of step_count.
PlantMatchesClock ==
  sim_running => /\ step_count <= X.current
                 /\ X.current <= X.speed
                 /\ X.speed <= step_count + 1

\* The handler never steps a model whose solver object is not set up: the pointers
\* dc_motor_math_step dereferences are NULL before the first initialize.
SolverSetUp == wq = "reading" => solverReady

\* A run uses the channel of its own source and one whole parameter set, although
\* both are written store by store with no lock.
ConfigurationWhole ==
  sim_running => /\ input_channel \in ChannelsOf(input_source)
                 /\ \A i, j \in 1..NParams : params[i] = params[j]

\* In the answer to get a field read later is never older than one read before it.
SnapshotOrder ==
  out.kind = "state" => out.current <= out.speed /\ out.speed <= out.count + 1

\* Once start, stop or stream off has answered OK, no MSIM line reaches the UART
\* before the next stream on: collect_motorsim_samples relies on it to talk to the
\* shell again.
NoStrayLine == [][out'.kind = "line" /\ out' # out => ~quiet]_vars

\* dc_motor_math_initialize does not clear dc_motor_math_U, and a handler of the
\* previous run may still store its own reading in it. Once get reports a speed that
\* took two steps, the voltage beside it is a reading of this run's input (or the
\* zero of a failed read), never of the input of the run before.
VoltageFresh ==
  [][out'.kind = "state" /\ out' # out /\ out'.speed >= 2
       => out'.voltage = NoVoltage
          \/ /\ out'.voltage.src = input_source
             /\ out'.voltage.chan = input_channel]_vars
-----------------------------------------------------------------------------
(* Liveness                                                                *)

\* While a run lasts and its timer has an expiry left, the step count moves on.
Progress ==
  \A n \in 0..MaxTicks :
    (sim_running /\ step_count = n /\ ticks < MaxTicks)
      ~> (step_count # n \/ ~sim_running)
-----------------------------------------------------------------------------
(* Refinement                                                              *)

Run == INSTANCE PlantRun WITH running <- sim_running, inflight <- wq = "reading",
                              steps <- step_count

\* The simulation is a PlantRun: no interleaving of the ISR, the handler and the shell
\* begins a step outside a run, overlaps two steps, loses one, resets the count during
\* a run, or launches a run that inherits more than one step.
ImplementsPlantRun == Run!Spec
=============================================================================
