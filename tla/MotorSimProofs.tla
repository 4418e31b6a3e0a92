--------------------------- MODULE MotorSimProofs ---------------------------
(***************************************************************************)
(* Theorems about MotorSim for every set of pins, voltage limits and       *)
(* parameter sets and every bound on the ticks of a run: type correctness, *)
(* an inductive invariant, and the safety properties it implies.           *)
(***************************************************************************)
EXTENDS MotorSim, TLAPS

(* The parts of the inductive invariant                                    *)

ConfigLabels == {"config.source", "config.channel"}
ResetLabels  == {"start.vmax", "init.speed", "init.current", "start.count",
                 "start.running"}
ArmLabels    == {"start.stream", "start.timer"}
StopLabels   == {"stop.timer", "stop.running", "stop.stream"}
GetLabels    == {"get.current", "get.speed", "get.voltage", "get.count"}

\* Which command the shell thread is executing at each label.
CommandOfLabel ==
  /\ pc \in ConfigLabels => /\ arg.cmd \in {"start", "source"}
                            /\ arg.chan \in ChannelsOf(arg.src)
  /\ pc \in ResetLabels \cup ArmLabels => arg.cmd = "start"
  /\ pc \in StopLabels => arg.cmd = "stop"
  /\ pc \in GetLabels => arg.cmd = "get"
  /\ pc = "stream.store" => arg.cmd \in {"stream_on", "stream_off"}
  /\ pc = "params.store" => arg.cmd = "params" /\ arg.k \in 1..NParams
  /\ pc = "reply" => arg.cmd \in Commands

\* What the checks of a command guarantee while its stores are executed: only the
\* shell thread writes sim_running and starts or stops the timer.
Control ==
  /\ timer => sim_running
  /\ pc \in ConfigLabels \cup ResetLabels \cup {"stop.stream", "params.store"}
       => ~sim_running
  /\ pc \in ArmLabels \cup {"stop.timer", "stop.running"} \cup GetLabels
       => sim_running
  /\ pc \in ArmLabels \cup {"stop.running"} => ~timer

\* The step count and the timer expiries of the run, in every state of the shell.
Clock ==
  /\ ClockAccuracy
  /\ pc = "start.running" => ticks = 0 /\ lost = 0

\* A stopped simulation has at most one step left, the handler in its read; once
\* step_count is reset that step is all a run can inherit.
Drain ==
  /\ StopDrains
  /\ ~sim_running => late + Reading <= 1
  /\ pc = "start.running" => step_count + Reading <= 1

\* How far the two continuous states and step_count are apart, from the store of
\* the second initial condition on.
Alignment ==
  /\ pc = "init.current" => X.speed + Reading <= 1
  /\ pc = "start.count"  => X.current <= X.speed /\ X.speed + Reading <= 1
  /\ sim_running \/ pc = "start.running"
       => step_count <= X.current /\ X.current <= X.speed /\ X.speed <= step_count + 1

Solver ==
  /\ SolverSetUp
  /\ sim_running \/ pc \in {"init.current", "start.count", "start.running"}
       => solverReady

\* When the host may count on silence, streaming is off and no store is coming.
Silence ==
  /\ quiet => /\ ~stream_enabled
              /\ ~(pc \in {"stream.store", "reply"} /\ arg.cmd = "stream_on")
  /\ pc = "reply" /\ arg.cmd \in {"start", "stop", "stream_off"} => ~stream_enabled
  /\ pc = "start.timer" => ~stream_enabled

\* input_source and input_channel agree but between their two stores, the five
\* parameters but between theirs.
Configuration ==
  /\ pc # "config.channel" => input_channel \in ChannelsOf(input_source)
  /\ pc = "config.channel" => input_source = arg.src
  /\ pc # "params.store" => \A i, j \in 1..NParams : params[i] = params[j]
  /\ pc = "params.store" =>
       /\ \A i \in 1..NParams : i < arg.k => params[i] = arg.set
       /\ \A i, j \in 1..NParams : i >= arg.k /\ j >= arg.k => params[i] = params[j]

\* The fields get has read so far are not newer than the plant.
Snapshot ==
  /\ pc = "get.speed" => got.current <= X.current
  /\ pc \in {"get.voltage", "get.count"} => got.current <= got.speed /\ got.speed <= X.speed
  /\ SnapshotOrder

\* Once a run's first initial condition is stored, the only reading of another input
\* that can still reach the plant is one in progress, and then it makes the first step:
\* from the second on, the voltage is of this run's input, and so is what get has read.
Own(v) == v.src = input_source /\ v.chan = input_channel
Fresh ==
  /\ sim_running \/ pc \in {"init.current", "start.count", "start.running"} =>
       /\ wq = "reading" /\ ~Own(sample) => X.speed = 0
       /\ X.speed >= 2 => U = NoVoltage \/ Own(U)
  /\ pc = "get.count" /\ got.speed >= 2 => got.voltage = NoVoltage \/ Own(got.voltage)

IInv == /\ TypeOK /\ CommandOfLabel /\ Control /\ Clock /\ Drain /\ Alignment /\ Solver
        /\ Silence /\ Configuration /\ Snapshot /\ Fresh
-----------------------------------------------------------------------------
(* Commands: what the shell thread knows once a command passed its checks  *)

\* A pin that the lookup finds gives a channel of the source it was looked up for.
LEMMA ChannelType ==
  ASSUME NEW src \in Sources, NEW pin, channel_of(src, pin) >= 0
  PROVE  channel_of(src, pin) \in ChannelsOf(src)
<1>1. CASE src = "adc"
  BY <1>1 DEF channel_of, ChannelsOf, pin_to_adc_channel, AdcPin
<1>2. CASE src = "pwm"
  BY <1>2 DEF channel_of, ChannelsOf, pin_to_pwm_channel
<1> QED
  BY <1>1, <1>2 DEF Sources

\* A command that is typed changes no variable of the plant: it is refused with a
\* message, or the shell thread goes to the first store with its arguments.
Refused == /\ UNCHANGED <<pc, arg, quiet>>
           /\ \E cmd \in Commands, code \in Codes : out' = Reply(cmd, code)

Accepted ==
  /\ out' = out
  /\ arg' \in Arguments
  /\ pc' \in {"config.source", "stop.timer", "get.current", "stream.store", "params.store"}
  /\ pc' \in {"config.source", "params.store"} => ~sim_running
  /\ pc' \in {"stop.timer", "get.current"} => sim_running
  /\ pc' = "config.source" => arg'.cmd \in {"start", "source"}
                              /\ arg'.chan \in ChannelsOf(arg'.src)
  /\ pc' = "stop.timer" => arg'.cmd = "stop"
  /\ pc' = "get.current" => arg'.cmd = "get"
  /\ pc' = "stream.store" => arg'.cmd \in {"stream_on", "stream_off"}
  /\ pc' = "params.store" => arg'.cmd = "params" /\ arg'.k = 1
  /\ quiet' = IF arg'.cmd = "stream_on" THEN FALSE ELSE quiet

CommandEffect ==
  /\ pc = "idle"
  /\ UNCHANGED <<sim_running, stream_enabled, config, plant, timer, work, got,
                 ticks, lost, late, solverReady>>
  /\ Refused \/ Accepted

LEMMA ArgumentTypes ==
  /\ NoArg \in Arguments
  /\ \A cmd \in Commands : PlainArg(cmd) \in Arguments /\ PlainArg(cmd).cmd = cmd
  /\ \A set \in ParamSets : ParamsArg(set) \in Arguments
  /\ \A cmd \in Commands, src \in Sources, chan \in 0..3, vmax \in Nat :
        ConfigArg(cmd, src, chan, vmax) \in Arguments
<1>1. NoArg \in Arguments
  BY ConstantsAssumption DEF NoArg, Arguments, Commands, Sources, NParams
<1>2. ASSUME NEW cmd \in Commands
      PROVE  PlainArg(cmd) \in Arguments /\ PlainArg(cmd).cmd = cmd
  BY <1>1 DEF PlainArg, Arguments, NoArg
<1>3. ASSUME NEW set \in ParamSets PROVE ParamsArg(set) \in Arguments
  BY DEF ParamsArg, Arguments, Commands, Sources, NParams
<1>4. ASSUME NEW cmd \in Commands, NEW src \in Sources, NEW chan \in 0..3, NEW vmax \in Nat
      PROVE  ConfigArg(cmd, src, chan, vmax) \in Arguments
  BY ConstantsAssumption DEF ConfigArg, Arguments, NParams
<1> QED
  BY <1>1, <1>2, <1>3, <1>4

LEMMA GoodSourceEffect ==
  ASSUME NEW cmd \in {"start", "source"}, NEW src, NEW pin, NEW vmax \in Nat,
         Idle, ~sim_running, GoodSource(cmd, src, pin, vmax)
  PROVE  CommandEffect
<1> DEFINE ch == channel_of(src, pin)
<1>1. src \in Sources /\ ch \in ChannelsOf(src)
  BY ChannelType DEF GoodSource
<1>2. ch \in 0..3
  BY <1>1 DEF ChannelsOf
<1> HIDE DEF ch
<1>3. arg' = ConfigArg(cmd, src, ch, vmax)
  BY DEF GoodSource, Accept, ch
<1>4. arg' \in Arguments
  BY <1>1, <1>2, <1>3, ArgumentTypes DEF Commands
<1>5. arg'.cmd = cmd /\ arg'.src = src /\ arg'.chan = ch
  BY <1>3 DEF ConfigArg
<1>6. Accepted
  BY <1>1, <1>4, <1>5 DEF GoodSource, Accept, Accepted, hist
<1> QED
  BY <1>6 DEF GoodSource, Accept, CommandEffect, Idle, hist

LEMMA BadSourceEffect ==
  ASSUME NEW cmd \in Commands, NEW src, NEW pin, Idle, BadSource(cmd, src, pin)
  PROVE  CommandEffect
BY DEF BadSource, Refuse, Refused, CommandEffect, Idle, Codes, hist

LEMMA CommandStep == Command => CommandEffect
<1>1. ASSUME NEW src, NEW pin, NEW vmax \in Nat, CmdStart(src, pin, vmax)
      PROVE  CommandEffect
  <2>1. CASE sim_running /\ Refuse("start", "EALREADY")
    BY <1>1, <2>1 DEF CmdStart, Idle, Refuse, CommandEffect, Refused, Commands, Codes, hist
  <2>2. CASE ~sim_running /\ BadSource("start", src, pin)
    BY <1>1, <2>2, BadSourceEffect DEF CmdStart, Commands
  <2>3. CASE ~sim_running /\ GoodSource("start", src, pin, vmax)
    BY <1>1, <2>3, GoodSourceEffect DEF CmdStart
  <2> QED
    BY <1>1, <2>1, <2>2, <2>3 DEF CmdStart
<1>2. ASSUME NEW src, NEW pin, CmdSource(src, pin)
      PROVE  CommandEffect
  <2>1. CASE sim_running /\ Refuse("source", "EBUSY")
    BY <1>2, <2>1 DEF CmdSource, Idle, Refuse, CommandEffect, Refused, Commands, Codes, hist
  <2>2. CASE ~sim_running /\ BadSource("source", src, pin)
    BY <1>2, <2>2, BadSourceEffect DEF CmdSource, Commands
  <2>3. CASE ~sim_running /\ GoodSource("source", src, pin, 0)
    BY <1>2, <2>3, GoodSourceEffect DEF CmdSource
  <2> QED
    BY <1>2, <2>1, <2>2, <2>3 DEF CmdSource
<1>3. ASSUME CmdStop PROVE CommandEffect
  BY <1>3, ArgumentTypes DEF CmdStop, Idle, Refuse, Accept, CommandEffect, Refused,
     Accepted, Commands, Codes, hist
<1>4. ASSUME CmdGet PROVE CommandEffect
  BY <1>4, ArgumentTypes DEF CmdGet, Idle, Refuse, Accept, CommandEffect, Refused,
     Accepted, Commands, Codes, hist
<1>5. ASSUME NEW word, CmdStream(word) PROVE CommandEffect
  BY <1>5, ArgumentTypes DEF CmdStream, Idle, Refuse, Accept, CommandEffect, Refused,
     Accepted, Commands, Codes, hist
<1>6. ASSUME NEW set \in ParamSets, CmdParams(set) PROVE CommandEffect
  <2>1. ParamsArg(set).cmd = "params" /\ ParamsArg(set).k = 1
    BY DEF ParamsArg
  <2> QED
    BY <1>6, <2>1, ArgumentTypes DEF CmdParams, Idle, Refuse, Accept, CommandEffect,
       Refused, Accepted, Commands, Codes, hist
<1> QED
  BY <1>1, <1>2, <1>3, <1>4, <1>5, <1>6, ConstantsAssumption DEF Command
-----------------------------------------------------------------------------
(* Type correctness                                                        *)

LEMMA MessageTypes ==
  /\ \A cmd \in Commands, code \in Codes : Reply(cmd, code) \in Messages
  /\ \A t \in Nat, v \in Voltages, x \in States : Line(t, v, x) \in Messages
  /\ \A f \in Fields, n \in Nat : State(f, n) \in Messages
<1>1. ASSUME NEW t \in Nat, NEW v \in Voltages, NEW x \in States
      PROVE  Line(t, v, x) \in [kind : {"line"}, t : Nat, voltage : Voltages, x : States]
  BY DEF Line
<1>2. ASSUME NEW f \in Fields, NEW n \in Nat
      PROVE  State(f, n) \in [kind : {"state"}, current : Nat, speed : Nat,
                              voltage : Voltages, count : Nat]
  BY DEF State, Fields
<1>3. ASSUME NEW cmd \in Commands, NEW code \in Codes
      PROVE  Reply(cmd, code) \in [kind : {"reply"}, cmd : Commands, code : Codes]
  BY DEF Reply
<1> QED
  BY <1>1, <1>2, <1>3, Zenon DEF Messages

LEMMA TypeInductive == TypeOK /\ CommandOfLabel /\ [Next]_vars => TypeOK'
<1> SUFFICES ASSUME TypeOK, CommandOfLabel, [Next]_vars PROVE TypeOK'
  OBVIOUS
<1> USE DEF TypeOK, config, plant, work, hist, At, Goto
<1>1. CASE Tick
  BY <1>1 DEF Tick
<1>2. CASE WorkBegin
  <2>1. [src |-> input_source, chan |-> input_channel] \in Samples
    BY DEF Samples
  <2> QED
    BY <1>2, <2>1 DEF WorkBegin
<1>3. CASE WorkFinish
  <2>1. VoltageRead(sample) \in Voltages /\ NoVoltage \in Voltages
    BY <1>3 DEF WorkFinish, VoltageRead, Samples, Voltages, AdcVrefMv
  <2>2. X' \in States /\ step_count' \in Nat /\ late' \in Nat
    BY <1>3 DEF WorkFinish, dc_motor_math_step, States
  <2> QED
    BY <1>3, <2>1, <2>2, MessageTypes DEF WorkFinish
<1>4. CASE ConfigSource
  <2>1. arg.src \in Sources
    BY DEF Arguments
  <2> QED
    BY <1>4, <2>1 DEF ConfigSource, Labels
<1>5. CASE ConfigChannel
  <2>1. arg.chan \in 0..3
    BY DEF Arguments
  <2> QED
    BY <1>5, <2>1 DEF ConfigChannel, Labels
<1>6. CASE StartVmax
  <2>1. arg.vmax \in Nat
    BY DEF Arguments
  <2> QED
    BY <1>6, <2>1 DEF StartVmax, Labels
<1>7. CASE InitSpeed
  <2>1. [X EXCEPT !.speed = 0] \in States
    BY DEF States
  <2> QED
    BY <1>7, <2>1 DEF InitSpeed, Labels
<1>8. CASE InitCurrent
  <2>1. [X EXCEPT !.current = 0] \in States
    BY DEF States
  <2> QED
    BY <1>8, <2>1 DEF InitCurrent, Labels
<1>9. CASE StartCount
  BY <1>9 DEF StartCount, Labels
<1>10. CASE StartRunning
  BY <1>10 DEF StartRunning, Labels
<1>11. CASE StartStream
  BY <1>11 DEF StartStream, Labels
<1>12. CASE StartTimer
  BY <1>12 DEF StartTimer, Labels
<1>13. CASE StopTimer
  BY <1>13 DEF StopTimer, Labels
<1>14. CASE StopRunning
  BY <1>14 DEF StopRunning, Labels
<1>15. CASE StopStream
  BY <1>15 DEF StopStream, Labels
<1>16. CASE StreamStore
  BY <1>16 DEF StreamStore, Labels
<1>17. CASE ParamsStore
  <2>1. /\ arg.set \in ParamSets
        /\ [params EXCEPT ![arg.k] = arg.set] \in [1..NParams -> ParamSets]
    BY DEF Arguments
  <2>2. arg.k \in 0..NParams /\ (arg.k < NParams => arg.k + 1 \in 0..NParams)
    BY DEF Arguments, NParams
  <2>3. arg.k < NParams => [arg EXCEPT !.k = @ + 1] \in Arguments
    BY <2>2 DEF Arguments
  <2> QED
    BY <1>17, <2>1, <2>3 DEF ParamsStore, Labels
<1>18. CASE GetCurrent
  <2>1. [got EXCEPT !.current = X.current] \in Fields
    BY DEF Fields, States
  <2> QED
    BY <1>18, <2>1 DEF GetCurrent, Labels
<1>19. CASE GetSpeed
  <2>1. [got EXCEPT !.speed = X.speed] \in Fields
    BY DEF Fields, States
  <2> QED
    BY <1>19, <2>1 DEF GetSpeed, Labels
<1>20. CASE GetVoltage
  <2>1. [got EXCEPT !.voltage = U] \in Fields
    BY DEF Fields
  <2> QED
    BY <1>20, <2>1 DEF GetVoltage, Labels
<1>21. CASE GetCount
  <2>1. NothingGot \in Fields
    BY DEF NothingGot, Fields, Voltages
  <2> QED
    BY <1>21, <2>1, ArgumentTypes, MessageTypes DEF GetCount, Labels
<1>22. CASE ReplyOK
  <2>1. Reply(arg.cmd, "OK") \in Messages
    BY <1>22, MessageTypes DEF ReplyOK, CommandOfLabel, Codes
  <2> QED
    BY <1>22, <2>1, ArgumentTypes DEF ReplyOK, Labels
<1>23. CASE Command
  <2>1. CASE Refused
    BY <1>23, <2>1, CommandStep, MessageTypes DEF CommandEffect, Refused
  <2>2. CASE Accepted
    BY <1>23, <2>2, CommandStep DEF CommandEffect, Accepted, Labels
  <2> QED
    BY <1>23, <2>1, <2>2, CommandStep DEF CommandEffect
<1>24. CASE UNCHANGED vars
  BY <1>24 DEF vars
<1> QED
  BY <1>1, <1>2, <1>3, <1>4, <1>5, <1>6, <1>7, <1>8, <1>9, <1>10, <1>11, <1>12,
     <1>13, <1>14, <1>15, <1>16, <1>17, <1>18, <1>19, <1>20, <1>21, <1>22, <1>23, <1>24
  DEF Next, ShellStep, StartStep, StopStep, GetStep
-----------------------------------------------------------------------------
(* The parts are inductive                                                *)

\* What one store of cmd_motorsim_params does to the label and the arguments.
LEMMA ParamsStoreEffect ==
  ASSUME ParamsStore, arg \in Arguments
  PROVE  /\ pc = "params.store"
         /\ \/ /\ arg.k < NParams /\ pc' = pc
               /\ arg'.cmd = arg.cmd /\ arg'.set = arg.set /\ arg'.k = arg.k + 1
            \/ arg.k = NParams /\ pc' = "reply" /\ arg' = arg
<1>1. [arg EXCEPT !.k = @ + 1].cmd = arg.cmd /\ [arg EXCEPT !.k = @ + 1].set = arg.set
  BY DEF Arguments
<1>2. [arg EXCEPT !.k = @ + 1].k = arg.k + 1
  BY DEF Arguments
<1> QED
  BY <1>1, <1>2 DEF ParamsStore, At, Goto

LEMMA CommandOfLabelInductive ==
  TypeOK /\ CommandOfLabel /\ [Next]_vars => CommandOfLabel'
<1> SUFFICES ASSUME TypeOK, CommandOfLabel, [Next]_vars PROVE CommandOfLabel'
  OBVIOUS
<1> USE DEF CommandOfLabel, ConfigLabels, ResetLabels, ArmLabels, StopLabels,
       GetLabels, Commands, config, plant, work, hist, At, Goto
<1>1. CASE Tick
  BY <1>1 DEF Tick
<1>2. CASE WorkBegin
  BY <1>2 DEF WorkBegin
<1>3. CASE WorkFinish
  BY <1>3 DEF WorkFinish
<1>4. CASE ConfigSource
  BY <1>4 DEF ConfigSource
<1>5. CASE ConfigChannel
  BY <1>5 DEF ConfigChannel
<1>6. CASE StartStep
  <2>1. CASE StartVmax
    BY <2>1 DEF StartVmax
  <2>2. CASE InitSpeed
    BY <2>2 DEF InitSpeed
  <2>3. CASE InitCurrent
    BY <2>3 DEF InitCurrent
  <2>4. CASE StartCount
    BY <2>4 DEF StartCount
  <2>5. CASE StartRunning
    BY <2>5 DEF StartRunning
  <2>6. CASE StartStream
    BY <2>6 DEF StartStream
  <2>7. CASE StartTimer
    BY <2>7 DEF StartTimer
  <2> QED
    BY <1>6, <2>1, <2>2, <2>3, <2>4, <2>5, <2>6, <2>7 DEF StartStep
<1>7. CASE StopStep
  <2>1. CASE StopTimer
    BY <2>1 DEF StopTimer
  <2>2. CASE StopRunning
    BY <2>2 DEF StopRunning
  <2>3. CASE StopStream
    BY <2>3 DEF StopStream
  <2> QED
    BY <1>7, <2>1, <2>2, <2>3 DEF StopStep
<1>8. CASE StreamStore
  BY <1>8 DEF StreamStore
<1>9. CASE ParamsStore
  <2>1. arg.k \in 1..NParams /\ arg.cmd = "params"
    BY <1>9 DEF ParamsStore
  <2>2. pc' = "reply" \/ (pc' = "params.store" /\ arg'.k \in 1..NParams)
    BY <1>9, <2>1, ParamsStoreEffect DEF NParams, TypeOK
  <2>3. arg'.cmd = "params"
    BY <1>9, <2>1, ParamsStoreEffect DEF TypeOK
  <2> QED
    BY <2>2, <2>3
<1>10. CASE GetStep
  BY <1>10 DEF GetStep, GetCurrent, GetSpeed, GetVoltage, GetCount
<1>11. CASE ReplyOK
  BY <1>11 DEF ReplyOK
<1>12. CASE Command
  <2>1. CASE Refused
    BY <1>12, <2>1, CommandStep DEF CommandEffect, Refused
  <2>2. CASE Accepted
    BY <1>12, <2>2, CommandStep DEF CommandEffect, Accepted, NParams
  <2> QED
    BY <1>12, <2>1, <2>2, CommandStep DEF CommandEffect
<1>13. CASE UNCHANGED vars
  BY <1>13 DEF vars
<1> QED
  BY <1>1, <1>2, <1>3, <1>4, <1>5, <1>6, <1>7, <1>8, <1>9, <1>10, <1>11, <1>12, <1>13
  DEF Next, ShellStep

LEMMA ControlInductive ==
  TypeOK /\ Control /\ [Next]_vars => Control'
<1> SUFFICES ASSUME TypeOK, Control, [Next]_vars PROVE Control'
  OBVIOUS
<1> USE DEF TypeOK, Control, ConfigLabels, ResetLabels, ArmLabels, StopLabels,
       GetLabels, config, plant, work, hist, At, Goto
<1>1. CASE Tick
  BY <1>1 DEF Tick
<1>2. CASE WorkBegin
  BY <1>2 DEF WorkBegin
<1>3. CASE WorkFinish
  BY <1>3 DEF WorkFinish
<1>4. CASE ConfigSource
  BY <1>4 DEF ConfigSource
<1>5. CASE ConfigChannel
  BY <1>5 DEF ConfigChannel
<1>6. CASE StartStep
  <2>1. CASE StartVmax
    BY <2>1 DEF StartVmax
  <2>2. CASE InitSpeed
    BY <2>2 DEF InitSpeed
  <2>3. CASE InitCurrent
    BY <2>3 DEF InitCurrent
  <2>4. CASE StartCount
    BY <2>4 DEF StartCount
  <2>5. CASE StartRunning
    BY <2>5 DEF StartRunning
  <2>6. CASE StartStream
    BY <2>6 DEF StartStream
  <2>7. CASE StartTimer
    BY <2>7 DEF StartTimer
  <2> QED
    BY <1>6, <2>1, <2>2, <2>3, <2>4, <2>5, <2>6, <2>7 DEF StartStep
<1>7. CASE StopStep
  <2>1. CASE StopTimer
    BY <2>1 DEF StopTimer
  <2>2. CASE StopRunning
    BY <2>2 DEF StopRunning
  <2>3. CASE StopStream
    BY <2>3 DEF StopStream
  <2> QED
    BY <1>7, <2>1, <2>2, <2>3 DEF StopStep
<1>8. CASE StreamStore
  BY <1>8 DEF StreamStore
<1>9. CASE ParamsStore
  BY <1>9 DEF ParamsStore
<1>10. CASE GetStep
  BY <1>10 DEF GetStep, GetCurrent, GetSpeed, GetVoltage, GetCount
<1>11. CASE ReplyOK
  BY <1>11 DEF ReplyOK
<1>12. CASE Command
  <2>1. CASE Refused
    BY <1>12, <2>1, CommandStep DEF CommandEffect, Refused
  <2>2. CASE Accepted
    BY <1>12, <2>2, CommandStep DEF CommandEffect, Accepted
  <2> QED
    BY <1>12, <2>1, <2>2, CommandStep DEF CommandEffect
<1>13. CASE UNCHANGED vars
  BY <1>13 DEF vars
<1> QED
  BY <1>1, <1>2, <1>3, <1>4, <1>5, <1>6, <1>7, <1>8, <1>9, <1>10, <1>11, <1>12, <1>13
  DEF Next, ShellStep

LEMMA ClockInductive ==
  TypeOK /\ Control /\ Clock /\ [Next]_vars => Clock'
<1> SUFFICES ASSUME TypeOK, Control, Clock, [Next]_vars PROVE Clock'
  OBVIOUS
<1> USE DEF TypeOK, Control, Clock, ClockAccuracy, Outstanding, Reading,
       ConfigLabels, ResetLabels, ArmLabels, StopLabels, GetLabels, config, plant,
       work, hist, At, Goto
<1>1. CASE Tick
  BY <1>1 DEF Tick
<1>2. CASE WorkBegin
  BY <1>2 DEF WorkBegin
<1>3. CASE WorkFinish
  BY <1>3 DEF WorkFinish
<1>4. CASE ConfigSource
  BY <1>4 DEF ConfigSource
<1>5. CASE ConfigChannel
  BY <1>5 DEF ConfigChannel
<1>6. CASE StartStep
  BY <1>6 DEF StartStep, StartVmax, InitSpeed, InitCurrent, StartCount, StartRunning,
     StartStream, StartTimer
<1>7. CASE StopStep
  BY <1>7 DEF StopStep, StopTimer, StopRunning, StopStream
<1>8. CASE StreamStore
  BY <1>8 DEF StreamStore
<1>9. CASE ParamsStore
  BY <1>9 DEF ParamsStore
<1>10. CASE GetStep
  BY <1>10 DEF GetStep, GetCurrent, GetSpeed, GetVoltage, GetCount
<1>11. CASE ReplyOK
  BY <1>11 DEF ReplyOK
<1>12. CASE Command
  <2>1. CASE Refused
    BY <1>12, <2>1, CommandStep DEF CommandEffect, Refused
  <2>2. CASE Accepted
    BY <1>12, <2>2, CommandStep DEF CommandEffect, Accepted
  <2> QED
    BY <1>12, <2>1, <2>2, CommandStep DEF CommandEffect
<1>13. CASE UNCHANGED vars
  BY <1>13 DEF vars
<1> QED
  BY <1>1, <1>2, <1>3, <1>4, <1>5, <1>6, <1>7, <1>8, <1>9, <1>10, <1>11, <1>12, <1>13
  DEF Next, ShellStep

LEMMA DrainInductive ==
  TypeOK /\ Control /\ Drain /\ [Next]_vars => Drain'
<1> SUFFICES ASSUME TypeOK, Control, Drain, [Next]_vars PROVE Drain'
  OBVIOUS
<1> USE DEF TypeOK, Control, Drain, StopDrains, Reading, ConfigLabels, ResetLabels,
       ArmLabels, StopLabels, GetLabels, config, plant, work, hist, At, Goto
<1>1. CASE Tick
  BY <1>1 DEF Tick
<1>2. CASE WorkBegin
  BY <1>2 DEF WorkBegin
<1>3. CASE WorkFinish
  BY <1>3 DEF WorkFinish
<1>4. CASE ConfigSource
  BY <1>4 DEF ConfigSource
<1>5. CASE ConfigChannel
  BY <1>5 DEF ConfigChannel
<1>6. CASE StartStep
  BY <1>6 DEF StartStep, StartVmax, InitSpeed, InitCurrent, StartCount, StartRunning,
     StartStream, StartTimer
<1>7. CASE StopStep
  BY <1>7 DEF StopStep, StopTimer, StopRunning, StopStream
<1>8. CASE StreamStore
  BY <1>8 DEF StreamStore
<1>9. CASE ParamsStore
  BY <1>9 DEF ParamsStore
<1>10. CASE GetStep
  BY <1>10 DEF GetStep, GetCurrent, GetSpeed, GetVoltage, GetCount
<1>11. CASE ReplyOK
  BY <1>11 DEF ReplyOK
<1>12. CASE Command
  <2>1. CASE Refused
    BY <1>12, <2>1, CommandStep DEF CommandEffect, Refused
  <2>2. CASE Accepted
    BY <1>12, <2>2, CommandStep DEF CommandEffect, Accepted
  <2> QED
    BY <1>12, <2>1, <2>2, CommandStep DEF CommandEffect
<1>13. CASE UNCHANGED vars
  BY <1>13 DEF vars
<1> QED
  BY <1>1, <1>2, <1>3, <1>4, <1>5, <1>6, <1>7, <1>8, <1>9, <1>10, <1>11, <1>12, <1>13
  DEF Next, ShellStep

LEMMA AlignmentInductive ==
  TypeOK /\ Control /\ Alignment /\ [Next]_vars => Alignment'
<1> SUFFICES ASSUME TypeOK, Control, Alignment, [Next]_vars PROVE Alignment'
  OBVIOUS
<1> USE DEF TypeOK, Control, Alignment, Reading, States, dc_motor_math_step,
       ConfigLabels, ResetLabels, ArmLabels, StopLabels, GetLabels, config, plant,
       work, hist, At, Goto
<1>1. CASE Tick
  BY <1>1 DEF Tick
<1>2. CASE WorkBegin
  BY <1>2 DEF WorkBegin
<1>3. CASE WorkFinish
  BY <1>3 DEF WorkFinish
<1>4. CASE ConfigSource
  BY <1>4 DEF ConfigSource
<1>5. CASE ConfigChannel
  BY <1>5 DEF ConfigChannel
<1>6. CASE StartStep
  BY <1>6 DEF StartStep, StartVmax, InitSpeed, InitCurrent, StartCount, StartRunning,
     StartStream, StartTimer
<1>7. CASE StopStep
  BY <1>7 DEF StopStep, StopTimer, StopRunning, StopStream
<1>8. CASE StreamStore
  BY <1>8 DEF StreamStore
<1>9. CASE ParamsStore
  BY <1>9 DEF ParamsStore
<1>10. CASE GetStep
  BY <1>10 DEF GetStep, GetCurrent, GetSpeed, GetVoltage, GetCount
<1>11. CASE ReplyOK
  BY <1>11 DEF ReplyOK
<1>12. CASE Command
  <2>1. CASE Refused
    BY <1>12, <2>1, CommandStep DEF CommandEffect, Refused
  <2>2. CASE Accepted
    BY <1>12, <2>2, CommandStep DEF CommandEffect, Accepted
  <2> QED
    BY <1>12, <2>1, <2>2, CommandStep DEF CommandEffect
<1>13. CASE UNCHANGED vars
  BY <1>13 DEF vars
<1> QED
  BY <1>1, <1>2, <1>3, <1>4, <1>5, <1>6, <1>7, <1>8, <1>9, <1>10, <1>11, <1>12, <1>13
  DEF Next, ShellStep

LEMMA SolverInductive ==
  TypeOK /\ Control /\ Solver /\ [Next]_vars => Solver'
<1> SUFFICES ASSUME TypeOK, Control, Solver, [Next]_vars PROVE Solver'
  OBVIOUS
<1> USE DEF TypeOK, Control, Solver, SolverSetUp, ConfigLabels, ResetLabels,
       ArmLabels, StopLabels, GetLabels, config, plant, work, hist, At, Goto
<1>1. CASE Tick
  BY <1>1 DEF Tick
<1>2. CASE WorkBegin
  BY <1>2 DEF WorkBegin
<1>3. CASE WorkFinish
  BY <1>3 DEF WorkFinish
<1>4. CASE ConfigSource
  BY <1>4 DEF ConfigSource
<1>5. CASE ConfigChannel
  BY <1>5 DEF ConfigChannel
<1>6. CASE StartStep
  BY <1>6 DEF StartStep, StartVmax, InitSpeed, InitCurrent, StartCount, StartRunning,
     StartStream, StartTimer
<1>7. CASE StopStep
  BY <1>7 DEF StopStep, StopTimer, StopRunning, StopStream
<1>8. CASE StreamStore
  BY <1>8 DEF StreamStore
<1>9. CASE ParamsStore
  BY <1>9 DEF ParamsStore
<1>10. CASE GetStep
  BY <1>10 DEF GetStep, GetCurrent, GetSpeed, GetVoltage, GetCount
<1>11. CASE ReplyOK
  BY <1>11 DEF ReplyOK
<1>12. CASE Command
  <2>1. CASE Refused
    BY <1>12, <2>1, CommandStep DEF CommandEffect, Refused
  <2>2. CASE Accepted
    BY <1>12, <2>2, CommandStep DEF CommandEffect, Accepted
  <2> QED
    BY <1>12, <2>1, <2>2, CommandStep DEF CommandEffect
<1>13. CASE UNCHANGED vars
  BY <1>13 DEF vars
<1> QED
  BY <1>1, <1>2, <1>3, <1>4, <1>5, <1>6, <1>7, <1>8, <1>9, <1>10, <1>11, <1>12, <1>13
  DEF Next, ShellStep

LEMMA SilenceInductive ==
  TypeOK /\ CommandOfLabel /\ Silence /\ [Next]_vars => Silence'
<1> SUFFICES ASSUME TypeOK, CommandOfLabel, Silence, [Next]_vars PROVE Silence'
  OBVIOUS
<1> USE DEF TypeOK, CommandOfLabel, Silence, ConfigLabels, ResetLabels, ArmLabels,
       StopLabels, GetLabels, config, plant, work, hist, At, Goto
<1>1. CASE Tick
  BY <1>1 DEF Tick
<1>2. CASE WorkBegin
  BY <1>2 DEF WorkBegin
<1>3. CASE WorkFinish
  BY <1>3 DEF WorkFinish
<1>4. CASE ConfigSource
  BY <1>4 DEF ConfigSource
<1>5. CASE ConfigChannel
  BY <1>5 DEF ConfigChannel
<1>6. CASE StartStep
  <2>1. CASE StartVmax
    BY <2>1 DEF StartVmax
  <2>2. CASE InitSpeed
    BY <2>2 DEF InitSpeed
  <2>3. CASE InitCurrent
    BY <2>3 DEF InitCurrent
  <2>4. CASE StartCount
    BY <2>4 DEF StartCount
  <2>5. CASE StartRunning
    BY <2>5 DEF StartRunning
  <2>6. CASE StartStream
    BY <2>6 DEF StartStream
  <2>7. CASE StartTimer
    BY <2>7 DEF StartTimer
  <2> QED
    BY <1>6, <2>1, <2>2, <2>3, <2>4, <2>5, <2>6, <2>7 DEF StartStep
<1>7. CASE StopStep
  <2>1. CASE StopTimer
    BY <2>1 DEF StopTimer
  <2>2. CASE StopRunning
    BY <2>2 DEF StopRunning
  <2>3. CASE StopStream
    BY <2>3 DEF StopStream
  <2> QED
    BY <1>7, <2>1, <2>2, <2>3 DEF StopStep
<1>8. CASE StreamStore
  BY <1>8 DEF StreamStore
<1>9. CASE ParamsStore
  BY <1>9 DEF ParamsStore
<1>10. CASE GetStep
  <2>1. CASE GetCurrent
    BY <2>1 DEF GetCurrent
  <2>2. CASE GetSpeed
    BY <2>2 DEF GetSpeed
  <2>3. CASE GetVoltage
    BY <2>3 DEF GetVoltage
  <2>4. CASE GetCount
    BY <2>4 DEF GetCount
  <2> QED
    BY <1>10, <2>1, <2>2, <2>3, <2>4 DEF GetStep
<1>11. CASE ReplyOK
  BY <1>11 DEF ReplyOK
<1>12. CASE Command
  <2>1. CASE Refused
    BY <1>12, <2>1, CommandStep DEF CommandEffect, Refused
  <2>2. CASE Accepted
    BY <1>12, <2>2, CommandStep DEF CommandEffect, Accepted
  <2> QED
    BY <1>12, <2>1, <2>2, CommandStep DEF CommandEffect
<1>13. CASE UNCHANGED vars
  BY <1>13 DEF vars
<1> QED
  BY <1>1, <1>2, <1>3, <1>4, <1>5, <1>6, <1>7, <1>8, <1>9, <1>10, <1>11, <1>12, <1>13
  DEF Next, ShellStep

LEMMA ConfigurationInductive ==
  TypeOK /\ CommandOfLabel /\ Control /\ Configuration /\ [Next]_vars => Configuration'
<1> SUFFICES ASSUME TypeOK, CommandOfLabel, Control, Configuration, [Next]_vars
             PROVE  Configuration'
  OBVIOUS
<1> USE DEF TypeOK, CommandOfLabel, Configuration, ConfigLabels, ResetLabels,
       ArmLabels, StopLabels, GetLabels, config, plant, work, hist, At, Goto
<1>1. CASE Tick
  BY <1>1 DEF Tick
<1>2. CASE WorkBegin
  BY <1>2 DEF WorkBegin
<1>3. CASE WorkFinish
  BY <1>3 DEF WorkFinish
<1>4. CASE ConfigSource
  BY <1>4 DEF ConfigSource
<1>5. CASE ConfigChannel
  BY <1>5 DEF ConfigChannel
<1>6. CASE StartStep
  BY <1>6 DEF StartStep, StartVmax, InitSpeed, InitCurrent, StartCount, StartRunning,
     StartStream, StartTimer
<1>7. CASE StopStep
  BY <1>7 DEF StopStep, StopTimer, StopRunning, StopStream
<1>8. CASE StreamStore
  BY <1>8 DEF StreamStore
<1>9. CASE ParamsStore
  <2>1. arg.k < NParams => arg'.set = arg.set /\ arg'.k = arg.k + 1 /\ pc' = "params.store"
    BY <1>9, ParamsStoreEffect
  <2>2. arg.k \in 1..NParams /\ input_channel \in ChannelsOf(input_source)
    BY <1>9 DEF ParamsStore
  <2>3. \A i \in 1..NParams : i <= arg.k => params'[i] = arg.set
    BY <1>9, <2>2 DEF ParamsStore, NParams
  <2>4. \A i, j \in 1..NParams : i > arg.k /\ j > arg.k => params'[i] = params'[j]
    BY <1>9, <2>2 DEF ParamsStore, NParams
  <2>5. CASE arg.k < NParams
    <3>1. arg'.k \in 1..NParams /\ UNCHANGED <<input_channel, input_source>>
      BY <1>9, <2>1, <2>2, <2>5 DEF ParamsStore, NParams
    <3>2. \A i \in 1..NParams : i < arg'.k => params'[i] = arg'.set
      BY <2>1, <2>2, <2>3, <2>5 DEF NParams
    <3>3. \A i, j \in 1..NParams : i >= arg'.k /\ j >= arg'.k => params'[i] = params'[j]
      BY <2>1, <2>2, <2>4, <2>5 DEF NParams
    <3> QED
      BY <2>1, <2>2, <2>5, <3>1, <3>2, <3>3
  <2>6. CASE arg.k = NParams
    BY <1>9, <2>2, <2>3, <2>6 DEF ParamsStore, NParams
  <2> QED
    BY <1>9, <2>5, <2>6 DEF ParamsStore
<1>10. CASE GetStep
  BY <1>10 DEF GetStep, GetCurrent, GetSpeed, GetVoltage, GetCount
<1>11. CASE ReplyOK
  BY <1>11 DEF ReplyOK
<1>12. CASE Command
  <2>1. CASE Refused
    BY <1>12, <2>1, CommandStep DEF CommandEffect, Refused
  <2>2. CASE Accepted
    BY <1>12, <2>2, CommandStep DEF CommandEffect, Accepted
  <2> QED
    BY <1>12, <2>1, <2>2, CommandStep DEF CommandEffect
<1>13. CASE UNCHANGED vars
  BY <1>13 DEF vars
<1> QED
  BY <1>1, <1>2, <1>3, <1>4, <1>5, <1>6, <1>7, <1>8, <1>9, <1>10, <1>11, <1>12, <1>13
  DEF Next, ShellStep

LEMMA SnapshotInductive ==
  TypeOK /\ Control /\ Alignment /\ Snapshot /\ [Next]_vars => Snapshot'
<1> SUFFICES ASSUME TypeOK, Control, Alignment, Snapshot, [Next]_vars PROVE Snapshot'
  OBVIOUS
<1> USE DEF TypeOK, Control, Alignment, Snapshot, SnapshotOrder, States, Fields,
       dc_motor_math_step, Line, Reply, State, ConfigLabels, ResetLabels, ArmLabels,
       StopLabels, GetLabels, config, plant, work, hist, At, Goto
<1>1. CASE Tick
  BY <1>1 DEF Tick
<1>2. CASE WorkBegin
  BY <1>2 DEF WorkBegin
<1>3. CASE WorkFinish
  BY <1>3 DEF WorkFinish
<1>4. CASE ConfigSource
  BY <1>4 DEF ConfigSource
<1>5. CASE ConfigChannel
  BY <1>5 DEF ConfigChannel
<1>6. CASE StartStep
  BY <1>6 DEF StartStep, StartVmax, InitSpeed, InitCurrent, StartCount, StartRunning,
     StartStream, StartTimer
<1>7. CASE StopStep
  BY <1>7 DEF StopStep, StopTimer, StopRunning, StopStream
<1>8. CASE StreamStore
  BY <1>8 DEF StreamStore
<1>9. CASE ParamsStore
  BY <1>9 DEF ParamsStore
<1>10. CASE GetStep
  <2>1. CASE GetCurrent
    BY <2>1 DEF GetCurrent
  <2>2. CASE GetSpeed
    BY <2>2 DEF GetSpeed
  <2>3. CASE GetVoltage
    BY <2>3 DEF GetVoltage
  <2>4. CASE GetCount
    BY <2>4 DEF GetCount
  <2> QED
    BY <1>10, <2>1, <2>2, <2>3, <2>4 DEF GetStep
<1>11. CASE ReplyOK
  BY <1>11 DEF ReplyOK
<1>12. CASE Command
  <2>1. CASE Refused
    BY <1>12, <2>1, CommandStep DEF CommandEffect, Refused
  <2>2. CASE Accepted
    BY <1>12, <2>2, CommandStep DEF CommandEffect, Accepted
  <2> QED
    BY <1>12, <2>1, <2>2, CommandStep DEF CommandEffect
<1>13. CASE UNCHANGED vars
  BY <1>13 DEF vars
<1> QED
  BY <1>1, <1>2, <1>3, <1>4, <1>5, <1>6, <1>7, <1>8, <1>9, <1>10, <1>11, <1>12, <1>13
  DEF Next, ShellStep

LEMMA FreshInductive ==
  TypeOK /\ Control /\ Snapshot /\ Fresh /\ [Next]_vars => Fresh'
<1> SUFFICES ASSUME TypeOK, Control, Snapshot, Fresh, [Next]_vars PROVE Fresh'
  OBVIOUS
<1>t. /\ sim_running \in BOOLEAN /\ X.speed \in Nat /\ X.current \in Nat /\ X \in States
      /\ got \in Fields /\ got.speed \in Nat
  BY DEF TypeOK, States, Fields
<1> USE <1>t DEF Control, Fresh, Own, ConfigLabels, ResetLabels, ArmLabels, StopLabels,
       GetLabels, config, plant, work, hist, At, Goto
<1>1. CASE Tick
  BY <1>1 DEF Tick
<1>2. CASE WorkBegin
  BY <1>2 DEF WorkBegin
<1>3. CASE WorkFinish
  <2>1. X'.speed = X.speed + 1
    BY <1>3 DEF WorkFinish, dc_motor_math_step
  <2>2. U' = NoVoltage \/ (U'.src = sample.src /\ U'.chan = sample.chan)
    BY <1>3 DEF WorkFinish, VoltageRead
  <2>3. wq = "reading" /\ wq' = "idle"
    BY <1>3 DEF WorkFinish
  <2>4. UNCHANGED <<sim_running, input_source, input_channel, pc, got>>
    BY <1>3 DEF WorkFinish
  <2> QED BY <2>1, <2>2, <2>3, <2>4
<1>4. CASE ConfigSource
  BY <1>4 DEF ConfigSource
<1>5. CASE ConfigChannel
  BY <1>5 DEF ConfigChannel
<1>6. CASE StartStep
  <2>1. CASE StartVmax
    BY <2>1 DEF StartVmax
  <2>2. CASE InitSpeed
    <3>1. X'.speed = 0
      BY <2>2 DEF InitSpeed, States
    <3> QED BY <2>2, <3>1 DEF InitSpeed
  <2>3. CASE InitCurrent
    <3>1. X'.speed = X.speed
      BY <2>3 DEF InitCurrent, States
    <3> QED BY <2>3, <3>1 DEF InitCurrent
  <2>4. CASE StartCount
    BY <2>4 DEF StartCount
  <2>5. CASE StartRunning
    BY <2>5 DEF StartRunning
  <2>6. CASE StartStream
    BY <2>6 DEF StartStream
  <2>7. CASE StartTimer
    BY <2>7 DEF StartTimer
  <2> QED
    BY <1>6, <2>1, <2>2, <2>3, <2>4, <2>5, <2>6, <2>7 DEF StartStep
<1>7. CASE StopStep
  BY <1>7 DEF StopStep, StopTimer, StopRunning, StopStream
<1>8. CASE StreamStore
  BY <1>8 DEF StreamStore
<1>9. CASE ParamsStore
  BY <1>9 DEF ParamsStore
<1>10. CASE GetStep
  <2>1. CASE GetCurrent
    BY <2>1 DEF GetCurrent
  <2>2. CASE GetSpeed
    BY <2>2 DEF GetSpeed
  <2>3. CASE GetVoltage
    <3>1. got'.voltage = U /\ got'.speed = got.speed
      BY <2>3 DEF GetVoltage, Fields
    <3>2. got.speed <= X.speed /\ sim_running
      BY <2>3 DEF GetVoltage, Snapshot
    <3> QED BY <2>3, <3>1, <3>2 DEF GetVoltage
  <2>4. CASE GetCount
    BY <2>4 DEF GetCount
  <2> QED
    BY <1>10, <2>1, <2>2, <2>3, <2>4 DEF GetStep
<1>11. CASE ReplyOK
  BY <1>11 DEF ReplyOK
<1>12. CASE Command
  <2>1. CASE Refused
    BY <1>12, <2>1, CommandStep DEF CommandEffect, Refused
  <2>2. CASE Accepted
    BY <1>12, <2>2, CommandStep DEF CommandEffect, Accepted
  <2> QED
    BY <1>12, <2>1, <2>2, CommandStep DEF CommandEffect
<1>13. CASE UNCHANGED vars
  BY <1>13 DEF vars
<1> QED
  BY <1>1, <1>2, <1>3, <1>4, <1>5, <1>6, <1>7, <1>8, <1>9, <1>10, <1>11, <1>12, <1>13
  DEF Next, ShellStep
-----------------------------------------------------------------------------
(* The theorems                                                            *)

LEMMA InitInvariant == Init => IInv
<1> SUFFICES ASSUME Init PROVE IInv
  OBVIOUS
<1>1. TypeOK
  <2>1. NoVoltage \in Voltages /\ NothingGot \in Fields /\ Boot \in Messages
    BY DEF Voltages, NothingGot, Fields, Messages
  <2>2. [i \in 1..NParams |-> "default"] \in [1..NParams -> ParamSets]
    BY ConstantsAssumption
  <2>3. [speed |-> 0, current |-> 0] \in States
    BY DEF States
  <2>4. params \in [1..NParams -> ParamSets]
    BY <2>2 DEF Init
  <2>5. sample \in IF wq = "reading" THEN Samples ELSE {NoSample}
    BY DEF Init
  <2>6. X \in States /\ U \in Voltages /\ got \in Fields /\ out \in Messages /\ arg \in Arguments
    BY <2>1, <2>3, ArgumentTypes DEF Init
  <2>7. /\ sim_running \in BOOLEAN /\ stream_enabled \in BOOLEAN
        /\ timer \in BOOLEAN /\ queued \in BOOLEAN
        /\ quiet \in BOOLEAN /\ solverReady \in BOOLEAN
    BY DEF Init
  <2>8. input_source \in Sources /\ wq \in {"idle", "reading"} /\ pc \in Labels
    BY DEF Init, Sources, Labels
  <2>9. /\ input_channel \in 0..3 /\ vmax_mv \in Nat /\ step_count \in Nat
        /\ ticks \in Nat /\ lost \in Nat /\ late \in Nat
    BY DEF Init
  <2> QED
    BY <2>4, <2>5, <2>6, <2>7, <2>8, <2>9 DEF TypeOK
<1>2. CommandOfLabel /\ Control
  BY DEF Init, CommandOfLabel, Control, ConfigLabels, ResetLabels, ArmLabels, StopLabels,
     GetLabels
<1>3. Clock /\ Drain
  BY DEF Init, Clock, ClockAccuracy, Drain, StopDrains, Outstanding, Reading
<1>4. Alignment /\ Solver /\ Silence
  BY DEF Init, Alignment, Solver, SolverSetUp, Silence, Reading
<1>5. Configuration
  BY DEF Init, Configuration, ChannelsOf
<1>6. Snapshot
  BY DEF Init, Snapshot, SnapshotOrder, Boot
<1>7. Fresh
  BY DEF Init, Fresh
<1> QED
  BY <1>1, <1>2, <1>3, <1>4, <1>5, <1>6, <1>7 DEF IInv

LEMMA NextInvariant == IInv /\ [Next]_vars => IInv'
BY TypeInductive, CommandOfLabelInductive, ControlInductive, ClockInductive,
   DrainInductive, AlignmentInductive, SolverInductive, SilenceInductive,
   ConfigurationInductive, SnapshotInductive, FreshInductive DEF IInv

LEMMA Invariance == Spec => []IInv
BY InitInvariant, NextInvariant, PTL DEF Spec

\* Every variable keeps its type: no command, in whatever state it is typed, stores a
\* channel no pin has or an argument out of range.
THEOREM TypeCorrect == Spec => []TypeOK
<1>1. IInv => TypeOK
  BY DEF IInv
<1> QED
  BY <1>1, Invariance, PTL

\* The clock of a run (step_count) never loses more than the timer expiries that
\* found the work item queued, nor gains more than the two leftovers.
THEOREM ClockCorrect == Spec => []ClockAccuracy
<1>1. IInv => ClockAccuracy
  BY DEF IInv, Clock
<1> QED
  BY <1>1, Invariance, PTL

\* After stop, motorsim_work_handler takes at most one more step.
THEOREM StopCorrect == Spec => []StopDrains
<1>1. IInv => StopDrains
  BY DEF IInv, Drain
<1> QED
  BY <1>1, Invariance, PTL

\* The plant cmd_motorsim_start initialised is as old as the clock it reset, or one
\* step older.
THEOREM PlantCorrect == Spec => []PlantMatchesClock
<1>1. IInv => PlantMatchesClock
  BY DEF IInv, Alignment, PlantMatchesClock
<1> QED
  BY <1>1, Invariance, PTL

\* dc_motor_math_step is never called before dc_motor_math_initialize set the solver up.
THEOREM SolverCorrect == Spec => []SolverSetUp
<1>1. IInv => SolverSetUp
  BY DEF IInv, Solver
<1> QED
  BY <1>1, Invariance, PTL

\* A run never sees the configuration half stored.
THEOREM ConfigurationCorrect == Spec => []ConfigurationWhole
<1>1. IInv => ConfigurationWhole
  <2> SUFFICES ASSUME IInv, sim_running PROVE ConfigurationWhole
    BY DEF ConfigurationWhole
  <2>1. pc # "config.channel" /\ pc # "params.store"
    BY DEF IInv, Control, ConfigLabels
  <2> QED
    BY <2>1 DEF IInv, Configuration, ConfigurationWhole
<1> QED
  BY <1>1, Invariance, PTL

\* The fields of the answer to get are in the order in which they were read.
THEOREM SnapshotCorrect == Spec => []SnapshotOrder
<1>1. IInv => SnapshotOrder
  BY DEF IInv, Snapshot
<1> QED
  BY <1>1, Invariance, PTL

\* No line reaches the UART while the host was told that streaming is off.
THEOREM SilenceCorrect == Spec => NoStrayLine
<1>1. IInv /\ [Next]_vars => [out'.kind = "line" /\ out' # out => ~quiet]_vars
  <2> SUFFICES ASSUME IInv, Next, out'.kind = "line", out' # out PROVE ~quiet
    BY DEF vars
  <2>1. CASE WorkFinish
    BY <2>1 DEF WorkFinish, IInv, Silence, TypeOK
  <2>2. CASE GetCount
    BY <2>2 DEF GetCount, State
  <2>3. CASE ReplyOK
    BY <2>3 DEF ReplyOK, Reply
  <2>4. CASE Command
    <3>1. CASE Refused
      BY <3>1 DEF Refused, Reply
    <3>2. CASE Accepted
      BY <3>2 DEF Accepted
    <3> QED
      BY <2>4, <3>1, <3>2, CommandStep DEF CommandEffect
  <2>5. CASE UNCHANGED out
    BY <2>5
  <2>6. Next => \/ WorkFinish \/ GetCount \/ ReplyOK \/ Command \/ UNCHANGED out
    BY DEF Next, ShellStep, StartStep, StopStep, GetStep, Tick, WorkBegin, ConfigSource,
       ConfigChannel, StartVmax, InitSpeed, InitCurrent, StartCount, StartRunning,
       StartStream, StartTimer, StopTimer, StopRunning, StopStream, StreamStore,
       ParamsStore, GetCurrent, GetSpeed, GetVoltage
  <2> QED
    BY <2>1, <2>2, <2>3, <2>4, <2>5, <2>6
<1> QED
  BY <1>1, Invariance, PTL DEF Spec, NoStrayLine

\* Beside a speed that took two steps get reports a voltage of this run's own input.
THEOREM FreshCorrect == Spec => VoltageFresh
<1>1. IInv /\ [Next]_vars =>
        [out'.kind = "state" /\ out' # out /\ out'.speed >= 2
           => out'.voltage = NoVoltage
              \/ /\ out'.voltage.src = input_source
                 /\ out'.voltage.chan = input_channel]_vars
  <2> SUFFICES ASSUME IInv, Next, out'.kind = "state", out' # out, out'.speed >= 2
               PROVE  out'.voltage = NoVoltage \/ Own(out'.voltage)
    BY DEF vars, Own
  <2>1. CASE GetCount
    <3>1. out'.speed = got.speed /\ out'.voltage = got.voltage
      BY <2>1 DEF GetCount, State
    <3>2. pc = "get.count" /\ Fresh
      BY <2>1 DEF GetCount, At, IInv
    <3> QED BY <3>1, <3>2 DEF Fresh
  <2>2. CASE WorkFinish
    BY <2>2 DEF WorkFinish, Line
  <2>3. CASE ReplyOK
    BY <2>3 DEF ReplyOK, Reply
  <2>4. CASE Command
    <3>1. CASE Refused
      BY <3>1 DEF Refused, Reply
    <3>2. CASE Accepted
      BY <3>2 DEF Accepted
    <3> QED
      BY <2>4, <3>1, <3>2, CommandStep DEF CommandEffect
  <2>5. CASE UNCHANGED out
    BY <2>5
  <2>6. Next => \/ WorkFinish \/ GetCount \/ ReplyOK \/ Command \/ UNCHANGED out
    BY DEF Next, ShellStep, StartStep, StopStep, GetStep, Tick, WorkBegin, ConfigSource,
       ConfigChannel, StartVmax, InitSpeed, InitCurrent, StartCount, StartRunning,
       StartStream, StartTimer, StopTimer, StopRunning, StopStream, StreamStore,
       ParamsStore, GetCurrent, GetSpeed, GetVoltage
  <2> QED
    BY <2>1, <2>2, <2>3, <2>4, <2>5, <2>6
<1> QED
  BY <1>1, Invariance, PTL DEF Spec, VoltageFresh

-----------------------------------------------------------------------------
(* Refinement                                                              *)

\* Every interleaving of the ISR, the handler and the shell is a behaviour of the
\* abstract PlantRun.
THEOREM Implementation == Spec => ImplementsPlantRun
<1>1. Init => Run!Init
  BY DEF Init, Run!Init
<1>2. IInv /\ [Next]_vars => [Run!Next]_Run!pvars
  <2> SUFFICES ASSUME IInv, [Next]_vars PROVE [Run!Next]_Run!pvars
    OBVIOUS
  <2> USE DEF Run!pvars, Run!Next, config, plant, work, hist, At, Goto
  <2>1. CASE WorkBegin
    BY <2>1 DEF WorkBegin, Run!Begin
  <2>2. CASE WorkFinish
    BY <2>2 DEF WorkFinish, Run!Finish
  <2>3. CASE StartCount
    BY <2>3 DEF StartCount, Run!Reset, IInv, Control, ResetLabels
  <2>4. CASE StartRunning
    BY <2>4 DEF StartRunning, Run!Launch, IInv, Control, Drain, Reading, ResetLabels
  <2>5. CASE StopRunning
    BY <2>5 DEF StopRunning, Run!Halt, IInv, Control, StopLabels
  <2>6. CASE Command
    BY <2>6, CommandStep DEF CommandEffect
  <2>7. CASE UNCHANGED vars
    BY <2>7 DEF vars
  <2>8. CASE UNCHANGED <<sim_running, wq, step_count>>
    BY <2>8
  <2>9. Next => \/ WorkBegin \/ WorkFinish \/ StartCount \/ StartRunning \/ StopRunning
                \/ Command \/ UNCHANGED <<sim_running, wq, step_count>>
    BY DEF Next, ShellStep, StartStep, StopStep, GetStep, Tick, ConfigSource, ConfigChannel,
       StartVmax, InitSpeed, InitCurrent, StartStream, StartTimer, StopTimer, StopStream,
       StreamStore, ParamsStore, GetCurrent, GetSpeed, GetVoltage, GetCount, ReplyOK
  <2> QED
    BY <2>1, <2>2, <2>3, <2>4, <2>5, <2>6, <2>7, <2>8, <2>9
<1> QED
  BY <1>1, <1>2, Invariance, PTL DEF Spec, ImplementsPlantRun, Run!Spec
=============================================================================
