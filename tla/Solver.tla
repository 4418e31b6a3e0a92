------------------------------- MODULE Solver -------------------------------
(***************************************************************************)
(* What MotorSim leaves abstract: the numbers of a plant run. One input    *)
(* reading (read_input_voltage), one step of the generated ODE3 solver     *)
(* (dc_motor_math.c) and the text of one MSIM line (fmt_double).           *)
(*                                                                         *)
(* A double is an integer count of 1 / Unit volts, amperes or rad/s; a     *)
(* product or quotient is rounded down, where the code rounds far less.    *)
(* Infinities and NaN are outside the model: inductance and inertia are    *)
(* positive here, though tb motorsim params takes any number.              *)
(***************************************************************************)
EXTENDS Integers

CONSTANTS
  ParamUnit,  \* plant parameters are counts of 1 / ParamUnit
  Plants,     \* what tb motorsim params is called with
  VmaxVals,   \* values of [vmax_mv]
  Raws,       \* what adc_read_channel returns, in 12 bits, -1 for an error
  Captures,   \* what pwm_capture_nsec returns, its timeout as a period of 0
  MaxSteps,   \* bound: steps of a run
  MaxChanges  \* bound: changes of the input in a run

VARIABLES
  params,       \* dc_motor_math_R, L, J, K, b
  sim_running, input_source, vmax_mv,
  voltage_in,   \* dc_motor_math_U.voltage_in
  X,            \* dc_motor_math_X
  line,         \* the last MSIM line
\* History.
  steps,        \* in this run
  input,        \* the last reading in this run, NoInput before the first
  changes       \* how often it was another than the one before

vars == <<params, sim_running, input_source, vmax_mv, voltage_in, X, line, steps,
          input, changes>>

Unit == 10000
Fields == {"current", "speed"}   \* Integrator_CSTATE, Integrator1_CSTATE
Parameters == [R : Int, L : Nat \ {0}, J : Nat \ {0}, K : Int, b : Int]

\* dc_motor_math_params.c
DefaultPlant == [R |-> ParamUnit, L |-> ParamUnit \div 2, J |-> ParamUnit \div 100,
                 K |-> ParamUnit \div 100, b |-> ParamUnit \div 10]

ASSUME SolverAssumption ==
  /\ ParamUnit \in Nat /\ ParamUnit >= 100
  /\ Plants \subseteq Parameters
  /\ DefaultPlant \in Parameters
  /\ VmaxVals \subseteq Nat
  /\ Raws \subseteq -1..4095
  /\ Captures \subseteq [period : Nat, pulse : Nat]
  /\ MaxSteps \in Nat /\ MaxChanges \in Nat

NoInput == [src |-> "none"]
Inputs  == {NoInput} \cup [src : {"adc"}, raw : Raws]
           \cup [src : {"pwm"}, capture : Captures]
Readings(src) == {i \in Inputs : i.src = src}
-----------------------------------------------------------------------------
(* The input                                                               *)

\* A voltage in mV, in units.
Volts(mv) == mv * (Unit \div 1000)

\* adc_read_channel and its scaling, in whole mV.
AdcVoltage(raw) == IF raw < 0 THEN 0 ELSE Volts((raw * 3300) \div 4095)

\* Mutant of PwmVoltage: a duty beyond 100 percent is not cut.
PwmVoltageUncut(c) ==
  IF c.period = 0 THEN 0
  ELSE (((c.pulse * 100) \div c.period) * Volts(vmax_mv)) \div 100

\* The duty in whole percent, of vmax_mv.
PwmVoltage(c) ==
  IF c.period = 0 THEN 0
  ELSE LET duty == (c.pulse * 100) \div c.period
       IN  ((IF duty > 100 THEN 100 ELSE duty) * Volts(vmax_mv)) \div 100

read_input_voltage(i) ==
  IF i.src = "adc" THEN AdcVoltage(i.raw) ELSE PwmVoltage(i.capture)
-----------------------------------------------------------------------------
(* The solver                                                              *)

\* No load: dc_motor_math_U.load_in.
LoadIn == 0

\* Mutant of Inductance: the resistance is left out.
InductanceOnly(v, x) == (ParamUnit * v - params.K * x.speed) \div params.L

\* The derivative of the current.
Inductance(v, x) ==
  (ParamUnit * v - params.R * x.current - params.K * x.speed) \div params.L

\* The derivative of the speed.
Inertia(x) ==
  (params.K * x.current - ParamUnit * LoadIn - params.b * x.speed) \div params.J

\* dc_motor_math_step at a minor time step, then dc_motor_math_derivatives.
Derivatives(v, x) == [current |-> Inductance(v, x), speed |-> Inertia(x)]

\* Mutant of rt_ertODEUpdateContinuousStates: the block signals are not computed again
\* for the second stage and the third.
OdeStale(v, y) ==
  LET f == Derivatives(v, y)
  IN  [c \in Fields |-> y[c] + (9 * f[c]) \div 45]

\* ODE3 (Bogacki and Shampine) with stepSize0 = 1/5: hB is 1/10, then 3/20, then
\* 2/45, 3/45 and 4/45.
rt_ertODEUpdateContinuousStates(v, y) ==
  LET f0 == Derivatives(v, y)
      f1 == Derivatives(v, [c \in Fields |-> y[c] + f0[c] \div 10])
      f2 == Derivatives(v, [c \in Fields |-> y[c] + (3 * f1[c]) \div 20])
  IN  [c \in Fields |-> y[c] + (2 * f0[c] + 3 * f1[c] + 4 * f2[c]) \div 45]
-----------------------------------------------------------------------------
(* The text                                                                *)

\* Mutant of fmt_double: 1000 thousandths are not carried.
FmtNoCarry(val) ==
  LET sign == IF val < 0 THEN -1 ELSE 1
      abs  == val * sign
  IN  [sign |-> sign, int |-> abs \div Unit,
       frac |-> ((abs % Unit) + Unit \div 2000) \div (Unit \div 1000)]

\* Mutant of fmt_double: the digits after the third are cut off.
FmtCut(val) ==
  LET sign == IF val < 0 THEN -1 ELSE 1
      abs  == val * sign
  IN  [sign |-> sign, int |-> abs \div Unit,
       frac |-> (abs % Unit) \div (Unit \div 1000)]

\* sign, intpart and the three digits of fracpart, rounded to the nearest.
fmt_double(val) ==
  LET sign == IF val < 0 THEN -1 ELSE 1
      abs  == val * sign
      frac == ((abs % Unit) + Unit \div 2000) \div (Unit \div 1000)
  IN  IF frac >= 1000
      THEN [sign |-> sign, int |-> abs \div Unit + 1, frac |-> 0]
      ELSE [sign |-> sign, int |-> abs \div Unit, frac |-> frac]

MsimLine(v, x) == [voltage |-> fmt_double(v), speed |-> fmt_double(x.speed),
                   current |-> fmt_double(x.current)]
-----------------------------------------------------------------------------
Rest == [c \in Fields |-> 0]

Init ==
  /\ params = DefaultPlant
  /\ sim_running = FALSE /\ input_source = "adc" /\ vmax_mv = 3300
  /\ voltage_in = 0 /\ X = Rest /\ line = MsimLine(0, Rest)
  /\ steps = 0 /\ input = NoInput /\ changes = 0

\* Nothing but another tb motorsim params changes them again, neither stop nor start.
Params(p) ==
  /\ ~sim_running
  /\ params' = p
  /\ UNCHANGED <<sim_running, input_source, vmax_mv, voltage_in, X, line, steps,
                 input, changes>>

\* Mutant of Start: dc_motor_math_initialize leaves the states as they are.
StartWarm(src, vmax) ==
  /\ ~sim_running
  /\ sim_running' = TRUE
  /\ input_source' = src /\ vmax_mv' = vmax
  /\ steps' = 0 /\ input' = NoInput /\ changes' = 0
  /\ UNCHANGED <<params, voltage_in, X, line>>

\* The initial conditions are 0; dc_motor_math_U keeps its value.
Start(src, vmax) ==
  /\ ~sim_running
  /\ sim_running' = TRUE
  /\ input_source' = src /\ vmax_mv' = vmax
  /\ X' = Rest
  /\ steps' = 0 /\ input' = NoInput /\ changes' = 0
  /\ UNCHANGED <<params, voltage_in, line>>

Stop ==
  /\ sim_running
  /\ sim_running' = FALSE
  /\ UNCHANGED <<params, input_source, vmax_mv, voltage_in, X, line, steps, input,
                 changes>>

\* motorsim_work_handler, streaming.
Step(i) ==
  /\ sim_running /\ steps < MaxSteps
  /\ voltage_in' = read_input_voltage(i)
  /\ X' = rt_ertODEUpdateContinuousStates(voltage_in', X)
  /\ line' = MsimLine(voltage_in', X')
  /\ steps' = steps + 1
  /\ input' = i
  /\ changes' = (IF input \in {NoInput, i} THEN changes ELSE changes + 1)
  /\ changes' <= MaxChanges
  /\ UNCHANGED <<params, sim_running, input_source, vmax_mv>>

Next ==
  \/ \E p \in Plants : Params(p)
  \/ \E src \in {"adc", "pwm"}, vmax \in VmaxVals : Start(src, vmax)
  \/ Stop
  \/ \E i \in Readings(input_source) : Step(i)

Spec == Init /\ [][Next]_vars
-----------------------------------------------------------------------------
(* Safety                                                                  *)

Numbers == [sign : {-1, 1}, int : Nat, frac : 0..999]

TypeOK ==
  /\ params \in Plants \cup {DefaultPlant}
  /\ sim_running \in BOOLEAN /\ input_source \in {"adc", "pwm"} /\ vmax_mv \in Nat
  /\ voltage_in \in Int
  /\ X \in [Fields -> Int]
  /\ line \in [voltage : Numbers, speed : Numbers, current : Numbers]
  /\ steps \in 0..MaxSteps /\ changes \in 0..MaxChanges

Between(n, low, high) == low <= n /\ n <= high

\* The state that stands still at v.
Steady(v) ==
  LET det == params.R * params.b + params.K * params.K
  IN  [current |-> (params.b * v * ParamUnit) \div det,
       speed   |-> (params.K * v * ParamUnit) \div det]

\* The voltage of a full-scale reading.
FullScale == Volts(IF input_source = "adc" THEN 3300 ELSE vmax_mv)

\* "never goes negative (a sane motor speed response)": motorsim_tests.robot, which
\* leaves 0.01 rad/s.
NeverNegative == sim_running => X["speed"] >= -(Unit \div 100)

\* Whatever sequence of readings and failed reads the input gives, the motor never
\* turns backwards nor faster than the steady speed at full scale.
SaneResponse ==
  /\ NeverNegative
  /\ sim_running => X["speed"] <= Steady(FullScale).speed + 10

\* On a constant input a run has come within half a percent, or a thousandth, of the
\* steady speed and current of that input after 20 steps, 4 s.
Settles ==
  sim_running /\ changes = 0 /\ steps >= 20 =>
    \A c \in Fields : LET final == Steady(voltage_in)[c]
                      IN  Between(200 * (X[c] - final), -final - 2000, final + 2000)

\* Each number of an MSIM line is within half a thousandth of the value it stands for
\* and has a minus sign only if that is negative.
Value(n) == n.sign * (n.int * Unit + n.frac * (Unit \div 1000))
Shows(n, val) ==
  /\ Between(2000 * (Value(n) - val), -Unit, Unit)
  /\ n.frac \in 0..999
  /\ n.sign = -1 => val < 0
Printed ==
  sim_running /\ steps > 0 =>
    /\ Shows(line.voltage, voltage_in)
    /\ Shows(line.speed, X["speed"])
    /\ Shows(line.current, X["current"])

\* A run starts from rest: on a constant input the speed of no sample is below that of
\* the one before, to the rounding of the model.
Rises ==
  [][sim_running /\ sim_running' /\ changes' = 0 => X'["speed"] >= X["speed"] - 1]_vars

\* The Taylor polynomial of degree 3 of the solution through y, for a step of 1/5.
Linear(d) == [current |-> -(params.R * d.current + params.K * d.speed) \div params.L,
              speed |-> (params.K * d.current - params.b * d.speed) \div params.J]
Taylor(v, y) ==
  LET d1 == Derivatives(v, y)
      d2 == Linear(d1)
      d3 == Linear(d2)
  IN  [c \in Fields |-> y[c] + (150 * d1[c] + 15 * d2[c] + d3[c]) \div 750]

\* A step of the solver is of third order: from every state it agrees with the Taylor
\* polynomial, to the rounding of the model.
ThirdOrder ==
  [][steps' = steps + 1 =>
       \A c \in Fields : Between(X'[c] - Taylor(voltage_in', X)[c], -5, 5)]_vars
=============================================================================
