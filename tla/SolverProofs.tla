---------------------------- MODULE SolverProofs ----------------------------
(***************************************************************************)
(* For every plant, input and number of steps: the types of Solver, the    *)
(* text of an MSIM line and, when no state changes too fast for the step,  *)
(* the order of the solver. For the plant the firmware starts with: the    *)
(* motor's response to any sequence of inputs, and to a constant one.      *)
(***************************************************************************)
EXTENDS Solver, TLAPS

\* The nearest tenth of a number of four digits.
LEMMA Tenths ==
  ASSUME NEW r \in Int, 0 <= r, r <= 9999
  PROVE  LET f == (r + 5) \div 10
         IN  f \in 0..1000 /\ 10 * f <= r + 5 /\ r + 5 < 10 * f + 10
  BY SMT

\* fmt_double gives a number of three digits after the point within half a thousandth
\* of its argument.
LEMMA FmtShows ==
  ASSUME NEW val \in Int
  PROVE  fmt_double(val) \in Numbers /\ Shows(fmt_double(val), val)
<1> DEFINE sign == IF val < 0 THEN -1 ELSE 1
           abs  == val * sign
           quot == abs \div 10000
           rest == abs % 10000
           frac == (rest + 5) \div 10
           int  == IF frac >= 1000 THEN quot + 1 ELSE quot
           dig  == IF frac >= 1000 THEN 0 ELSE frac
<1>1. sign \in {-1, 1} /\ abs \in Nat /\ val = sign * abs
  <2>1. CASE val < 0
    BY <2>1, SMT
  <2>2. CASE ~(val < 0)
    BY <2>2, SMT
  <2> QED BY <2>1, <2>2
<1>2. fmt_double(val) = [sign |-> sign, int |-> int, frac |-> dig]
  <2>1. 10000 \div 2000 = 5 /\ 10000 \div 1000 = 10
    BY SMT
  <2>2. fmt_double(val) = IF frac >= 1000
                          THEN [sign |-> sign, int |-> quot + 1, frac |-> 0]
                          ELSE [sign |-> sign, int |-> quot, frac |-> frac]
    BY <2>1 DEF fmt_double, Unit
  <2> HIDE DEF sign, abs, quot, rest, frac
  <2>3. CASE frac >= 1000
    BY <2>2, <2>3, Zenon
  <2>4. CASE ~(frac >= 1000)
    BY <2>2, <2>4, Zenon
  <2> QED BY <2>3, <2>4, Zenon
<1>s. sign = -1 => val < 0
  BY SMT
<1> HIDE DEF sign, abs
<1>3. rest \in 0..9999 /\ quot \in Nat /\ abs = 10000 * quot + rest
  BY <1>1, SMT
<1> HIDE DEF quot, rest
<1>4. frac \in 0..1000 /\ 10 * frac <= rest + 5 /\ rest + 5 < 10 * frac + 10
  BY <1>3, Tenths
<1> HIDE DEF frac
<1>5. /\ int \in Nat /\ dig \in 0..999
      /\ -5 <= 10000 * int + 10 * dig - abs /\ 10000 * int + 10 * dig - abs <= 5
  BY <1>1, <1>3, <1>4, SMT
<1> HIDE DEF int, dig
<1>6. fmt_double(val) \in Numbers
  BY <1>1, <1>2, <1>5, SMT DEF Numbers
<1>7. Value(fmt_double(val)) = sign * (int * 10000 + dig * 10)
  BY <1>1, <1>2, <1>5, SMT DEF Value, Unit
<1>8. Between(2000 * (Value(fmt_double(val)) - val), -10000, 10000)
  <2>1. CASE sign = 1
    BY <1>1, <1>5, <1>7, <2>1, SMT DEF Between
  <2>2. CASE sign = -1
    BY <1>1, <1>5, <1>7, <2>2, SMT DEF Between
  <2> QED BY <1>1, <2>1, <2>2
<1>9. fmt_double(val).sign = sign /\ fmt_double(val).frac = dig
  BY <1>2
<1> QED BY <1>5, <1>6, <1>8, <1>9, <1>s DEF Shows, Unit

\* Integers stay integers when they are rounded down.
LEMMA DivInt == ASSUME NEW a \in Int, NEW b \in Nat \ {0} PROVE a \div b \in Int
  BY SMT

\* A reading of either source is a number.
LEMMA ReadingType ==
  ASSUME NEW src \in {"adc", "pwm"}, NEW i \in Readings(src), vmax_mv \in Nat
  PROVE  read_input_voltage(i) \in Int
<1>0. ASSUME NEW r \in Raws PROVE AdcVoltage(r) \in Int
  <2>1. r \in Int
    BY SolverAssumption
  <2>2. r * 3300 \in Int /\ 4095 \in Nat \ {0}
    BY <2>1
  <2> DEFINE n == r * 3300
  <2>3. n \div 4095 \in Int
    <3> HIDE DEF n
    <3> QED BY <2>2, DivInt DEF n
  <2> QED BY <2>3 DEF AdcVoltage, Volts, Unit
<1>1. CASE i.src = "adc"
  <2>1. i \in [src : {"adc"}, raw : Raws]
    BY <1>1 DEF Readings, Inputs, NoInput
  <2>2. i.raw \in Raws
    BY <2>1
  <2>3. AdcVoltage(i.raw) \in Int
    BY <1>0, <2>2, Zenon
  <2>4. read_input_voltage(i) = AdcVoltage(i.raw)
    BY <1>1, Zenon DEF read_input_voltage
  <2> QED BY <2>3, <2>4, Zenon
<1>2. CASE i.src = "pwm"
  <2> DEFINE c == i.capture
  <2>1. c.period \in Nat /\ c.pulse \in Nat
    BY <1>2, SolverAssumption DEF Readings, Inputs, NoInput
  <2> HIDE DEF c
  <2>2. PwmVoltage(c) \in Int
    <3>1. CASE c.period = 0
      BY <3>1 DEF PwmVoltage
    <3>2. CASE c.period # 0
      <4> DEFINE duty == (c.pulse * 100) \div c.period
                 cut  == IF duty > 100 THEN 100 ELSE duty
      <4>1. duty \in Int
        BY <2>1, <3>2, DivInt
      <4>2. cut \in Int /\ Volts(vmax_mv) \in Int
        BY <4>1 DEF Volts, Unit
      <4>3. PwmVoltage(c) = (cut * Volts(vmax_mv)) \div 100
        BY <3>2 DEF PwmVoltage
      <4> HIDE DEF duty, cut
      <4>4. cut * Volts(vmax_mv) \in Int
        BY <4>2
      <4> QED BY <4>3, <4>4, DivInt
    <3> QED BY <3>1, <3>2
  <2> QED BY <1>2, <2>2 DEF read_input_voltage, c
<1> QED BY <1>1, <1>2 DEF Readings

\* The derivatives of a state are numbers.
LEMMA DerivativesType ==
  ASSUME params \in Parameters, NEW v \in Int, NEW x \in [Fields -> Int]
  PROVE  Derivatives(v, x) \in [Fields -> Int]
<1>1. /\ params.R \in Int /\ params.L \in Nat \ {0} /\ params.J \in Nat \ {0}
      /\ params.K \in Int /\ params.b \in Int /\ ParamUnit \in Int
      /\ x.current \in Int /\ x.speed \in Int
  BY SolverAssumption DEF Parameters, Fields
<1>2. ParamUnit * v - params.R * x.current - params.K * x.speed \in Int
  BY <1>1
<1>3. params.K * x.current - ParamUnit * LoadIn - params.b * x.speed \in Int
  BY <1>1 DEF LoadIn
<1>4. Inductance(v, x) \in Int /\ Inertia(x) \in Int
  BY <1>1, <1>2, <1>3, DivInt DEF Inductance, Inertia
<1> QED BY <1>4 DEF Derivatives, Fields

\* The stages of a step.
LEMMA Stages ==
  ASSUME params \in Parameters, NEW v \in Int, NEW y \in [Fields -> Int]
  PROVE  \E y1, y2 \in [Fields -> Int] :
           LET f0 == Derivatives(v, y)
               f1 == Derivatives(v, y1)
               f2 == Derivatives(v, y2)
           IN  /\ y1 = [c \in Fields |-> y[c] + f0[c] \div 10]
               /\ y2 = [c \in Fields |-> y[c] + (3 * f1[c]) \div 20]
               /\ rt_ertODEUpdateContinuousStates(v, y) =
                    [c \in Fields |-> y[c] + (2 * f0[c] + 3 * f1[c] + 4 * f2[c]) \div 45]
<1> DEFINE f0 == Derivatives(v, y)
           y1 == [c \in Fields |-> y[c] + f0[c] \div 10]
           f1 == Derivatives(v, y1)
           y2 == [c \in Fields |-> y[c] + (3 * f1[c]) \div 20]
           f2 == Derivatives(v, y2)
<1>1. f0 \in [Fields -> Int]
  BY DerivativesType
<1>2. y1 \in [Fields -> Int]
  <2> HIDE DEF f0
  <2>1. ASSUME NEW c \in Fields PROVE y[c] + f0[c] \div 10 \in Int
    BY <1>1, DivInt
  <2> QED BY <2>1
<1>3. f1 \in [Fields -> Int]
  <2> HIDE DEF y1
  <2> QED BY <1>2, DerivativesType
<1>4. y2 \in [Fields -> Int]
  <2> HIDE DEF f1
  <2>1. ASSUME NEW c \in Fields PROVE y[c] + (3 * f1[c]) \div 20 \in Int
    BY <1>3, DivInt
  <2> QED BY <2>1
<1>5. rt_ertODEUpdateContinuousStates(v, y) =
        [c \in Fields |-> y[c] + (2 * f0[c] + 3 * f1[c] + 4 * f2[c]) \div 45]
  BY Zenon DEF rt_ertODEUpdateContinuousStates
<1> HIDE DEF y1, y2
<1> WITNESS y1 \in [Fields -> Int], y2 \in [Fields -> Int]
<1> QED BY <1>5, Zenon DEF y1, y2

\* So is the state a step arrives at.
LEMMA StepType ==
  ASSUME params \in Parameters, NEW v \in Int, NEW y \in [Fields -> Int]
  PROVE  rt_ertODEUpdateContinuousStates(v, y) \in [Fields -> Int]
<1>1. PICK y1 \in [Fields -> Int], y2 \in [Fields -> Int] :
           LET f0 == Derivatives(v, y)
               f1 == Derivatives(v, y1)
               f2 == Derivatives(v, y2)
           IN  /\ y1 = [c \in Fields |-> y[c] + f0[c] \div 10]
               /\ y2 = [c \in Fields |-> y[c] + (3 * f1[c]) \div 20]
               /\ rt_ertODEUpdateContinuousStates(v, y) =
                    [c \in Fields |-> y[c] + (2 * f0[c] + 3 * f1[c] + 4 * f2[c]) \div 45]
  BY Stages, Zenon
<1> DEFINE f0 == Derivatives(v, y)
           f1 == Derivatives(v, y1)
           f2 == Derivatives(v, y2)
<1>2. f0 \in [Fields -> Int] /\ f1 \in [Fields -> Int] /\ f2 \in [Fields -> Int]
  BY DerivativesType
<1>3. rt_ertODEUpdateContinuousStates(v, y) =
        [c \in Fields |-> y[c] + (2 * f0[c] + 3 * f1[c] + 4 * f2[c]) \div 45]
  BY <1>1, Zenon
<1> HIDE DEF f0, f1, f2
<1>4. ASSUME NEW c \in Fields
      PROVE  y[c] + (2 * f0[c] + 3 * f1[c] + 4 * f2[c]) \div 45 \in Int
  <2>1. 2 * f0[c] + 3 * f1[c] + 4 * f2[c] \in Int
    BY <1>2
  <2> QED BY <2>1, DivInt
<1> QED BY <1>3, <1>4

\* An MSIM line is three numbers, each of which shows its value.
LEMMA LineType ==
  ASSUME NEW v \in Int, NEW x \in [Fields -> Int]
  PROVE  /\ MsimLine(v, x) \in [voltage : Numbers, speed : Numbers, current : Numbers]
         /\ Shows(MsimLine(v, x).voltage, v)
         /\ Shows(MsimLine(v, x).speed, x["speed"])
         /\ Shows(MsimLine(v, x).current, x["current"])
<1>1. x.current \in Int /\ x.speed \in Int
  BY DEF Fields
<1>2. /\ fmt_double(v) \in Numbers /\ fmt_double(x.speed) \in Numbers
      /\ fmt_double(x.current) \in Numbers
  BY <1>1, FmtShows
<1>3. /\ MsimLine(v, x).voltage = fmt_double(v)
      /\ MsimLine(v, x).speed = fmt_double(x.speed)
      /\ MsimLine(v, x).current = fmt_double(x.current)
  BY DEF MsimLine
<1>4. /\ Shows(fmt_double(v), v) /\ Shows(fmt_double(x.speed), x["speed"])
      /\ Shows(fmt_double(x.current), x["current"])
  BY <1>1, FmtShows
<1> QED BY <1>2, <1>3, <1>4 DEF MsimLine
-----------------------------------------------------------------------------
\* The text of the last step is still that of the state.
LineFresh == steps > 0 => line = MsimLine(voltage_in, X)

IInv == TypeOK /\ LineFresh

\* It holds at first ...
LEMMA InitInvariant == Init => IInv
<1> SUFFICES ASSUME Init PROVE IInv
  OBVIOUS
<1>1. Rest \in [Fields -> Int]
  BY DEF Rest
<1>2. line \in [voltage : Numbers, speed : Numbers, current : Numbers]
  BY <1>1, LineType DEF Init
<1>3. params \in Plants \cup {DefaultPlant}
  BY Zenon DEF Init
<1>4. 0 \in 0..MaxSteps /\ 0 \in 0..MaxChanges
  BY SolverAssumption
<1>5. sim_running \in BOOLEAN /\ input_source \in {"adc", "pwm"} /\ X = Rest
  BY Zenon DEF Init
<1>7. vmax_mv \in Nat /\ voltage_in \in Int /\ steps = 0 /\ changes = 0
  BY DEF Init
<1>6. LineFresh
  BY <1>7 DEF LineFresh
<1> QED BY <1>1, <1>2, <1>3, <1>4, <1>5, <1>6, <1>7, Zenon DEF IInv, TypeOK

\* ... and every step keeps it,
LEMMA NextInvariant == IInv /\ [Next]_vars => IInv'
<1> SUFFICES ASSUME IInv, [Next]_vars PROVE IInv'
  OBVIOUS
<1> USE DEF IInv, LineFresh
<1>1. ASSUME NEW p \in Plants, Params(p) PROVE IInv'
  BY <1>1 DEF Params, TypeOK
<1>2. ASSUME NEW src \in {"adc", "pwm"}, NEW vmax \in VmaxVals, Start(src, vmax)
      PROVE  IInv'
  <2>1. Rest \in [Fields -> Int]
    BY DEF Rest
  <2> QED BY <1>2, <2>1, SolverAssumption DEF Start, TypeOK
<1>3. CASE Stop
  BY <1>3 DEF Stop, TypeOK
<1>4. ASSUME NEW i \in Readings(input_source), Step(i) PROVE IInv'
  <2>1. params \in Parameters
    BY SolverAssumption DEF TypeOK
  <2>2. voltage_in' \in Int
    BY <1>4, ReadingType DEF Step, TypeOK
  <2>3. X' \in [Fields -> Int]
    BY <1>4, <2>1, <2>2, StepType DEF Step, TypeOK
  <2>4. line' \in [voltage : Numbers, speed : Numbers, current : Numbers]
    BY <1>4, <2>2, <2>3, LineType DEF Step
  <2>5. LineFresh'
    BY <1>4 DEF Step
  <2>6. steps' \in 0..MaxSteps /\ changes' \in 0..MaxChanges
    BY <1>4, SolverAssumption DEF Step, TypeOK
  <2> QED BY <1>4, <2>2, <2>3, <2>4, <2>5, <2>6 DEF Step, TypeOK
<1>5. CASE UNCHANGED vars
  BY <1>5 DEF vars, TypeOK
<1> QED BY <1>1, <1>2, <1>3, <1>4, <1>5 DEF Next

\* so it is an invariant.
LEMMA Invariance == Spec => []IInv
BY InitInvariant, NextInvariant, PTL DEF Spec

\* For every plant and input the numbers of the model are integers, each step included:
\* no solver stage divides by a parameter it may not divide by.
THEOREM TypeCorrect == Spec => []TypeOK
<1>1. IInv => TypeOK
  BY DEF IInv
<1> QED BY <1>1, Invariance, PTL

\* In every run, every number of the last MSIM line is within half a thousandth of the
\* voltage, speed or current of the plant, and has a sign only if that is negative.
THEOREM PrintedCorrect == Spec => []Printed
<1>1. IInv => Printed
  BY LineType DEF IInv, TypeOK, LineFresh, Printed
<1> QED BY <1>1, Invariance, PTL
-----------------------------------------------------------------------------
(* The order of a step *)

\* What a quotient rounded down is.
LEMMA Quotient ==
  ASSUME NEW n \in Int, NEW d \in Nat \ {0}
  PROVE  n \div d \in Int /\ d * (n \div d) <= n /\ n < d * (n \div d) + d
BY SMT

\* How fast a state may change.
Rates(P, Q, D) == \A s, t \in {-1, 1} : s * P + t * Q <= 14 * D

\* A product with a factor of at most m.
LEMMA Product ==
  ASSUME NEW a \in Int, NEW m \in Nat, NEW x \in -m..m
  PROVE  /\ a >= 0 => -(a * m) <= a * x /\ a * x <= a * m
         /\ a <= 0 => a * m <= a * x /\ a * x <= -(a * m)
<1>1. ASSUME NEW p \in Nat, NEW q \in Nat PROVE p * q >= 0
  BY SMT
<1>2. CASE a >= 0
  <2>1. a * (m - x) >= 0 /\ a * (m + x) >= 0
    BY <1>1, <1>2
  <2>2. a * (m - x) = a * m - a * x /\ a * (m + x) = a * m + a * x
    BY SMT
  <2>3. a = 0 => a * m = 0 /\ a * x = 0
    BY SMT
  <2> QED BY <1>2, <2>1, <2>2, <2>3
<1>3. CASE a < 0
  <2>1. (-a) * (m - x) >= 0 /\ (-a) * (m + x) >= 0
    BY <1>1, <1>3
  <2>2. (-a) * (m - x) = -(a * m) + a * x /\ (-a) * (m + x) = -(a * m) - a * x
    BY SMT
  <2> QED BY <1>3, <2>1, <2>2
<1> QED BY <1>2, <1>3

\* The right-hand side of an equation of such rates, of two states of at most m.
LEMMA Bounded ==
  ASSUME NEW P \in Int, NEW Q \in Int, NEW D \in Nat \ {0}, Rates(P, Q, D),
         NEW m \in Nat, NEW x \in -m..m, NEW y \in -m..m
  PROVE  -(14 * (D * m)) <= P * x + Q * y /\ P * x + Q * y <= 14 * (D * m)
<1>1. /\ P + Q <= 14 * D /\ P - Q <= 14 * D /\ -P + Q <= 14 * D /\ -P - Q <= 14 * D
  <2>1. \A s, t \in {-1, 1} : s * P + t * Q <= 14 * D
    BY DEF Rates
  <2> QED BY <2>1
<1>2. ASSUME NEW n \in Int, n <= 14 * D PROVE n * m <= 14 * (D * m)
  <2>1. (14 * D - n) * m >= 0
    BY <1>2, SMT
  <2>2. (14 * D - n) * m = 14 * (D * m) - n * m
    BY SMT
  <2> QED BY <2>1, <2>2
<1>3. /\ (P + Q) * m <= 14 * (D * m) /\ (P - Q) * m <= 14 * (D * m)
      /\ (-P + Q) * m <= 14 * (D * m) /\ (-P - Q) * m <= 14 * (D * m)
  BY <1>1, <1>2
<1>4. /\ (P + Q) * m = P * m + Q * m /\ (P - Q) * m = P * m - Q * m
      /\ (-P + Q) * m = -(P * m) + Q * m /\ (-P - Q) * m = -(P * m) - Q * m
  BY SMT
<1>5. /\ P >= 0 => -(P * m) <= P * x /\ P * x <= P * m
      /\ P <= 0 => P * m <= P * x /\ P * x <= -(P * m)
      /\ Q >= 0 => -(Q * m) <= Q * y /\ Q * y <= Q * m
      /\ Q <= 0 => Q * m <= Q * y /\ Q * y <= -(Q * m)
  BY Product
<1>6. /\ P * m \in Int /\ Q * m \in Int /\ P * x \in Int /\ Q * y \in Int /\ D * m \in Int
  BY SMT
<1> DEFINE pm == P * m  qm == Q * m  px == P * x  qy == Q * y  dm == D * m
<1>7. /\ pm + qm <= 14 * dm /\ pm - qm <= 14 * dm
      /\ -pm + qm <= 14 * dm /\ -pm - qm <= 14 * dm
  BY <1>3, <1>4
<1> HIDE DEF pm, qm, px, qy, dm
<1>8. -(14 * dm) <= px + qy /\ px + qy <= 14 * dm
  BY <1>5, <1>6, <1>7 DEF pm, qm, px, qy, dm
<1> QED BY <1>8 DEF px, qy, dm

\* A common factor of a number and its bounds is left out.
LEMMA Apart ==
  ASSUME NEW D \in Nat \ {0}, NEW z \in Int, NEW m \in Nat,
         -(D * m) <= D * z, D * z <= D * m
  PROVE  -m <= z /\ z <= m
<1>1. ASSUME NEW k \in Int, k > 0 PROVE D * k > 0
  BY <1>1, SMT
<1>2. CASE z > m
  <2>1. D * (z - m) > 0
    BY <1>1, <1>2
  <2>2. D * (z - m) = D * z - D * m
    BY SMT
  <2>3. D * z \in Int /\ D * m \in Int
    BY SMT
  <2> QED BY <2>1, <2>2, <2>3
<1>3. CASE z < -m
  <2>1. D * (-m - z) > 0
    BY <1>1, <1>3
  <2>2. D * (-m - z) = -(D * m) - D * z
    BY SMT
  <2>3. D * z \in Int /\ D * m \in Int
    BY SMT
  <2> QED BY <2>1, <2>2, <2>3
<1> QED BY <1>2, <1>3

\* Within m of 0.
Near(n, m) == n \in -m..m

\* One equation of the plant, z' = (c + P x + Q y) / D, at the state <<x, y>>, whose own
\* derivatives are a and b, rounded down: z' is g0, z'' is d2, to the rounding.
Equation(P, Q, D, c, x, y, a, b, g0, d2) ==
  /\ P \in Int /\ Q \in Int /\ D \in Nat \ {0} /\ Rates(P, Q, D)
  /\ c \in Int /\ x \in Int /\ y \in Int /\ a \in Int /\ b \in Int
  /\ g0 \in Int /\ D * g0 <= c + P * x + Q * y /\ c + P * x + Q * y < D * g0 + D
  /\ d2 \in Int /\ D * d2 - D < P * a + Q * b /\ P * a + Q * b < D * d2 + D

\* The second stage finds z' to be g1, a tenth of a second later.
Second(P, Q, D, c, x, y, a, b, g0, g1, d2) ==
  /\ Equation(P, Q, D, c, x, y, a, b, g0, d2)
  /\ g1 \in Int
  /\ D * g1 <= c + P * (x + a \div 10) + Q * (y + b \div 10)
  /\ c + P * (x + a \div 10) + Q * (y + b \div 10) < D * g1 + D

\* Then the difference of the two is a tenth of z'', to the rounding.
LEMMA SecondStage ==
  ASSUME NEW P, NEW Q, NEW D, NEW c, NEW x, NEW y, NEW a, NEW b, NEW g0, NEW g1,
         NEW d2, Second(P, Q, D, c, x, y, a, b, g0, g1, d2)
  PROVE  Near(10 * (g1 - g0) - d2, 137)
<1>0. /\ P \in Int /\ Q \in Int /\ D \in Nat \ {0} /\ Rates(P, Q, D)
      /\ c \in Int /\ x \in Int /\ y \in Int /\ a \in Int /\ b \in Int
      /\ g0 \in Int /\ D * g0 <= c + P * x + Q * y /\ c + P * x + Q * y < D * g0 + D
      /\ d2 \in Int /\ D * d2 - D < P * a + Q * b /\ P * a + Q * b < D * d2 + D
      /\ g1 \in Int
      /\ D * g1 <= c + P * (x + a \div 10) + Q * (y + b \div 10)
      /\ c + P * (x + a \div 10) + Q * (y + b \div 10) < D * g1 + D
  BY Zenon DEF Second, Equation
<1> DEFINE p == a \div 10
           q == b \div 10
           r == a - 10 * p
           s == b - 10 * q
<1>1. p \in Int /\ q \in Int /\ r \in 0..9 /\ s \in 0..9
  BY <1>0, Quotient
<1>2. /\ D * g1 <= c + P * (x + p) + Q * (y + q)
      /\ c + P * (x + p) + Q * (y + q) < D * g1 + D
  BY <1>0
<1>3. a = 10 * p + r /\ b = 10 * q + s
  BY <1>0, <1>1
<1> HIDE DEF p, q, r, s
<1>4. -(14 * (D * 9)) <= P * r + Q * s /\ P * r + Q * s <= 14 * (D * 9)
  <2>1. r \in -9..9 /\ s \in -9..9 /\ 9 \in Nat
    BY <1>1
  <2> QED BY <1>0, <2>1, Bounded
<1>5. /\ P * (x + p) = P * x + P * p /\ Q * (y + q) = Q * y + Q * q
      /\ P * a = 10 * (P * p) + P * r /\ Q * b = 10 * (Q * q) + Q * s
  BY <1>0, <1>1, <1>3, SMT
<1> DEFINE Px == P * x  Qy == Q * y  Pp == P * p  Qq == Q * q  Pr == P * r  Qs == Q * s
           G0 == D * g0  G1 == D * g1  D2 == D * d2
<1>6. /\ Px \in Int /\ Qy \in Int /\ Pp \in Int /\ Qq \in Int /\ Pr \in Int /\ Qs \in Int
      /\ G0 \in Int /\ G1 \in Int /\ D2 \in Int
  BY <1>0, <1>1, SMT
<1>7. /\ G0 <= c + Px + Qy /\ c + Px + Qy < G0 + D
      /\ G1 <= c + (Px + Pp) + (Qy + Qq) /\ c + (Px + Pp) + (Qy + Qq) < G1 + D
      /\ D2 - D < (10 * Pp + Pr) + (10 * Qq + Qs)
      /\ (10 * Pp + Pr) + (10 * Qq + Qs) < D2 + D
      /\ -(126 * D) <= Pr + Qs /\ Pr + Qs <= 126 * D
  <2>1. 14 * (D * 9) = 126 * D
    BY <1>0, SMT
  <2> QED BY <1>0, <1>2, <1>4, <1>5, <2>1
<1>8. D * (10 * (g1 - g0) - d2) = 10 * (G1 - G0) - D2
  BY <1>0, SMT
<1> HIDE DEF Px, Qy, Pp, Qq, Pr, Qs, G0, G1, D2
<1>9. -(137 * D) <= 10 * (G1 - G0) - D2 /\ 10 * (G1 - G0) - D2 <= 137 * D
  BY <1>0, <1>6, <1>7
<1>10. D * 137 = 137 * D /\ 10 * (g1 - g0) - d2 \in Int /\ 137 \in Nat
  BY <1>0, SMT
<1> DEFINE z == 10 * (g1 - g0) - d2
<1>11. -(D * 137) <= D * z /\ D * z <= D * 137 /\ z \in Int
  BY <1>8, <1>9, <1>10
<1> HIDE DEF z
<1>12. -137 <= z /\ z <= 137
  BY <1>0, <1>10, <1>11, Apart
<1>13. z \in -137..137
  BY <1>11, <1>12
<1> QED BY <1>13, Zenon DEF z, Near

\* What is left of z' in the third stage beyond its Taylor terms, 200 fold.
Beyond(g0, g2, d2, d3) == 200 * (g2 - g0) - 30 * d2 - 3 * d3

\* What the rounding of three stages comes to.
Slack == 8647

\* The third stage, three twentieths of a second later, starts from what the second
\* found of the two derivatives, a1 and b1; da and db are theirs to the rounding of it.
Third(P, Q, D, c, x, y, a0, b0, a1, b1, da, db, g0, g2, d2, d3) ==
  /\ Equation(P, Q, D, c, x, y, a0, b0, g0, d2)
  /\ a1 \in Int /\ b1 \in Int /\ da \in Int /\ db \in Int
  /\ Near(10 * (a1 - a0) - da, 137) /\ Near(10 * (b1 - b0) - db, 137)
  /\ g2 \in Int
  /\ D * g2 <= c + P * (x + (3 * a1) \div 20) + Q * (y + (3 * b1) \div 20)
  /\ c + P * (x + (3 * a1) \div 20) + Q * (y + (3 * b1) \div 20) < D * g2 + D
  /\ d3 \in Int /\ D * d3 - D < P * da + Q * db /\ P * da + Q * db < D * d3 + D

\* Then z' differs by the Taylor terms of that time, to the rounding.
LEMMA ThirdStage ==
  ASSUME NEW P, NEW Q, NEW D, NEW c, NEW x, NEW y, NEW a0, NEW b0, NEW a1, NEW b1,
         NEW da, NEW db, NEW g0, NEW g2, NEW d2, NEW d3,
         Third(P, Q, D, c, x, y, a0, b0, a1, b1, da, db, g0, g2, d2, d3)
  PROVE  Near(Beyond(g0, g2, d2, d3), Slack)
<1>0. /\ P \in Int /\ Q \in Int /\ D \in Nat \ {0} /\ Rates(P, Q, D)
      /\ c \in Int /\ x \in Int /\ y \in Int /\ a0 \in Int /\ b0 \in Int
      /\ g0 \in Int /\ D * g0 <= c + P * x + Q * y /\ c + P * x + Q * y < D * g0 + D
      /\ d2 \in Int /\ D * d2 - D < P * a0 + Q * b0 /\ P * a0 + Q * b0 < D * d2 + D
      /\ a1 \in Int /\ b1 \in Int /\ da \in Int /\ db \in Int
      /\ Near(10 * (a1 - a0) - da, 137) /\ Near(10 * (b1 - b0) - db, 137)
      /\ g2 \in Int
      /\ D * g2 <= c + P * (x + (3 * a1) \div 20) + Q * (y + (3 * b1) \div 20)
      /\ c + P * (x + (3 * a1) \div 20) + Q * (y + (3 * b1) \div 20) < D * g2 + D
      /\ d3 \in Int /\ D * d3 - D < P * da + Q * db /\ P * da + Q * db < D * d3 + D
  BY Zenon DEF Third, Equation
<1> DEFINE p == (3 * a1) \div 20
           q == (3 * b1) \div 20
           r == 3 * a1 - 20 * p
           s == 3 * b1 - 20 * q
           e == 10 * (a1 - a0) - da
           f == 10 * (b1 - b0) - db
<1>1. p \in Int /\ q \in Int /\ r \in 0..19 /\ s \in 0..19
  <2>1. 3 * a1 \in Int /\ 3 * b1 \in Int
    BY <1>0
  <2> DEFINE m == 3 * a1  n == 3 * b1
  <2> HIDE DEF m, n
  <2>2. m \div 20 \in Int /\ m - 20 * (m \div 20) \in 0..19
    BY <2>1, SMT DEF m
  <2>3. n \div 20 \in Int /\ n - 20 * (n \div 20) \in 0..19
    BY <2>1, SMT DEF n
  <2> QED BY <2>2, <2>3, Zenon DEF m, n
<1>2. /\ D * g2 <= c + P * (x + p) + Q * (y + q)
      /\ c + P * (x + p) + Q * (y + q) < D * g2 + D
  BY <1>0
<1>3. /\ 3 * a1 = 20 * p + r /\ 3 * b1 = 20 * q + s
      /\ 10 * a1 = 10 * a0 + da + e /\ 10 * b1 = 10 * b0 + db + f
      /\ e \in -137..137 /\ f \in -137..137
  BY <1>0, <1>1 DEF Near
<1> HIDE DEF p, q, r, s, e, f
<1>4. /\ -(14 * (D * 19)) <= P * r + Q * s /\ P * r + Q * s <= 14 * (D * 19)
      /\ -(14 * (D * 137)) <= P * e + Q * f /\ P * e + Q * f <= 14 * (D * 137)
  <2>1. r \in -19..19 /\ s \in -19..19 /\ 19 \in Nat /\ 137 \in Nat
    BY <1>1
  <2> QED BY <1>0, <1>3, <2>1, Bounded
<1> DEFINE Px == P * x  Qy == Q * y  Pp == P * p  Qq == Q * q  Pr == P * r  Qs == Q * s
           Pa == P * a0  Qb == Q * b0  Pd == P * da  Qd == Q * db
           Pe == P * e  Qf == Q * f
           G0 == D * g0  G2 == D * g2  D2 == D * d2  D3 == D * d3
<1>5. P * (x + p) = Px + Pp /\ Q * (y + q) = Qy + Qq
  BY <1>0, <1>1, SMT
<1>6. 200 * Pp + 10 * Pr = 30 * Pa + 3 * Pd + 3 * Pe
  <2>1. P * (30 * a1) = 200 * Pp + 10 * Pr
    <3>1. 30 * a1 = 200 * p + 10 * r
      BY <1>0, <1>1, <1>3
    <3> QED BY <1>0, <1>1, <3>1, SMT
  <2>2. P * (30 * a1) = 30 * Pa + 3 * Pd + 3 * Pe
    <3>1. 30 * a1 = 30 * a0 + 3 * da + 3 * e
      BY <1>0, <1>3
    <3> QED BY <1>0, <1>3, <3>1, SMT
  <2> QED BY <2>1, <2>2
<1>7. 200 * Qq + 10 * Qs = 30 * Qb + 3 * Qd + 3 * Qf
  <2>1. Q * (30 * b1) = 200 * Qq + 10 * Qs
    <3>1. 30 * b1 = 200 * q + 10 * s
      BY <1>0, <1>1, <1>3
    <3> QED BY <1>0, <1>1, <3>1, SMT
  <2>2. Q * (30 * b1) = 30 * Qb + 3 * Qd + 3 * Qf
    <3>1. 30 * b1 = 30 * b0 + 3 * db + 3 * f
      BY <1>0, <1>3
    <3> QED BY <1>0, <1>3, <3>1, SMT
  <2> QED BY <2>1, <2>2
<1>8. /\ Px \in Int /\ Qy \in Int /\ Pp \in Int /\ Qq \in Int /\ Pr \in Int /\ Qs \in Int
      /\ Pa \in Int /\ Qb \in Int /\ Pd \in Int /\ Qd \in Int /\ Pe \in Int /\ Qf \in Int
      /\ G0 \in Int /\ G2 \in Int /\ D2 \in Int /\ D3 \in Int
  BY <1>0, <1>1, <1>3, SMT
<1>9. /\ G0 <= c + Px + Qy /\ c + Px + Qy < G0 + D
      /\ G2 <= c + (Px + Pp) + (Qy + Qq) /\ c + (Px + Pp) + (Qy + Qq) < G2 + D
      /\ D2 - D < Pa + Qb /\ Pa + Qb < D2 + D
      /\ D3 - D < Pd + Qd /\ Pd + Qd < D3 + D
      /\ -(266 * D) <= Pr + Qs /\ Pr + Qs <= 266 * D
      /\ -(1918 * D) <= Pe + Qf /\ Pe + Qf <= 1918 * D
  <2>1. 14 * (D * 19) = 266 * D /\ 14 * (D * 137) = 1918 * D
    BY <1>0, SMT
  <2> QED BY <1>0, <1>2, <1>4, <1>5, <2>1
<1>10. D * (200 * (g2 - g0) - 30 * d2 - 3 * d3) = 200 * (G2 - G0) - 30 * D2 - 3 * D3
  BY <1>0, SMT
<1> HIDE DEF Px, Qy, Pp, Qq, Pr, Qs, Pa, Qb, Pd, Qd, Pe, Qf, G0, G2, D2, D3
<1> DEFINE w == 200 * (G2 - G0) - 30 * D2 - 3 * D3
<1>11. -(8647 * D) <= w /\ w <= 8647 * D
  BY <1>0, <1>6, <1>7, <1>8, <1>9
<1> HIDE DEF w
<1> DEFINE z == 200 * (g2 - g0) - 30 * d2 - 3 * d3
<1>12. D * 8647 = 8647 * D /\ z \in Int /\ 8647 \in Nat
  BY <1>0, SMT
<1>13. D * z = w
  BY <1>10 DEF w
<1> HIDE DEF z
<1>14. -8647 <= z /\ z <= 8647
  BY <1>0, <1>11, <1>12, <1>13, Apart
<1>15. Near(z, Slack)
  BY <1>12, <1>14 DEF Near, Slack
<1>16. z = Beyond(g0, g2, d2, d3)
  BY DEF z, Beyond
<1> QED BY <1>15, <1>16, Zenon

\* What the three stages, and the Taylor terms, add to the state.
Mean(g0, g1, g2) == (2 * g0 + 3 * g1 + 4 * g2) \div 45
Series(d1, d2, d3) == (150 * d1 + 15 * d2 + d3) \div 750

\* The derivative of the three stages against the derivatives of the first.
Agree(g0, g1, g2, d2, d3) ==
  /\ g0 \in Int /\ g1 \in Int /\ g2 \in Int /\ d2 \in Int /\ d3 \in Int
  /\ Near(10 * (g1 - g0) - d2, 137)
  /\ Near(Beyond(g0, g2, d2, d3), Slack)

\* What the three stages add up to.
LEMMA Weighted ==
  ASSUME NEW g0, NEW g1, NEW g2, NEW d2, NEW d3, Agree(g0, g1, g2, d2, d3)
  PROVE  Near(Mean(g0, g1, g2) - Series(g0, d2, d3), 5)
<1> DEFINE S == 2 * g0 + 3 * g1 + 4 * g2
           T == 150 * g0 + 15 * d2 + d3
           u == 10 * (g1 - g0) - d2
           w == 200 * (g2 - g0) - 30 * d2 - 3 * d3
<1>1. /\ S \in Int /\ T \in Int /\ u \in Int /\ w \in Int
      /\ -137 <= u /\ u <= 137 /\ -8647 <= w /\ w <= 8647
  BY DEF Agree, Near, Slack, Beyond
<1>2. 50 * S - 3 * T = 15 * u + w
  BY DEF Agree, Near, Slack, Beyond
<1> HIDE DEF S, T, u, w
<1> DEFINE a == S \div 45
           b == T \div 750
<1>3. a \in Int /\ 45 * a <= S /\ S < 45 * a + 45
  <2>1. S \in Int
    BY <1>1
  <2> QED BY <2>1, SMT
<1>4. b \in Int /\ 750 * b <= T /\ T < 750 * b + 750
  <2>1. T \in Int
    BY <1>1
  <2> QED BY <2>1, SMT
<1> HIDE DEF a, b
<1>5. -10702 <= 50 * S - 3 * T /\ 50 * S - 3 * T <= 10702
  BY <1>1, <1>2
<1>6. a - b <= 5 /\ -5 <= a - b
  <2>1. S \in Int /\ T \in Int
    BY <1>1
  <2> QED BY <1>3, <1>4, <1>5, <2>1
<1>7. a - b \in -5..5
  BY <1>3, <1>4, <1>6
<1> QED BY <1>7 DEF a, b, S, T, Near, Mean, Series

\* A plant none of whose states can change by more than 14 times its size a second.
Gentle(p) == Rates(p.R, p.K, p.L) /\ Rates(p.K, p.b, p.J)

\* The signs of the rates do not matter.
LEMMA Opposite ==
  ASSUME NEW P \in Int, NEW Q \in Int, NEW D \in Int, Rates(P, Q, D)
  PROVE  Rates(-P, -Q, D) /\ Rates(P, -Q, D)
<1>1. \A s, t \in {-1, 1} : s * P + t * Q <= 14 * D
  BY DEF Rates
<1>2. /\ P + Q <= 14 * D /\ P - Q <= 14 * D /\ -P + Q <= 14 * D /\ -P - Q <= 14 * D
  BY <1>1
<1>3. \A s, t \in {-1, 1} : s * (-P) + t * (-Q) <= 14 * D
  BY <1>2
<1>4. \A s, t \in {-1, 1} : s * P + t * (-Q) <= 14 * D
  BY <1>2
<1> QED BY <1>3, <1>4 DEF Rates

\* The derivatives of a state are the two right-hand sides, rounded down.
LEMMA DerivativeBounds ==
  ASSUME params \in Parameters, NEW v \in Int, NEW x \in [Fields -> Int]
  PROVE  LET f == Derivatives(v, x)
             m == ParamUnit * v + (-params.R) * x["current"] + (-params.K) * x["speed"]
             n == 0 + params.K * x["current"] + (-params.b) * x["speed"]
         IN  /\ f \in [Fields -> Int]
             /\ params.L * f["current"] <= m /\ m < params.L * f["current"] + params.L
             /\ params.J * f["speed"] <= n /\ n < params.J * f["speed"] + params.J
<1> DEFINE m == ParamUnit * v - params.R * x.current - params.K * x.speed
           n == params.K * x.current - ParamUnit * LoadIn - params.b * x.speed
<1>1. /\ params.R \in Int /\ params.L \in Nat \ {0} /\ params.J \in Nat \ {0}
      /\ params.K \in Int /\ params.b \in Int /\ ParamUnit \in Int
      /\ x["current"] \in Int /\ x["speed"] \in Int
  BY SolverAssumption DEF Parameters, Fields
<1>2. /\ m = ParamUnit * v + (-params.R) * x["current"] + (-params.K) * x["speed"]
      /\ n = 0 + params.K * x["current"] + (-params.b) * x["speed"]
      /\ m \in Int /\ n \in Int
  BY <1>1 DEF LoadIn
<1>3. Derivatives(v, x) = [current |-> m \div params.L, speed |-> n \div params.J]
  BY DEF Derivatives, Inductance, Inertia
<1> HIDE DEF m, n
<1>4. /\ m \div params.L \in Int
      /\ params.L * (m \div params.L) <= m /\ m < params.L * (m \div params.L) + params.L
      /\ n \div params.J \in Int
      /\ params.J * (n \div params.J) <= n /\ n < params.J * (n \div params.J) + params.J
  BY <1>1, <1>2, Quotient
<1>5. Derivatives(v, x) \in [Fields -> Int]
  BY DerivativesType
<1> QED BY <1>2, <1>3, <1>4, <1>5

\* Their own derivatives are the linear part of them, rounded to either side.
LEMMA LinearBounds ==
  ASSUME params \in Parameters, NEW x \in [Fields -> Int]
  PROVE  LET e == Linear(x)
             m == (-params.R) * x["current"] + (-params.K) * x["speed"]
             n == params.K * x["current"] + (-params.b) * x["speed"]
         IN  /\ e \in [Fields -> Int]
             /\ params.L * e["current"] - params.L < m
             /\ m < params.L * e["current"] + params.L
             /\ params.J * e["speed"] - params.J < n
             /\ n < params.J * e["speed"] + params.J
<1> DEFINE m == params.R * x.current + params.K * x.speed
           n == params.K * x.current - params.b * x.speed
           q == m \div params.L
           r == n \div params.J
<1>1. /\ params.R \in Int /\ params.L \in Nat \ {0} /\ params.J \in Nat \ {0}
      /\ params.K \in Int /\ params.b \in Int
      /\ x["current"] \in Int /\ x["speed"] \in Int
  BY DEF Parameters, Fields
<1>2. /\ -m = (-params.R) * x["current"] + (-params.K) * x["speed"]
      /\ n = params.K * x["current"] + (-params.b) * x["speed"]
      /\ m \in Int /\ n \in Int
  BY <1>1
<1>3. Linear(x) = [current |-> -q, speed |-> r]
  BY DEF Linear
<1> HIDE DEF m, n
<1>4. /\ q \in Int /\ params.L * q <= m /\ m < params.L * q + params.L
      /\ r \in Int /\ params.J * r <= n /\ n < params.J * r + params.J
  BY <1>1, <1>2, Quotient
<1> HIDE DEF q, r
<1>5. params.L * (-q) = -(params.L * q) /\ params.L * q \in Int /\ params.J * r \in Int
  BY <1>1, <1>4, SMT
<1>6. /\ params.L * (-q) - params.L < -m /\ -m < params.L * (-q) + params.L
      /\ params.J * r - params.J < n /\ n < params.J * r + params.J
  BY <1>1, <1>2, <1>4, <1>5
<1>7. -q \in Int
  BY <1>4
<1>8. Linear(x) \in [Fields -> Int]
  BY <1>3, <1>4, <1>7 DEF Fields
<1>9. Linear(x)["current"] = -q /\ Linear(x)["speed"] = r
  BY <1>3
<1> QED BY <1>2, <1>6, <1>8, <1>9


\* A step of the solver agrees with the Taylor polynomial of degree 3.
LEMMA StepTaylor ==
  ASSUME params \in Parameters, Gentle(params), NEW v \in Int, NEW y \in [Fields -> Int],
         NEW c \in Fields
  PROVE  rt_ertODEUpdateContinuousStates(v, y)[c] - Taylor(v, y)[c] \in -5..5
<1>1. PICK y1 \in [Fields -> Int], y2 \in [Fields -> Int] :
           LET f0 == Derivatives(v, y)
               f1 == Derivatives(v, y1)
               f2 == Derivatives(v, y2)
           IN  /\ y1 = [d \in Fields |-> y[d] + f0[d] \div 10]
               /\ y2 = [d \in Fields |-> y[d] + (3 * f1[d]) \div 20]
               /\ rt_ertODEUpdateContinuousStates(v, y) =
                    [d \in Fields |-> y[d] + (2 * f0[d] + 3 * f1[d] + 4 * f2[d]) \div 45]
  BY Stages, Zenon
<1> DEFINE f0 == Derivatives(v, y)
           f1 == Derivatives(v, y1)
           f2 == Derivatives(v, y2)
           d2 == Linear(f0)
           d3 == Linear(d2)
           R == params.R
           L == params.L
           J == params.J
           K == params.K
           B == params.b
           V == ParamUnit * v
           i0 == y["current"]
           w0 == y["speed"]
<1>2. /\ R \in Int /\ L \in Nat \ {0} /\ J \in Nat \ {0} /\ K \in Int /\ B \in Int
      /\ V \in Int /\ i0 \in Int /\ w0 \in Int
  BY SolverAssumption DEF Parameters, Fields
<1>3. /\ Rates(-R, -K, L) /\ Rates(K, -B, J)
  BY <1>2, Opposite DEF Gentle
<1>4. /\ f0 \in [Fields -> Int]
      /\ L * f0["current"] <= V + (-R) * i0 + (-K) * w0
      /\ V + (-R) * i0 + (-K) * w0 < L * f0["current"] + L
      /\ J * f0["speed"] <= 0 + K * i0 + (-B) * w0
      /\ 0 + K * i0 + (-B) * w0 < J * f0["speed"] + J
  BY DerivativeBounds, Zenon
<1>5. /\ f1 \in [Fields -> Int]
      /\ L * f1["current"] <= V + (-R) * y1["current"] + (-K) * y1["speed"]
      /\ V + (-R) * y1["current"] + (-K) * y1["speed"] < L * f1["current"] + L
      /\ J * f1["speed"] <= 0 + K * y1["current"] + (-B) * y1["speed"]
      /\ 0 + K * y1["current"] + (-B) * y1["speed"] < J * f1["speed"] + J
  BY DerivativeBounds, Zenon
<1>6. /\ f2 \in [Fields -> Int]
      /\ L * f2["current"] <= V + (-R) * y2["current"] + (-K) * y2["speed"]
      /\ V + (-R) * y2["current"] + (-K) * y2["speed"] < L * f2["current"] + L
      /\ J * f2["speed"] <= 0 + K * y2["current"] + (-B) * y2["speed"]
      /\ 0 + K * y2["current"] + (-B) * y2["speed"] < J * f2["speed"] + J
  BY DerivativeBounds, Zenon
<1>7. /\ d2 \in [Fields -> Int]
      /\ L * d2["current"] - L < (-R) * f0["current"] + (-K) * f0["speed"]
      /\ (-R) * f0["current"] + (-K) * f0["speed"] < L * d2["current"] + L
      /\ J * d2["speed"] - J < K * f0["current"] + (-B) * f0["speed"]
      /\ K * f0["current"] + (-B) * f0["speed"] < J * d2["speed"] + J
  <2> HIDE DEF f0
  <2> QED BY <1>4, LinearBounds, Zenon
<1>8. /\ d3 \in [Fields -> Int]
      /\ L * d3["current"] - L < (-R) * d2["current"] + (-K) * d2["speed"]
      /\ (-R) * d2["current"] + (-K) * d2["speed"] < L * d3["current"] + L
      /\ J * d3["speed"] - J < K * d2["current"] + (-B) * d2["speed"]
      /\ K * d2["current"] + (-B) * d2["speed"] < J * d3["speed"] + J
  <2> HIDE DEF d2
  <2> QED BY <1>7, LinearBounds, Zenon
<1>9. /\ y1["current"] = i0 + f0["current"] \div 10
      /\ y1["speed"] = w0 + f0["speed"] \div 10
      /\ y2["current"] = i0 + (3 * f1["current"]) \div 20
      /\ y2["speed"] = w0 + (3 * f1["speed"]) \div 20
  BY <1>1, Zenon DEF Fields
<1>a. rt_ertODEUpdateContinuousStates(v, y)[c] =
        y[c] + Mean(f0[c], f1[c], f2[c])
  BY <1>1 DEF Mean
<1>b. Taylor(v, y)[c] = y[c] + Series(f0[c], d2[c], d3[c])
  BY DEF Taylor, Series
<1> DEFINE ic0 == f0["current"]  sc0 == f0["speed"]
           ic1 == f1["current"]  sc1 == f1["speed"]
           ic2 == f2["current"]  sc2 == f2["speed"]
           id2 == d2["current"]  sd2 == d2["speed"]
           id3 == d3["current"]  sd3 == d3["speed"]
<1>c. /\ ic0 \in Int /\ sc0 \in Int /\ ic1 \in Int /\ sc1 \in Int
      /\ ic2 \in Int /\ sc2 \in Int
      /\ id2 \in Int /\ sd2 \in Int /\ id3 \in Int /\ sd3 \in Int
  <2> HIDE DEF f0, f1, f2, d2, d3
  <2> QED BY <1>4, <1>5, <1>6, <1>7, <1>8 DEF Fields
<1> HIDE DEF f0, f1, f2, d2, d3, R, L, J, K, B, V, i0, w0
<1>d. /\ L * ic0 <= V + (-R) * i0 + (-K) * w0 /\ V + (-R) * i0 + (-K) * w0 < L * ic0 + L
      /\ J * sc0 <= 0 + K * i0 + (-B) * w0 /\ 0 + K * i0 + (-B) * w0 < J * sc0 + J
  BY <1>4, Zenon
<1>e. /\ L * ic1 <= V + (-R) * (i0 + ic0 \div 10) + (-K) * (w0 + sc0 \div 10)
      /\ V + (-R) * (i0 + ic0 \div 10) + (-K) * (w0 + sc0 \div 10) < L * ic1 + L
      /\ J * sc1 <= 0 + K * (i0 + ic0 \div 10) + (-B) * (w0 + sc0 \div 10)
      /\ 0 + K * (i0 + ic0 \div 10) + (-B) * (w0 + sc0 \div 10) < J * sc1 + J
  BY <1>5, <1>9, Zenon
<1>f. /\ L * ic2 <= V + (-R) * (i0 + (3 * ic1) \div 20) + (-K) * (w0 + (3 * sc1) \div 20)
      /\ V + (-R) * (i0 + (3 * ic1) \div 20) + (-K) * (w0 + (3 * sc1) \div 20)
           < L * ic2 + L
      /\ J * sc2 <= 0 + K * (i0 + (3 * ic1) \div 20) + (-B) * (w0 + (3 * sc1) \div 20)
      /\ 0 + K * (i0 + (3 * ic1) \div 20) + (-B) * (w0 + (3 * sc1) \div 20) < J * sc2 + J
  BY <1>6, <1>9, Zenon
<1>g. /\ L * id2 - L < (-R) * ic0 + (-K) * sc0 /\ (-R) * ic0 + (-K) * sc0 < L * id2 + L
      /\ J * sd2 - J < K * ic0 + (-B) * sc0 /\ K * ic0 + (-B) * sc0 < J * sd2 + J
      /\ L * id3 - L < (-R) * id2 + (-K) * sd2 /\ (-R) * id2 + (-K) * sd2 < L * id3 + L
      /\ J * sd3 - J < K * id2 + (-B) * sd2 /\ K * id2 + (-B) * sd2 < J * sd3 + J
  BY <1>7, <1>8, Zenon
<1> DEFINE mR == -R  mK == -K  mB == -B
<1>h. /\ mR \in Int /\ mK \in Int /\ mB \in Int /\ 0 \in Int
  BY <1>2
<1> HIDE DEF ic0, sc0, ic1, sc1, ic2, sc2, id2, sd2, id3, sd3
<1>i. Near(10 * (ic1 - ic0) - id2, 137)
  <2>1. Second(mR, mK, L, V, i0, w0, ic0, sc0, ic0, ic1, id2)
    BY <1>2, <1>3, <1>c, <1>d, <1>e, <1>g, <1>h, Zenon DEF Second, Equation
  <2> HIDE DEF mR, mK, mB
  <2> QED BY <2>1, SecondStage, Zenon
<1>j. Near(10 * (sc1 - sc0) - sd2, 137)
  <2>1. Second(K, mB, J, 0, i0, w0, ic0, sc0, sc0, sc1, sd2)
    BY <1>2, <1>3, <1>c, <1>d, <1>e, <1>g, <1>h, Zenon DEF Second, Equation
  <2> HIDE DEF mR, mK, mB
  <2> QED BY <2>1, SecondStage, Zenon
<1>k. Near(Beyond(ic0, ic2, id2, id3), Slack)
  <2>1. Third(mR, mK, L, V, i0, w0, ic0, sc0, ic1, sc1, id2, sd2, ic0, ic2, id2, id3)
    BY <1>2, <1>3, <1>c, <1>d, <1>f, <1>i, <1>j, <1>g, <1>h, Zenon DEF Third, Equation
  <2> HIDE DEF mR, mK, mB
  <2> QED BY <2>1, ThirdStage, Zenon
<1>l. Near(Beyond(sc0, sc2, sd2, sd3), Slack)
  <2>1. Third(K, mB, J, 0, i0, w0, ic0, sc0, ic1, sc1, id2, sd2, sc0, sc2, sd2, sd3)
    BY <1>2, <1>3, <1>c, <1>d, <1>f, <1>i, <1>j, <1>g, <1>h, Zenon DEF Third, Equation
  <2> HIDE DEF mR, mK, mB
  <2> QED BY <2>1, ThirdStage, Zenon
<1>m. /\ Near(Mean(ic0, ic1, ic2) - Series(ic0, id2, id3), 5)
      /\ Near(Mean(sc0, sc1, sc2) - Series(sc0, sd2, sd3), 5)
  <2>1. Agree(ic0, ic1, ic2, id2, id3) /\ Agree(sc0, sc1, sc2, sd2, sd3)
    BY <1>c, <1>i, <1>j, <1>k, <1>l, Zenon DEF Agree
  <2> QED BY <2>1, Weighted, Zenon
<1>n. Near(Mean(f0[c], f1[c], f2[c]) - Series(f0[c], d2[c], d3[c]), 5)
  <2>1. CASE c = "current"
    BY <1>m, <2>1, Zenon DEF ic0, ic1, ic2, id2, id3
  <2>2. CASE c = "speed"
    BY <1>m, <2>2, Zenon DEF sc0, sc1, sc2, sd2, sd3
  <2> QED BY <2>1, <2>2 DEF Fields
<1> DEFINE s == Mean(f0[c], f1[c], f2[c])
           t == Series(f0[c], d2[c], d3[c])
<1>o. s \in Int /\ t \in Int /\ y[c] \in Int
  <2>1. f0[c] \in Int /\ f1[c] \in Int /\ f2[c] \in Int /\ d2[c] \in Int /\ d3[c] \in Int
    BY <1>4, <1>5, <1>6, <1>7, <1>8
  <2> DEFINE m == 2 * f0[c] + 3 * f1[c] + 4 * f2[c]
             n == 150 * f0[c] + 15 * d2[c] + d3[c]
  <2>2. m \in Int /\ n \in Int
    BY <2>1
  <2> HIDE DEF m, n
  <2>3. m \div 45 \in Int /\ n \div 750 \in Int
    BY <2>2, DivInt
  <2> QED BY <2>3 DEF m, n, Mean, Series
<1>p. s - t \in -5..5
  BY <1>n DEF Near
<1>q. rt_ertODEUpdateContinuousStates(v, y)[c] = y[c] + s /\ Taylor(v, y)[c] = y[c] + t
  BY <1>a, <1>b
<1> HIDE DEF s, t
<1> QED BY <1>o, <1>p, <1>q

\* So does every step of a run, with the input it reads.
LEMMA StepThird ==
  IInv /\ [Next]_vars /\ Gentle(params) =>
     [steps' = steps + 1 =>
       \A c \in Fields : Between(X'[c] - Taylor(voltage_in', X)[c], -5, 5)]_vars
<1> SUFFICES ASSUME IInv, Next, Gentle(params), steps' = steps + 1, NEW c \in Fields
             PROVE  Between(X'[c] - Taylor(voltage_in', X)[c], -5, 5)
  OBVIOUS
<1>1. steps \in Nat /\ params \in Parameters /\ X \in [Fields -> Int] /\ vmax_mv \in Nat
  BY SolverAssumption DEF IInv, TypeOK
<1>2. PICK i \in Readings(input_source) : Step(i)
  <2>1. steps' # steps
    BY <1>1
  <2>2. ASSUME NEW src \in {"adc", "pwm"}, NEW vmax \in VmaxVals, Start(src, vmax)
        PROVE  FALSE
    BY <1>1, <2>2 DEF Start
  <2> QED BY <2>1, <2>2 DEF Next, Params, Stop
<1>3. voltage_in' \in Int
  BY <1>1, <1>2, ReadingType DEF Step, IInv, TypeOK
<1>4. X' = rt_ertODEUpdateContinuousStates(voltage_in', X)
  BY <1>2 DEF Step
<1> DEFINE v == voltage_in'
<1> HIDE DEF v
<1>5. rt_ertODEUpdateContinuousStates(v, X)[c] - Taylor(v, X)[c] \in -5..5
  BY <1>1, <1>3, StepTaylor DEF v
<1>6. X'[c] - Taylor(v, X)[c] \in -5..5
  BY <1>4, <1>5, Zenon DEF v
<1> DEFINE d == X'[c] - Taylor(v, X)[c]
<1> HIDE DEF d
<1>7. -5 <= d /\ d <= 5
  BY <1>6 DEF d
<1> QED BY <1>7 DEF d, v, Between

\* For every plant no state of which can change by more than 14 times its size a second
\* (the default plant is one; ODE3 at 0.2 s is stable up to 12.5), and for every input:
\* each step of the solver agrees with the Taylor polynomial of degree 3.
THEOREM ThirdOrderCorrect ==
  ASSUME \A p \in Plants \cup {DefaultPlant} : Gentle(p)
  PROVE  Spec => ThirdOrder
<1>1. IInv => Gentle(params)
  BY DEF IInv, TypeOK
<1>2. IInv /\ [Next]_vars =>
     [steps' = steps + 1 =>
       \A c \in Fields : Between(X'[c] - Taylor(voltage_in', X)[c], -5, 5)]_vars
  BY <1>1, StepThird
<1> QED BY <1>2, Invariance, PTL DEF Spec, ThirdOrder
-----------------------------------------------------------------------------
(* The response of the default plant *)

\* q is n / d rounded down.
Floor(n, d, q) == d * q <= n /\ n < d * q + d

\* The derivatives of the default plant.
Flow(v, i, w, a, b) ==
  a \in Int /\ b \in Int /\ Floor(100 * v - 100 * i - w, 50, a) /\ b = i - 10 * w

\* A step of the default plant from current i and speed w to j and z.
Stepped(v, i, w, j, z) ==
  /\ j \in Int /\ z \in Int
  /\ \E a0, b0, i1, w1, a1, b1, i2, w2, a2, b2 \in Int :
       /\ Flow(v, i, w, a0, b0) /\ Floor(a0, 10, i1 - i) /\ Floor(b0, 10, w1 - w)
       /\ Flow(v, i1, w1, a1, b1)
       /\ Floor(3 * a1, 20, i2 - i) /\ Floor(3 * b1, 20, w2 - w)
       /\ Flow(v, i2, w2, a2, b2)
       /\ Floor(2 * a0 + 3 * a1 + 4 * a2, 45, j - i)
       /\ Floor(2 * b0 + 3 * b1 + 4 * b2, 45, z - w)

\* Neither backwards nor much faster than at voltage V, and the current neither far
\* below nor far above what that speed takes.
Sane(V, i, w) ==
  /\ w >= -20 /\ i - 5 * w >= -50
  /\ 1001 * w <= 100 * V + 10010
  /\ 1001 * (i - 5 * w) <= 500 * V + 30000

\* A step at a voltage from 0 to V keeps to it.
LEMMA SaneStep ==
  ASSUME NEW V \in Int, NEW v \in Int, NEW i \in Int, NEW w \in Int, NEW j, NEW z,
         0 <= v, v <= V, Sane(V, i, w), Stepped(v, i, w, j, z)
  PROVE  Sane(V, j, z)
<1>1. PICK a0, b0, i1, w1, a1, b1, i2, w2, a2, b2 \in Int :
       /\ Flow(v, i, w, a0, b0) /\ Floor(a0, 10, i1 - i) /\ Floor(b0, 10, w1 - w)
       /\ Flow(v, i1, w1, a1, b1)
       /\ Floor(3 * a1, 20, i2 - i) /\ Floor(3 * b1, 20, w2 - w)
       /\ Flow(v, i2, w2, a2, b2)
       /\ Floor(2 * a0 + 3 * a1 + 4 * a2, 45, j - i)
       /\ Floor(2 * b0 + 3 * b1 + 4 * b2, 45, z - w)
  BY Zenon DEF Stepped
<1>2. j \in Int /\ z \in Int
  BY DEF Stepped
<1>3. w >= -20 /\ i - 5 * w >= -50 /\ 1001 * w <= 100 * V + 10010
      /\ 1001 * (i - 5 * w) <= 500 * V + 30000
  BY DEF Sane
<1>4. z >= -20
  BY <1>1, <1>2, <1>3, SMTT(60) DEF Flow, Floor
<1>5. j - 5 * z >= -50
  BY <1>1, <1>2, <1>3, SMTT(60) DEF Flow, Floor
<1>6. 1001 * z <= 100 * V + 10010
  BY <1>1, <1>2, <1>3, SMTT(60) DEF Flow, Floor
<1>7. 1001 * (j - 5 * z) <= 500 * V + 30000
  BY <1>1, <1>2, <1>3, SMTT(60) DEF Flow, Floor
<1> QED BY <1>4, <1>5, <1>6, <1>7 DEF Sane

\* The current is within what it settles at, and what it lacks of that is at most
\* t / 1000000.
Rising(v, i, t) ==
  /\ 1001 * i <= 1000 * v + 5000
  /\ 1000 * (1001 * i) >= 1000000 * v - t - 5000000

\* A step at that voltage leaves at most 18 / 25 of what is lacking.
LEMMA RisingStep ==
  ASSUME NEW v \in Int, NEW i \in Int, NEW w \in Int, NEW j, NEW z,
         NEW t \in Int, NEW u \in Int,
         0 <= v, Sane(v, i, w), Rising(v, i, t), 0 <= t, 25 * u >= 18 * t,
         Stepped(v, i, w, j, z)
  PROVE  Rising(v, j, u)
<1>1. PICK a0, b0, i1, w1, a1, b1, i2, w2, a2, b2 \in Int :
       /\ Flow(v, i, w, a0, b0) /\ Floor(a0, 10, i1 - i) /\ Floor(b0, 10, w1 - w)
       /\ Flow(v, i1, w1, a1, b1)
       /\ Floor(3 * a1, 20, i2 - i) /\ Floor(3 * b1, 20, w2 - w)
       /\ Flow(v, i2, w2, a2, b2)
       /\ Floor(2 * a0 + 3 * a1 + 4 * a2, 45, j - i)
       /\ Floor(2 * b0 + 3 * b1 + 4 * b2, 45, z - w)
  BY Zenon DEF Stepped
<1>2. j \in Int /\ z \in Int
  BY DEF Stepped
<1>3. w >= -20 /\ i - 5 * w >= -50 /\ 1001 * w <= 100 * v + 10010
      /\ 1001 * (i - 5 * w) <= 500 * v + 30000
  BY DEF Sane
<1>4. 1001 * i <= 1000 * v + 5000 /\ 1000 * (1001 * i) >= 1000000 * v - t - 5000000
  BY DEF Rising
<1>5. 1001 * j <= 1000 * v + 5000
  BY <1>1, <1>2, <1>3, <1>4, SMTT(60) DEF Flow, Floor
<1>6. 1000 * (1001 * j) >= 1000000 * v - u - 5000000
  BY <1>1, <1>2, <1>3, <1>4, SMTT(60) DEF Flow, Floor
<1> QED BY <1>5, <1>6 DEF Rising

\* A factor of both sides of a comparison is left out.
LEMMA Factor ==
  ASSUME NEW k \in Nat \ {0}, NEW m \in Int
  PROVE  (k * m >= 0 => m >= 0) /\ (k * m > 0 => m > 0)
<1>1. ASSUME NEW n \in Int, n > 0 PROVE k * n > 0
  BY <1>1, SMT
<1>2. ASSUME m < 0 PROVE k * m < 0
  <2>1. k * (-m) > 0
    BY <1>1, <1>2
  <2>2. k * (-m) = -(k * m) /\ k * m \in Int
    BY SMT
  <2> QED BY <2>1, <2>2
<1>3. m = 0 => k * m = 0
  BY SMT
<1>4. k * m \in Int
  BY SMT
<1> QED BY <1>2, <1>3, <1>4

\* The parameters dc_motor_math_params.c sets are whole numbers of the unit.
Exact == ParamUnit % 100 = 0

\* They have a common factor.
LEMMA Scale ==
  ASSUME Exact
  PROVE  \E k \in Nat \ {0} :
           /\ ParamUnit = 100 * k
           /\ DefaultPlant = [R |-> 100 * k, L |-> 50 * k, J |-> k, K |-> k, b |-> 10 * k]
<1> DEFINE k == ParamUnit \div 100
<1>1. ParamUnit \in Nat /\ ParamUnit >= 100 /\ ParamUnit % 100 = 0
  BY SolverAssumption DEF Exact
<1>2. k \in Nat \ {0} /\ ParamUnit = 100 * k
  BY <1>1, SMT
<1>3. ParamUnit \div 2 = 50 * k /\ ParamUnit \div 10 = 10 * k
  BY <1>1, <1>2, SMT
<1>4. DefaultPlant = [R |-> 100 * k, L |-> 50 * k, J |-> k, K |-> k, b |-> 10 * k]
  <2>1. DefaultPlant = [R |-> ParamUnit, L |-> ParamUnit \div 2, J |-> k, K |-> k,
                        b |-> ParamUnit \div 10]
    BY Zenon DEF DefaultPlant
  <2> HIDE DEF k
  <2> QED BY <1>2, <1>3, <2>1
<1> HIDE DEF k
<1> QED BY <1>2, <1>4

\* The derivatives of the default plant.
LEMMA DefaultFlow ==
  ASSUME Exact, params = DefaultPlant, NEW v \in Int, NEW x \in [Fields -> Int]
  PROVE  Flow(v, x["current"], x["speed"],
              Derivatives(v, x)["current"], Derivatives(v, x)["speed"])
<1>1. PICK k \in Nat \ {0} :
           /\ ParamUnit = 100 * k
           /\ DefaultPlant = [R |-> 100 * k, L |-> 50 * k, J |-> k, K |-> k, b |-> 10 * k]
  BY Scale
<1> DEFINE f == Derivatives(v, x)
           i == x["current"]
           w == x["speed"]
           a == f["current"]
           b == f["speed"]
<1>2. params \in Parameters
  BY SolverAssumption
<1>3. /\ f \in [Fields -> Int]
      /\ params.L * a <= ParamUnit * v + (-params.R) * i + (-params.K) * w
      /\ ParamUnit * v + (-params.R) * i + (-params.K) * w < params.L * a + params.L
      /\ params.J * b <= 0 + params.K * i + (-params.b) * w
      /\ 0 + params.K * i + (-params.b) * w < params.J * b + params.J
  BY <1>2, DerivativeBounds, Zenon
<1>4. /\ params.R = 100 * k /\ params.L = 50 * k /\ params.J = k /\ params.K = k
      /\ params.b = 10 * k
  BY <1>1
<1>5. a \in Int /\ b \in Int /\ i \in Int /\ w \in Int
  <2> HIDE DEF f
  <2> QED BY <1>3 DEF Fields
<1> HIDE DEF f, i, w, a, b
<1>6. /\ (50 * k) * a <= (100 * k) * v + (-(100 * k)) * i + (-k) * w
      /\ (100 * k) * v + (-(100 * k)) * i + (-k) * w < (50 * k) * a + 50 * k
      /\ k * b <= 0 + k * i + (-(10 * k)) * w
      /\ 0 + k * i + (-(10 * k)) * w < k * b + k
  BY <1>1, <1>3, <1>4
<1>7. /\ k * (100 * v - 100 * i - w - 50 * a) >= 0
      /\ k * (50 * a + 50 - 100 * v + 100 * i + w) > 0
      /\ k * (i - 10 * w - b) >= 0
      /\ k * (b + 1 - i + 10 * w) > 0
  BY <1>5, <1>6, SMT
<1>8. /\ 100 * v - 100 * i - w - 50 * a >= 0 /\ 50 * a + 50 - 100 * v + 100 * i + w > 0
      /\ i - 10 * w - b >= 0 /\ b + 1 - i + 10 * w > 0
  <2>1. /\ 100 * v - 100 * i - w - 50 * a \in Int
        /\ 50 * a + 50 - 100 * v + 100 * i + w \in Int
        /\ i - 10 * w - b \in Int /\ b + 1 - i + 10 * w \in Int
    BY <1>5
  <2> QED BY <1>7, <2>1, Factor
<1>9. Flow(v, i, w, a, b)
  BY <1>5, <1>8 DEF Flow, Floor
<1> QED BY <1>9, Zenon DEF f, i, w, a, b

\* The state at which it stands still.
LEMMA DefaultSteady ==
  ASSUME Exact, params = DefaultPlant, NEW v \in Int
  PROVE  /\ Steady(v)["current"] \in Int /\ Floor(1000 * v, 1001, Steady(v)["current"])
         /\ Steady(v)["speed"] \in Int /\ Floor(100 * v, 1001, Steady(v)["speed"])
<1>1. PICK k \in Nat \ {0} :
           /\ ParamUnit = 100 * k
           /\ DefaultPlant = [R |-> 100 * k, L |-> 50 * k, J |-> k, K |-> k, b |-> 10 * k]
  BY Scale
<1> DEFINE s == k * k
<1>2. /\ params.R = 100 * k /\ params.K = k /\ params.b = 10 * k
  BY <1>1
<1>3. s \in Nat \ {0}
  BY SMT
<1>4. /\ params.R * params.b + params.K * params.K = 1001 * s
      /\ params.b * v * ParamUnit = s * (1000 * v)
      /\ params.K * v * ParamUnit = s * (100 * v)
  <2>1. /\ (100 * k) * (10 * k) + k * k = 1001 * (k * k)
        /\ (10 * k) * v * (100 * k) = (k * k) * (1000 * v)
    BY SMT
  <2>2. k * v * (100 * k) = (k * k) * (100 * v)
    <3>1. k * v \in Int /\ 100 * v \in Int
      BY SMT
    <3>2. k * v * (100 * k) = 100 * (k * v * k) /\ (k * k) * (100 * v) = 100 * (k * k * v)
      BY SMT
    <3>3. k * v * k = k * k * v
      BY SMT
    <3> QED BY <3>2, <3>3
  <2> QED BY <1>1, <1>2, <2>1, <2>2, Zenon
<1>5. /\ Steady(v)["current"] = (s * (1000 * v)) \div (1001 * s)
      /\ Steady(v)["speed"] = (s * (100 * v)) \div (1001 * s)
  <2> DEFINE det == params.R * params.b + params.K * params.K
             nc == params.b * v * ParamUnit
             nw == params.K * v * ParamUnit
  <2>1. Steady(v)["current"] = nc \div det /\ Steady(v)["speed"] = nw \div det
    BY Zenon DEF Steady
  <2>2. det = 1001 * s /\ nc = s * (1000 * v) /\ nw = s * (100 * v)
    BY <1>4
  <2> HIDE DEF det, nc, nw
  <2> QED BY <2>1, <2>2
<1> HIDE DEF s
<1>6. ASSUME NEW n \in Int
      PROVE  LET q == (s * n) \div (1001 * s) IN q \in Int /\ Floor(n, 1001, q)
  <2> DEFINE d == 1001 * s
             m == s * n
             q == m \div d
  <2>1. d \in Nat \ {0} /\ m \in Int
    BY <1>3, SMT
  <2> HIDE DEF d, m
  <2>2. q \in Int /\ d * q <= m /\ m < d * q + d
    BY <2>1, Quotient
  <2> HIDE DEF q
  <2>3. s * (n - 1001 * q) >= 0 /\ s * (1001 * q + 1001 - n) > 0
    <3>1. /\ s * (n - 1001 * q) = m - d * q
          /\ s * (1001 * q + 1001 - n) = d * q + d - m
      BY <1>3, <2>2, SMT DEF d, m
    <3>2. d * q \in Int
      BY <2>1, <2>2
    <3> DEFINE e == d * q
    <3> HIDE DEF e
    <3>3. m - e >= 0 /\ e + d - m > 0
      BY <2>1, <2>2, <3>2 DEF e
    <3> QED BY <3>1, <3>3 DEF e
  <2>4. n - 1001 * q \in Int /\ 1001 * q + 1001 - n \in Int
    BY <2>2
  <2>5. n - 1001 * q >= 0 /\ 1001 * q + 1001 - n > 0
    BY <1>3, <2>3, <2>4, Factor
  <2>6. Floor(n, 1001, q)
    BY <2>2, <2>5 DEF Floor
  <2> QED BY <2>2, <2>6 DEF q, m, d
<1>7. 1000 * v \in Int /\ 100 * v \in Int
  OBVIOUS
<1> QED BY <1>5, <1>6, <1>7

\* A step of the solver is one of the default plant.
LEMMA DefaultStep ==
  ASSUME Exact, params = DefaultPlant, NEW v \in Int, NEW y \in [Fields -> Int]
  PROVE  LET x == rt_ertODEUpdateContinuousStates(v, y)
         IN  Stepped(v, y["current"], y["speed"], x["current"], x["speed"])
<1>1. params \in Parameters
  BY SolverAssumption
<1>2. PICK y1 \in [Fields -> Int], y2 \in [Fields -> Int] :
           LET f0 == Derivatives(v, y)
               f1 == Derivatives(v, y1)
               f2 == Derivatives(v, y2)
           IN  /\ y1 = [d \in Fields |-> y[d] + f0[d] \div 10]
               /\ y2 = [d \in Fields |-> y[d] + (3 * f1[d]) \div 20]
               /\ rt_ertODEUpdateContinuousStates(v, y) =
                    [d \in Fields |-> y[d] + (2 * f0[d] + 3 * f1[d] + 4 * f2[d]) \div 45]
  BY <1>1, Stages, Zenon
<1> DEFINE f0 == Derivatives(v, y)
           f1 == Derivatives(v, y1)
           f2 == Derivatives(v, y2)
           x == rt_ertODEUpdateContinuousStates(v, y)
           i == y["current"]    w == y["speed"]
           i1 == y1["current"]  w1 == y1["speed"]
           i2 == y2["current"]  w2 == y2["speed"]
           j == x["current"]    z == x["speed"]
           a0 == f0["current"]  b0 == f0["speed"]
           a1 == f1["current"]  b1 == f1["speed"]
           a2 == f2["current"]  b2 == f2["speed"]
<1>3. Flow(v, i, w, a0, b0) /\ Flow(v, i1, w1, a1, b1) /\ Flow(v, i2, w2, a2, b2)
  BY DefaultFlow, Zenon
<1>4. /\ i1 = i + a0 \div 10 /\ w1 = w + b0 \div 10
      /\ i2 = i + (3 * a1) \div 20 /\ w2 = w + (3 * b1) \div 20
      /\ j = i + (2 * a0 + 3 * a1 + 4 * a2) \div 45
      /\ z = w + (2 * b0 + 3 * b1 + 4 * b2) \div 45
  BY <1>2, Zenon DEF Fields
<1>5. i \in Int /\ w \in Int
  BY DEF Fields
<1> HIDE DEF f0, f1, f2, x, i, w, i1, w1, i2, w2, j, z, a0, b0, a1, b1, a2, b2
<1>6. /\ a0 \in Int /\ b0 \in Int /\ a1 \in Int /\ b1 \in Int /\ a2 \in Int /\ b2 \in Int
  BY <1>3, Zenon DEF Flow
<1>7. /\ i1 \in Int /\ Floor(a0, 10, i1 - i) /\ w1 \in Int /\ Floor(b0, 10, w1 - w)
  BY <1>4, <1>5, <1>6, SMT DEF Floor
<1>8. /\ i2 \in Int /\ Floor(3 * a1, 20, i2 - i)
      /\ w2 \in Int /\ Floor(3 * b1, 20, w2 - w)
  BY <1>4, <1>5, <1>6, SMT DEF Floor
<1>9. /\ j \in Int /\ Floor(2 * a0 + 3 * a1 + 4 * a2, 45, j - i)
      /\ z \in Int /\ Floor(2 * b0 + 3 * b1 + 4 * b2, 45, z - w)
  BY <1>4, <1>5, <1>6, SMT DEF Floor
<1>10. Stepped(v, i, w, j, z)
  BY <1>3, <1>6, <1>7, <1>8, <1>9, Zenon DEF Stepped
<1> QED BY <1>10, Zenon DEF x, i, w, j, z

\* What of 1000000 is left after n steps that leave 18 / 25 of it, rounded up; from the
\* twentieth on, as much as after that.
Left == <<720000, 518400, 373248, 268739, 193493, 139315, 100307, 72222, 52000, 37440,
          26957, 19410, 13976, 10063, 7246, 5218, 3757, 2706, 1949, 1404>>
Gap(n) == IF n = 0 THEN 1000000 ELSE IF n >= 20 THEN Left[20] ELSE Left[n]

\* It does shrink so, to a five hundredth in the end.
LEMMA Shrinks ==
  ASSUME NEW n \in Nat
  PROVE  /\ Gap(n) \in Nat
         /\ 25 * Gap(n + 1) >= 18 * Gap(n)
         /\ n >= 20 => Gap(n) <= 2000
<1>1. CASE n = 0 \/ n >= 20
  BY <1>1 DEF Gap, Left
<1>2. CASE n \in 1..4
  BY <1>2 DEF Gap, Left
<1>3. CASE n \in 5..8
  BY <1>3 DEF Gap, Left
<1>4. CASE n \in 9..12
  BY <1>4 DEF Gap, Left
<1>5. CASE n \in 13..16
  BY <1>5 DEF Gap, Left
<1>6. CASE n \in 17..19
  BY <1>6 DEF Gap, Left
<1> QED BY <1>1, <1>2, <1>3, <1>4, <1>5, <1>6

\* A reading is from 0 to full scale.
LEMMA ReadingScale ==
  ASSUME vmax_mv \in Nat, input_source \in {"adc", "pwm"},
         NEW i \in Readings(input_source)
  PROVE  /\ read_input_voltage(i) \in Int /\ FullScale \in Int
         /\ 0 <= read_input_voltage(i) /\ read_input_voltage(i) <= FullScale
<1>1. CASE input_source = "adc"
  <2>0. i.src = "adc" /\ i \in [src : {"adc"}, raw : Raws]
    BY <1>1 DEF Readings, Inputs, NoInput
  <2>1. i.raw \in Raws
    BY <2>0
  <2>2. FullScale = 33000
    BY <1>1 DEF FullScale, Volts, Unit
  <2>3. read_input_voltage(i) = AdcVoltage(i.raw)
    BY <2>0, Zenon DEF read_input_voltage
  <2>4. ASSUME NEW r \in Raws
        PROVE  AdcVoltage(r) \in Int /\ 0 <= AdcVoltage(r) /\ AdcVoltage(r) <= FullScale
    <3>1. r \in Int /\ r <= 4095
      BY SolverAssumption
    <3>2. CASE r < 0
      BY <2>2, <3>2 DEF AdcVoltage
    <3>3. CASE r >= 0
      <4> DEFINE q == (r * 3300) \div 4095
      <4>1. q \in 0..3300
        BY <3>1, <3>3, SMT
      <4>2. AdcVoltage(r) = Volts(q)
        BY <3>1, <3>3 DEF AdcVoltage
      <4> HIDE DEF q
      <4> QED BY <2>2, <4>1, <4>2 DEF Volts, Unit
    <3> QED BY <3>1, <3>2, <3>3
  <2>5. FullScale \in Int
    BY <2>2
  <2> QED BY <2>1, <2>3, <2>4, <2>5, Zenon
<1>2. CASE input_source = "pwm"
  <2> DEFINE c == i.capture
             V == 10 * vmax_mv
  <2>1. i.src = "pwm" /\ c.period \in Nat /\ c.pulse \in Nat
    BY <1>2, SolverAssumption DEF Readings, Inputs, NoInput
  <2>2. FullScale = V /\ Volts(vmax_mv) = V /\ V \in Nat
    BY <1>2 DEF FullScale, Volts, Unit
  <2>3. read_input_voltage(i) = PwmVoltage(c)
    BY <2>1 DEF read_input_voltage
  <2> HIDE DEF c, V
  <2>4. PwmVoltage(c) \in 0..V
    <3>1. CASE c.period = 0
      BY <2>2, <3>1 DEF PwmVoltage
    <3>2. CASE c.period # 0
      <4> DEFINE duty == (c.pulse * 100) \div c.period
                 cut  == IF duty > 100 THEN 100 ELSE duty
      <4>1. duty \in Int /\ duty >= 0
        <5> DEFINE m == c.pulse * 100
                   d == c.period
        <5>1. m \in Nat /\ d \in Nat \ {0}
          BY <2>1, <3>2
        <5> HIDE DEF m, d
        <5>2. m \div d \in Int /\ m < d * (m \div d) + d
          BY <5>1, Quotient
        <5>3. m \div d >= 0
          <6> DEFINE q == m \div d
          <6>1. q \in Int /\ d * (q + 1) > 0
            BY <5>1, <5>2, SMT
          <6> HIDE DEF q
          <6>2. q + 1 > 0
            BY <5>1, <6>1, Factor
          <6> QED BY <6>1, <6>2 DEF q
        <5> QED BY <5>2, <5>3 DEF m, d
      <4>2. cut \in 0..100
        <5> HIDE DEF duty
        <5> QED BY <4>1
      <4>3. PwmVoltage(c) = (cut * Volts(vmax_mv)) \div 100
        BY <3>2 DEF PwmVoltage
      <4> HIDE DEF duty, cut
      <4> DEFINE m == cut * V
      <4>4. m \in Int /\ 0 <= m /\ m <= 100 * V
        <5>1. ASSUME NEW p \in Nat, NEW q \in Nat PROVE p * q >= 0
          BY SMT
        <5>2. (100 - cut) * V >= 0 /\ cut * V >= 0
          BY <2>2, <4>2, <5>1
        <5>3. (100 - cut) * V = 100 * V - cut * V /\ cut * V \in Int
          BY <2>2, <4>2, SMT
        <5> QED BY <2>2, <5>2, <5>3
      <4>5. PwmVoltage(c) = m \div 100
        BY <2>2, <4>3
      <4> HIDE DEF m
      <4>6. m \div 100 \in 0..V
        BY <2>2, <4>4, SMT
      <4> QED BY <4>5, <4>6
    <3> QED BY <3>1, <3>2
  <2> QED BY <2>2, <2>3, <2>4
<1> QED BY <1>1, <1>2

\* With the default plant, while a run goes on, its state stays sane for the full scale
\* of its input ...
SaneInv == sim_running => Sane(FullScale, X["current"], X["speed"])

\* ... and, on a constant input, for that input, which the current approaches.
SettleInv ==
  sim_running /\ changes = 0 =>
    /\ steps = 0 => input = NoInput /\ X = Rest
    /\ steps > 0 =>
         /\ input # NoInput
         /\ voltage_in = read_input_voltage(input) /\ voltage_in >= 0
         /\ Sane(voltage_in, X["current"], X["speed"])
         /\ Rising(voltage_in, X["current"], Gap(steps) * voltage_in)

DefaultInv == IInv /\ (params = DefaultPlant => SaneInv /\ SettleInv)

\* Rest is sane, and all is left to rise.
LEMMA RestSane ==
  ASSUME NEW V \in Int, V >= 0
  PROVE  /\ Rest["current"] = 0 /\ Rest["speed"] = 0
         /\ Sane(V, Rest["current"], Rest["speed"])
         /\ Rising(V, Rest["current"], Gap(0) * V)
<1>1. Rest["current"] = 0 /\ Rest["speed"] = 0
  BY DEF Rest, Fields
<1>2. Sane(V, 0, 0) /\ Rising(V, 0, 1000000 * V)
  BY DEF Sane, Rising
<1>3. Gap(0) = 1000000
  BY DEF Gap
<1> QED BY <1>1, <1>2, <1>3

\* It holds at first ...
LEMMA InitDefault == Init => DefaultInv
<1> SUFFICES ASSUME Init PROVE DefaultInv
  OBVIOUS
<1>1. ~sim_running /\ params = DefaultPlant
  BY Zenon DEF Init
<1>2. IInv
  BY InitInvariant
<1> QED BY <1>1, <1>2, Zenon DEF DefaultInv, SaneInv, SettleInv

\* ... and every step keeps it,
LEMMA NextDefault ==
  ASSUME Exact PROVE DefaultInv /\ [Next]_vars => DefaultInv'
<1> SUFFICES ASSUME DefaultInv, [Next]_vars, params' = DefaultPlant
             PROVE  SaneInv' /\ SettleInv'
  BY NextInvariant DEF DefaultInv
<1>0. IInv' /\ IInv
  BY NextInvariant DEF DefaultInv
<1>s. params' = params => params = DefaultPlant /\ SaneInv /\ SettleInv
  BY Zenon DEF DefaultInv
<1>1. ASSUME NEW p \in Plants, Params(p) PROVE SaneInv' /\ SettleInv'
  <2>1. ~sim_running'
    BY <1>1 DEF Params
  <2> QED BY <2>1, Zenon DEF SaneInv, SettleInv
<1>2. ASSUME NEW src \in {"adc", "pwm"}, NEW vmax \in VmaxVals, Start(src, vmax)
      PROVE  SaneInv' /\ SettleInv'
  <2>1. /\ steps' = 0 /\ input' = NoInput /\ X' = Rest
        /\ ~(steps' > 0)
    BY <1>2 DEF Start
  <2>2. FullScale' \in Int /\ FullScale' >= 0
    <3>1. vmax_mv' \in Nat
      BY <1>0 DEF IInv, TypeOK
    <3>2. ASSUME NEW m \in Nat PROVE Volts(m) \in Int /\ Volts(m) >= 0
      BY DEF Volts, Unit
    <3>3. 3300 \in Nat
      OBVIOUS
    <3>4. FullScale' = Volts(3300) \/ FullScale' = Volts(vmax_mv')
      BY DEF FullScale
    <3> QED BY <3>1, <3>2, <3>3, <3>4
  <2> DEFINE V == FullScale'
  <2> HIDE DEF V
  <2>3. Sane(V, Rest["current"], Rest["speed"])
    BY <2>2, RestSane DEF V
  <2>4. SaneInv'
    BY <2>1, <2>3 DEF V, SaneInv
  <2>5. SettleInv'
    BY <2>1, Zenon DEF SettleInv
  <2> QED BY <2>4, <2>5
<1>3. CASE Stop
  <2>1. ~sim_running'
    BY <1>3 DEF Stop
  <2> QED BY <2>1, Zenon DEF SaneInv, SettleInv
<1>4. ASSUME NEW i \in Readings(input_source), Step(i) PROVE SaneInv' /\ SettleInv'
  <2> DEFINE v == read_input_voltage(i)
  <2>1. /\ voltage_in' = v /\ X' = rt_ertODEUpdateContinuousStates(v, X)
        /\ sim_running /\ sim_running' /\ steps' = steps + 1 /\ input' = i
        /\ params' = params /\ input_source' = input_source /\ vmax_mv' = vmax_mv
        /\ changes' = (IF input \in {NoInput, i} THEN changes ELSE changes + 1)
    BY <1>4 DEF Step
  <2>d. params = DefaultPlant /\ SaneInv /\ SettleInv
    BY <1>s, <2>1
  <2>2. /\ vmax_mv \in Nat /\ input_source \in {"adc", "pwm"} /\ steps \in Nat
        /\ changes \in Nat /\ X \in [Fields -> Int] /\ X' \in [Fields -> Int]
    BY <1>0, SolverAssumption DEF IInv, TypeOK
  <2>3. v \in Int /\ FullScale \in Int /\ 0 <= v /\ v <= FullScale
    BY <2>2, ReadingScale
  <2>4. Stepped(v, X["current"], X["speed"], X'["current"], X'["speed"])
    <3> HIDE DEF v
    <3>1. LET x == rt_ertODEUpdateContinuousStates(v, X)
          IN  Stepped(v, X["current"], X["speed"], x["current"], x["speed"])
      BY <2>2, <2>3, <2>d, DefaultStep
    <3> QED BY <2>1, <3>1, Zenon
  <2>5. X["current"] \in Int /\ X["speed"] \in Int
    BY <2>2 DEF Fields
  <2>6. v = read_input_voltage(i)'
    BY <2>1 DEF read_input_voltage, AdcVoltage, PwmVoltage
  <2>7. FullScale' = FullScale
    BY <2>1 DEF FullScale
  <2>8. SaneInv'
    <3>1. Sane(FullScale, X["current"], X["speed"])
      BY <2>1, <2>d, Zenon DEF SaneInv
    <3> DEFINE V == FullScale
    <3> HIDE DEF V, v
    <3>2. Sane(V, X'["current"], X'["speed"])
      BY <2>3, <2>4, <2>5, <3>1, SaneStep DEF V
    <3> QED BY <2>7, <3>2, Zenon DEF V, SaneInv
  <2>9. ASSUME changes' = 0 PROVE
          /\ Sane(v, X["current"], X["speed"])
          /\ Rising(v, X["current"], Gap(steps) * v)
    <3>1. changes = 0 /\ input \in {NoInput, i}
      BY <2>1, <2>2, <2>9
    <3>2. CASE steps = 0
      <4>1. X = Rest
        BY <2>1, <2>d, <3>1, <3>2, Zenon DEF SettleInv
      <4> HIDE DEF v
      <4> QED BY <2>3, <3>2, <4>1, RestSane
    <3>3. CASE steps > 0
      <4>1. input # NoInput
        BY <2>1, <2>d, <3>1, <3>3, Zenon DEF SettleInv
      <4>2. input = i
        BY <3>1, <4>1
      <4> QED BY <2>1, <2>d, <3>1, <3>3, <4>2, Zenon DEF SettleInv
    <3> QED BY <2>2, <3>2, <3>3
  <2>10. ASSUME changes' = 0 PROVE
           /\ Sane(v, X'["current"], X'["speed"])
           /\ Rising(v, X'["current"], Gap(steps') * v)
    <3> DEFINE t == Gap(steps) * v
               u == Gap(steps + 1) * v
    <3>1. Sane(v, X["current"], X["speed"]) /\ Rising(v, X["current"], t)
      BY <2>9, <2>10
    <3> HIDE DEF v
    <3>2. t \in Int /\ u \in Int /\ t >= 0 /\ 25 * u >= 18 * t
      <4> DEFINE g == Gap(steps)  h == Gap(steps + 1)
      <4>1. g \in Nat /\ h \in Nat /\ 25 * h - 18 * g \in Nat
        <5>1. g \in Nat /\ h \in Nat /\ 25 * h >= 18 * g
          BY <2>2, Shrinks
        <5> HIDE DEF g, h
        <5> QED BY <5>1
      <4> HIDE DEF g, h
      <4>2. ASSUME NEW p \in Nat, NEW q \in Nat PROVE p * q \in Nat
        BY SMT
      <4>3. g * v \in Nat /\ h * v \in Nat /\ (25 * h - 18 * g) * v \in Nat
        BY <2>3, <4>1, <4>2
      <4>4. (25 * h - 18 * g) * v = 25 * (h * v) - 18 * (g * v)
        BY <2>3, <4>1, SMT
      <4>5. 25 * (h * v) >= 18 * (g * v)
        BY <4>3, <4>4
      <4> QED BY <4>3, <4>5 DEF g, h
    <3> HIDE DEF t, u
    <3>3. Sane(v, X'["current"], X'["speed"])
      BY <2>3, <2>4, <2>5, <3>1, SaneStep
    <3>4. Rising(v, X'["current"], u)
      BY <2>3, <2>4, <2>5, <3>1, <3>2, RisingStep
    <3> QED BY <2>1, <3>3, <3>4, Zenon DEF u
  <2>11. SettleInv'
    <3>1. i # NoInput
      BY <2>2 DEF Readings, NoInput
    <3>2. ~(steps' = 0)
      BY <2>1, <2>2
    <3> HIDE DEF v
    <3>3. voltage_in' = read_input_voltage(i)' /\ voltage_in' >= 0 /\ v = voltage_in'
      BY <2>1, <2>3, <2>6
    <3> QED BY <2>1, <2>10, <3>1, <3>2, <3>3, Zenon DEF SettleInv
  <2> QED BY <2>8, <2>11
<1>5. CASE UNCHANGED vars
  <2>1. /\ params' = params /\ sim_running' = sim_running /\ input_source' = input_source
        /\ vmax_mv' = vmax_mv /\ voltage_in' = voltage_in /\ X' = X /\ steps' = steps
        /\ input' = input /\ changes' = changes
    BY <1>5, Zenon DEF vars
  <2>2. FullScale' = FullScale /\ read_input_voltage(input)' = read_input_voltage(input)
    <3>1. FullScale' = FullScale
      BY <2>1 DEF FullScale
    <3>2. read_input_voltage(input)' = read_input_voltage(input)
      BY <2>1 DEF read_input_voltage, AdcVoltage, PwmVoltage
    <3> QED BY <3>1, <3>2
  <2>3. SaneInv' /\ SettleInv'
    BY <1>s, <2>1, <2>2, Zenon DEF SaneInv, SettleInv
  <2> QED BY <2>3
<1> QED BY <1>1, <1>2, <1>3, <1>4, <1>5 DEF Next

\* so it is an invariant.
LEMMA DefaultInvariance == ASSUME Exact PROVE Spec => []DefaultInv
<1>1. DefaultInv /\ [Next]_vars => DefaultInv'
  BY NextDefault
<1> QED BY <1>1, InitDefault, PTL DEF Spec

\* With the plant of dc_motor_math_params.c, whatever the readings of a run, the failed
\* ones included, however many and however they change: the motor never turns backwards
\* nor faster than the steady speed at full scale.
THEOREM SaneCorrect ==
  ASSUME Exact PROVE Spec => [](params = DefaultPlant => SaneResponse)
<1>1. DefaultInv => (params = DefaultPlant => SaneResponse)
  <2> SUFFICES ASSUME DefaultInv, params = DefaultPlant, sim_running
               PROVE  /\ X["speed"] >= -(Unit \div 100)
                      /\ X["speed"] <= Steady(FullScale).speed + 10
    BY DEF SaneResponse, NeverNegative
  <2> DEFINE V == FullScale
             s == Steady(V)["speed"]
             w == X["speed"]
  <2>1. V \in Int /\ w \in Int
    BY DEF DefaultInv, IInv, TypeOK, FullScale, Volts, Unit, Fields
  <2>2. s \in Int /\ Floor(100 * V, 1001, s)
    <3> HIDE DEF V
    <3> QED BY <2>1, DefaultSteady DEF DefaultInv
  <2>3. w >= -20 /\ 1001 * w <= 100 * V + 10010
    BY DEF DefaultInv, SaneInv, Sane
  <2> HIDE DEF V, s, w
  <2>4. w <= s + 10
    BY <2>1, <2>2, <2>3 DEF Floor
  <2>5. w >= -(Unit \div 100)
    BY <2>1, <2>3 DEF Unit
  <2> QED BY <2>4, <2>5 DEF V, s, w
<1> QED BY <1>1, DefaultInvariance, PTL

\* With that plant and any constant input, 20 steps of a run bring its speed and its
\* current to within half a percent, or a thousandth, of where they settle, and there
\* they stay.
THEOREM SettlesCorrect ==
  ASSUME Exact PROVE Spec => [](params = DefaultPlant => Settles)
<1>1. DefaultInv => (params = DefaultPlant => Settles)
  <2> SUFFICES ASSUME DefaultInv, params = DefaultPlant, sim_running, changes = 0,
                      steps >= 20, NEW c \in Fields
               PROVE  LET final == Steady(voltage_in)[c]
                      IN  Between(200 * (X[c] - final), -final - 2000, final + 2000)
    BY DEF Settles
  <2> DEFINE v == voltage_in
             i == X["current"]
             w == X["speed"]
             fi == Steady(v)["current"]
             fw == Steady(v)["speed"]
             t == Gap(steps) * v
  <2>1. v \in Int /\ i \in Int /\ w \in Int /\ steps \in Nat
    BY SolverAssumption DEF DefaultInv, IInv, TypeOK, Fields
  <2>2. /\ v >= 0 /\ Sane(v, i, w) /\ Rising(v, i, t)
    <3>1. steps > 0
      BY <2>1
    <3> QED BY <3>1, Zenon DEF DefaultInv, SettleInv
  <2>3. fi \in Int /\ fw \in Int /\ Floor(1000 * v, 1001, fi) /\ Floor(100 * v, 1001, fw)
    <3> HIDE DEF v
    <3> QED BY <2>1, DefaultSteady DEF DefaultInv
  <2>4. t \in Int /\ t <= 2000 * v
    <3> DEFINE g == Gap(steps)
    <3>1. g \in Nat /\ g <= 2000
      BY <2>1, Shrinks
    <3> HIDE DEF g, v
    <3>2. ASSUME NEW p \in Nat, NEW q \in Nat PROVE p * q >= 0
      BY SMT
    <3>3. (2000 - g) * v >= 0
      BY <2>1, <2>2, <3>1, <3>2
    <3>4. (2000 - g) * v = 2000 * v - g * v /\ g * v \in Int
      BY <2>1, <3>1, SMT
    <3> QED BY <2>1, <3>3, <3>4 DEF g
  <2> HIDE DEF v, i, w, fi, fw, t
  <2>5. /\ -fi - 2000 <= 200 * (i - fi) /\ 200 * (i - fi) <= fi + 2000
    BY <2>1, <2>2, <2>3, <2>4, SMTT(60) DEF Rising, Floor
  <2>6. /\ -fw - 2000 <= 200 * (w - fw) /\ 200 * (w - fw) <= fw + 2000
    BY <2>1, <2>2, <2>3, <2>4, SMTT(60) DEF Sane, Rising, Floor
  <2>7. CASE c = "current"
    BY <2>5, <2>7 DEF Between, i, fi, v
  <2>8. CASE c = "speed"
    BY <2>6, <2>8 DEF Between, w, fw, v
  <2> QED BY <2>7, <2>8 DEF Fields
<1> QED BY <1>1, DefaultInvariance, PTL
=============================================================================
