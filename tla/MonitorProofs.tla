--------------------------- MODULE MonitorProofs ----------------------------
(***************************************************************************)
(* Theorems about Monitor, for every deque length and any number of        *)
(* samples, processes and interrupts.                                      *)
(***************************************************************************)
EXTENDS Monitor, SequenceTheorems, TLAPS

\* How a process ended is a set of its last places.
USE DEF Ended
-----------------------------------------------------------------------------
(* Commands                                                                *)

\* Whatever a command comes to, it empties the port and leaves two Booleans.
LEMMA RunType ==
  ASSUME NEW cmd, NEW outcome, running \in BOOLEAN, streaming \in BOOLEAN,
         Run(cmd, outcome)
  PROVE  running' \in BOOLEAN /\ streaming' \in BOOLEAN /\ port' = <<>>
BY DEF Run, Execute, Reply, fw

\* A stop that was answered, with OK or with an error, has been executed.
LEMMA RunStop ==
  ASSUME NEW outcome \in {"ok", "error"}, Run("stop", outcome), running \in BOOLEAN
  PROVE  ~running' /\ (streaming' => streaming)
BY DEF Run, Execute, Reply

LEMMA RunStreamOff ==
  ASSUME Run("stream off", "ok")
  PROVE  ~streaming'
BY DEF Run, Execute, Reply
-----------------------------------------------------------------------------
(* Types, and the place of the main thread                                 *)

SetUpSteps == {"ping", "get", "stop", "start", "stream", "reader", "csv"}

\* What the main thread knows where it stands: which version it runs, what its last
\* command did to the testbench, that a port it finds closed was closed by a cleanup,
\* which left nothing running unless a command failed, and that no writer runs yet.
Phase ==
  /\ main \in {"ping", "stop"} => version = "wayland"
  /\ main = "get" => version = "script"
  /\ main = "start" /\ version = "wayland" => ~running
  /\ main = "motoroff" => portOpen /\ ~streaming
  /\ main = "close" /\ ~failed => ~running /\ ~streaming
  /\ ~portOpen /\ main \notin {"gone", "refused"} /\ ~failed => ~running /\ ~streaming
  /\ ~portOpen => main \in Ended \cup {"cleanup", "streamoff", "close"}
  /\ main = "exited" => ~portOpen
  /\ main \in SetUpSteps => writer = "off" /\ ~csvOpen
  /\ csvOpen => portOpen

Threads ==
  /\ main \in Ended \cup {"ping", "get", "stop", "start", "stream", "reader", "csv",
                        "plot", "cleanup", "streamoff", "motoroff", "close"}
  /\ reader \in {"off", "check", "reading"} /\ writer \in {"off", "check", "write"}
  /\ version \in {"wayland", "script"}

Flags ==
  /\ running \in BOOLEAN /\ streaming \in BOOLEAN /\ portOpen \in BOOLEAN
  /\ again \in BOOLEAN /\ stopEvent \in BOOLEAN /\ failed \in BOOLEAN

Control == Threads /\ Flags /\ Phase

Counts ==
  /\ emitted \in 0..MaxSamples
  /\ sessions \in 0..MaxSessions /\ interrupts \in 0..MaxInterrupts

LEMMA ControlInit == Init => Control
<1> SUFFICES ASSUME Init PROVE Control
  OBVIOUS
<1>1. Threads
  BY DEF Init, Threads
<1>2. Flags
  BY DEF Init, Flags
<1>3. Phase
  BY DEF Init, Phase, SetUpSteps
<1> QED BY <1>1, <1>2, <1>3 DEF Control

LEMMA CountsStep == MonitorAssumption /\ Counts /\ [Next]_vars => Counts'
<1> SUFFICES ASSUME MonitorAssumption, Counts, [Next]_vars PROVE Counts'
  OBVIOUS
<1>1. CASE Sample
  BY <1>1 DEF MonitorAssumption, Counts, Sample, count
<1>2. CASE Launch
  BY <1>2 DEF MonitorAssumption, Counts, Launch
<1>3. CASE Interrupt
  BY <1>3 DEF MonitorAssumption, Counts, Interrupt
<1>4. CASE UNCHANGED <<emitted, sessions, interrupts>>
  BY <1>4 DEF Counts
<1>5. Die \/ EndPlot \/ UNCHANGED vars => UNCHANGED <<emitted, sessions, interrupts>>
  BY DEF Die, EndPlot, vars, count
<1>6. SetUp => UNCHANGED <<emitted, sessions, interrupts>>
  BY DEF SetUp, Ping, Get, StopLeftover, Start, StreamOn, Setup, StartReader, OpenCsv,
         count
<1>7. CleanUp => UNCHANGED <<emitted, sessions, interrupts>>
  BY DEF CleanUp, CleanupStop, CleanupStreamOff, CleanupMotorOff, Cleanup,
         CleanupClose, count
<1>8. Reader \/ Writer => UNCHANGED <<emitted, sessions, interrupts>>
  BY DEF Reader, ReaderCheck, ReaderRead, Writer, WriterCheck, WriterRow, WriterSleep,
         count
<1> QED BY <1>1, <1>2, <1>3, <1>4, <1>5, <1>6, <1>7, <1>8 DEF Next
-----------------------------------------------------------------------------
(* The main thread                                                         *)

\* A command of the set-up that goes on with a step of the set-up or with the reader.
LEMMA SetupSteps ==
  ASSUME NEW step, NEW cmd, NEW goOn \in SUBSET Outcomes, NEW to,
         Setup(step, cmd, goOn, to)
  PROVE  \E outcome \in Outcomes :
           /\ main = step /\ Run(cmd, outcome)
           /\ \/ outcome \in goOn /\ main' = to /\ portOpen' = portOpen
              \/ main' \in {"gone", "refused"} /\ portOpen' = FALSE
           /\ UNCHANGED <<again, version, stopEvent, reader, writer, csvOpen, failed>>
BY DEF Setup, count, read, write

LEMMA SetupControl ==
  ASSUME Control, NEW step \in SetUpSteps, NEW cmd, NEW goOn \in SUBSET Outcomes,
         NEW to \in {"stop", "start", "stream", "reader"},
         Setup(step, cmd, goOn, to),
         \A outcome \in goOn : Run(cmd, outcome) =>
           /\ to = "stop" => version = "wayland"
           /\ to = "start" /\ version = "wayland" => ~running'
  PROVE  Control'
<1>1. PICK outcome \in Outcomes :
        /\ main = step /\ Run(cmd, outcome)
        /\ \/ outcome \in goOn /\ main' = to /\ portOpen' = portOpen
           \/ main' \in {"gone", "refused"} /\ portOpen' = FALSE
        /\ UNCHANGED <<again, version, stopEvent, reader, writer, csvOpen, failed>>
  BY SetupSteps
<1>2. running' \in BOOLEAN /\ streaming' \in BOOLEAN
  BY <1>1, RunType DEF Control, Flags
<1>3. writer = "off" /\ ~csvOpen /\ portOpen
  BY <1>1 DEF Control, Phase, SetUpSteps
<1>4. Threads'
  BY <1>1 DEF Control, Threads
<1>5. Flags'
  BY <1>1, <1>2 DEF Control, Flags
<1>6. Phase'
  <2>1. CASE outcome \in goOn /\ main' = to /\ portOpen' = portOpen
    BY <1>1, <1>3, <2>1 DEF Phase, SetUpSteps
  <2>2. CASE main' \in {"gone", "refused"} /\ portOpen' = FALSE
    BY <1>1, <1>3, <2>2 DEF Phase, SetUpSteps
  <2> QED BY <1>1, <2>1, <2>2
<1> QED BY <1>4, <1>5, <1>6 DEF Control

LEMMA SetUpControl == Control /\ SetUp => Control'
<1> SUFFICES ASSUME Control, SetUp PROVE Control'
  OBVIOUS
<1>1. CASE Ping
  <2>1. version = "wayland"
    BY <1>1 DEF Ping, Setup, Control, Phase
  <2> QED BY <1>1, <2>1, SetupControl DEF Ping, SetUpSteps, Outcomes
<1>2. CASE Get
  <2>1. version = "script"
    BY <1>2 DEF Get, Setup, Control, Phase
  <2> QED BY <1>2, <2>1, SetupControl DEF Get, SetUpSteps, Outcomes
<1>3. CASE StopLeftover
  <2>1. version = "wayland"
    BY <1>3 DEF StopLeftover, Setup, Control, Phase
  <2>2. ASSUME NEW outcome \in {"ok", "error"}, Run("stop", outcome)
        PROVE  ~running'
    BY <2>2, RunStop DEF Control, Flags
  <2> QED BY <1>3, <2>2, SetupControl DEF StopLeftover, SetUpSteps, Outcomes
<1>4. CASE Start
  BY <1>4, SetupControl DEF Start, SetUpSteps, Outcomes
<1>5. CASE StreamOn
  BY <1>5, SetupControl DEF StreamOn, SetUpSteps, Outcomes
<1>6. CASE StartReader
  <2>1. Threads' /\ Flags'
    BY <1>6 DEF StartReader, Control, Threads, Flags, fw, link, count, write
  <2>2. Phase'
    BY <1>6 DEF StartReader, Control, Phase, SetUpSteps, fw, link, count, write
  <2> QED BY <2>1, <2>2 DEF Control
<1>7. CASE OpenCsv
  <2>1. portOpen
    BY <1>7 DEF OpenCsv, Control, Phase
  <2>2. Threads' /\ Flags'
    BY <1>7 DEF OpenCsv, Control, Threads, Flags, fw, link, count, read
  <2>3. Phase'
    BY <1>7, <2>1 DEF OpenCsv, Control, Phase, SetUpSteps, fw, link, count, read
  <2> QED BY <2>2, <2>3 DEF Control
<1> QED BY <1>1, <1>2, <1>3, <1>4, <1>5, <1>6, <1>7 DEF SetUp

\* One command of cleanup: on the open port it leads to its successor when answered and
\* to close, with failed, when not; on the closed one it leads to close.
LEMMA CleanupSteps ==
  ASSUME Control, NEW step, NEW cmd, NEW to, Cleanup(step, cmd, to)
  PROVE  /\ main = step
         /\ UNCHANGED <<portOpen, again, version, stopEvent, reader, writer, csvOpen>>
         /\ running' \in BOOLEAN /\ streaming' \in BOOLEAN
         /\ \/ portOpen /\ Run(cmd, "ok") /\ main' = to /\ failed' = failed
            \/ portOpen /\ main' = "close" /\ failed' = TRUE
            \/ ~portOpen /\ main' = "close" /\ UNCHANGED <<fw, failed>>
<1>1. main = step
  BY DEF Cleanup
<1>2. UNCHANGED <<portOpen, again, version, stopEvent, reader, writer, csvOpen>>
  BY DEF Cleanup, count, read, write
<1>3. ASSUME portOpen, NEW outcome \in Outcomes, Run(cmd, outcome)
      PROVE  running' \in BOOLEAN /\ streaming' \in BOOLEAN
  BY <1>3, RunType DEF Control, Flags
<1>4. ~portOpen /\ UNCHANGED fw => running' \in BOOLEAN /\ streaming' \in BOOLEAN
  BY DEF Control, Flags, fw
<1>5. \/ /\ portOpen
         /\ \E outcome \in Outcomes :
              /\ Run(cmd, outcome)
              /\ \/ outcome = "ok" /\ main' = to /\ UNCHANGED failed
                 \/ outcome # "ok" /\ main' = "close" /\ failed' = TRUE
      \/ ~portOpen /\ main' = "close" /\ UNCHANGED <<fw, failed>>
  BY DEF Cleanup
<1> QED BY <1>1, <1>2, <1>3, <1>4, <1>5

LEMMA CleanUpControl == Control /\ CleanUp => Control'
<1> SUFFICES ASSUME Control, CleanUp PROVE Control'
  OBVIOUS
<1>1. CASE CleanupStop
  <2>1. Threads' /\ Flags'
    BY <1>1 DEF CleanupStop, Control, Threads, Flags, fw, link, count, read, write
  <2>2. Phase'
    BY <1>1 DEF CleanupStop, Control, Phase, SetUpSteps, fw, link, count, read, write
  <2> QED BY <2>1, <2>2 DEF Control
<1>2. CASE CleanupStreamOff
  <2>1. /\ main = "streamoff"
        /\ UNCHANGED <<portOpen, again, version, stopEvent, reader, writer, csvOpen>>
        /\ running' \in BOOLEAN /\ streaming' \in BOOLEAN
        /\ main' \in {"motoroff", "close"} /\ failed' \in BOOLEAN
    BY <1>2, CleanupSteps DEF CleanupStreamOff, Control, Flags
  <2>2. Threads'
    BY <2>1 DEF Control, Threads
  <2>3. Flags'
    BY <2>1 DEF Control, Flags
  <2>4. \/ portOpen /\ main' = "motoroff" /\ ~streaming'
        \/ portOpen /\ main' = "close" /\ failed' = TRUE
        \/ ~portOpen /\ main' = "close" /\ UNCHANGED <<fw, failed>>
    BY <1>2, CleanupSteps, RunStreamOff DEF CleanupStreamOff
  <2>5. Phase'
    BY <2>1, <2>4 DEF Control, Phase, SetUpSteps, fw
  <2> QED BY <2>2, <2>3, <2>5 DEF Control
<1>3. CASE CleanupMotorOff
  <2>1. /\ main = "motoroff"
        /\ UNCHANGED <<portOpen, again, version, stopEvent, reader, writer, csvOpen>>
        /\ running' \in BOOLEAN /\ streaming' \in BOOLEAN
        /\ main' = "close"
        /\ (Run("stop", "ok") /\ failed' = failed) \/ failed' = TRUE \/ ~portOpen
    BY <1>3, CleanupSteps DEF CleanupMotorOff
  <2>2. Threads'
    BY <2>1 DEF Control, Threads
  <2>3. Flags'
    BY <1>3, <2>1, CleanupSteps DEF CleanupMotorOff, Control, Flags
  <2>4. portOpen /\ ~streaming
    BY <2>1 DEF Control, Phase
  <2>5. Run("stop", "ok") => ~running' /\ ~streaming'
    BY <2>4, RunStop DEF Control, Flags
  <2>6. Phase'
    BY <2>1, <2>4, <2>5 DEF Control, Phase, SetUpSteps
  <2> QED BY <2>2, <2>3, <2>6 DEF Control
<1>4. CASE CleanupClose
  <2>1. /\ main = "close" /\ csvOpen' = FALSE /\ portOpen' = FALSE /\ again' = FALSE
        /\ main' \in {"cleanup", "exited"}
        /\ UNCHANGED <<running, streaming, version, stopEvent, reader, writer, failed>>
    BY <1>4 DEF CleanupClose, fw, count, read
  <2>2. Threads' /\ Flags'
    BY <2>1 DEF Control, Threads, Flags
  <2>3. Phase'
    BY <2>1 DEF Control, Phase, SetUpSteps
  <2> QED BY <2>2, <2>3 DEF Control
<1> QED BY <1>1, <1>2, <1>3, <1>4 DEF CleanUp

LEMMA ControlStep == MonitorAssumption /\ Control /\ [Next]_vars => Control'
<1> SUFFICES ASSUME MonitorAssumption, Control, [Next]_vars PROVE Control'
  OBVIOUS
<1>1. CASE Sample
  BY <1>1 DEF Sample, Control, Threads, Flags, Phase, SetUpSteps, fw, count, read, write
<1>2. CASE Launch
  <2>1. Threads' /\ Flags'
    BY <1>2 DEF MonitorAssumption, Launch, Fresh, Control, Threads, Flags, fw
  <2>2. Phase'
    BY <1>2 DEF Launch, Fresh, Phase, SetUpSteps, fw
  <2> QED BY <2>1, <2>2 DEF Control
<1>3. CASE Die
  <2>1. Threads' /\ Flags'
    BY <1>3 DEF Die, Fresh, Control, Threads, Flags, fw, count
  <2>2. Phase'
    BY <1>3 DEF Die, Fresh, Phase, SetUpSteps, fw, count
  <2> QED BY <2>1, <2>2 DEF Control
<1>4. CASE EndPlot
  <2>1. Threads' /\ Flags'
    BY <1>4 DEF EndPlot, Control, Threads, Flags, fw, link, count, read, write
  <2>2. Phase'
    BY <1>4 DEF EndPlot, Control, Phase, SetUpSteps, fw, link, count, read, write
  <2> QED BY <2>1, <2>2 DEF Control
<1>5. CASE Interrupt
  <2>1. Threads' /\ Flags'
    BY <1>5 DEF Interrupt, Control, Threads, Flags, fw, link, read, write
  <2>2. Phase'
    BY <1>5 DEF Interrupt, Control, Phase, SetUpSteps, fw, link, read, write
  <2> QED BY <2>1, <2>2 DEF Control
<1>6. CASE Reader
  <2>1. /\ reader' \in {"off", "check", "reading"}
        /\ UNCHANGED <<fw, portOpen, main, again, count, stopEvent, write, failed>>
    BY <1>6 DEF Reader, ReaderCheck, ReaderRead, link
  <2>2. Threads' /\ Flags'
    BY <2>1 DEF Control, Threads, Flags, fw, count, write
  <2>3. Phase'
    BY <2>1 DEF Control, Phase, SetUpSteps, fw, count, write
  <2> QED BY <2>2, <2>3 DEF Control
<1>7. CASE Writer
  <2>1. /\ writer # "off" /\ writer' \in {"off", "check", "write"}
        /\ UNCHANGED <<fw, link, main, again, count, stopEvent, read, csvOpen, failed>>
    BY <1>7 DEF Writer, WriterCheck, WriterRow, WriterSleep
  <2>2. Threads' /\ Flags'
    BY <2>1 DEF Control, Threads, Flags, fw, link, count, read
  <2>3. Phase'
    BY <2>1 DEF Control, Phase, SetUpSteps, fw, link, count, read
  <2> QED BY <2>2, <2>3 DEF Control
<1>8. CASE UNCHANGED vars
  BY <1>8 DEF vars, Control, Threads, Flags, Phase, SetUpSteps, fw, link, count, read,
              write
<1> QED BY <1>1, <1>2, <1>3, <1>4, <1>5, <1>6, <1>7, <1>8, SetUpControl, CleanUpControl
    DEF Next
-----------------------------------------------------------------------------
(* Sequences of samples                                                    *)

Increasing(s)   == \A i, j \in 1..Len(s) : i < j => s[i] < s[j]
Below(s, t)     == \A i \in 1..Len(s), j \in 1..Len(t) : s[i] < t[j]
Within(s, t)    == \A i \in 1..Len(s) : \E j \in 1..Len(t) : t[j] = s[i]
UpTo(s, n)      == \A i \in 1..Len(s) : s[i] <= n
\* Behind the first k elements of t there are only elements above those of s.
Ahead(s, t, k)  == \A i \in 1..Len(s), j \in 1..Len(t) : j > k => s[i] < t[j]

LEMMA EmptyOrder ==
  ASSUME NEW t, NEW n, NEW k
  PROVE  /\ Increasing(<<>>) /\ Below(<<>>, t) /\ Below(t, <<>>) /\ Within(<<>>, t)
         /\ UpTo(<<>>, n) /\ Ahead(<<>>, t, k) /\ Ahead(t, <<>>, k)
<1>1. 1..Len(<<>>) = {}
  OBVIOUS
<1> QED BY <1>1 DEF Increasing, Below, Within, UpTo, Ahead

LEMMA ConcatIncreasing ==
  ASSUME NEW s \in Seq(Samples), NEW t \in Seq(Samples),
         Increasing(s), Increasing(t), Below(s, t)
  PROVE  Increasing(s \o t)
<1> SUFFICES ASSUME NEW i \in 1..Len(s \o t), NEW j \in 1..Len(s \o t), i < j
             PROVE  (s \o t)[i] < (s \o t)[j]
  BY DEF Increasing
<1>1. Len(s \o t) = Len(s) + Len(t) /\ Len(s) \in Nat /\ Len(t) \in Nat
  OBVIOUS
<1>2. CASE j <= Len(s)
  BY <1>1, <1>2 DEF Increasing
<1>3. CASE i <= Len(s) /\ j > Len(s)
  <2>1. i \in 1..Len(s) /\ j - Len(s) \in 1..Len(t)
    BY <1>1, <1>3
  <2>2. (s \o t)[i] = s[i] /\ (s \o t)[j] = t[j - Len(s)]
    BY <1>1, <1>3
  <2> QED BY <2>1, <2>2 DEF Below
<1>4. CASE i > Len(s)
  <2>1. i - Len(s) \in 1..Len(t) /\ j - Len(s) \in 1..Len(t) /\ i - Len(s) < j - Len(s)
    BY <1>1, <1>4
  <2>2. (s \o t)[i] = t[i - Len(s)] /\ (s \o t)[j] = t[j - Len(s)]
    BY <1>1, <1>4
  <2> QED BY <2>1, <2>2 DEF Increasing
<1> QED BY <1>1, <1>2, <1>3, <1>4

\* Every element of a concatenation is one of the first or one of the second sequence.
LEMMA ConcatElements ==
  ASSUME NEW s \in Seq(Samples), NEW t \in Seq(Samples), NEW k \in 1..Len(s \o t)
  PROVE  \/ k \in 1..Len(s) /\ (s \o t)[k] = s[k]
         \/ k - Len(s) \in 1..Len(t) /\ (s \o t)[k] = t[k - Len(s)]
<1>1. Len(s \o t) = Len(s) + Len(t) /\ Len(s) \in Nat /\ Len(t) \in Nat
  OBVIOUS
<1> QED BY <1>1

LEMMA ConcatWithin ==
  ASSUME NEW r \in Seq(Samples), NEW s \in Seq(Samples), NEW t \in Seq(Samples),
         Within(s, r)
  PROVE  Within(s, r \o t)
<1> SUFFICES ASSUME NEW i \in 1..Len(s)
             PROVE  \E j \in 1..Len(r \o t) : (r \o t)[j] = s[i]
  BY DEF Within
<1>1. PICK j \in 1..Len(r) : r[j] = s[i]
  BY DEF Within
<1>2. j \in 1..Len(r \o t) /\ (r \o t)[j] = r[j]
  OBVIOUS
<1> QED BY <1>1, <1>2

\* The second half of a concatenation is within it, and with it whatever is within its
\* first half.
LEMMA ConcatBothWithin ==
  ASSUME NEW r \in Seq(Samples), NEW s \in Seq(Samples), NEW t \in Seq(Samples),
         Within(s, r)
  PROVE  Within(s \o t, r \o t)
<1> SUFFICES ASSUME NEW k \in 1..Len(s \o t)
             PROVE  \E j \in 1..Len(r \o t) : (r \o t)[j] = (s \o t)[k]
  BY DEF Within
<1>1. CASE k \in 1..Len(s) /\ (s \o t)[k] = s[k]
  BY <1>1, ConcatWithin DEF Within
<1>2. CASE k - Len(s) \in 1..Len(t) /\ (s \o t)[k] = t[k - Len(s)]
  <2> DEFINE j == Len(r) + (k - Len(s))
  <2>1. Len(r) \in Nat /\ Len(s) \in Nat /\ Len(t) \in Nat /\ k \in Nat
    OBVIOUS
  <2>2. j \in 1..Len(r \o t) /\ (r \o t)[j] = t[j - Len(r)] /\ j - Len(r) = k - Len(s)
    BY <1>2, <2>1
  <2> QED BY <1>2, <2>2
<1> QED BY <1>1, <1>2, ConcatElements

\* A sequence that is within another one is below whatever that one is below.
LEMMA WithinBelow ==
  ASSUME NEW r \in Seq(Samples), NEW s \in Seq(Samples), NEW t \in Seq(Samples),
         Within(s, r), Below(r, t)
  PROVE  Below(s, t)
BY DEF Within, Below

\* The last n elements of a sequence.
LEMMA LastProperties ==
  ASSUME NEW S, NEW s \in Seq(S), NEW n \in Nat \ {0}
  PROVE  LET shift == IF Len(s) <= n THEN 0 ELSE Len(s) - n
         IN  /\ Last(s, n) \in Seq(S)
             /\ Len(Last(s, n)) = Len(s) - shift
             /\ Len(Last(s, n)) <= n
             /\ shift \in Nat
             /\ \A i \in 1..Len(s) - shift : Last(s, n)[i] = s[i + shift]
<1>1. CASE Len(s) <= n
  BY <1>1 DEF Last
<1>2. CASE ~(Len(s) <= n)
  <2> DEFINE m == Len(s) - n + 1
  <2>1. m \in 1..Len(s) + 1 /\ Len(s) \in m - 1..Len(s)
    BY <1>2
  <2>2. /\ SubSeq(s, m, Len(s)) \in Seq(S)
        /\ Len(SubSeq(s, m, Len(s))) = Len(s) - m + 1
        /\ \A i \in 1..Len(s) - m + 1 : SubSeq(s, m, Len(s))[i] = s[m + i - 1]
    BY <2>1, SubSeqProperties
  <2> QED BY <1>2, <2>1, <2>2 DEF Last
<1> QED BY <1>1, <1>2

\* Forgetting the first elements keeps the order.
LEMMA LastOrder ==
  ASSUME NEW s \in Seq(Samples), NEW t \in Seq(Samples), NEW r \in Seq(Samples),
         NEW n \in Nat \ {0}, NEW k \in Nat
  PROVE  /\ Increasing(t) => Increasing(Last(t, n))
         /\ Within(t, r) => Within(Last(t, n), r)
         /\ Ahead(s, t, k) => Ahead(s, Last(t, n), k)
<1> DEFINE l == Last(t, n)
           shift == IF Len(t) <= n THEN 0 ELSE Len(t) - n
<1>1. /\ Len(l) = Len(t) - shift /\ shift \in Nat
      /\ \A i \in 1..Len(t) - shift : l[i] = t[i + shift]
  BY LastProperties
<1> HIDE DEF l, shift
<1>2. ASSUME NEW i \in 1..Len(l)
      PROVE  i + shift \in 1..Len(t) /\ l[i] = t[i + shift]
  BY <1>1
<1>3. Increasing(t) => Increasing(l)
  BY <1>1, <1>2 DEF Increasing
<1>4. Within(t, r) => Within(l, r)
  BY <1>2 DEF Within
<1>5. Ahead(s, t, k) => Ahead(s, l, k)
  BY <1>1, <1>2 DEF Ahead
<1> QED BY <1>3, <1>4, <1>5 DEF l

LEMMA ConcatAhead ==
  ASSUME NEW s \in Seq(Samples), NEW t \in Seq(Samples), NEW u \in Seq(Samples),
         NEW k \in Nat, Ahead(s, t, k), Below(s, u)
  PROVE  Ahead(s, t \o u, k)
<1> SUFFICES ASSUME NEW i \in 1..Len(s), NEW j \in 1..Len(t \o u), j > k
             PROVE  s[i] < (t \o u)[j]
  BY DEF Ahead
<1> QED BY ConcatElements DEF Ahead, Below
-----------------------------------------------------------------------------
(* The stream, from the testbench to the file                              *)

Stream ==
  /\ port \in Seq(Samples) /\ samples \in Seq(Samples) /\ received \in Seq(Samples)
  /\ copy \in Seq(Samples) /\ csv \in Seq(Samples)
  /\ Len(samples) <= MaxLen /\ written \in 0..Len(samples)

\* Samples are numbered in the order they were streamed. The deque holds samples of
\* this process; what the writer has written or is writing is below everything that
\* lies behind its position in the deque, also after the deque has moved.
Order ==
  /\ Increasing(port) /\ Increasing(received) /\ Below(received, port)
  /\ UpTo(port, emitted) /\ UpTo(received, emitted)
  /\ Increasing(samples) /\ Within(samples, received)
  /\ Increasing(csv) /\ Increasing(copy) /\ Below(csv, copy)
  /\ Within(csv, received) /\ Within(copy, received)
  /\ Ahead(csv, samples, written) /\ Ahead(copy, samples, written)

\* The writer takes a new copy only when it has written the last one.
Idle == writer = "check" \/ main \in SetUpSteps => copy = <<>>

Flow == Stream /\ Order /\ Idle

LEMMA FlowInit == MonitorAssumption /\ Init => Flow
<1> SUFFICES ASSUME MonitorAssumption, Init PROVE Flow
  OBVIOUS
<1>1. Stream
  BY DEF MonitorAssumption, Init, Stream
<1>2. Order
  BY EmptyOrder DEF Init, Order
<1>3. Idle
  BY DEF Init, Idle
<1> QED BY <1>1, <1>2, <1>3 DEF Flow

\* A process begins and ends with nothing.
LEMMA FreshFlow ==
  ASSUME MonitorAssumption, Fresh, emitted' = emitted
  PROVE  Flow'
<1>1. /\ port' = <<>> /\ samples' = <<>> /\ received' = <<>> /\ copy' = <<>>
      /\ csv' = <<>> /\ written' = 0
  BY DEF Fresh
<1>2. Stream'
  BY <1>1 DEF MonitorAssumption, Stream
<1>3. Order'
  BY <1>1, EmptyOrder DEF Order
<1>4. Idle'
  BY <1>1 DEF Idle
<1> QED BY <1>2, <1>3, <1>4 DEF Flow

\* A step that moves no sample, except that a command may empty the port.
Quiet ==
  /\ port' = port \/ port' = <<>>
  /\ UNCHANGED <<emitted, samples, received, written, copy, csv>>

LEMMA QuietFlow == Stream /\ Order /\ Quiet => Stream' /\ Order'
<1> SUFFICES ASSUME Stream, Order, Quiet PROVE Stream' /\ Order'
  OBVIOUS
<1>1. Stream'
  <2>1. port' \in Seq(Samples)
    <3>1. port \in Seq(Samples) /\ <<>> \in Seq(Samples)
      BY DEF Stream
    <3> QED BY <3>1 DEF Quiet
  <2>2. /\ samples' = samples /\ received' = received /\ copy' = copy /\ csv' = csv
        /\ written' = written
    BY DEF Quiet
  <2> QED BY <2>1, <2>2 DEF Stream, Samples
<1>2. Increasing(port') /\ Below(received, port') /\ UpTo(port', emitted)
  BY EmptyOrder DEF Order, Quiet
<1>3. Order'
  BY <1>2 DEF Order, Quiet
<1> QED BY <1>1, <1>3

\* The set-up, the cleanup and the waiting steps of the threads move no sample.
LEMMA QuietSteps ==
  ASSUME Control, Stream, Idle,
         SetUp \/ EndPlot \/ CleanUp \/ Interrupt \/ ReaderCheck \/ WriterSleep
           \/ UNCHANGED vars
  PROVE  Quiet /\ Idle'
<1>1. CASE StartReader
  BY <1>1 DEF StartReader, Quiet, Idle, SetUpSteps, link, write
<1>2. CASE OpenCsv
  BY <1>2 DEF OpenCsv, Quiet, Idle, SetUpSteps, link, read
<1>3. CASE EndPlot
  BY <1>3 DEF EndPlot, Quiet, Idle, SetUpSteps, link, read, write
<1>4. CASE Interrupt
  BY <1>4 DEF Interrupt, Quiet, Idle, SetUpSteps, link, read, write
<1>5. CASE ReaderCheck
  BY <1>5 DEF ReaderCheck, Quiet, Idle, link, write
<1>6. CASE WriterSleep
  BY <1>6 DEF WriterSleep, Quiet, Idle, link, read
<1>7. CASE UNCHANGED vars
  BY <1>7 DEF vars, Quiet, Idle, link, read, write
<1>8. ASSUME NEW step \in SetUpSteps, NEW cmd, NEW goOn, NEW to, Setup(step, cmd, goOn, to)
      PROVE  Quiet /\ Idle'
  <2>1. PICK outcome : Run(cmd, outcome)
    BY <1>8 DEF Setup
  <2>2. port' = <<>>
    BY <2>1 DEF Run
  <2> QED BY <1>8, <2>2 DEF Setup, Quiet, Idle, read, write
<1>9. CASE Ping \/ Get \/ StopLeftover \/ Start \/ StreamOn
  BY <1>8, <1>9 DEF Ping, Get, StopLeftover, Start, StreamOn, SetUpSteps
<1>10. CASE CleanupStop
  BY <1>10 DEF CleanupStop, Quiet, Idle, SetUpSteps, link, read, write
<1>11. CASE CleanupClose
  BY <1>11 DEF CleanupClose, Quiet, Idle, SetUpSteps, read
<1>12. ASSUME NEW step, NEW cmd, NEW to, Cleanup(step, cmd, to),
              step \notin SetUpSteps, to \notin SetUpSteps
       PROVE  Quiet /\ Idle'
  <2>1. port' = port \/ port' = <<>>
    BY <1>12 DEF Cleanup, Run
  <2>2. main' \notin SetUpSteps
    BY <1>12 DEF Cleanup, SetUpSteps
  <2> QED BY <1>12, <2>1, <2>2 DEF Cleanup, Quiet, Idle, read, write
<1>13. CASE CleanupStreamOff \/ CleanupMotorOff
  BY <1>12, <1>13 DEF CleanupStreamOff, CleanupMotorOff, SetUpSteps
<1> QED BY <1>1, <1>2, <1>3, <1>4, <1>5, <1>6, <1>7, <1>9, <1>10, <1>11, <1>13
    DEF SetUp, CleanUp

LEMMA SampleFlow ==
  ASSUME MonitorAssumption, Counts, Control, Flow, Sample
  PROVE  Flow'
<1>1. UNCHANGED <<main, samples, received, writer, written, copy, csv>>
  BY DEF Sample, read, write
<1>2. emitted' = emitted + 1 /\ emitted \in Nat /\ emitted + 1 \in Samples
  BY DEF Sample, Counts, Samples, MonitorAssumption
<1>3. port' = Append(port, emitted + 1) \/ port' = port
  BY DEF Sample
<1>4. /\ port' \in Seq(Samples)
      /\ Increasing(port') /\ Below(received, port') /\ UpTo(port', emitted + 1)
  <2>1. CASE port' = port
    <3>1. \A i \in 1..Len(port) : port[i] \in Nat /\ port[i] <= emitted
      BY DEF Flow, Stream, Order, UpTo, Samples
    <3>2. UpTo(port, emitted + 1)
      BY <1>2, <3>1 DEF UpTo
    <3> QED BY <2>1, <3>2 DEF Flow, Stream, Order
  <2>2. CASE port' = Append(port, emitted + 1)
    <3>1. /\ port' \in Seq(Samples) /\ Len(port') = Len(port) + 1 /\ Len(port) \in Nat
          /\ \A i \in 1..Len(port) : port'[i] = port[i]
          /\ port'[Len(port) + 1] = emitted + 1
      BY <1>2, <2>2 DEF Flow, Stream
    <3>2. /\ \A i \in 1..Len(port) : port[i] \in Nat /\ port[i] < emitted + 1
          /\ \A i \in 1..Len(received) : received[i] \in Nat /\ received[i] < emitted + 1
      <4>1. UpTo(port, emitted) /\ UpTo(received, emitted) /\ emitted \in Nat
        BY <1>2 DEF Flow, Order
      <4>2. /\ \A i \in 1..Len(port) : port[i] \in Nat
            /\ \A i \in 1..Len(received) : received[i] \in Nat
        BY DEF Flow, Stream, Samples
      <4> QED BY <4>1, <4>2 DEF UpTo
    <3>3. Increasing(port')
      BY <1>2, <3>1, <3>2 DEF Flow, Order, Increasing
    <3>4. Below(received, port')
      BY <1>2, <3>1, <3>2 DEF Flow, Order, Below
    <3>5. UpTo(port', emitted + 1)
      BY <1>2, <3>1, <3>2 DEF UpTo
    <3> QED BY <3>1, <3>3, <3>4, <3>5
  <2> QED BY <1>3, <2>1, <2>2
<1>5. UpTo(received, emitted + 1)
  BY <1>2 DEF Flow, Stream, Order, UpTo, Samples
<1>6. Stream'
  BY <1>1, <1>4 DEF Flow, Stream, Samples
<1>7. Order'
  BY <1>1, <1>2, <1>4, <1>5 DEF Flow, Order
<1>8. Idle'
  BY <1>1 DEF Flow, Idle
<1> QED BY <1>6, <1>7, <1>8 DEF Flow

LEMMA ReaderReadFlow ==
  ASSUME MonitorAssumption, Control, Flow, ReaderRead
  PROVE  Flow'
<1>1. UNCHANGED <<emitted, main, writer, written, copy, csv>>
  BY DEF ReaderRead, write
<1>2. Idle'
  BY <1>1 DEF Flow, Idle
<1>3. CASE UNCHANGED <<samples, received, port>>
  <2>1. Quiet
    BY <1>1, <1>3 DEF Quiet
  <2> QED BY <1>2, <2>1, QuietFlow DEF Flow
<1>4. CASE /\ samples' = Last(samples \o port, MaxLen)
           /\ received' = received \o port /\ port' = <<>>
  <2> DEFINE t == samples \o port
  <2>1. /\ port \in Seq(Samples) /\ samples \in Seq(Samples)
        /\ received \in Seq(Samples) /\ copy \in Seq(Samples) /\ csv \in Seq(Samples)
        /\ t \in Seq(Samples) /\ received \o port \in Seq(Samples)
        /\ MaxLen \in Nat \ {0} /\ written \in Nat
    BY DEF Flow, Stream, MonitorAssumption
  <2>2. Increasing(t) /\ Within(t, received \o port)
    BY <2>1, WithinBelow, ConcatIncreasing, ConcatBothWithin DEF Flow, Order
  <2>3. Increasing(received \o port)
    BY <2>1, ConcatIncreasing DEF Flow, Order
  <2>4. Within(csv, received \o port) /\ Within(copy, received \o port)
    BY <2>1, ConcatWithin DEF Flow, Order
  <2>5. Ahead(csv, t, written) /\ Ahead(copy, t, written)
    BY <2>1, WithinBelow, ConcatAhead DEF Flow, Order
  <2>6. UpTo(received \o port, emitted)
    BY <2>1, ConcatElements DEF Flow, Order, UpTo
  <2>7. /\ Increasing(samples') /\ Within(samples', received')
        /\ Ahead(csv, samples', written) /\ Ahead(copy, samples', written)
    <3> HIDE DEF t
    <3>1. samples' = Last(t, MaxLen) /\ received' = received \o port
      BY <1>4 DEF t
    <3> QED BY <2>1, <2>2, <2>5, <3>1, LastOrder
  <2>8. Stream'
    <3>1. samples' \in Seq(Samples) /\ Len(samples') <= MaxLen /\ Len(samples') >= Len(samples)
      <4>1. Len(t) = Len(samples) + Len(port) /\ Len(samples) <= MaxLen
        BY <2>1 DEF Flow, Stream
      <4> HIDE DEF t
      <4>2. samples' = Last(t, MaxLen)
        BY <1>4 DEF t
      <4> QED BY <2>1, <4>1, <4>2, LastProperties
    <3>2. written' = written /\ written <= Len(samples)
      BY <1>1 DEF Flow, Stream
    <3> QED BY <1>1, <1>4, <2>1, <3>1, <3>2 DEF Stream
  <2>9. Increasing(port') /\ Below(received', port') /\ UpTo(port', emitted)
    BY <1>4, EmptyOrder
  <2>10. Order'
    BY <1>1, <1>4, <2>3, <2>4, <2>6, <2>7, <2>9 DEF Flow, Order
  <2> QED BY <1>2, <2>8, <2>10 DEF Flow
<1> QED BY <1>3, <1>4 DEF ReaderRead

\* The copy is what lies behind the position in the deque, so the rows written so far
\* are below it.
LEMMA WriterCheckFlow ==
  ASSUME Control, Flow, WriterCheck
  PROVE  Flow'
<1>1. UNCHANGED <<emitted, port, samples, received, main, csv>>
  BY DEF WriterCheck, link, read
<1>2. copy = <<>> /\ writer' # "check" /\ main \notin SetUpSteps
  BY DEF WriterCheck, Flow, Idle, Control, Phase
<1>3. Idle'
  BY <1>1, <1>2 DEF Idle
<1>4. CASE UNCHANGED <<written, copy>>
  BY <1>1, <1>3, <1>4, QuietFlow DEF Quiet, Flow
<1>5. CASE copy' = SubSeq(samples, written + 1, Len(samples)) /\ written' = Len(samples)
  <2>1. /\ samples \in Seq(Samples) /\ csv \in Seq(Samples) /\ received \in Seq(Samples)
        /\ written \in Nat /\ written <= Len(samples) /\ Len(samples) \in Nat
    BY DEF Flow, Stream
  <2>2. /\ copy' \in Seq(Samples) /\ Len(copy') = Len(samples) - written
        /\ \A i \in 1..Len(copy') : /\ written + i \in 1..Len(samples)
                                    /\ copy'[i] = samples[written + i]
    <3>1. written + 1 \in 1..Len(samples) + 1 /\ Len(samples) \in (written + 1) - 1..Len(samples)
      BY <2>1
    <3> QED BY <1>5, <2>1, <3>1, SubSeqProperties
  <2>3. Stream'
    BY <1>1, <1>5, <2>1, <2>2 DEF Flow, Stream
  <2>4. Increasing(copy')
    BY <2>1, <2>2 DEF Flow, Order, Increasing
  <2>5. Below(csv, copy')
    BY <2>1, <2>2 DEF Flow, Order, Below, Ahead
  <2>6. Within(copy', received)
    BY <2>1, <2>2 DEF Flow, Order, Within
  <2>7. Ahead(csv, samples, written') /\ Ahead(copy', samples, written')
    BY <1>5, <2>1 DEF Ahead
  <2>8. Order'
    BY <1>1, <2>4, <2>5, <2>6, <2>7 DEF Flow, Order
  <2> QED BY <1>3, <2>3, <2>8 DEF Flow
<1> QED BY <1>4, <1>5 DEF WriterCheck

\* One row moves from the copy to the file; the two together stay what they were.
LEMMA WriterRowFlow ==
  ASSUME Control, Flow, WriterRow
  PROVE  Flow'
<1>1. /\ UNCHANGED <<emitted, port, samples, received, main, written>>
      /\ main \notin SetUpSteps /\ writer' # "check" /\ copy # <<>>
  BY DEF WriterRow, link, read, Control, Phase
<1>2. Idle'
  BY <1>1 DEF Idle
<1>3. CASE UNCHANGED <<csv, copy>>
  BY <1>1, <1>2, <1>3, QuietFlow DEF Quiet, Flow
<1>4. CASE csv' = Append(csv, Head(copy)) /\ copy' = Tail(copy)
  <2>1. /\ copy \in Seq(Samples) /\ csv \in Seq(Samples) /\ copy # <<>>
        /\ Len(copy) \in Nat /\ Len(csv) \in Nat
    BY <1>1 DEF Flow, Stream
  <2>2. /\ copy' \in Seq(Samples) /\ Len(copy') = Len(copy) - 1 /\ 1 \in 1..Len(copy)
        /\ \A i \in 1..Len(copy') : i + 1 \in 1..Len(copy) /\ copy'[i] = copy[i + 1]
    BY <1>4, <2>1
  <2>3. /\ csv' \in Seq(Samples) /\ Len(csv') = Len(csv) + 1
        /\ \A i \in 1..Len(csv) : csv'[i] = csv[i]
        /\ csv'[Len(csv) + 1] = copy[1]
    BY <1>4, <2>1
  <2>4. \A i \in 1..Len(csv') : \/ i \in 1..Len(csv) /\ csv'[i] = csv[i]
                                \/ i = Len(csv) + 1 /\ csv'[i] = copy[1]
    BY <2>1, <2>3
  <2>5. Increasing(csv')
    BY <2>1, <2>2, <2>3, <2>4 DEF Flow, Order, Increasing, Below
  <2>6. Increasing(copy')
    BY <2>1, <2>2 DEF Flow, Order, Increasing
  <2>7. Below(csv', copy')
    BY <2>1, <2>2, <2>4 DEF Flow, Order, Increasing, Below
  <2>8. Within(csv', received)
    BY <2>2, <2>4 DEF Flow, Order, Within
  <2>9. Within(copy', received)
    BY <2>2 DEF Flow, Order, Within
  <2>10. Ahead(csv', samples, written) /\ Ahead(copy', samples, written)
    BY <2>2, <2>4 DEF Flow, Order, Ahead
  <2>11. Stream'
    BY <1>1, <2>2, <2>3 DEF Flow, Stream
  <2>12. Order'
    BY <1>1, <2>5, <2>6, <2>7, <2>8, <2>9, <2>10 DEF Flow, Order
  <2> QED BY <1>2, <2>11, <2>12 DEF Flow
<1> QED BY <1>3, <1>4 DEF WriterRow

LEMMA FlowStep ==
  MonitorAssumption /\ Counts /\ Control /\ Flow /\ [Next]_vars => Flow'
<1> SUFFICES ASSUME MonitorAssumption, Counts, Control, Flow, [Next]_vars PROVE Flow'
  OBVIOUS
<1>1. CASE Sample
  BY <1>1, SampleFlow
<1>2. CASE Launch \/ Die
  BY <1>2, FreshFlow DEF Launch, Die
<1>3. CASE SetUp \/ EndPlot \/ CleanUp \/ Interrupt \/ ReaderCheck \/ WriterSleep
             \/ UNCHANGED vars
  BY <1>3, QuietSteps, QuietFlow DEF Flow
<1>4. CASE ReaderRead
  BY <1>4, ReaderReadFlow
<1>5. CASE WriterCheck
  BY <1>5, WriterCheckFlow
<1>6. CASE WriterRow
  BY <1>6, WriterRowFlow
<1> QED BY <1>1, <1>2, <1>3, <1>4, <1>5, <1>6 DEF Next, Reader, Writer
-----------------------------------------------------------------------------
(* Theorems                                                                *)

IInv == Counts /\ Control /\ Flow

\* The invariant is inductive.
THEOREM IInvCorrect == Spec => []IInv
<1>1. Init => IInv
  <2>1. Init => Counts
    BY MonitorAssumption DEF MonitorAssumption, Init, Counts
  <2> QED BY <2>1, ControlInit, FlowInit, MonitorAssumption DEF IInv
<1>2. IInv /\ [Next]_vars => IInv'
  BY MonitorAssumption, CountsStep, ControlStep, FlowStep DEF IInv
<1> QED BY <1>1, <1>2, PTL DEF Spec

\* Every variable of the program has its type; the deque is never longer than maxlen,
\* and an open file means an open port.
THEOREM TypeCorrect == Spec => []TypeOK
<1>1. IInv => TypeOK
  <2> SUFFICES ASSUME IInv PROVE TypeOK
    OBVIOUS
  <2>1. written \in 0..MaxLen
    BY MonitorAssumption DEF MonitorAssumption, IInv, Flow, Stream
  <2> QED BY <2>1 DEF IInv, Counts, Control, Threads, Flags, Phase, Flow, Stream, TypeOK
<1> QED BY <1>1, IInvCorrect, PTL

\* When the Wayland version sends start, nothing is running, whatever earlier processes
\* left behind and however their commands were lost.
THEOREM StartCorrect == Spec => []StartFindsNothing
<1>1. IInv => StartFindsNothing
  BY DEF IInv, Control, Flags, Phase, StartFindsNothing
<1> QED BY <1>1, IInvCorrect, PTL

\* A process that cleaned up without a failed command leaves the testbench stopped.
THEOREM ExitCorrect == Spec => []CleanExit
<1>1. IInv => CleanExit
  BY DEF IInv, Control, Flags, Phase, CleanExit
<1> QED BY <1>1, IInvCorrect, PTL

\* The rows of the CSV file, with those the writer is about to write, are samples of
\* this process in their order, each once.
THEOREM CsvCorrect == Spec => []CsvInOrder
<1>1. IInv => CsvInOrder
  <2> SUFFICES ASSUME IInv PROVE CsvInOrder
    OBVIOUS
  <2> DEFINE rows == csv \o copy
  <2>1. csv \in Seq(Samples) /\ copy \in Seq(Samples) /\ received \in Seq(Samples)
    BY DEF IInv, Flow, Stream
  <2>2. Increasing(rows)
    BY <2>1, ConcatIncreasing DEF IInv, Flow, Order
  <2>3. Within(rows, received)
    BY <2>1, ConcatElements DEF IInv, Flow, Order, Within
  <2>4. DOMAIN rows = 1..Len(rows) /\ DOMAIN received = 1..Len(received)
    BY <2>1
  <2> QED BY <2>2, <2>3, <2>4 DEF CsvInOrder, Increasing, Within
<1> QED BY <1>1, IInvCorrect, PTL
=============================================================================
