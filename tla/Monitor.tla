------------------------------ MODULE Monitor -------------------------------
(***************************************************************************)
(* The live monitor of host/standalone_monitor, one process after the      *)
(* other, each of one of its two versions. "wayland" stops a simulation    *)
(* that an earlier process left behind, starts its own, and plots it;      *)
(* "script" asks for the state first and then starts. A reader thread      *)
(* parses the stream into a bounded deque, a writer thread copies the      *)
(* deque to a CSV file, and cleanup, also a SIGINT handler, stops all.     *)
(* A process may die anywhere; the testbench keeps doing what it did.      *)
(*                                                                         *)
(* A command of ShellSession.run is answered, or times out with or without *)
(* having been executed: a streamed line inside the prompt, or the reader  *)
(* thread, which reads the same port, can take the answer away. A streamed *)
(* line in front of an "ERROR:" hides it.                                  *)
(***************************************************************************)
EXTENDS Integers, Sequences

CONSTANTS
  Versions,      \* those of "wayland" and "script" that are used
  MaxLen,        \* maxlen of StreamReader.samples
  MaxSamples,    \* bound: samples the firmware streams in one behaviour
  MaxSessions,   \* bound: processes started
  MaxInterrupts  \* bound: SIGINTs during a cleanup

ASSUME MonitorAssumption ==
  /\ Versions \subseteq {"wayland", "script"}
  /\ MaxLen \in Nat \ {0} /\ MaxSamples \in Nat
  /\ MaxSessions \in Nat /\ MaxInterrupts \in Nat

VARIABLES
  running, streaming,  \* what tb motorsim does
  emitted,    \* samples streamed so far, which number them
  port,       \* samples received by the operating system, not yet read
  portOpen,
  main,       \* what the main thread is doing, or how the last process ended: "exited"
              \* through cleanup, "refused" by an ERROR it printed, "gone" otherwise
  again,      \* cleanup runs inside plt.show, so the finally clause runs it once more
  version,    \* of the program the last process runs
  sessions, interrupts,
  stopEvent,  \* reader._stop_event
  reader,     \* what the reader thread is doing
  samples,    \* reader.samples
  writer,     \* what csv_writer_loop is doing
  written,    \* its local variable
  copy,       \* the rows it has still to write, samples[written:]
  csv, csvOpen
\* History: read by no action of the program.
VARIABLES
  received,   \* the samples of this process, those the deque has forgotten included
  failed      \* a command of cleanup failed although the port was open

fw    == <<running, streaming>>
link  == <<port, portOpen>>
count == <<version, sessions, interrupts>>
read  == <<reader, samples, received>>
write == <<writer, written, copy, csv, csvOpen>>
vars  == <<fw, emitted, link, main, again, count, stopEvent, read, write, failed>>
-----------------------------------------------------------------------------
Ended == {"gone", "refused", "exited"}

Last(s, n) == IF Len(s) <= n THEN s ELSE SubSeq(s, Len(s) - n + 1, Len(s))

\* What a process starts with, and what is left of its threads when it is gone.
Fresh ==
  /\ again' = FALSE /\ stopEvent' = FALSE /\ failed' = FALSE
  /\ reader' = "off" /\ samples' = <<>> /\ received' = <<>>
  /\ writer' = "off" /\ written' = 0 /\ copy' = <<>>
  /\ csv' = <<>> /\ csvOpen' = FALSE
  /\ port' = <<>>

Init ==
  /\ running \in BOOLEAN /\ streaming \in BOOLEAN
  /\ emitted = 0 /\ port = <<>> /\ portOpen = FALSE
  /\ main = "gone" /\ again = FALSE /\ version = "wayland" /\ sessions = 0 /\ interrupts = 0
  /\ stopEvent = FALSE /\ reader = "off" /\ samples = <<>> /\ received = <<>>
  /\ writer = "off" /\ written = 0 /\ copy = <<>> /\ csv = <<>> /\ csvOpen = FALSE
  /\ failed = FALSE
-----------------------------------------------------------------------------
(* The testbench                                                           *)

Sample ==
  /\ running /\ streaming /\ emitted < MaxSamples
  /\ emitted' = emitted + 1
  /\ port' = IF portOpen THEN Append(port, emitted + 1) ELSE port
  /\ UNCHANGED <<fw, portOpen, main, again, count, stopEvent, read, write, failed>>

\* How a command is answered,
Reply(cmd) ==
  IF (cmd = "start" /\ running) \/ (cmd \in {"stop", "get"} /\ ~running)
  THEN "error" ELSE "ok"

\* and what it does: start and stop, unless refused, switch streaming off.
Execute(cmd) ==
  /\ running' = (cmd = "start" \/ (running /\ cmd # "stop"))
  /\ streaming' = \/ cmd = "stream on"
                  \/ /\ streaming /\ cmd # "stream off"
                     /\ cmd \in {"start", "stop"} => Reply(cmd) = "error"

\* ShellSession.run.
Run(cmd, outcome) ==
  /\ port' = <<>>
  /\ \/ outcome = Reply(cmd) /\ Execute(cmd)
     \/ outcome = "ok" /\ running /\ streaming /\ Execute(cmd)
     \/ outcome = "timeout" /\ Execute(cmd)
     \/ outcome = "timeout" /\ UNCHANGED fw
-----------------------------------------------------------------------------
(* The main thread                                                         *)

Outcomes == {"ok", "error", "timeout"}

Launch ==
  /\ main \in Ended /\ sessions < MaxSessions
  /\ sessions' = sessions + 1
  /\ version' \in Versions
  /\ main' = (IF version' = "wayland" THEN "ping" ELSE "get") /\ portOpen' = TRUE
  /\ Fresh
  /\ UNCHANGED <<fw, emitted, interrupts>>

\* A signal without a handler, an exception nobody catches.
Die ==
  /\ main \notin Ended
  /\ main' = "gone" /\ portOpen' = FALSE
  /\ Fresh
  /\ UNCHANGED <<fw, emitted, count>>

\* One command of main, after which it goes on with step to or ends: an ERROR is
\* reported with sys.exit(1).
Setup(step, cmd, goOn, to) ==
  /\ main = step
  /\ \E outcome \in Outcomes :
       /\ Run(cmd, outcome)
       /\ \/ outcome \in goOn /\ main' = to /\ UNCHANGED portOpen
          \/ /\ outcome \notin goOn
             /\ main' = (IF outcome = "error" THEN "refused" ELSE "gone")
             /\ portOpen' = FALSE
  /\ UNCHANGED <<emitted, again, count, stopEvent, read, write, failed>>

\* "Checking testbench..." in the script version: an error if nothing runs.
Get == Setup("get", "get", {"ok"}, "start")

Ping == Setup("ping", "ping", {"ok"}, "stop")

\* Mutant of StopLeftover: a timeout of stop is ignored as its error is.
StopLeftoverOrNot == Setup("stop", "stop", {"ok", "error", "timeout"}, "start")

\* The error means that nothing was running; a timeout is not caught.
StopLeftover == Setup("stop", "stop", {"ok", "error"}, "start")

Start == Setup("start", "start", {"ok"}, "stream")

StreamOn == Setup("stream", "stream on", {"ok"}, "reader")

StartReader ==
  /\ main = "reader"
  /\ main' = "csv" /\ reader' = "check"
  /\ UNCHANGED <<fw, emitted, link, again, count, stopEvent, samples, received,
                 write, failed>>

\* --csv is an option.
OpenCsv ==
  /\ main = "csv"
  /\ main' = "plot"
  /\ \/ writer' = "check" /\ csvOpen' = TRUE
     \/ UNCHANGED <<writer, csvOpen>>
  /\ UNCHANGED <<fw, emitted, link, again, count, stopEvent, read, written, copy,
                 csv, failed>>

\* The window is closed, or SIGINT arrives inside plt.show.
EndPlot ==
  /\ main = "plot"
  /\ main' = "cleanup"
  /\ again' \in BOOLEAN
  /\ UNCHANGED <<fw, emitted, link, count, stopEvent, read, write, failed>>

\* cleanup stops the reader,
CleanupStop ==
  /\ main = "cleanup"
  /\ main' = "streamoff" /\ stopEvent' = TRUE
  /\ UNCHANGED <<fw, emitted, link, again, count, read, write, failed>>

\* Mutant of Cleanup: what a command answers is not looked at.
CleanupUnchecked(step, cmd, to) ==
  /\ main = step
  /\ \E outcome \in Outcomes : portOpen /\ Run(cmd, outcome)
  /\ main' = to
  /\ UNCHANGED <<emitted, portOpen, again, count, stopEvent, read, write, failed>>

\* sends two commands, in one try: when the first fails the second is not sent. On
\* the port that an earlier cleanup closed they fail at once.
Cleanup(step, cmd, to) ==
  /\ main = step
  /\ \/ /\ portOpen
        /\ \E outcome \in Outcomes :
             /\ Run(cmd, outcome)
             /\ \/ outcome = "ok" /\ main' = to /\ UNCHANGED failed
                \/ outcome # "ok" /\ main' = "close" /\ failed' = TRUE
     \/ /\ ~portOpen
        /\ main' = "close"
        /\ UNCHANGED <<fw, port, failed>>
  /\ UNCHANGED <<emitted, portOpen, again, count, stopEvent, read, write>>

CleanupStreamOff == Cleanup("streamoff", "stream off", "motoroff")
CleanupMotorOff  == Cleanup("motoroff", "stop", "close")

\* Mutant of CleanupClose: the finally clause always runs cleanup.
CleanupForever ==
  /\ main = "close"
  /\ csvOpen' = FALSE /\ portOpen' = FALSE /\ main' = "cleanup"
  /\ UNCHANGED <<fw, emitted, port, again, count, stopEvent, read, writer, written,
                 copy, csv, failed>>

\* and closes the file and the port. The SystemExit of a signal handler unwinds
\* through the finally clause, which runs cleanup again.
CleanupClose ==
  /\ main = "close"
  /\ csvOpen' = FALSE /\ portOpen' = FALSE
  /\ again' = FALSE
  /\ main' = IF again THEN "cleanup" ELSE "exited"
  /\ UNCHANGED <<fw, emitted, port, count, stopEvent, read, writer, written, copy,
                 csv, failed>>

\* SIGINT during a cleanup: the handler's own cleanup runs first, and its SystemExit
\* ends the one it interrupted.
Interrupt ==
  /\ main \in {"streamoff", "motoroff", "close"} /\ interrupts < MaxInterrupts
  /\ interrupts' = interrupts + 1
  /\ main' = "cleanup"
  /\ UNCHANGED <<fw, emitted, link, again, version, sessions, stopEvent, read,
                 write, failed>>
-----------------------------------------------------------------------------
(* The reader thread                                                       *)

ReaderCheck ==
  /\ reader = "check"
  /\ reader' = IF stopEvent THEN "off" ELSE "reading"
  /\ UNCHANGED <<fw, emitted, link, main, again, count, stopEvent, samples,
                 received, write, failed>>

\* Mutant of ReaderRead: the deque is a list.
ReaderReadList ==
  /\ reader = "reading" /\ portOpen
  /\ samples' = samples \o port /\ received' = received \o port /\ port' = <<>>
  /\ reader' = "check"
  /\ UNCHANGED <<fw, emitted, portOpen, main, again, count, stopEvent, write, failed>>

\* One chunk, perhaps empty; the last one may be read after stopEvent is set. A closed
\* port raises.
ReaderRead ==
  /\ reader = "reading"
  /\ \/ /\ portOpen
        /\ samples' = Last(samples \o port, MaxLen)
        /\ received' = received \o port
        /\ port' = <<>>
        /\ reader' = "check"
     \/ /\ ~portOpen
        /\ reader' = "off"
        /\ UNCHANGED <<samples, received, port>>
  /\ UNCHANGED <<fw, emitted, portOpen, main, again, count, stopEvent, write, failed>>
-----------------------------------------------------------------------------
(* csv_writer_loop                                                         *)

\* Mutant of WriterCheck: the whole deque is written every time.
WriterCheckAll ==
  /\ writer = "check"
  /\ \/ stopEvent /\ writer' = "off" /\ UNCHANGED <<written, copy>>
     \/ ~stopEvent /\ writer' = "write" /\ copy' = samples /\ written' = Len(samples)
  /\ UNCHANGED <<fw, emitted, link, main, again, count, stopEvent, read, csv,
                 csvOpen, failed>>

\* written is a position in the deque, which moves once the deque is full.
WriterCheck ==
  /\ writer = "check"
  /\ \/ stopEvent /\ writer' = "off" /\ UNCHANGED <<written, copy>>
     \/ /\ ~stopEvent
        /\ writer' = "write"
        /\ copy' = SubSeq(samples, written + 1, Len(samples))
        /\ written' = Len(samples)
  /\ UNCHANGED <<fw, emitted, link, main, again, count, stopEvent, read, csv,
                 csvOpen, failed>>

\* One row. Writing to the closed file ends the thread.
WriterRow ==
  /\ writer = "write" /\ copy # <<>>
  /\ \/ /\ csvOpen
        /\ csv' = Append(csv, Head(copy)) /\ copy' = Tail(copy)
        /\ UNCHANGED writer
     \/ /\ ~csvOpen
        /\ writer' = "off"
        /\ UNCHANGED <<csv, copy>>
  /\ UNCHANGED <<fw, emitted, link, main, again, count, stopEvent, read, written,
                 csvOpen, failed>>

WriterSleep ==
  /\ writer = "write" /\ copy = <<>>
  /\ writer' = "check"
  /\ UNCHANGED <<fw, emitted, link, main, again, count, stopEvent, read, failed>>
  /\ UNCHANGED <<written, copy, csv, csvOpen>>
-----------------------------------------------------------------------------
SetUp   == \/ Ping \/ Get \/ StopLeftover \/ Start \/ StreamOn \/ StartReader
           \/ OpenCsv
CleanUp == CleanupStop \/ CleanupStreamOff \/ CleanupMotorOff \/ CleanupClose
Reader  == ReaderCheck \/ ReaderRead
Writer  == WriterCheck \/ WriterRow \/ WriterSleep

Next == \/ Sample \/ Launch \/ Die \/ SetUp \/ EndPlot \/ CleanUp \/ Interrupt
        \/ Reader \/ Writer

Spec == Init /\ [][Next]_vars

\* The threads of a process are scheduled; a command ends, its timeout at the latest.
\* Nobody need close the window.
Fairness == WF_vars(SetUp) /\ WF_vars(CleanUp) /\ WF_vars(Reader) /\ WF_vars(Writer)

FairSpec == Spec /\ Fairness
-----------------------------------------------------------------------------
(* Safety                                                                  *)

Samples == 1..MaxSamples

TypeOK ==
  /\ running \in BOOLEAN /\ streaming \in BOOLEAN
  /\ emitted \in 0..MaxSamples /\ port \in Seq(Samples) /\ portOpen \in BOOLEAN
  /\ main \in Ended \cup {"ping", "get", "stop", "start", "stream", "reader", "csv",
                        "plot", "cleanup", "streamoff", "motoroff", "close"}
  /\ again \in BOOLEAN /\ stopEvent \in BOOLEAN /\ failed \in BOOLEAN
  /\ version \in {"wayland", "script"}
  /\ sessions \in 0..MaxSessions /\ interrupts \in 0..MaxInterrupts
  /\ reader \in {"off", "check", "reading"} /\ writer \in {"off", "check", "write"}
  /\ samples \in Seq(Samples) /\ Len(samples) <= MaxLen /\ written \in 0..MaxLen
  /\ copy \in Seq(Samples) /\ csv \in Seq(Samples) /\ received \in Seq(Samples)
  /\ csvOpen => portOpen

\* "If a sim is already running from a previous crashed run, stop it first so 'start'
\* doesn't fail": whatever an earlier process left behind, start finds nothing running.
StartFindsNothing == version = "wayland" /\ main = "start" => ~running

\* The CSV file has no sample twice, none out of order and none it did not read, though
\* the deque moves under the position the writer keeps in it.
CsvInOrder ==
  LET rows == csv \o copy
  IN  /\ \A i, j \in DOMAIN rows : i < j => rows[i] < rows[j]
      /\ \A i \in DOMAIN rows : \E j \in DOMAIN received : received[j] = rows[i]

\* A process that ends through cleanup leaves nothing running or streaming, unless one
\* of the two commands failed on the open port: interrupted and repeated cleanups
\* included.
CleanExit == main = "exited" /\ ~failed => ~running /\ ~streaming
-----------------------------------------------------------------------------
(* Liveness                                                                *)

\* Once it has begun, cleanup ends the process, with Ctrl+C pressed again or not.
CleanupEnds == main = "cleanup" ~> main \in Ended
-----------------------------------------------------------------------------
(* What the documentation says and the code does not do                    *)

\* --csv is to "log all samples to this CSV": a sample received while the window is open
\* gets into the file, or the window is closed first. Once the deque is full the writer
\* finds nothing behind its position any more.
Holds(s, n) == \E i \in DOMAIN s : s[i] = n
LogsAll ==
  \A n \in Samples :
    (main = "plot" /\ csvOpen /\ Holds(received, n)) ~> (Holds(csv, n) \/ main # "plot")

\* The script version checks the testbench, "ERROR: testbench did not respond", and goes
\* on to "Starting motor simulation": an ERROR ends a process only where a simulation
\* runs that its own start would collide with. Its check is tb motorsim get, which a
\* testbench that stands still, ready to be started, answers with an ERROR.
StoppedIsStarted == main = "refused" => running
=============================================================================
