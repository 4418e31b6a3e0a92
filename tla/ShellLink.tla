----------------------------- MODULE ShellLink ------------------------------
(***************************************************************************)
(* The command link between ZephyrShellLib on the host (__init__.py,       *)
(* transport.py, motorsim_keywords.py, peripheral_keywords.py) and the     *)
(* shell of the testbench firmware.                                        *)
(*                                                                         *)
(* up and down are the two directions of the serial line. A message is one *)
(* record of what the line carries: a command or the bare newline going up;*)
(* an echo, a body, a prompt or noise coming down. down holds what the     *)
(* host has not read yet. The line loses nothing, but every step of the    *)
(* shell may take any time, the time on the line included, so a call may   *)
(* time out whenever no prompt has been read.                              *)
(*                                                                         *)
(* Threads of the host are Callers. A call holds the library's lock;       *)
(* collect_motorsim_samples and reset_testbench also use the port outside. *)
(***************************************************************************)
EXTENDS Integers, SequencesExt

\* The keywords that are one command each.
Commands == {"start", "stop", "get", "stream_on", "stream_off"}

CONSTANTS
  Callers,     \* threads that call keywords
  NoCaller,    \* the lock is free
  Leftover,    \* what an earlier session may have left the simulation doing
  Retries,     \* retries of a call that timed out
  Keywords,    \* the keywords they call, named after the command each issues
  MaxCalls     \* bound: calls of one behaviour

ASSUME LinkAssumption ==
  /\ NoCaller \notin Callers
  /\ Leftover \subseteq {"stopped", "running", "streaming"}
  /\ Retries \in Nat /\ MaxCalls \in Nat
  /\ Keywords \subseteq Commands \cup {"collect", "reset"}

VARIABLES
  up, down,    \* the serial line, to and from the firmware
  fw,          \* the command the shell is executing, or Free
  running, streaming,  \* what tb motorsim does with the commands
  lock,        \* ZephyrShellLib._lock
  pc,          \* what each thread is doing
  call,        \* the call of each thread: its id, its kind, the pc it came from
  attempt,     \* of that call, counted from 0
  buf,         \* what _drain has read in this attempt
  nextId,      \* the id of the next call
  result       \* what the last call returned or raised
\* History: what has happened, read by no action of the program.
VARIABLES
  sent,        \* how often each call was written to the line
  executed,    \* how often the firmware executed it
  alone,       \* nothing was under way when this attempt began, nobody interfered
  clean        \* and no lines were streamed when it began

line == <<up, down>>
firm == <<fw, running, streaming>>
host == <<lock, pc, call, attempt, buf, nextId, result>>
past == <<alone, clean>>
vars == <<line, firm, host, sent, executed, past>>
-----------------------------------------------------------------------------
Ids == 1..MaxCalls

Newline       == [type |-> "newline"]
Cmd(id, kind) == [type |-> "cmd", id |-> id, kind |-> kind]
Echo(kind)    == [type |-> "echo", kind |-> kind]
Body(id, err) == [type |-> "body", id |-> id, err |-> err]
Prompt        == [type |-> "prompt"]
Noise         == [type |-> "noise"]  \* MSIM lines, and text with such a line inside
Free          == [type |-> "free"]

NoCall   == [id |-> 0, kind |-> "none", from |-> "idle"]
NoResult == [id |-> 0, outcome |-> "none", text |-> <<>>, alone |-> FALSE,
             clean |-> FALSE]

\* s followed by t, where noise after noise makes no difference: neither holds it twice.
Join(s, t) == s \o (IF Noise \in Range(s) THEN RemoveFirst(t, Noise) ELSE t)

\* s without any m.
Without(s, m) ==
  LET kept   == {i \in DOMAIN s : s[i] # m}
      nth(n) == CHOOSE i \in kept : Cardinality({j \in kept : j <= i}) = n
  IN  [n \in 1..Cardinality(kept) |-> s[nth(n)]]

\* ShellTransport.__init__ wrote a newline; its prompt came within 1 s or did not.
\* Connecting does not reset the testbench.
Init ==
  /\ up \in {<<>>, <<Newline>>} /\ down = <<>>
  /\ fw = Free
  /\ \E left \in Leftover : /\ running = (left # "stopped")
                            /\ streaming = (left = "streaming")
  /\ lock = NoCaller /\ pc = [c \in Callers |-> "idle"]
  /\ call = [c \in Callers |-> NoCall] /\ attempt = [c \in Callers |-> 0]
  /\ buf = [c \in Callers |-> <<>>] /\ nextId = 1 /\ result = NoResult
  /\ sent = [i \in Ids |-> 0] /\ executed = [i \in Ids |-> 0]
  /\ alone = FALSE /\ clean = FALSE
-----------------------------------------------------------------------------
(* The firmware: one shell thread, and the work handler that streams       *)

\* While lines are streamed they are written between the bytes of anything else.
Emit(m) ==
  \/ down' = Join(down, <<m>>)
  \/ running' /\ streaming' /\ down' = Join(down, <<Noise>>)

\* The shell answers a bare newline with a prompt.
FwNewline ==
  /\ fw = Free /\ up # <<>> /\ Head(up) = Newline
  /\ up' = Tail(up)
  /\ UNCHANGED <<firm, host, sent, executed, past>>
  /\ Emit(Prompt)

\* It echoes a command,
FwTake ==
  /\ fw = Free /\ up # <<>> /\ Head(up) # Newline
  /\ up' = Tail(up)
  /\ fw' = Head(up)
  /\ UNCHANGED <<running, streaming, host, sent, executed, past>>
  /\ Emit(Echo(Head(up).kind))

\* Which commands of tb motorsim answer ERROR.
Fails(kind) == \/ kind = "start" /\ running
               \/ kind \in {"stop", "get"} /\ ~running

\* runs its handler, which prints the body,
FwExecute ==
  /\ fw.type = "cmd"
  /\ fw' = Prompt
  /\ running' = (fw.kind = "start" \/ (running /\ fw.kind # "stop"))
  /\ streaming' = (\/ fw.kind = "stream_on"
                   \/ streaming /\ (fw.kind \in {"get", "reset"} \/ Fails(fw.kind)))
  /\ executed' = [i \in Ids |-> executed[i] + (IF i = fw.id THEN 1 ELSE 0)]
  /\ UNCHANGED <<up, host, sent, past>>
  /\ Emit(Body(fw.id, Fails(fw.kind)))

\* and prompts.
FwPrompt ==
  /\ fw = Prompt
  /\ fw' = Free
  /\ UNCHANGED <<up, running, streaming, host, sent, executed, past>>
  /\ Emit(Prompt)

\* motorsim_work_handler writes a line to the same UART.
FwLine ==
  /\ running /\ streaming
  /\ down' = Join(down, <<Noise>>)
  /\ UNCHANGED <<up, firm, host, sent, executed, past>>
-----------------------------------------------------------------------------
(* A call: ZephyrShellLib._run, _run_with_retry and ShellTransport.run     *)

\* Mutant of Call: _run does not take the lock.
CallUnlocked(c, kind) ==
  /\ nextId \in Ids
  /\ \/ pc[c] = "idle"
     \/ pc[c] = "collect" /\ kind = "stream_on"
     \/ pc[c] = "sampled" /\ kind = "stream_off"
     \/ pc[c] = "reset" /\ kind = "get"
  /\ lock' = c
  /\ call' = [call EXCEPT ![c] = [id |-> nextId, kind |-> kind, from |-> pc[c]]]
  /\ nextId' = nextId + 1
  /\ pc' = [pc EXCEPT ![c] = "send"]
  /\ result' = NoResult
  /\ UNCHANGED <<line, firm, attempt, buf, sent, executed, past>>

\* A keyword of the tests, or the next one of collect_motorsim_samples or
\* reset_testbench, whose ping stands for any command that changes nothing.
Call(c, kind) ==
  /\ nextId \in Ids
  /\ \/ pc[c] = "idle"
     \/ pc[c] = "collect" /\ kind = "stream_on"
     \/ pc[c] = "sampled" /\ kind = "stream_off"
     \/ pc[c] = "reset" /\ kind = "get"
  /\ lock = NoCaller
  /\ lock' = c
  /\ call' = [call EXCEPT ![c] = [id |-> nextId, kind |-> kind, from |-> pc[c]]]
  /\ nextId' = nextId + 1
  /\ pc' = [pc EXCEPT ![c] = "send"]
  /\ result' = NoResult
  /\ UNCHANGED <<line, firm, attempt, buf, sent, executed, past>>

\* Mutant of Send: run does not flush the input before it writes.
SendUnflushed(c) ==
  /\ pc[c] = "send"
  /\ down' = down
  /\ alone' = (up = <<>> /\ fw = Free) /\ clean' = (alone' /\ ~streaming)
  /\ up' = Append(up, Cmd(call[c].id, call[c].kind))
  /\ sent' = [sent EXCEPT ![call[c].id] = @ + 1]
  /\ buf' = [buf EXCEPT ![c] = <<>>]
  /\ pc' = [pc EXCEPT ![c] = "drain"]
  /\ UNCHANGED <<firm, lock, call, attempt, nextId, result, executed>>

Send(c) ==
  /\ pc[c] = "send"
  /\ down' = <<>>
  /\ alone' = (up = <<>> /\ fw = Free) /\ clean' = (alone' /\ ~streaming)
  /\ up' = Append(up, Cmd(call[c].id, call[c].kind))
  /\ sent' = [sent EXCEPT ![call[c].id] = @ + 1]
  /\ buf' = [buf EXCEPT ![c] = <<>>]
  /\ pc' = [pc EXCEPT ![c] = "drain"]
  /\ UNCHANGED <<firm, lock, call, attempt, nextId, result, executed>>

\* A chunk of _drain, which reads until the prompt is anywhere in its buffer.
Drain(c) ==
  /\ pc[c] = "drain" /\ Prompt \notin Range(buf[c])
  /\ down # <<>>
  /\ buf' = [buf EXCEPT ![c] = Join(@, down)]
  /\ down' = <<>>
  /\ UNCHANGED <<up, firm, lock, pc, call, attempt, nextId, result>>
  /\ UNCHANGED <<sent, executed, past>>

\* _extract strips the echo at the very start, and every prompt.
Extract(raw, kind) ==
  LET text == IF raw # <<>> /\ Head(raw) = Echo(kind) THEN Tail(raw) ELSE raw
  IN  Without(text, Prompt)

IsError(text) == text # <<>> /\ Head(text).type = "body" /\ Head(text).err

\* The keyword returns, or raises what the call raised, and the lock is released.
Finish(c, outcome, text) ==
  /\ result' = [id |-> call[c].id, outcome |-> outcome, text |-> text,
                alone |-> alone, clean |-> clean /\ ~streaming]
  /\ pc' = [pc EXCEPT ![c] = IF outcome = "ok" /\ call[c].from = "collect" THEN "sampling"
                             ELSE "idle"]
  /\ lock' = NoCaller
  /\ call' = [call EXCEPT ![c] = NoCall]
  /\ attempt' = [attempt EXCEPT ![c] = 0] /\ buf' = [buf EXCEPT ![c] = <<>>]
  /\ alone' = FALSE /\ clean' = FALSE
  /\ UNCHANGED <<line, firm, nextId, sent, executed>>

Return(c) ==
  /\ pc[c] = "drain" /\ Prompt \in Range(buf[c])
  /\ LET text == Extract(buf[c], call[c].kind)
     IN  Finish(c, IF IsError(text) THEN "error" ELSE "ok", text)

\* Mutant of Timeout: every chunk that is read extends the deadline.
TimeoutAfterSilence(c) ==
  /\ pc[c] = "drain" /\ Prompt \notin Range(buf[c])
  /\ down = <<>> /\ ~(running /\ streaming)
  /\ \/ /\ attempt[c] < Retries
        /\ attempt' = [attempt EXCEPT ![c] = @ + 1]
        /\ pc' = [pc EXCEPT ![c] = "newline"]
        /\ buf' = [buf EXCEPT ![c] = <<>>]
        /\ UNCHANGED <<line, firm, lock, call, nextId, result, sent, executed, past>>
     \/ /\ attempt[c] = Retries
        /\ Finish(c, "timeout", <<>>)

\* Mutant of Timeout: the lock is not held across the retry.
TimeoutUnlocks(c) ==
  /\ pc[c] = "drain" /\ Prompt \notin Range(buf[c])
  /\ \/ /\ attempt[c] < Retries
        /\ attempt' = [attempt EXCEPT ![c] = @ + 1]
        /\ pc' = [pc EXCEPT ![c] = "newline"]
        /\ buf' = [buf EXCEPT ![c] = <<>>]
        /\ lock' = NoCaller
        /\ UNCHANGED <<line, firm, call, nextId, result, sent, executed, past>>
     \/ /\ attempt[c] = Retries
        /\ Finish(c, "timeout", <<>>)

\* The deadline of _drain passes: TimeoutError, handled by _run_with_retry.
Timeout(c) ==
  /\ pc[c] = "drain" /\ Prompt \notin Range(buf[c])
  /\ \/ /\ attempt[c] < Retries
        /\ attempt' = [attempt EXCEPT ![c] = @ + 1]
        /\ pc' = [pc EXCEPT ![c] = "newline"]
        /\ buf' = [buf EXCEPT ![c] = <<>>]
        /\ UNCHANGED <<line, firm, lock, call, nextId, result, sent, executed, past>>
     \/ /\ attempt[c] = Retries
        /\ Finish(c, "timeout", <<>>)

\* Before the retry: a newline, 0.3 s, and a flush.
RetryNewline(c) ==
  /\ pc[c] = "newline"
  /\ up' = Append(up, Newline)
  /\ pc' = [pc EXCEPT ![c] = "flush"]
  /\ UNCHANGED <<down, firm, lock, call, attempt, buf, nextId, result>>
  /\ UNCHANGED <<sent, executed, past>>

RetryFlush(c) ==
  /\ pc[c] = "flush"
  /\ down' = <<>>
  /\ pc' = [pc EXCEPT ![c] = "send"]
  /\ UNCHANGED <<up, firm, lock, call, attempt, buf, nextId, result>>
  /\ UNCHANGED <<sent, executed, past>>
-----------------------------------------------------------------------------
(* Keywords that use the port outside the lock                             *)

Outside(c, from, to) ==
  /\ pc[c] = from
  /\ pc' = [pc EXCEPT ![c] = to]
  /\ alone' = FALSE /\ clean' = FALSE
  /\ UNCHANGED <<firm, lock, call, attempt, buf, nextId, result, sent, executed>>

\* collect_motorsim_samples flushes, switches streaming on, reads for a while and
\* switches streaming off.
CollectFlush(c) ==
  /\ "collect" \in Keywords
  /\ Outside(c, "idle", "collect")
  /\ nextId \in Ids
  /\ down' = <<>>
  /\ UNCHANGED up

Sample(c) ==
  /\ Outside(c, "sampling", "sampling")
  /\ down # <<>>
  /\ down' = <<>>
  /\ UNCHANGED up

SampleEnd(c) == Outside(c, "sampling", "sampled") /\ UNCHANGED line

\* reset_testbench writes a command the shell does not know, sleeps and flushes.
ResetWrite(c) ==
  /\ "reset" \in Keywords
  /\ Outside(c, "idle", "resetting")
  /\ nextId \in Ids
  /\ up' = Append(up, Cmd(0, "reset"))
  /\ UNCHANGED down

ResetFlush(c) ==
  /\ Outside(c, "resetting", "reset")
  /\ down' = <<>>
  /\ UNCHANGED up
-----------------------------------------------------------------------------
\* What the host does of its own accord and when the clock says so.
Progress(c) == Send(c) \/ Return(c) \/ Timeout(c) \/ RetryNewline(c) \/ RetryFlush(c)
Outsider(c) == \/ CollectFlush(c) \/ Sample(c) \/ SampleEnd(c)
               \/ ResetWrite(c) \/ ResetFlush(c)

Next ==
  \/ FwNewline \/ FwTake \/ FwExecute \/ FwPrompt \/ FwLine
  \/ \E c \in Callers :
       \/ Progress(c) \/ Drain(c) \/ Outsider(c)
       \/ \E kind \in Keywords \cap Commands : Call(c, kind)

Spec == Init /\ [][Next]_vars

\* A thread inside a call goes on, and its deadline passes at last. Nothing is asked of
\* the shell, nor of what the line delivers.
FairSpec == Spec /\ \A c \in Callers : WF_vars(Progress(c))
-----------------------------------------------------------------------------
(* Safety                                                                  *)

InCall(c) == pc[c] \in {"send", "drain", "newline", "flush"}

TypeOK ==
  /\ lock \in Callers \cup {NoCaller}
  /\ \A c \in Callers : InCall(c) => lock = c
  /\ pc \in [Callers -> {"idle", "send", "drain", "newline", "flush", "collect",
                         "sampling", "sampled", "resetting", "reset"}]
  /\ attempt \in [Callers -> 0..Retries] /\ nextId \in 1..MaxCalls + 1
  /\ running \in BOOLEAN /\ streaming \in BOOLEAN
  /\ alone \in BOOLEAN /\ clean \in BOOLEAN
  /\ sent \in [Ids -> 0..Retries + 1] /\ executed \in [Ids -> 0..Retries + 1]

\* An attempt that began with nothing under way, and that nobody disturbed, gets the
\* answer to its own command and nothing else, and raises exactly when that answer is
\* an error: whatever timeouts there were before, the link has recovered from them.
CleanAnswer ==
  result.clean /\ result.outcome # "timeout" =>
    \E err \in BOOLEAN : /\ result.text = <<Body(result.id, err)>>
                         /\ result.outcome = IF err THEN "error" ELSE "ok"

\* A call that returns or raises has been executed, as often as it was written, if its
\* last attempt began with nothing under way and nobody disturbed it: streamed lines can
\* garble the answer but not make up a prompt. So collect_motorsim_samples leaves the
\* stream on only when its last call timed out, or ended at somebody else's prompt.
AnsweredIsExecuted ==
  result.alone /\ result.outcome # "timeout" => executed[result.id] = sent[result.id]

\* Commands take effect in the order of the calls: no attempt of a call, late or
\* repeated, is executed after the firmware has begun to execute those of a later call.
InCallOrder ==
  \A i, j \in Ids : i < j /\ executed[j] > 0 => executed[i] = sent[i]
-----------------------------------------------------------------------------
(* Liveness                                                                *)

\* Every call returns or raises, and releases the lock, even if the shell is dead, and
\* even if stream lines keep arriving and no prompt does.
CallEnds == \A c \in Callers : InCall(c) ~> ~InCall(c)
-----------------------------------------------------------------------------
(* What the documentation says and the code does not do                    *)

\* ShellTransport.run says "Send a command string and return the output": what a call
\* returns contains the answer to its own command. A prompt that was still due when the
\* call was written ends its _drain too early.
AnswerIsOwn ==
  result.outcome = "ok" =>
    \E m \in Range(result.text) : m.type = "body" /\ m.id = result.id

\* The README of the host says "ERROR: responses are automatically converted into a
\* RuntimeError": no call returns normally with its own ERROR in the text. _run_with_retry
\* looks for ERROR: at the start of the text only, where a stream line can be.
ErrorsAreRaised ==
  result.outcome = "ok" =>
    \A m \in Range(result.text) : m.type = "body" /\ m.id = result.id => ~m.err
=============================================================================
