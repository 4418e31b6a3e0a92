-------------------------- MODULE ShellLinkProofs ---------------------------
(***************************************************************************)
(* Theorems about ShellLink, for any number of threads, calls and retries. *)
(***************************************************************************)
EXTENDS ShellLink, TLAPS

-----------------------------------------------------------------------------
(* The threads of the host                                                 *)

Labels == {"idle", "send", "drain", "newline", "flush", "collect", "sampling",
           "sampled", "resetting", "reset"}
Calls  == [id : 0..MaxCalls, kind : Commands \cup {"none"}, from : Labels]

\* A thread holds the lock exactly while it is in a call, and the call it is in is the
\* last one that was begun.
Host ==
  /\ lock \in Callers \cup {NoCaller}
  /\ pc \in [Callers -> Labels] /\ call \in [Callers -> Calls]
  /\ nextId \in 1..MaxCalls + 1
  /\ \A c \in Callers : InCall(c) <=> lock = c
  /\ \A c \in Callers : InCall(c) => /\ call[c].id = nextId - 1 /\ nextId > 1
                                     /\ call[c].kind \in Commands

\* A call is written once an attempt; a call not yet begun has not been written.
Attempts ==
  /\ attempt \in [Callers -> 0..Retries] /\ sent \in [Ids -> 0..Retries + 1]
  /\ \A i \in Ids : i >= nextId => sent[i] = 0
  /\ \A c \in Callers : ~InCall(c) => attempt[c] = 0
  /\ \A c \in Callers : InCall(c) =>
       sent[call[c].id] = attempt[c] + (IF pc[c] = "drain" THEN 1 ELSE 0)

Flags == /\ running \in BOOLEAN /\ streaming \in BOOLEAN
         /\ alone \in BOOLEAN /\ clean \in BOOLEAN

\* The three variables of a thread when its call is over.
Ended(c) ==
  /\ pc' = [pc EXCEPT ![c] = "idle"] \/ pc' = [pc EXCEPT ![c] = "sampling"]
  /\ lock' = NoCaller /\ attempt' = [attempt EXCEPT ![c] = 0]
  /\ call' = [call EXCEPT ![c] = NoCall]
  /\ UNCHANGED <<nextId, sent>>

LEMMA FinishEnds ==
  ASSUME NEW c, NEW outcome, NEW text, Finish(c, outcome, text)
  PROVE  Ended(c)
BY DEF Finish, Ended

LEMMA HostInit == LinkAssumption /\ Init => Host /\ Attempts /\ Flags
<1> SUFFICES ASSUME LinkAssumption, Init PROVE Host /\ Attempts /\ Flags
  OBVIOUS
<1>1. NoCall \in Calls
  BY DEF LinkAssumption, NoCall, Calls, Labels
<1>2. \A c \in Callers : pc[c] = "idle" /\ ~InCall(c) /\ lock # c
  BY DEF LinkAssumption, Init, InCall
<1>3. Host
  BY <1>1, <1>2 DEF LinkAssumption, Init, Host, Labels
<1>4. Attempts
  BY <1>2 DEF LinkAssumption, Init, Attempts
<1>5. Flags
  BY DEF Init, Flags
<1> QED BY <1>3, <1>4, <1>5

LEMMA FlagsStep == Flags /\ [Next]_vars => Flags'
<1> SUFFICES ASSUME Flags, [Next]_vars PROVE Flags'
  OBVIOUS
<1>1. CASE FwNewline \/ FwTake \/ FwPrompt \/ FwLine \/ UNCHANGED vars
  BY <1>1 DEF FwNewline, FwTake, FwPrompt, FwLine, vars, firm, past, Flags
<1>2. CASE FwExecute
  BY <1>2 DEF FwExecute, past, Flags
<1>3. ASSUME NEW c \in Callers, Progress(c) \/ Drain(c) \/ Outsider(c)
      PROVE  UNCHANGED <<running, streaming>> /\ alone' \in BOOLEAN /\ clean' \in BOOLEAN
  <2>1. CASE Send(c)
    BY <2>1 DEF Send, firm
  <2>2. CASE Return(c) \/ Timeout(c)
    BY <2>2 DEF Return, Timeout, Finish, firm, past, Flags
  <2>3. CASE RetryNewline(c) \/ RetryFlush(c) \/ Drain(c)
    BY <2>3 DEF RetryNewline, RetryFlush, Drain, firm, past, Flags
  <2>4. CASE Outsider(c)
    BY <2>4 DEF Outsider, CollectFlush, Sample, SampleEnd, ResetWrite, ResetFlush, Outside,
                firm
  <2> QED BY <1>3, <2>1, <2>2, <2>3, <2>4 DEF Progress
<1>4. ASSUME NEW c \in Callers, NEW kind, Call(c, kind) PROVE UNCHANGED <<firm, past>>
  BY <1>4 DEF Call
<1> QED BY <1>1, <1>2, <1>3, <1>4 DEF Next, firm, past, Flags
-----------------------------------------------------------------------------
\* Steps of one thread, by what they do to its part of the state.

LEMMA CallHost ==
  ASSUME LinkAssumption, Host, Attempts, NEW c \in Callers, NEW kind \in Commands,
         Call(c, kind)
  PROVE  Host' /\ Attempts'
<1>1. /\ lock = NoCaller /\ lock' = c /\ nextId \in Ids /\ nextId' = nextId + 1
      /\ call' = [call EXCEPT ![c] = [id |-> nextId, kind |-> kind, from |-> pc[c]]]
      /\ pc' = [pc EXCEPT ![c] = "send"] /\ UNCHANGED <<attempt, sent>>
  BY DEF Call
<1>2. \A d \in Callers : ~InCall(d)
  BY <1>1 DEF Host, LinkAssumption
<1>3. \A d \in Callers : d # c => pc'[d] = pc[d] /\ call'[d] = call[d]
  BY <1>1 DEF Host
<1>4. pc'[c] = "send" /\ call'[c] = [id |-> nextId, kind |-> kind, from |-> pc[c]]
  BY <1>1 DEF Host
<1>5. \A d \in Callers : InCall(d)' <=> d = c
  BY <1>2, <1>3, <1>4 DEF InCall
<1>6. nextId \in Nat /\ MaxCalls \in Nat /\ nextId <= MaxCalls
  BY <1>1 DEF Ids, LinkAssumption
<1>7. [id |-> nextId, kind |-> kind, from |-> pc[c]] \in Calls
  BY <1>6 DEF Calls, Host
<1>8. Host'
  BY <1>1, <1>4, <1>5, <1>6, <1>7 DEF Host, Labels
<1>9. Attempts'
  BY <1>1, <1>2, <1>4, <1>5, <1>6 DEF Attempts, Ids
<1> QED BY <1>8, <1>9

LEMMA SendHost ==
  ASSUME LinkAssumption, Host, Attempts, NEW c \in Callers, Send(c)
  PROVE  Host' /\ Attempts'
<1>1. /\ pc[c] = "send" /\ pc' = [pc EXCEPT ![c] = "drain"]
      /\ sent' = [sent EXCEPT ![call[c].id] = @ + 1]
      /\ UNCHANGED <<lock, call, attempt, nextId>>
  BY DEF Send
<1>2. \A d \in Callers : InCall(d)' <=> InCall(d)
  BY <1>1 DEF InCall, Host
<1>3. /\ InCall(c) /\ call[c].id = nextId - 1 /\ call[c].id \in Ids
      /\ \A d \in Callers : InCall(d) => d = c
  BY <1>1 DEF InCall, Host, LinkAssumption, Ids
<1>4. Host'
  BY <1>1, <1>2 DEF Host, Labels
<1>5. sent[call[c].id] = attempt[c] /\ attempt[c] \in 0..Retries /\ Retries \in Nat
  BY <1>1, <1>3 DEF Attempts, LinkAssumption
<1>6. Attempts'
  BY <1>1, <1>2, <1>3, <1>5 DEF Attempts, Ids, Host
<1> QED BY <1>4, <1>6

LEMMA EndedHost ==
  ASSUME LinkAssumption, Host, Attempts, NEW c \in Callers, InCall(c), Ended(c)
  PROVE  Host' /\ Attempts'
<1>1. \A d \in Callers : InCall(d) => d = c
  BY DEF Host
<1>2. \A d \in Callers : ~InCall(d)'
  BY <1>1 DEF InCall, Ended, Host
<1>3. NoCall \in Calls
  BY DEF LinkAssumption, NoCall, Calls, Labels
<1>4. Host'
  BY <1>2, <1>3 DEF Host, Ended, Labels, LinkAssumption
<1>5. Attempts'
  BY <1>1, <1>2 DEF Attempts, Ended, LinkAssumption
<1> QED BY <1>4, <1>5

\* A step inside a call other than the writing of the command.
LEMMA RetryHost ==
  ASSUME LinkAssumption, Host, Attempts, NEW c \in Callers, InCall(c),
         NEW to \in {"newline", "flush", "send"}, pc' = [pc EXCEPT ![c] = to],
         UNCHANGED <<lock, call, nextId, sent>>,
         \/ pc[c] # "drain" /\ attempt' = attempt
         \/ /\ pc[c] = "drain" /\ attempt[c] < Retries
            /\ attempt' = [attempt EXCEPT ![c] = @ + 1]
  PROVE  Host' /\ Attempts'
<1>1. \A d \in Callers : InCall(d)' <=> InCall(d)
  BY DEF InCall, Host
<1>2. \A d \in Callers : InCall(d) => d = c
  BY DEF Host
<1>3. Host'
  BY <1>1 DEF Host, Labels
<1>4. attempt[c] \in 0..Retries /\ Retries \in Nat
  BY DEF Attempts, LinkAssumption
<1>5. Attempts'
  BY <1>1, <1>2, <1>4 DEF Attempts, Host
<1> QED BY <1>3, <1>5

\* A step outside a call.
LEMMA OutsideHost ==
  ASSUME Host, Attempts, NEW c \in Callers, ~InCall(c),
         NEW to \in Labels \ {"send", "drain", "newline", "flush"},
         pc' = [pc EXCEPT ![c] = to],
         UNCHANGED <<lock, call, attempt, nextId, sent>>
  PROVE  Host' /\ Attempts'
<1>1. \A d \in Callers : /\ InCall(d)' <=> InCall(d)
                         /\ InCall(d) => pc'[d] = pc[d]
  BY DEF InCall, Host
<1>2. Host'
  BY <1>1 DEF Host
<1>3. Attempts'
  BY <1>1 DEF Attempts
<1> QED BY <1>2, <1>3

LEMMA HostStep == LinkAssumption /\ Host /\ Attempts /\ [Next]_vars => Host' /\ Attempts'
<1> SUFFICES ASSUME LinkAssumption, Host, Attempts, [Next]_vars PROVE Host' /\ Attempts'
  OBVIOUS
<1>1. CASE UNCHANGED <<lock, pc, call, attempt, nextId, sent>>
  BY <1>1 DEF Host, Attempts, InCall
<1>2. CASE FwNewline \/ FwTake \/ FwExecute \/ FwPrompt \/ FwLine \/ UNCHANGED vars
  BY <1>1, <1>2 DEF FwNewline, FwTake, FwExecute, FwPrompt, FwLine, vars, host
<1>3. ASSUME NEW c \in Callers, Progress(c) PROVE Host' /\ Attempts'
  <2>1. CASE Send(c)
    BY <2>1, SendHost
  <2>2. CASE Return(c)
    BY <2>2, FinishEnds, EndedHost DEF Return, InCall
  <2>3. CASE Timeout(c)
    <3>1. pc[c] = "drain" /\ InCall(c)
      BY <2>3 DEF Timeout, InCall
    <3>2. CASE Finish(c, "timeout", <<>>)
      BY <3>1, <3>2, FinishEnds, EndedHost
    <3>3. CASE /\ attempt[c] < Retries /\ attempt' = [attempt EXCEPT ![c] = @ + 1]
               /\ pc' = [pc EXCEPT ![c] = "newline"]
               /\ UNCHANGED <<lock, call, nextId, sent>>
      BY <3>1, <3>3, RetryHost
    <3> QED BY <2>3, <3>2, <3>3 DEF Timeout
  <2>4. CASE RetryNewline(c)
    BY <2>4, RetryHost DEF RetryNewline, InCall
  <2>5. CASE RetryFlush(c)
    BY <2>5, RetryHost DEF RetryFlush, InCall
  <2> QED BY <1>3, <2>1, <2>2, <2>3, <2>4, <2>5 DEF Progress
<1>4. ASSUME NEW c \in Callers, Drain(c) PROVE Host' /\ Attempts'
  BY <1>1, <1>4 DEF Drain
<1>5. ASSUME NEW c \in Callers, Outsider(c) PROVE Host' /\ Attempts'
  <2>1. ASSUME NEW from \in Labels \ {"send", "drain", "newline", "flush"},
               NEW to \in Labels \ {"send", "drain", "newline", "flush"},
               Outside(c, from, to)
        PROVE  Host' /\ Attempts'
    BY <2>1, OutsideHost DEF Outside, InCall
  <2> QED BY <1>5, <2>1 DEF Outsider, CollectFlush, Sample, SampleEnd, ResetWrite, ResetFlush,
                            Labels
<1>6. ASSUME NEW c \in Callers, NEW kind \in Keywords \cap Commands, Call(c, kind)
      PROVE  Host' /\ Attempts'
  BY <1>6, CallHost
<1> QED BY <1>2, <1>3, <1>4, <1>5, <1>6 DEF Next
-----------------------------------------------------------------------------
(* The commands on their way                                               *)

Kinds    == Commands \cup {"none", "reset"}
Messages == [type : {"newline"}] \cup [type : {"cmd"}, id : 0..MaxCalls, kind : Kinds]

\* The call a message is about, 0 if none is.
IdOf(m)  == IF m.type = "cmd" THEN m.id ELSE 0

\* How many attempts of call i the shell has taken from the line.
Taken(i) == executed[i] + (IF IdOf(fw) = i THEN 1 ELSE 0)

\* What is on its way is of a call that has begun, in the order of the calls.
Upward ==
  /\ up \in Seq(Messages)
  /\ IdOf(fw) \in 0..nextId - 1
  /\ \A k \in 1..Len(up) : IdOf(up[k]) \in 0..nextId - 1
  /\ \A k \in 1..Len(up) : IdOf(up[k]) # 0 => IdOf(fw) <= IdOf(up[k])
  /\ \A k, l \in 1..Len(up) : k < l /\ IdOf(up[l]) # 0 => IdOf(up[k]) <= IdOf(up[l])

\* Nothing on its way is older than a call that has been executed.
Executed ==
  /\ executed \in [Ids -> Nat]
  /\ \A j \in Ids : executed[j] > 0 =>
       /\ j < nextId
       /\ IdOf(fw) # 0 => j <= IdOf(fw)
       /\ \A k \in 1..Len(up) : IdOf(up[k]) # 0 => j <= IdOf(up[k])

\* nr numbers the attempts on the line: those of a call that were written and not taken,
\* each once and in their order.
Numbers(nr) ==
  /\ \A k \in 1..Len(up) : IdOf(up[k]) # 0 =>
       Taken(IdOf(up[k])) < nr[k] /\ nr[k] <= sent[IdOf(up[k])]
  /\ \A k, l \in 1..Len(up) :
       k < l /\ IdOf(up[k]) = IdOf(up[l]) /\ IdOf(up[k]) # 0 => nr[k] < nr[l]
  /\ \A i \in Ids, n \in Nat : Taken(i) < n /\ n <= sent[i] =>
       \E k \in 1..Len(up) : IdOf(up[k]) = i /\ nr[k] = n

Numbered ==
  /\ \A i \in Ids : Taken(i) <= sent[i]
  /\ \E nr \in [1..Len(up) -> Nat] : Numbers(nr)

Line == Upward /\ Executed /\ Numbered

LEMMA MessageIds ==
  /\ IdOf(Newline) = 0 /\ IdOf(Free) = 0 /\ IdOf(Prompt) = 0 /\ Newline \in Messages
  /\ \A id, kind : IdOf(Cmd(id, kind)) = id
  /\ \A id \in 0..MaxCalls, kind \in Kinds : Cmd(id, kind) \in Messages
BY DEF IdOf, Newline, Free, Prompt, Cmd, Messages

LEMMA LineInit == LinkAssumption /\ Init => Line
<1> SUFFICES ASSUME LinkAssumption, Init PROVE Line
  OBVIOUS
<1>1. /\ up \in Seq(Messages) /\ IdOf(fw) = 0 /\ nextId = 1
      /\ \A k \in 1..Len(up) : IdOf(up[k]) = 0
  <2>1. CASE up = <<>>
    BY <2>1, MessageIds DEF Init
  <2>2. CASE up = <<Newline>>
    <3>1. Len(up) = 1 /\ up[1] = Newline
      BY <2>2
    <3>2. up \in Seq(Messages)
      BY <2>2, MessageIds
    <3> QED BY <3>1, <3>2, MessageIds DEF Init
  <2> QED BY <2>1, <2>2 DEF Init
<1>2. \A i \in Ids : executed[i] = 0 /\ sent[i] = 0 /\ Taken(i) = 0
  BY <1>1 DEF Init, Taken, Ids, LinkAssumption
<1>3. Upward
  BY <1>1 DEF Upward
<1>4. Executed
  BY <1>2 DEF Init, Executed
<1>5. Numbered
  <2>1. PICK nr : nr = [k \in 1..Len(up) |-> 0]
    OBVIOUS
  <2>2. Numbers(nr)
    BY <1>1, <1>2 DEF Numbers
  <2> QED BY <1>2, <2>1, <2>2 DEF Numbered
<1> QED BY <1>3, <1>4, <1>5 DEF Line

\* A step that neither writes to the line nor reads it, nor executes a command.
LEMMA QuietLine ==
  ASSUME Line, UNCHANGED <<up, executed, sent>>, IdOf(fw') = IdOf(fw),
         nextId \in Nat, nextId' = nextId \/ nextId' = nextId + 1
  PROVE  Line'
<1>1. Upward'
  BY DEF Line, Upward
<1>2. Executed'
  BY DEF Line, Executed, Ids
<1>3. \A i : Taken(i)' = Taken(i)
  BY DEF Taken
<1>4. Numbered'
  BY <1>3 DEF Line, Numbered, Numbers
<1> QED BY <1>1, <1>2, <1>4 DEF Line

\* The shell, which is free, takes the first message from the line.
LEMMA TakeLine ==
  ASSUME LinkAssumption, Line, up # <<>>, up' = Tail(up), nextId \in 1..MaxCalls + 1,
         sent \in [Ids -> Nat],
         IdOf(fw) = 0, IdOf(fw') = IdOf(Head(up)), UNCHANGED <<executed, sent, nextId>>
  PROVE  Line'
<1>1. /\ up \in Seq(Messages) /\ up' \in Seq(Messages) /\ Head(up) = up[1]
      /\ Len(up) \in Nat /\ Len(up') = Len(up) - 1 /\ 1 \in 1..Len(up)
      /\ \A k \in 1..Len(up') : k + 1 \in 2..Len(up) /\ up'[k] = up[k + 1]
  BY DEF Line, Upward
<1>2. MaxCalls \in Nat /\ nextId \in Nat /\ nextId - 1 <= MaxCalls
  BY DEF LinkAssumption
<1>3. Upward'
  BY <1>1, <1>2 DEF Line, Upward
<1>4. Executed'
  BY <1>1, <1>2 DEF Line, Upward, Executed
<1>5. PICK nr \in [1..Len(up) -> Nat] : Numbers(nr)
  BY DEF Line, Numbered
<1>6. PICK mr : mr = [k \in 1..Len(up') |-> nr[k + 1]]
  OBVIOUS
<1>7. \A k \in 1..Len(up') : mr[k] = nr[k + 1] /\ mr[k] \in Nat
  BY <1>1, <1>6
<1>8. \A i \in Ids : /\ executed[i] \in Nat /\ sent[i] \in Nat /\ Taken(i) = executed[i]
                     /\ Taken(i)' = IF IdOf(up[1]) = i THEN executed[i] + 1 ELSE executed[i]
  BY <1>1, <1>2 DEF Taken, Ids, Line, Executed
<1>9. \A k \in 1..Len(up) : IdOf(up[k]) # 0 => IdOf(up[k]) \in Ids
  BY <1>2 DEF Line, Upward, Ids
\* The head is the next attempt of its call.
<1>10. ASSUME IdOf(up[1]) # 0
       PROVE  nr[1] = executed[IdOf(up[1])] + 1 /\ nr[1] <= sent[IdOf(up[1])]
  <2> DEFINE i == IdOf(up[1])
  <2>1. i \in Ids /\ Taken(i) < nr[1] /\ nr[1] <= sent[i] /\ nr[1] \in Nat
    BY <1>1, <1>5, <1>9, <1>10 DEF Numbers
  <2>2. executed[i] + 1 \in Nat /\ Taken(i) < executed[i] + 1 /\ executed[i] + 1 <= sent[i]
    BY <1>8, <2>1
  <2>3. PICK k \in 1..Len(up) : IdOf(up[k]) = i /\ nr[k] = executed[i] + 1
    BY <1>5, <2>1, <2>2 DEF Numbers
  <2>4. k # 1 => nr[1] < nr[k]
    BY <1>1, <1>5, <1>10, <2>3 DEF Numbers
  <2> QED BY <1>8, <2>1, <2>3, <2>4
<1>11. \A i \in Ids : Taken(i)' <= sent[i]'
  <2> SUFFICES ASSUME NEW i \in Ids PROVE Taken(i)' <= sent[i]
    OBVIOUS
  <2>1. CASE IdOf(up[1]) = i
    <3>1. i # 0
      BY <1>2 DEF Ids
    <3> QED BY <1>8, <1>10, <2>1, <3>1
  <2>2. CASE IdOf(up[1]) # i
    BY <1>8, <2>2 DEF Line, Numbered
  <2> QED BY <2>1, <2>2
<1>12. Numbers(mr)'
  <2>1. ASSUME NEW k \in 1..Len(up'), NEW i, IdOf(up'[k]) = i, i # 0
        PROVE  Taken(i)' < mr[k] /\ mr[k] <= sent'[i]
    <3>1. /\ k + 1 \in 1..Len(up) /\ 1 < k + 1 /\ IdOf(up[k + 1]) = i /\ i \in Ids
      BY <1>1, <1>9, <2>1
    <3>2. Taken(i) < nr[k + 1] /\ nr[k + 1] <= sent[i] /\ nr[k + 1] \in Nat
      BY <1>5, <2>1, <3>1 DEF Numbers
    <3>3. IdOf(up[1]) = i => nr[1] < nr[k + 1] /\ nr[1] = executed[i] + 1
      BY <1>1, <1>5, <1>10, <2>1, <3>1 DEF Numbers
    <3>4. mr[k] = nr[k + 1]
      BY <1>7
    <3> QED BY <1>8, <3>1, <3>2, <3>3, <3>4
  <2>2. ASSUME NEW k \in 1..Len(up'), NEW l \in 1..Len(up'), k < l,
               IdOf(up'[k]) = IdOf(up'[l]), IdOf(up'[k]) # 0
        PROVE  mr[k] < mr[l]
    BY <1>1, <1>5, <1>7, <2>2 DEF Numbers
  <2>3. ASSUME NEW i \in Ids, NEW n \in Nat, Taken(i)' < n, n <= sent'[i]
        PROVE  \E k \in 1..Len(up') : IdOf(up'[k]) = i /\ mr[k] = n
    <3>1. Taken(i) < n /\ n <= sent[i]
      BY <1>8, <2>3
    <3>2. PICK k \in 1..Len(up) : IdOf(up[k]) = i /\ nr[k] = n
      BY <1>5, <3>1 DEF Numbers
    <3>3. k # 1
      BY <1>8, <1>10, <2>3, <3>2 DEF Ids
    <3>4. k - 1 \in 1..Len(up') /\ (k - 1) + 1 = k
      BY <1>1, <3>3
    <3>5. IdOf(up'[k - 1]) = i /\ mr[k - 1] = n
      BY <1>1, <1>7, <3>2, <3>4
    <3> QED BY <3>4, <3>5
  <2> QED BY <2>1, <2>2, <2>3 DEF Numbers
<1>13. mr \in [1..Len(up') -> Nat]
  BY <1>6, <1>7
<1>14. Numbered'
  BY <1>11, <1>12, <1>13 DEF Numbered, Ids
<1> QED BY <1>3, <1>4, <1>14 DEF Line

\* A command that is executed is no longer taken but has been executed: the sum stays.
LEMMA ExecuteLine ==
  ASSUME LinkAssumption, Line, nextId \in 1..MaxCalls + 1, FwExecute
  PROVE  Line'
<1>1. /\ IdOf(fw) = fw.id /\ IdOf(fw') = 0 /\ UNCHANGED <<up, nextId, sent>>
      /\ executed' = [i \in Ids |-> executed[i] + (IF i = fw.id THEN 1 ELSE 0)]
  BY MessageIds DEF FwExecute, host, IdOf
<1>2. MaxCalls \in Nat /\ nextId \in Nat /\ IdOf(fw) \in 0..nextId - 1
  BY DEF LinkAssumption, Line, Upward
<1>3. Upward'
  <2>1. \A k \in 1..Len(up) : IdOf(up[k]) \in 0..nextId - 1
    BY DEF Line, Upward
  <2> QED BY <1>1, <1>2, <2>1 DEF Line, Upward
<1>4. \A i \in Ids : /\ executed[i] \in Nat
                     /\ executed'[i] = executed[i] + (IF i = IdOf(fw) THEN 1 ELSE 0)
  BY <1>1 DEF Line, Executed
<1>5. \A i \in Ids : Taken(i)' = Taken(i)
  BY <1>1, <1>2, <1>4 DEF Taken, Ids
<1>6. Executed'
  <2>1. executed' \in [Ids -> Nat]
    BY <1>1, <1>4
  <2>2. ASSUME NEW j \in Ids, executed'[j] > 0
        PROVE  j < nextId /\ \A k \in 1..Len(up) : IdOf(up[k]) # 0 => j <= IdOf(up[k])
    <3>1. CASE j = IdOf(fw)
      BY <1>2, <3>1 DEF Line, Upward
    <3>2. CASE j # IdOf(fw)
      BY <1>4, <2>2, <3>2 DEF Line, Executed
    <3> QED BY <3>1, <3>2
  <2> QED BY <1>1, <2>1, <2>2 DEF Executed
<1>7. \A k \in 1..Len(up) : IdOf(up[k]) # 0 => IdOf(up[k]) \in Ids
  BY <1>2 DEF Line, Upward, Ids
<1>8. Numbered'
  <2>1. PICK nr \in [1..Len(up) -> Nat] : Numbers(nr)
    BY DEF Line, Numbered
  <2>2. Numbers(nr)'
    BY <1>1, <1>5, <1>7, <2>1 DEF Numbers
  <2>3. \A i \in Ids : Taken(i)' <= sent'[i]
    BY <1>1, <1>5 DEF Line, Numbered
  <2> QED BY <1>1, <2>1, <2>2, <2>3 DEF Numbered
<1> QED BY <1>3, <1>6, <1>8 DEF Line

\* The host writes a message: of the last call, which is one more attempt of it, or of
\* none.
LEMMA PushLine ==
  ASSUME LinkAssumption, Line, nextId \in 1..MaxCalls + 1, sent \in [Ids -> Nat],
         NEW m \in Messages, up' = Append(up, m), UNCHANGED <<fw, executed, nextId>>,
         \/ IdOf(m) = 0 /\ sent' = sent
         \/ /\ IdOf(m) = nextId - 1 /\ IdOf(m) \in Ids
            /\ sent' = [sent EXCEPT ![IdOf(m)] = @ + 1]
  PROVE  Line'
<1> DEFINE last == Len(up) + 1
<1>1. /\ up' \in Seq(Messages) /\ Len(up') = last /\ Len(up) \in Nat /\ up'[last] = m
      /\ \A k \in 1..Len(up) : up'[k] = up[k]
      /\ \A k \in 1..Len(up') : k \in 1..Len(up) \/ k = last
  BY DEF Line, Upward
<1>2. MaxCalls \in Nat /\ nextId \in Nat /\ IdOf(m) \in 0..nextId - 1
  BY DEF LinkAssumption, Ids
<1>3. \A k \in 1..Len(up) : IdOf(up[k]) \in 0..nextId - 1
  BY DEF Line, Upward
<1> HIDE DEF last
<1>4. Upward'
  <2>1. IdOf(m) # 0 => IdOf(fw) <= IdOf(m)
    BY <1>2 DEF Line, Upward
  <2>2. \A k \in 1..Len(up) : IdOf(m) # 0 => IdOf(up[k]) <= IdOf(m)
    BY <1>2, <1>3
  <2>3. \A k \in 1..Len(up') : IdOf(up'[k]) \in 0..nextId - 1
    BY <1>1, <1>2, <1>3
  <2>4. \A k \in 1..Len(up') : IdOf(up'[k]) # 0 => IdOf(fw) <= IdOf(up'[k])
    BY <1>1, <2>1 DEF Line, Upward
  <2>5. \A k, l \in 1..Len(up') : k < l /\ IdOf(up'[l]) # 0 => IdOf(up'[k]) <= IdOf(up'[l])
    <3> SUFFICES ASSUME NEW k \in 1..Len(up'), NEW l \in 1..Len(up'), k < l,
                        IdOf(up'[l]) # 0
                 PROVE  IdOf(up'[k]) <= IdOf(up'[l])
      OBVIOUS
    <3>1. k \in 1..Len(up)
      BY <1>1 DEF last
    <3>2. CASE l \in 1..Len(up)
      BY <1>1, <3>1, <3>2 DEF Line, Upward
    <3>3. CASE l = last
      BY <1>1, <2>2, <3>1, <3>3
    <3> QED BY <1>1, <3>2, <3>3
  <2> QED BY <1>1, <2>3, <2>4, <2>5 DEF Line, Upward
<1>5. Executed'
  <2>1. \A j \in Ids : executed[j] > 0 =>
          /\ j < nextId
          /\ IdOf(fw) # 0 => j <= IdOf(fw)
          /\ \A k \in 1..Len(up) : IdOf(up[k]) # 0 => j <= IdOf(up[k])
    BY DEF Line, Executed
  <2>2. \A j \in Ids : j < nextId => (IdOf(m) # 0 => j <= IdOf(m))
    BY <1>2 DEF Ids
  <2>3. \A j \in Ids : executed[j] > 0 =>
          \A k \in 1..Len(up') : IdOf(up'[k]) # 0 => j <= IdOf(up'[k])
    BY <1>1, <2>1, <2>2
  <2> QED BY <2>1, <2>3 DEF Line, Executed
<1>6. \A i : Taken(i)' = Taken(i)
  BY DEF Taken
<1>7. \A i \in Ids : /\ sent[i] \in Nat /\ Taken(i) \in Nat /\ Taken(i) <= sent[i]
                     /\ sent'[i] = IF i = IdOf(m) THEN sent[i] + 1 ELSE sent[i]
  BY <1>2 DEF Line, Executed, Numbered, Taken, Ids
<1>8. PICK nr \in [1..Len(up) -> Nat] : Numbers(nr)
  BY DEF Line, Numbered
<1>9. PICK n : n = IF IdOf(m) = 0 THEN 0 ELSE sent[IdOf(m)] + 1
  OBVIOUS
<1>10. n \in Nat /\ (IdOf(m) # 0 => IdOf(m) \in Ids /\ n = sent'[IdOf(m)])
  BY <1>2, <1>7, <1>9
<1>11. PICK mr : mr = [k \in 1..Len(up') |-> IF k = last THEN n ELSE nr[k]]
  OBVIOUS
<1>12. /\ mr \in [1..Len(up') -> Nat] /\ last \in 1..Len(up') /\ mr[last] = n
       /\ \A k \in 1..Len(up) : mr[k] = nr[k] /\ k # last /\ k \in 1..Len(up')
  BY <1>1, <1>10, <1>11 DEF last
<1>13. \A k \in 1..Len(up) : IdOf(up[k]) # 0 => IdOf(up[k]) \in Ids
  BY <1>2, <1>3 DEF Ids
<1>14. Numbers(mr)'
  <2>1. ASSUME NEW k \in 1..Len(up'), NEW i, IdOf(up'[k]) = i, i # 0
        PROVE  Taken(i)' < mr[k] /\ mr[k] <= sent'[i]
    <3>1. CASE k = last
      BY <1>1, <1>6, <1>7, <1>9, <1>10, <1>12, <2>1, <3>1
    <3>2. CASE k \in 1..Len(up)
      <4>1. i \in Ids /\ Taken(i) < nr[k] /\ nr[k] <= sent[i] /\ nr[k] \in Nat
        BY <1>1, <1>8, <1>13, <2>1, <3>2 DEF Numbers
      <4>2. sent[i] \in Nat /\ sent'[i] \in Nat /\ sent[i] <= sent'[i]
        BY <1>7, <4>1
      <4>3. Taken(i)' = Taken(i) /\ mr[k] = nr[k]
        BY <1>6, <1>12, <3>2
      <4> QED BY <4>1, <4>2, <4>3
    <3> QED BY <1>1, <3>1, <3>2
  <2>2. ASSUME NEW k \in 1..Len(up'), NEW l \in 1..Len(up'), k < l,
               IdOf(up'[k]) = IdOf(up'[l]), IdOf(up'[k]) # 0
        PROVE  mr[k] < mr[l]
    <3>1. k \in 1..Len(up)
      BY <1>1, <2>2 DEF last
    <3>2. CASE l \in 1..Len(up)
      BY <1>1, <1>8, <1>12, <2>2, <3>1, <3>2 DEF Numbers
    <3>3. CASE l = last
      <4>1. IdOf(up[k]) = IdOf(m) /\ IdOf(m) # 0 /\ IdOf(m) \in Ids
        BY <1>1, <1>13, <2>2, <3>1, <3>3
      <4>2. nr[k] <= sent[IdOf(m)] /\ nr[k] \in Nat
        BY <1>8, <3>1, <4>1 DEF Numbers
      <4> QED BY <1>7, <1>9, <1>12, <3>1, <3>3, <4>1, <4>2
    <3> QED BY <1>1, <3>2, <3>3
  <2>3. ASSUME NEW i \in Ids, NEW a \in Nat, Taken(i)' < a, a <= sent'[i]
        PROVE  \E k \in 1..Len(up') : IdOf(up'[k]) = i /\ mr[k] = a
    <3>1. CASE a <= sent[i]
      <4>1. PICK k \in 1..Len(up) : IdOf(up[k]) = i /\ nr[k] = a
        BY <1>6, <1>8, <2>3, <3>1 DEF Numbers
      <4> QED BY <1>1, <1>12, <4>1
    <3>2. CASE a > sent[i]
      <4>1. i = IdOf(m) /\ a = sent[i] + 1 /\ i # 0
        <5>1. i # 0
          BY DEF Ids
        <5>2. sent[i] \in Nat /\ sent'[i] = IF i = IdOf(m) THEN sent[i] + 1 ELSE sent[i]
          BY <1>7
        <5> QED BY <2>3, <3>2, <5>1, <5>2
      <4> QED BY <1>1, <1>9, <1>12, <4>1
    <3> QED BY <1>7, <3>1, <3>2
  <2> QED BY <2>1, <2>2, <2>3 DEF Numbers
<1>15. \A i \in Ids : Taken(i)' <= sent'[i]
  BY <1>6, <1>7
<1>16. Numbered'
  BY <1>12, <1>14, <1>15 DEF Numbered
<1> QED BY <1>4, <1>5, <1>16 DEF Line

LEMMA LineStep ==
  LinkAssumption /\ Host /\ Attempts /\ Line /\ [Next]_vars => Line'
<1> SUFFICES ASSUME LinkAssumption, Host, Attempts, Line, [Next]_vars PROVE Line'
  OBVIOUS
<1>1. /\ nextId \in 1..MaxCalls + 1 /\ nextId \in Nat /\ sent \in [Ids -> Nat]
  BY DEF LinkAssumption, Host, Attempts
<1>2. CASE UNCHANGED <<up, fw, executed, sent, nextId>>
  BY <1>1, <1>2, QuietLine
<1>3. CASE FwLine \/ UNCHANGED vars
  BY <1>2, <1>3 DEF FwLine, vars, line, firm, host
<1>4. CASE FwPrompt
  BY <1>1, <1>4, QuietLine, MessageIds DEF FwPrompt, host
<1>5. CASE FwNewline \/ FwTake
  BY <1>1, <1>5, TakeLine, MessageIds DEF FwNewline, FwTake, firm, host
<1>6. CASE FwExecute
  BY <1>1, <1>6, ExecuteLine
<1>7. ASSUME NEW c \in Callers, Progress(c) PROVE Line'
  <2>1. CASE Send(c)
    <3>1. InCall(c) /\ call[c].id = nextId - 1 /\ nextId > 1 /\ call[c].kind \in Commands
      BY <2>1 DEF Send, InCall, Host
    <3>2. call[c].id \in Ids /\ call[c].id \in 0..MaxCalls
      BY <1>1, <3>1 DEF LinkAssumption, Ids
    <3> DEFINE m == Cmd(call[c].id, call[c].kind)
    <3>3. m \in Messages /\ IdOf(m) = call[c].id
      BY <3>1, <3>2, MessageIds DEF Kinds
    <3>4. /\ up' = Append(up, m) /\ UNCHANGED <<fw, executed, nextId>>
          /\ sent' = [sent EXCEPT ![call[c].id] = @ + 1]
      BY <2>1 DEF Send, firm
    <3> HIDE DEF m
    <3> QED BY <1>1, <3>1, <3>2, <3>3, <3>4, PushLine
  <2>2. CASE Return(c) \/ Timeout(c)
    BY <1>2, <2>2 DEF Return, Timeout, Finish, line, firm
  <2>3. CASE RetryNewline(c)
    BY <1>1, <2>3, PushLine, MessageIds DEF RetryNewline, firm
  <2>4. CASE RetryFlush(c)
    BY <1>2, <2>4 DEF RetryFlush, firm
  <2> QED BY <1>7, <2>1, <2>2, <2>3, <2>4 DEF Progress
<1>8. ASSUME NEW c \in Callers, Drain(c) PROVE Line'
  BY <1>2, <1>8 DEF Drain, firm
<1>9. ASSUME NEW c \in Callers, Outsider(c) PROVE Line'
  <2>1. CASE ResetWrite(c)
    <3>1. Cmd(0, "reset") \in Messages /\ IdOf(Cmd(0, "reset")) = 0
      BY MessageIds DEF LinkAssumption, Kinds
    <3>2. /\ up' = Append(up, Cmd(0, "reset"))
          /\ UNCHANGED <<fw, executed, nextId, sent>>
      BY <2>1 DEF ResetWrite, Outside, firm
    <3> QED BY <1>1, <3>1, <3>2, PushLine
  <2>2. CASE CollectFlush(c) \/ Sample(c) \/ SampleEnd(c) \/ ResetFlush(c)
    BY <1>2, <2>2 DEF CollectFlush, Sample, SampleEnd, ResetFlush, Outside, firm, line
  <2> QED BY <1>9, <2>1, <2>2 DEF Outsider
<1>10. ASSUME NEW c \in Callers, NEW kind, Call(c, kind) PROVE Line'
  BY <1>1, <1>10, QuietLine DEF Call, line, firm
<1> QED BY <1>3, <1>4, <1>5, <1>6, <1>7, <1>8, <1>9, <1>10 DEF Next
-----------------------------------------------------------------------------
(* Theorems                                                                *)

IInv == Host /\ Attempts /\ Flags /\ Line

\* The invariant is inductive.
THEOREM IInvCorrect == Spec => []IInv
<1>1. Init => IInv
  BY LinkAssumption, HostInit, LineInit DEF IInv
<1>2. IInv /\ [Next]_vars => IInv'
  BY LinkAssumption, HostStep, FlagsStep, LineStep DEF IInv
<1> QED BY <1>1, <1>2, PTL DEF Spec

\* Every variable has its type; one thread at most is in a call, and it holds the lock,
\* through timeouts and retries; no call is written or executed more often than it has
\* attempts.
THEOREM TypeCorrect == Spec => []TypeOK
<1>1. IInv => TypeOK
  <2> SUFFICES ASSUME IInv PROVE TypeOK
    OBVIOUS
  <2>1. executed \in [Ids -> 0..Retries + 1]
    <3>1. \A i \in Ids : executed[i] \in Nat /\ executed[i] <= Taken(i)
      BY DEF IInv, Line, Executed, Taken
    <3>2. \A i \in Ids : Taken(i) <= sent[i] /\ sent[i] \in 0..Retries + 1
      BY DEF IInv, Line, Numbered, Attempts
    <3>3. \A i \in Ids : executed[i] \in 0..Retries + 1
      BY <3>1, <3>2, LinkAssumption DEF LinkAssumption, Taken
    <3> QED BY <3>3 DEF IInv, Line, Executed
  <2> QED BY <2>1 DEF IInv, Host, Attempts, Flags, TypeOK, Labels
<1> QED BY <1>1, IInvCorrect, PTL

\* Once the firmware has executed a call, every attempt of every earlier call has been
\* executed: a retry never overtakes, nor is overtaken.
THEOREM OrderCorrect == Spec => []InCallOrder
<1>1. IInv => InCallOrder
  <2> SUFFICES ASSUME IInv, NEW i \in Ids, NEW j \in Ids, i < j, executed[j] > 0,
                      executed[i] # sent[i]
               PROVE  FALSE
    BY DEF InCallOrder
  <2>1. IdOf(fw) # i /\ \A k \in 1..Len(up) : IdOf(up[k]) # i
    BY LinkAssumption DEF IInv, Line, Executed, Ids, LinkAssumption
  <2>2. Taken(i) = executed[i] /\ executed[i] \in Nat /\ sent[i] \in Nat
    BY <2>1, LinkAssumption DEF Taken, IInv, Line, Executed, Attempts, LinkAssumption
  <2>3. executed[i] < sent[i]
    BY <2>2 DEF IInv, Line, Numbered
  <2>4. PICK nr : Numbers(nr)
    BY DEF IInv, Line, Numbered
  <2>5. \E k \in 1..Len(up) : IdOf(up[k]) = i
    BY <2>2, <2>3, <2>4 DEF Numbers
  <2> QED BY <2>1, <2>5
<1> QED BY <1>1, IInvCorrect, PTL
=============================================================================
