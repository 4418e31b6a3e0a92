---------------------------- MODULE AnswerProofs ----------------------------
(***************************************************************************)
(* What the calls of ShellLink return, for any number of threads, calls    *)
(* and retries, any mix of keywords and any delay of the shell and of the  *)
(* line: a call whose last attempt began on a quiet line has been executed *)
(* when it returns and, unless lines are streamed, returns its own answer  *)
(* and nothing else.                                                       *)
(***************************************************************************)
EXTENDS ShellLinkProofs, SequenceTheorems, FiniteSetTheorems, WellFoundedInduction

-----------------------------------------------------------------------------
(* Operators                                                               *)

\* A set of numbers that is not empty has a least element.
LEMMA LeastNumber ==
  ASSUME NEW N \in SUBSET Nat, N # {}
  PROVE  \E n \in N : \A m \in N : n <= m
<1>1. PICK n \in N : \A m \in N : ~(<<m, n>> \in OpToRel(<, Nat))
  BY NatLessThanWellFounded, WFMin
<1>2. \A m \in N : ~(m < n)
  BY <1>1 DEF OpToRel
<1> QED BY <1>2

\* Joining adds nothing but what is joined, and without noise it is concatenation.
LEMMA JoinMembers ==
  ASSUME NEW T, NEW s \in Seq(T), NEW t \in Seq(T)
  PROVE  /\ Join(s, t) \in Seq(T)
         /\ Range(Join(s, t)) \subseteq Range(s) \cup Range(t)
         /\ Noise \notin Range(s) => Join(s, t) = s \o t
<1>1. ASSUME NEW i \in 1..Len(t)
      PROVE  /\ RemoveAt(t, i) \in Seq(T)
             /\ Range(RemoveAt(t, i)) \subseteq Range(t)
  <2> DEFINE a == SubSeq(t, 1, i - 1)
             b == SubSeq(t, i + 1, Len(t))
  <2>1. Len(t) \in Nat /\ i \in Int /\ \A k \in 1..Len(t) : t[k] \in T
    BY LenProperties, ElementOfSeq
  <2>2. /\ a \in Seq(T) /\ Len(a) = i - 1
        /\ \A k \in 1..Len(a) : a[k] = t[k]
    BY <2>1, SubSeqProperties
  <2>3. /\ b \in Seq(T) /\ Len(b) = Len(t) - i
        /\ \A k \in 1..Len(b) : b[k] = t[k + i]
    BY <2>1, SubSeqProperties
  <2> HIDE DEF a, b
  <2>4. Range(a) \subseteq Range(t)
    BY <2>1, <2>2, RangeEquality
  <2>5. Range(b) \subseteq Range(t)
    BY <2>1, <2>3, RangeEquality
  <2>6. a \o b \in Seq(T) /\ Range(a \o b) = Range(a) \cup Range(b)
    BY <2>2, <2>3, ConcatProperties, RangeConcatenation
  <2> QED BY <2>4, <2>5, <2>6 DEF RemoveAt, a, b
<1>2. RemoveFirst(t, Noise) = t \/ \E i \in 1..Len(t) : RemoveFirst(t, Noise) = RemoveAt(t, i)
  <2>1. CASE \E i \in 1..Len(t) : t[i] = Noise
    <3> DEFINE I == {i \in 1..Len(t) : t[i] = Noise}
    <3>1. I \in SUBSET Nat /\ I # {} /\ I \subseteq 1..Len(t)
      BY <2>1, LenProperties
    <3>2. SelectInSeq(t, LAMBDA v : v = Noise) = Min(I)
      BY <3>1 DEF SelectInSeq
    <3> HIDE DEF I
    <3>3. Min(I) \in I
      BY <3>1, LeastNumber DEF Min
    <3> QED BY <2>1, <3>1, <3>2, <3>3 DEF RemoveFirst
  <2>2. CASE ~\E i \in 1..Len(t) : t[i] = Noise
    BY <2>2 DEF RemoveFirst
  <2> QED BY <2>1, <2>2
<1> DEFINE r == RemoveFirst(t, Noise)
<1>3. r \in Seq(T) /\ Range(r) \subseteq Range(t)
  BY <1>1, <1>2
<1> HIDE DEF r
<1>4. /\ s \o r \in Seq(T) /\ Range(s \o r) = Range(s) \cup Range(r)
      /\ s \o t \in Seq(T) /\ Range(s \o t) = Range(s) \cup Range(t)
  BY <1>3, ConcatProperties, RangeConcatenation
<1> QED BY <1>3, <1>4 DEF Join, r

\* An answer and a prompt, the prompt taken off.
LEMMA WithoutPrompt ==
  ASSUME NEW b, b # Prompt
  PROVE  Without(<<b, Prompt>>, Prompt) = <<b>>
<1> DEFINE s    == <<b, Prompt>>
           kept == {i \in DOMAIN s : s[i] # Prompt}
           nth(n) == CHOOSE i \in kept : Cardinality({j \in kept : j <= i}) = n
<1>1. kept = {1}
  OBVIOUS
<1>2. s[1] = b
  OBVIOUS
<1> HIDE DEF s
<1>3. Cardinality({1}) = 1
  BY FS_Singleton
<1>4. nth(1) = 1
  <2>1. {j \in {1} : j <= 1} = {1}
    OBVIOUS
  <2>2. \A i \in {1} : Cardinality({j \in {1} : j <= i}) = 1
    BY <1>3, <2>1
  <2> QED BY <1>1, <2>2
<1>5. Without(s, Prompt) = [n \in 1..Cardinality(kept) |-> s[nth(n)]]
  BY DEF Without
<1> HIDE DEF kept, nth
<1>6. Without(s, Prompt) = [n \in 1..1 |-> s[nth(n)]]
  BY <1>1, <1>3, <1>5
<1>7. \A n \in 1..1 : n = 1
  OBVIOUS
<1>8. \A n \in 1..1 : s[nth(n)] = b
  BY <1>2, <1>4, <1>7
<1>9. Without(s, Prompt) = [n \in 1..1 |-> b]
  BY <1>6, <1>8
<1> QED BY <1>9 DEF s
-----------------------------------------------------------------------------
(* The inductive invariant                                                 *)

Requests == [type : {"cmd"}, id : 0..MaxCalls, kind : Kinds]
Texts    == {Prompt, Noise} \cup {Echo(kind) : kind \in Kinds}
            \cup {Body(id, err) : id \in 0..MaxCalls, err \in BOOLEAN}

Reads == /\ down \in Seq(Texts) /\ buf \in [Callers -> Seq(Texts)]
         /\ fw \in Requests \cup {Free, Prompt}

\* What has come down to c in this attempt, read or not.
Raw(c)      == buf[c] \o down
Prompted(c) == Prompt \in Range(Raw(c))

Request(c)     == Cmd(call[c].id, call[c].kind)
Answer(c, err) == Body(call[c].id, err)

\* How far the shell has come with the request of c, which was alone when it was
\* written; clean says that it came with nothing else.
Written(c) ==
  /\ up = <<Request(c)>> /\ fw = Free /\ ~Prompted(c)
  /\ clean => ~streaming /\ Raw(c) = <<>>

Executing(c) ==
  /\ up = <<>> /\ fw = Request(c) /\ ~Prompted(c)
  /\ clean => ~streaming /\ Raw(c) = <<Echo(call[c].kind)>>

Prompting(c) ==
  /\ up = <<>> /\ fw = Prompt /\ ~Prompted(c)
  /\ clean /\ ~streaming =>
       \E err \in BOOLEAN : Raw(c) = <<Echo(call[c].kind), Answer(c, err)>>

Done(c) ==
  /\ up = <<>> /\ fw = Free
  /\ clean /\ ~streaming =>
       \E err \in BOOLEAN : Raw(c) = <<Echo(call[c].kind), Answer(c, err), Prompt>>

Lone(c) == Written(c) \/ Executing(c) \/ Prompting(c) \/ Done(c)

Attempt == /\ clean => alone
           /\ \A c \in Callers : pc[c] = "drain" /\ alone => Lone(c)

\* While a call is under way there is no result; one that was returned to a call which
\* was alone stays true of executed and sent.
Results ==
  /\ \A c \in Callers : InCall(c) => result = NoResult
  /\ result.alone /\ result.outcome # "timeout" =>
       result.id \in Ids /\ executed[result.id] = sent[result.id]
  /\ CleanAnswer

AInv == IInv /\ Reads /\ Attempt /\ Results
-----------------------------------------------------------------------------
(* What comes down                                                         *)

\* What the shell writes ...
LEMMA TextsHold ==
  /\ Prompt \in Texts /\ Noise \in Texts
  /\ \A kind \in Kinds : Echo(kind) \in Texts
  /\ \A id \in 0..MaxCalls, err \in BOOLEAN : Body(id, err) \in Texts
BY DEF Texts

\* ... and that no two kinds of it are the same.
LEMMA TextsDiffer ==
  /\ Prompt # Noise /\ Free # Prompt
  /\ \A kind : Echo(kind) # Prompt /\ Echo(kind) # Noise
  /\ \A id, err : Body(id, err) # Prompt /\ Body(id, err) # Noise
  /\ \A id, kind : Cmd(id, kind) # Prompt /\ Cmd(id, kind) # Free /\ Cmd(id, kind) # Newline
<1>1. /\ Prompt.type = "prompt" /\ Noise.type = "noise" /\ Free.type = "free"
      /\ Newline.type = "newline"
  BY DEF Prompt, Noise, Free, Newline
<1>2. /\ \A kind : Echo(kind).type = "echo"
      /\ \A id, err : Body(id, err).type = "body"
      /\ \A id, kind : Cmd(id, kind).type = "cmd"
  BY DEF Echo, Body, Cmd
<1>3. Prompt # Noise /\ Free # Prompt
  BY <1>1
<1>4. \A kind : Echo(kind) # Prompt /\ Echo(kind) # Noise
  BY <1>1, <1>2
<1>5. \A id, err : Body(id, err) # Prompt /\ Body(id, err) # Noise
  BY <1>1, <1>2
<1>6. \A id, kind : Cmd(id, kind) # Prompt /\ Cmd(id, kind) # Free /\ Cmd(id, kind) # Newline
  BY <1>1, <1>2
<1> QED BY <1>3, <1>4, <1>5, <1>6

\* One more text comes down.
LEMMA OneMore ==
  ASSUME NEW b \in Seq(Texts), down \in Seq(Texts), NEW m \in Texts
  PROVE  /\ Join(down, <<m>>) \in Seq(Texts)
         /\ Range(b \o Join(down, <<m>>)) \subseteq Range(b \o down) \cup {m}
         /\ Noise \notin Range(b \o down) => b \o Join(down, <<m>>) = (b \o down) \o <<m>>
<1>1. <<m>> \in Seq(Texts) /\ Range(<<m>>) = {m}
  <2>1. <<m>> \in Seq(Texts) /\ Len(<<m>>) = 1 /\ <<m>>[1] = m
    OBVIOUS
  <2>2. DOMAIN <<m>> = {1}
    OBVIOUS
  <2> QED BY <2>1, <2>2 DEF Range
<1> DEFINE o == <<m>>
           j == Join(down, o)
<1> HIDE DEF o
<1>2. /\ j \in Seq(Texts) /\ Range(j) \subseteq Range(down) \cup Range(o)
      /\ Noise \notin Range(down) => j = down \o o
  BY <1>1, JoinMembers DEF o
<1> HIDE DEF j
<1>3. Range(b \o j) = Range(b) \cup Range(j) /\ Range(b \o down) = Range(b) \cup Range(down)
  BY <1>2, RangeConcatenation
<1>4. b \o (down \o o) = (b \o down) \o o
  BY <1>1, ConcatAssociative DEF o
<1> QED BY <1>1, <1>2, <1>3, <1>4 DEF j, o

\* While nothing is streamed the shell's texts come down as they are.
LEMMA Emitted ==
  ASSUME down \in Seq(Texts), NEW b \in Seq(Texts), NEW m \in Texts, Emit(m)
  PROVE  /\ down' \in Seq(Texts)
         /\ Range(b \o down') \subseteq Range(b \o down) \cup {m, Noise}
         /\ ~streaming' /\ Noise \notin Range(b \o down) => b \o down' = (b \o down) \o <<m>>
<1> DEFINE J(o) == Join(down, <<o>>)
<1>0. ASSUME NEW o \in Texts
      PROVE  /\ J(o) \in Seq(Texts)
             /\ Range(b \o J(o)) \subseteq Range(b \o down) \cup {o}
             /\ Noise \notin Range(b \o down) => b \o J(o) = (b \o down) \o <<o>>
  BY OneMore
<1>1. CASE down' = J(m)
  <2> HIDE DEF J
  <2> QED BY <1>0, <1>1
<1>2. CASE streaming' /\ down' = J(Noise)
  <2> HIDE DEF J
  <2> QED BY <1>0, <1>2, TextsHold
<1> QED BY <1>1, <1>2 DEF Emit

\* Each thread that is in a call is the only one.
LEMMA OneCall ==
  ASSUME Host, NEW c \in Callers, InCall(c), NEW d \in Callers, d # c
  PROVE  ~InCall(d)
BY DEF Host

\* What the shell takes from the line is a request.
LEMMA Taking ==
  ASSUME Line, up # <<>>, Head(up) # Newline
  PROVE  Head(up) \in Requests /\ Head(up).kind \in Kinds
<1>1. Head(up) \in Messages
  BY HeadTailProperties DEF Line, Upward
<1>2. \A m \in [type : {"newline"}] : m = Newline
  BY DEF Newline
<1> QED BY <1>1, <1>2 DEF Messages, Requests

\* No step of the shell puts anything else on the line,
LEMMA FwReads ==
  ASSUME Line, Reads, FwNewline \/ FwTake \/ FwExecute \/ FwPrompt \/ FwLine
  PROVE  Reads'
<1>1. down \in Seq(Texts) /\ buf \in [Callers -> Seq(Texts)]
      /\ fw \in Requests \cup {Free, Prompt}
  BY DEF Reads
<1>2. \A m \in Texts : Emit(m) => down' \in Seq(Texts)
  BY <1>1, Emitted, EmptySeq
<1>3. CASE FwNewline \/ FwPrompt
  <2>1. Emit(Prompt) /\ UNCHANGED buf /\ fw' \in {fw, Free}
    BY <1>3 DEF FwNewline, FwPrompt, host, firm
  <2> QED BY <1>1, <1>2, <2>1, TextsHold DEF Reads
<1>4. CASE FwTake
  <2>1. up # <<>> /\ Head(up) # Newline /\ fw' = Head(up) /\ Emit(Echo(Head(up).kind))
        /\ UNCHANGED buf
    BY <1>4 DEF FwTake, host
  <2>2. Head(up) \in Requests /\ Echo(Head(up).kind) \in Texts
    BY <2>1, Taking, TextsHold
  <2> QED BY <1>1, <1>2, <2>1, <2>2 DEF Reads
<1>5. CASE FwExecute
  <2>1. fw.type = "cmd" /\ fw' = Prompt /\ Emit(Body(fw.id, Fails(fw.kind))) /\ UNCHANGED buf
    BY <1>5 DEF FwExecute, host
  <2>2. fw \in Requests
    BY <1>1, <2>1 DEF Free, Prompt
  <2>3. Fails(fw.kind) \in BOOLEAN
    BY DEF Fails
  <2>4. fw.id \in 0..MaxCalls
    BY <2>2 DEF Requests
  <2>5. Body(fw.id, Fails(fw.kind)) \in Texts
    BY <2>3, <2>4, TextsHold
  <2> QED BY <1>1, <1>2, <2>1, <2>5 DEF Reads
<1>6. CASE FwLine
  <2>1. down' = Join(down, <<Noise>>) /\ UNCHANGED <<fw, buf>>
    BY <1>6 DEF FwLine, firm, host
  <2>2. <<>> \in Seq(Texts) /\ Noise \in Texts
    BY TextsHold, EmptySeq
  <2>3. Join(down, <<Noise>>) \in Seq(Texts)
    BY <1>1, <2>2, OneMore
  <2> QED BY <1>1, <2>1, <2>3 DEF Reads
<1> QED BY <1>3, <1>4, <1>5, <1>6

\* nor does one of the host.
LEMMA HostReads ==
  ASSUME Reads, NEW c \in Callers,
         \/ Progress(c) \/ Drain(c) \/ Outsider(c) \/ \E kind : Call(c, kind)
  PROVE  Reads'
<1>0. <<>> \in Seq(Texts)
  BY EmptySeq
<1>1. \A b : buf' = [buf EXCEPT ![c] = b] /\ b \in Seq(Texts) /\ fw' = fw
             /\ down' \in {down, <<>>} => Reads'
  BY <1>0 DEF Reads
<1>2. UNCHANGED <<buf, fw>> /\ down' \in {down, <<>>} => Reads'
  BY <1>0 DEF Reads
<1>3. CASE Send(c)
  BY <1>0, <1>1, <1>3 DEF Send, firm
<1>4. CASE Return(c)
  BY <1>0, <1>1, <1>4 DEF Return, Finish, firm, line
<1>5. CASE Timeout(c)
  BY <1>0, <1>1, <1>5 DEF Timeout, Finish, firm, line
<1>6. CASE RetryNewline(c) \/ RetryFlush(c)
  BY <1>2, <1>6 DEF RetryNewline, RetryFlush, firm
<1>7. CASE Drain(c)
  <2>1. buf' = [buf EXCEPT ![c] = Join(@, down)] /\ down' = <<>> /\ fw' = fw
    BY <1>7 DEF Drain, firm
  <2>2. buf[c] \in Seq(Texts) /\ down \in Seq(Texts)
    BY DEF Reads
  <2>3. Join(buf[c], down) \in Seq(Texts)
    BY <2>2, JoinMembers
  <2> QED BY <1>1, <2>1, <2>3
<1>8. CASE Outsider(c)
  BY <1>2, <1>8 DEF Outsider, CollectFlush, Sample, SampleEnd, ResetWrite, ResetFlush,
                    Outside, firm, line
<1>9. ASSUME NEW kind, Call(c, kind) PROVE Reads'
  BY <1>2, <1>9 DEF Call, firm, line
<1> QED BY <1>3, <1>4, <1>5, <1>6, <1>7, <1>8, <1>9 DEF Progress

\* So what there is to read keeps its type.
LEMMA ReadsNext == IInv /\ Reads /\ [Next]_vars => Reads'
<1> SUFFICES ASSUME IInv, Reads, [Next]_vars PROVE Reads'
  OBVIOUS
<1>1. CASE UNCHANGED vars
  BY <1>1 DEF Reads, vars, line, firm, host
<1>2. CASE FwNewline \/ FwTake \/ FwExecute \/ FwPrompt \/ FwLine
  BY <1>2, FwReads DEF IInv
<1>3. ASSUME NEW c \in Callers, NEW kind, Progress(c) \/ Drain(c) \/ Outsider(c) \/ Call(c, kind)
      PROVE  Reads'
  BY <1>3, HostReads
<1> QED BY <1>1, <1>2, <1>3 DEF Next
-----------------------------------------------------------------------------
(* The shell and a request that was alone                                  *)

\* A text of the shell comes down to c.
LEMMA Said ==
  ASSUME Reads, NEW c \in Callers, NEW m \in Texts, Emit(m), UNCHANGED buf
  PROVE  /\ Range(Raw(c)') \subseteq Range(Raw(c)) \cup {m, Noise}
         /\ ~streaming' /\ Noise \notin Range(Raw(c)) => Raw(c)' = Raw(c) \o <<m>>
<1>1. down \in Seq(Texts) /\ buf[c] \in Seq(Texts)
  BY DEF Reads
<1>2. /\ Range(buf[c] \o down') \subseteq Range(buf[c] \o down) \cup {m, Noise}
      /\ ~streaming' /\ Noise \notin Range(buf[c] \o down) =>
           buf[c] \o down' = (buf[c] \o down) \o <<m>>
  BY <1>1, Emitted
<1> QED BY <1>2 DEF Raw

\* What a lone request has got so far holds no noise, and grows as it should.
LEMMA Growth ==
  /\ Range(<<>>) = {}
  /\ \A e : Range(<<e>>) = {e}
  /\ \A e, b : Range(<<e, b>>) = {e, b}
  /\ \A e : <<>> \o <<e>> = <<e>>
  /\ \A e, b : <<e>> \o <<b>> = <<e, b>>
  /\ \A e, b, p : <<e, b>> \o <<p>> = <<e, b, p>>
<1>1. Range(<<>>) = {}
  BY DEF Range
<1>2. \A e : Range(<<e>>) = {e}
  <2> TAKE e
  <2>1. DOMAIN <<e>> = {1} /\ <<e>>[1] = e
    OBVIOUS
  <2> QED BY <2>1 DEF Range
<1>3. \A e, b : Range(<<e, b>>) = {e, b}
  <2> TAKE e, b
  <2>1. DOMAIN <<e, b>> = {1, 2} /\ <<e, b>>[1] = e /\ <<e, b>>[2] = b
    OBVIOUS
  <2> QED BY <2>1 DEF Range
<1>4. \A e : <<>> \o <<e>> = <<e>>
  OBVIOUS
<1>5. \A e, b : <<e>> \o <<b>> = <<e, b>>
  <2> TAKE e, b
  <2> DEFINE T == {e, b}
             s == <<e>>
             t == <<b>>
             u == <<e, b>>
  <2>1. /\ s \in Seq(T) /\ t \in Seq(T) /\ u \in Seq(T)
        /\ Len(s) = 1 /\ Len(t) = 1 /\ Len(u) = 2
        /\ s[1] = e /\ t[1] = b /\ u[1] = e /\ u[2] = b
    OBVIOUS
  <2> HIDE DEF s, t, u
  <2>2. Len(s \o t) = 2 /\ s \o t \in Seq(T) /\ (s \o t)[1] = e /\ (s \o t)[2] = b
    BY <2>1, ConcatProperties
  <2>3. s \o t = u
    BY <2>1, <2>2, SeqEqual
  <2> QED BY <2>3 DEF s, t, u
<1>6. \A e, b, p : <<e, b>> \o <<p>> = <<e, b, p>>
  <2> TAKE e, b, p
  <2> DEFINE T == {e, b, p}
             s == <<e, b>>
             t == <<p>>
             u == <<e, b, p>>
  <2>1. /\ s \in Seq(T) /\ t \in Seq(T) /\ u \in Seq(T)
        /\ Len(s) = 2 /\ Len(t) = 1 /\ Len(u) = 3
        /\ s[1] = e /\ s[2] = b /\ t[1] = p /\ u[1] = e /\ u[2] = b /\ u[3] = p
    OBVIOUS
  <2> HIDE DEF s, t, u
  <2>2. Len(s \o t) = 3 /\ s \o t \in Seq(T)
        /\ (s \o t)[1] = e /\ (s \o t)[2] = b /\ (s \o t)[3] = p
    BY <2>1, ConcatProperties
  <2>3. s \o t = u
    BY <2>1, <2>2, SeqEqual
  <2> QED BY <2>3 DEF s, t, u
<1> QED BY <1>1, <1>2, <1>3, <1>4, <1>5, <1>6

\* The request of a call, and what is sent back for it.
LEMMA RequestParts ==
  ASSUME Host, NEW c \in Callers
  PROVE  /\ Request(c).type = "cmd" /\ Request(c).id = call[c].id
         /\ Request(c).kind = call[c].kind
         /\ Echo(call[c].kind) \in Texts
         /\ \A err \in BOOLEAN : Answer(c, err) \in Texts
<1>1. call[c] \in Calls
  BY DEF Host
<1>2. call[c].id \in 0..MaxCalls /\ call[c].kind \in Kinds
  BY <1>1 DEF Calls, Kinds
<1> QED BY <1>2, TextsHold DEF Request, Cmd, Answer

\* It takes the request and echoes it.
LEMMA TakeLone ==
  ASSUME Host, Reads, NEW c \in Callers, Written(c), FwTake
  PROVE  Executing(c)'
<1>1. /\ up = <<Request(c)>> /\ ~Prompted(c)
      /\ clean => ~streaming /\ Raw(c) = <<>>
  BY DEF Written
<1>2. Head(up) = Request(c) /\ Tail(up) = <<>>
  BY <1>1
<1>3. /\ up' = <<>> /\ fw' = Request(c) /\ UNCHANGED <<streaming, buf, call, clean>>
      /\ Emit(Echo(Request(c).kind))
  BY <1>2 DEF FwTake, host, past
<1>4. Emit(Echo(call[c].kind)) /\ Echo(call[c].kind) \in Texts
  BY <1>3, RequestParts
<1>5. /\ Range(Raw(c)') \subseteq Range(Raw(c)) \cup {Echo(call[c].kind), Noise}
      /\ ~streaming' /\ Noise \notin Range(Raw(c)) =>
           Raw(c)' = Raw(c) \o <<Echo(call[c].kind)>>
  BY <1>3, <1>4, Said
<1>6. Prompt \notin Range(Raw(c)')
  BY <1>1, <1>5, TextsDiffer DEF Prompted
<1>7. ASSUME clean PROVE ~streaming' /\ Raw(c)' = <<Echo(call[c].kind)>>
  <2>1. Noise \notin Range(Raw(c))
    BY <1>1, <1>7, Growth
  <2>2. Raw(c)' = <<>> \o <<Echo(call[c].kind)>>
    BY <1>1, <1>3, <1>5, <1>7, <2>1
  <2> QED BY <1>1, <1>3, <1>7, <2>2, Growth
<1>8. Request(c)' = Request(c)
  BY <1>3 DEF Request
<1> QED BY <1>3, <1>6, <1>7, <1>8 DEF Executing, Prompted

\* It executes the request and prints the answer.
LEMMA ExecuteLone ==
  ASSUME Host, Reads, NEW c \in Callers, Executing(c), FwExecute
  PROVE  Prompting(c)'
<1>1. /\ up = <<>> /\ fw = Request(c) /\ ~Prompted(c)
      /\ clean => ~streaming /\ Raw(c) = <<Echo(call[c].kind)>>
  BY DEF Executing
<1>2. PICK err : err = Fails(fw.kind)
  OBVIOUS
<1>3. /\ up' = <<>> /\ fw' = Prompt /\ UNCHANGED <<buf, call, clean>>
      /\ Emit(Body(fw.id, err))
  BY <1>1, <1>2 DEF FwExecute, host, past
<1>4. err \in BOOLEAN
  BY <1>2 DEF Fails
<1>5. Emit(Answer(c, err)) /\ Answer(c, err) \in Texts
  BY <1>1, <1>3, <1>4, RequestParts DEF Answer
<1>6. /\ Range(Raw(c)') \subseteq Range(Raw(c)) \cup {Answer(c, err), Noise}
      /\ ~streaming' /\ Noise \notin Range(Raw(c)) =>
           Raw(c)' = Raw(c) \o <<Answer(c, err)>>
  BY <1>3, <1>5, Said
<1>7. Prompt \notin Range(Raw(c)')
  BY <1>1, <1>6, TextsDiffer DEF Prompted, Answer
<1>8. ASSUME clean, ~streaming'
      PROVE  Raw(c)' = <<Echo(call[c].kind), Answer(c, err)>>
  <2>1. Noise \notin Range(Raw(c))
    BY <1>1, <1>8, Growth, TextsDiffer
  <2>2. Raw(c)' = <<Echo(call[c].kind)>> \o <<Answer(c, err)>>
    BY <1>1, <1>6, <1>8, <2>1
  <2> QED BY <2>2, Growth
<1>9. Answer(c, err)' = Answer(c, err) /\ call' = call /\ clean' = clean
  BY <1>3 DEF Answer
<1>10. clean' /\ ~streaming' =>
         \E e \in BOOLEAN : Raw(c)' = <<Echo(call'[c].kind), Answer(c, e)'>>
  BY <1>4, <1>8, <1>9 DEF Answer
<1> QED BY <1>3, <1>7, <1>10 DEF Prompting, Prompted

\* It prompts.
LEMMA PromptLone ==
  ASSUME Host, Reads, NEW c \in Callers, Prompting(c), FwPrompt
  PROVE  Done(c)'
<1>1. /\ up = <<>>
      /\ clean /\ ~streaming =>
           \E err \in BOOLEAN : Raw(c) = <<Echo(call[c].kind), Answer(c, err)>>
  BY DEF Prompting
<1>2. /\ up' = <<>> /\ fw' = Free /\ UNCHANGED <<streaming, buf, call, clean>>
      /\ Emit(Prompt)
  BY <1>1 DEF FwPrompt, host, past
<1>3. ~streaming' /\ Noise \notin Range(Raw(c)) => Raw(c)' = Raw(c) \o <<Prompt>>
  BY <1>2, Said, TextsHold
<1>4. ASSUME clean, ~streaming, NEW err \in BOOLEAN,
             Raw(c) = <<Echo(call[c].kind), Answer(c, err)>>
      PROVE  Raw(c)' = <<Echo(call[c].kind), Answer(c, err), Prompt>>
  <2>1. Noise \notin Range(Raw(c))
    BY <1>4, Growth, TextsDiffer DEF Answer
  <2>2. Raw(c)' = <<Echo(call[c].kind), Answer(c, err)>> \o <<Prompt>>
    BY <1>2, <1>3, <1>4, <2>1
  <2> QED BY <2>2, Growth
<1>5. clean' /\ ~streaming' =>
        \E err \in BOOLEAN : Raw(c)' = <<Echo(call'[c].kind), Answer(c, err)', Prompt>>
  BY <1>1, <1>2, <1>4 DEF Answer
<1> QED BY <1>2, <1>5 DEF Done

\* A line is streamed: only where the request is not clean, and it is no prompt.
LEMMA LineLone ==
  ASSUME Reads, NEW c \in Callers, Lone(c), FwLine
  PROVE  Lone(c)'
<1>1. /\ streaming /\ UNCHANGED <<up, fw, streaming, buf, call, clean>>
      /\ down' = Join(down, <<Noise>>)
  BY DEF FwLine, firm, host, past
<1>2. down \in Seq(Texts) /\ buf[c] \in Seq(Texts)
  BY DEF Reads
<1>3. Range(buf[c] \o down') \subseteq Range(buf[c] \o down) \cup {Noise}
  BY <1>1, <1>2, OneMore, TextsHold
<1>4. Prompted(c)' => Prompted(c)
  BY <1>1, <1>3, TextsDiffer DEF Prompted, Raw
<1>5. Request(c)' = Request(c) /\ Answer(c, TRUE)' = Answer(c, TRUE)
  BY <1>1 DEF Request, Answer
<1>6. CASE Written(c)
  BY <1>1, <1>4, <1>5, <1>6 DEF Written, Lone
<1>7. CASE Executing(c)
  BY <1>1, <1>4, <1>5, <1>7 DEF Executing, Lone
<1>8. CASE Prompting(c)
  BY <1>1, <1>4, <1>8 DEF Prompting, Lone
<1>9. CASE Done(c)
  BY <1>1, <1>9 DEF Done, Lone
<1> QED BY <1>6, <1>7, <1>8, <1>9 DEF Lone

\* A newline, which no lone request has before it, is not answered meanwhile.
LEMMA NewlineLone ==
  ASSUME NEW c \in Callers, Lone(c)
  PROVE  ~FwNewline
<1>1. CASE Written(c)
  <2>1. Head(up) = Request(c)
    BY <1>1 DEF Written
  <2> QED BY <2>1, TextsDiffer DEF Request, FwNewline
<1>2. CASE up = <<>>
  BY <1>2 DEF FwNewline
<1> QED BY <1>1, <1>2 DEF Lone, Executing, Prompting, Done

\* So a lone request stays alone whatever the shell does.
LEMMA FwLone ==
  ASSUME Host, Reads, NEW c \in Callers, Lone(c),
         FwNewline \/ FwTake \/ FwExecute \/ FwPrompt \/ FwLine
  PROVE  Lone(c)'
<1>1. fw = Request(c) => fw.type = "cmd" /\ fw # Free /\ fw # Prompt
  BY TextsDiffer, RequestParts DEF Request
<1>2. Free.type # "cmd" /\ Prompt.type # "cmd" /\ Free # Prompt
  BY TextsDiffer DEF Free, Prompt
<1>3. CASE FwTake
  <2>1. fw = Free /\ up # <<>>
    BY <1>3 DEF FwTake
  <2>2. Written(c)
    BY <1>1, <1>2, <2>1 DEF Lone, Executing, Prompting, Done
  <2> QED BY <1>3, <2>2, TakeLone DEF Lone
<1>4. CASE FwExecute
  <2>1. fw.type = "cmd"
    BY <1>4 DEF FwExecute
  <2>2. Executing(c)
    BY <1>2, <2>1 DEF Lone, Written, Prompting, Done
  <2> QED BY <1>4, <2>2, ExecuteLone DEF Lone
<1>5. CASE FwPrompt
  <2>1. fw = Prompt
    BY <1>5 DEF FwPrompt
  <2>2. Prompting(c)
    BY <1>1, <1>2, <2>1 DEF Lone, Written, Executing, Done
  <2> QED BY <1>5, <2>2, PromptLone DEF Lone
<1> QED BY <1>3, <1>4, <1>5, LineLone, NewlineLone
-----------------------------------------------------------------------------
(* The host and a request that was alone                                   *)

\* An attempt that finds nothing under way is alone, and clean unless lines are streamed.
LEMMA SendLone ==
  ASSUME Host, Reads, NEW c \in Callers, Send(c), alone'
  PROVE  Written(c)'
<1>1. /\ down' = <<>> /\ buf' = [buf EXCEPT ![c] = <<>>] /\ UNCHANGED <<call, streaming, fw>>
      /\ up = <<>> /\ fw = Free /\ up' = Append(up, Request(c))
      /\ clean' => ~streaming
  BY DEF Send, firm, Request
<1>2. buf'[c] = <<>>
  BY <1>1 DEF Reads
<1>3. Raw(c)' = <<>> \o <<>>
  BY <1>1, <1>2 DEF Raw
<1>4. Raw(c)' = <<>>
  BY <1>3, EmptySeq, ConcatEmptySeq
<1>5. up' = <<Request(c)>>
  BY <1>1
<1>6. Request(c)' = Request(c)
  BY <1>1 DEF Request
<1> QED BY <1>1, <1>4, <1>5, <1>6, Growth DEF Written, Prompted

\* Reading what has come down changes nothing.
LEMMA DrainLone ==
  ASSUME Reads, NEW c \in Callers, Lone(c), Drain(c)
  PROVE  Lone(c)'
<1>1. /\ buf' = [buf EXCEPT ![c] = Join(@, down)] /\ down' = <<>>
      /\ UNCHANGED <<up, fw, streaming, call, clean>>
  BY DEF Drain, firm, past
<1>2. buf[c] \in Seq(Texts) /\ down \in Seq(Texts)
  BY DEF Reads
<1>3. buf'[c] = Join(buf[c], down)
  BY <1>1 DEF Reads
<1>4. PICK j : j = Join(buf[c], down)
  OBVIOUS
<1>5. /\ j \in Seq(Texts) /\ Range(j) \subseteq Range(buf[c]) \cup Range(down)
      /\ Noise \notin Range(buf[c]) => j = buf[c] \o down
  BY <1>2, <1>4, JoinMembers
<1>6. Raw(c)' = j
  BY <1>1, <1>3, <1>4, <1>5, ConcatEmptySeq DEF Raw
<1>7. Range(Raw(c)) = Range(buf[c]) \cup Range(down)
  BY <1>2, RangeConcatenation DEF Raw
<1>8. Prompted(c)' => Prompted(c)
  BY <1>5, <1>6, <1>7 DEF Prompted
<1>9. Noise \notin Range(Raw(c)) => Raw(c)' = Raw(c)
  BY <1>5, <1>6, <1>7 DEF Raw
<1>10. Request(c)' = Request(c) /\ \A err : Answer(c, err)' = Answer(c, err)
  BY <1>1 DEF Request, Answer
<1>11. CASE Written(c)
  <2>1. Raw(c) = <<>> => Raw(c)' = <<>>
    BY <1>9, Growth
  <2> QED BY <1>1, <1>8, <1>10, <1>11, <2>1 DEF Written, Lone
<1>12. CASE Executing(c)
  <2>1. Raw(c) = <<Echo(call[c].kind)>> => Raw(c)' = Raw(c)
    BY <1>9, Growth, TextsDiffer
  <2> QED BY <1>1, <1>8, <1>10, <1>12, <2>1 DEF Executing, Lone
<1>13. CASE Prompting(c)
  <2>1. ASSUME NEW err \in BOOLEAN, Raw(c) = <<Echo(call[c].kind), Answer(c, err)>>
        PROVE  Raw(c)' = <<Echo(call'[c].kind), Answer(c, err)'>>
    <3>1. Noise \notin Range(Raw(c))
      BY <2>1, Growth, TextsDiffer DEF Answer
    <3> QED BY <1>1, <1>9, <1>10, <2>1, <3>1
  <2>2. clean' /\ ~streaming' =>
          \E err \in BOOLEAN : Raw(c)' = <<Echo(call'[c].kind), Answer(c, err)'>>
    BY <1>1, <1>13, <2>1 DEF Prompting
  <2> QED BY <1>1, <1>8, <1>13, <2>2 DEF Prompting, Lone
<1>14. CASE Done(c)
  <2>1. ASSUME NEW err \in BOOLEAN,
               Raw(c) = <<Echo(call[c].kind), Answer(c, err), Prompt>>
        PROVE  Raw(c)' = <<Echo(call'[c].kind), Answer(c, err)', Prompt>>
    <3>1. \A i \in DOMAIN Raw(c) : Raw(c)[i] \in {Echo(call[c].kind), Answer(c, err), Prompt}
      BY <2>1
    <3>2. Noise \notin Range(Raw(c))
      BY <3>1, TextsDiffer DEF Answer, Range
    <3> QED BY <1>1, <1>9, <1>10, <2>1, <3>2
  <2>2. clean' /\ ~streaming' =>
          \E err \in BOOLEAN : Raw(c)' = <<Echo(call'[c].kind), Answer(c, err)', Prompt>>
    BY <1>1, <1>14, <2>1 DEF Done
  <2> QED BY <1>1, <1>14, <2>2 DEF Done, Lone
<1> QED BY <1>11, <1>12, <1>13, <1>14 DEF Lone

\* Every step keeps what is known of an attempt that was alone ...
LEMMA AttemptNext == IInv /\ Reads /\ Attempt /\ [Next]_vars => Attempt'
<1> SUFFICES ASSUME IInv, Reads, Attempt, [Next]_vars PROVE Attempt'
  OBVIOUS
<1>0. Host
  BY DEF IInv
<1>1. \A c \in Callers : pc[c] = "drain" /\ alone => Lone(c)
  BY DEF Attempt
<1>2. (clean => alone) /\ pc \in [Callers -> Labels] /\ buf \in [Callers -> Seq(Texts)]
  BY <1>0 DEF Attempt, Host, Reads
<1>3. CASE UNCHANGED vars
  <2>1. \A c \in Callers : Lone(c)' <=> Lone(c)
    BY <1>3 DEF Lone, Written, Executing, Prompting, Done, Raw, Prompted, Request, Answer,
                vars, line, firm, host, past
  <2> QED BY <1>1, <1>2, <1>3, <2>1 DEF vars, host, past, Attempt
<1>4. CASE FwNewline \/ FwTake \/ FwExecute \/ FwPrompt \/ FwLine
  <2>1. UNCHANGED <<pc, alone, clean>>
    BY <1>4 DEF FwNewline, FwTake, FwExecute, FwPrompt, FwLine, host, past
  <2>2. \A c \in Callers : Lone(c) => Lone(c)'
    BY <1>0, <1>4, FwLone
  <2> QED BY <1>1, <1>2, <2>1, <2>2 DEF Attempt
\* Nobody drains after a step of a thread that was, or is, the one in a call and does not.
<1>5. ASSUME NEW c \in Callers, NEW to, pc' = [pc EXCEPT ![c] = to], to # "drain",
             InCall(c) \/ \A d \in Callers : ~InCall(d),
             (clean' => alone') \/ UNCHANGED past
      PROVE  Attempt'
  <2>1. \A d \in Callers : d # c => pc[d] # "drain"
    BY <1>0, <1>5, OneCall DEF InCall
  <2>2. \A d \in Callers : pc'[d] # "drain"
    BY <1>2, <1>5, <2>1
  <2> QED BY <1>2, <1>5, <2>2 DEF Attempt, past
<1>6. ASSUME NEW c \in Callers, Progress(c) PROVE Attempt'
  <2>1. CASE Send(c)
    <3>1. pc[c] = "send" /\ pc' = [pc EXCEPT ![c] = "drain"] /\ (clean' => alone')
      BY <2>1 DEF Send
    <3>2. \A d \in Callers : d # c => pc'[d] # "drain"
      BY <1>0, <1>2, <3>1, OneCall DEF InCall
    <3>3. alone' => Lone(c)'
      BY <1>0, <2>1, SendLone DEF Lone
    <3> QED BY <3>1, <3>2, <3>3 DEF Attempt
  <2>2. CASE Return(c) \/ Timeout(c)
    <3>1. /\ InCall(c)
          /\ \E to : pc' = [pc EXCEPT ![c] = to] /\ to # "drain"
          /\ (clean' => alone') \/ UNCHANGED past
      BY <2>2 DEF Return, Timeout, Finish, InCall
    <3> QED BY <1>5, <3>1
  <2>3. CASE RetryNewline(c)
    BY <1>5, <2>3 DEF RetryNewline, InCall
  <2>4. CASE RetryFlush(c)
    BY <1>5, <2>4 DEF RetryFlush, InCall
  <2> QED BY <1>6, <2>1, <2>2, <2>3, <2>4 DEF Progress
<1>7. ASSUME NEW c \in Callers, Drain(c) PROVE Attempt'
  <2>1. pc[c] = "drain" /\ UNCHANGED <<pc, alone, clean>>
    BY <1>7 DEF Drain, past
  <2>2. \A d \in Callers : d # c => pc[d] # "drain"
    BY <1>0, <2>1, OneCall DEF InCall
  <2>3. Lone(c) => Lone(c)'
    BY <1>7, DrainLone
  <2> QED BY <1>1, <1>2, <2>1, <2>2, <2>3 DEF Attempt
<1>8. ASSUME NEW c \in Callers, Outsider(c) PROVE Attempt'
  <2>1. alone' = FALSE /\ clean' = FALSE
    BY <1>8 DEF Outsider, CollectFlush, Sample, SampleEnd, ResetWrite, ResetFlush, Outside
  <2> QED BY <2>1 DEF Attempt
<1>9. ASSUME NEW c \in Callers, NEW kind, Call(c, kind) PROVE Attempt'
  <2>1. \A d \in Callers : ~InCall(d)
    BY <1>0, <1>9, LinkAssumption DEF Call, Host, LinkAssumption
  <2>2. pc' = [pc EXCEPT ![c] = "send"] /\ UNCHANGED past
    BY <1>9 DEF Call
  <2> QED BY <1>5, <2>1, <2>2
<1> QED BY <1>3, <1>4, <1>6, <1>7, <1>8, <1>9 DEF Next
-----------------------------------------------------------------------------
(* What a call returns                                                     *)

\* Nothing on its way and nothing under way: what was written has been executed.
LEMMA AllExecuted ==
  ASSUME IInv, up = <<>>, fw = Free, NEW i \in Ids
  PROVE  executed[i] = sent[i]
<1>1. /\ executed[i] \in Nat /\ sent[i] \in Nat /\ i # 0
  BY LinkAssumption DEF IInv, Line, Executed, Attempts, LinkAssumption, Ids
<1>2. Taken(i) = executed[i]
  BY <1>1, MessageIds DEF Taken
<1>3. PICK nr : Numbers(nr)
  BY DEF IInv, Line, Numbered
<1>4. ~(executed[i] < sent[i])
  <2>1. \A n \in Nat : Taken(i) < n /\ n <= sent[i] => \E k \in 1..Len(up) : TRUE
    BY <1>3 DEF Numbers
  <2>2. Len(up) = 0
    OBVIOUS
  <2> QED BY <1>1, <1>2, <2>1, <2>2
<1>5. executed[i] <= sent[i]
  BY <1>2 DEF IInv, Line, Numbered
<1> QED BY <1>1, <1>4, <1>5

\* _drain stops at the prompt, which comes last.
LEMMA WholeAnswer ==
  ASSUME Reads, NEW c \in Callers, NEW e, NEW b, e # Prompt, b # Prompt,
         Raw(c) = <<e, b, Prompt>>, Prompt \in Range(buf[c])
  PROVE  buf[c] = <<e, b, Prompt>>
<1>1. buf[c] \in Seq(Texts) /\ down \in Seq(Texts)
  BY DEF Reads
<1> DEFINE s == buf[c]
           t == <<e, b, Prompt>>
<1>2. /\ s \o down = t /\ s \in Seq(Texts) /\ Len(t) = 3 /\ t[1] = e /\ t[2] = b
      /\ Prompt \in Range(s)
  BY <1>1 DEF Raw
<1>3. PICK k \in 1..Len(s) : s[k] = Prompt
  BY <1>2, RangeEquality
<1> HIDE DEF s, t
<1>4. Len(s) \in Nat /\ Len(down) \in Nat
  BY <1>1, <1>2, LenProperties
<1> DEFINE u == s \o down
<1>5. /\ u \in Seq(Texts) /\ Len(u) = Len(s) + Len(down)
      /\ \A j \in 1..Len(s) + Len(down) : u[j] = IF j <= Len(s) THEN s[j] ELSE down[j - Len(s)]
  BY <1>1, <1>2, ConcatProperties
<1>6. u = t
  BY <1>2
<1> HIDE DEF u
<1>7. \A j \in 1..Len(s) : u[j] = s[j]
  BY <1>4, <1>5
<1>8. t[k] = Prompt /\ Len(s) + Len(down) = 3
  BY <1>2, <1>3, <1>5, <1>6, <1>7
<1>9. k \in Nat /\ k >= 1 /\ k <= Len(s) /\ Len(s) <= 3
  BY <1>3, <1>4, <1>8
<1>10. k = 3
  BY <1>2, <1>8, <1>9
<1>11. Len(s) = 3
  <2>1. 3 <= Len(s)
    BY <1>9, <1>10
  <2>2. \A n \in Nat : 3 <= n /\ n <= 3 => n = 3
    OBVIOUS
  <2> QED BY <1>4, <1>9, <2>1, <2>2
<1>12. s = u
  BY <1>2, <1>5, <1>7, <1>8, <1>11, SeqEqual
<1> QED BY <1>6, <1>12 DEF s, t

\* _extract strips the echo and the prompt.
LEMMA Extracted ==
  ASSUME NEW kind, NEW id, NEW err \in BOOLEAN
  PROVE  /\ Extract(<<Echo(kind), Body(id, err), Prompt>>, kind) = <<Body(id, err)>>
         /\ IsError(<<Body(id, err)>>) <=> err
<1> DEFINE raw  == <<Echo(kind), Body(id, err), Prompt>>
           rest == <<Body(id, err), Prompt>>
<1>1. raw # <<>> /\ Head(raw) = Echo(kind) /\ Tail(raw) = rest
  OBVIOUS
<1>2. Without(rest, Prompt) = <<Body(id, err)>>
  BY WithoutPrompt, TextsDiffer
<1>3. Body(id, err).type = "body" /\ Body(id, err).err = err
  BY DEF Body
<1>4. IsError(<<Body(id, err)>>) <=> err
  BY <1>3 DEF IsError
<1> HIDE DEF raw, rest
<1>5. Extract(raw, kind) = <<Body(id, err)>>
  BY <1>1, <1>2 DEF Extract
<1> QED BY <1>4, <1>5 DEF raw

\* A call that was alone returns after its request has been done.
LEMMA ReturnResults ==
  ASSUME IInv, Reads, Attempt, NEW c \in Callers, Return(c)
  PROVE  Results'
<1> DEFINE text == Extract(buf[c], call[c].kind)
           outcome == IF IsError(text) THEN "error" ELSE "ok"
<1>1. /\ pc[c] = "drain" /\ Prompt \in Range(buf[c]) /\ InCall(c)
      /\ Finish(c, outcome, text)
  BY DEF Return, InCall
<1> HIDE DEF text, outcome
<1>2. /\ result' = [id |-> call[c].id, outcome |-> outcome, text |-> text,
                    alone |-> alone, clean |-> clean /\ ~streaming]
      /\ pc' = [pc EXCEPT ![c] = "idle"] \/ pc' = [pc EXCEPT ![c] = "sampling"]
      /\ UNCHANGED <<executed, sent>>
  BY <1>1 DEF Finish
<1>3. result'.id = call[c].id /\ result'.outcome = outcome /\ result'.text = text
      /\ result'.alone = alone /\ (result'.clean <=> clean /\ ~streaming)
  BY <1>2
<1>4. \A d \in Callers : ~InCall(d)'
  <2>1. pc \in [Callers -> Labels]
    BY DEF IInv, Host
  <2>2. ~InCall(c)'
    BY <1>2, <2>1 DEF InCall
  <2>3. \A d \in Callers : d # c => ~InCall(d)
    BY <1>1, OneCall DEF IInv
  <2>4. \A d \in Callers : d # c => ~InCall(d)'
    BY <1>2, <2>1, <2>3 DEF InCall
  <2> QED BY <2>2, <2>4
<1>5. Prompted(c)
  <2>1. buf[c] \in Seq(Texts) /\ down \in Seq(Texts)
    BY DEF Reads
  <2> QED BY <1>1, <2>1, RangeConcatenation DEF Prompted, Raw
<1>6. alone => Done(c)
  BY <1>1, <1>5 DEF Attempt, Lone, Written, Executing, Prompting
<1>7. call[c].id \in Ids
  BY <1>1, LinkAssumption DEF IInv, Host, LinkAssumption, Ids
<1>8. alone => executed[call[c].id] = sent[call[c].id]
  BY <1>6, <1>7, AllExecuted DEF Done
<1>9. ASSUME clean, ~streaming
      PROVE  \E err \in BOOLEAN : /\ text = <<Body(call[c].id, err)>>
                                  /\ outcome = IF err THEN "error" ELSE "ok"
  <2>1. PICK err \in BOOLEAN : Raw(c) = <<Echo(call[c].kind), Answer(c, err), Prompt>>
    BY <1>6, <1>9 DEF Attempt, Done
  <2>2. Raw(c) = <<Echo(call[c].kind), Body(call[c].id, err), Prompt>>
    BY <2>1 DEF Answer
  <2>3. buf[c] = <<Echo(call[c].kind), Body(call[c].id, err), Prompt>>
    BY <1>1, <2>2, TextsDiffer, WholeAnswer
  <2>4. text = <<Body(call[c].id, err)>> /\ (IsError(text) <=> err)
    BY <2>3, Extracted DEF text
  <2> QED BY <2>4 DEF outcome
<1>10. CleanAnswer'
  BY <1>3, <1>9 DEF CleanAnswer
<1> QED BY <1>2, <1>3, <1>4, <1>7, <1>8, <1>10 DEF Results

\* ... and what is known of its result.
LEMMA ResultsNext == IInv /\ Reads /\ Attempt /\ Results /\ [Next]_vars => Results'
<1> SUFFICES ASSUME IInv, Reads, Attempt, Results, [Next]_vars PROVE Results'
  OBVIOUS
<1>0. Host /\ pc \in [Callers -> Labels]
  BY DEF IInv, Host
<1>1. ASSUME result' = NoResult PROVE Results'
  <2>1. ~result'.alone /\ ~result'.clean
    BY <1>1 DEF NoResult
  <2> QED BY <1>1, <2>1 DEF Results, CleanAnswer
<1>2. ASSUME NEW c \in Callers, InCall(c), UNCHANGED result PROVE Results'
  BY <1>1, <1>2 DEF Results
<1>3. ASSUME \A c \in Callers : InCall(c)' => InCall(c), UNCHANGED <<result, executed, sent>>
      PROVE  Results'
  BY <1>3 DEF Results, CleanAnswer
<1>4. CASE FwNewline \/ FwTake \/ FwPrompt \/ FwLine \/ UNCHANGED vars
  <2>1. UNCHANGED <<pc, result, executed, sent>>
    BY <1>4 DEF FwNewline, FwTake, FwPrompt, FwLine, host, vars
  <2> QED BY <1>3, <2>1 DEF InCall
<1>5. CASE FwExecute
  <2>1. /\ IdOf(fw) = fw.id /\ UNCHANGED <<pc, result, sent>>
        /\ executed' = [i \in Ids |-> executed[i] + (IF i = fw.id THEN 1 ELSE 0)]
    BY <1>5 DEF FwExecute, host, IdOf
  <2>2. ASSUME NEW i \in Ids, executed[i] = sent[i] PROVE executed'[i] = sent'[i]
    <3>1. /\ executed[i] \in Nat /\ sent[i] \in Nat /\ Taken(i) <= sent[i]
      BY LinkAssumption DEF IInv, Line, Executed, Numbered, Attempts, LinkAssumption
    <3>2. fw.id # i
      BY <2>1, <2>2, <3>1 DEF Taken
    <3> QED BY <2>1, <2>2, <3>1, <3>2
  <2>3. \A c \in Callers : InCall(c)' <=> InCall(c)
    BY <2>1 DEF InCall
  <2> QED BY <2>1, <2>2, <2>3 DEF Results, CleanAnswer
<1>6. ASSUME NEW c \in Callers, Progress(c) PROVE Results'
  <2>1. CASE Send(c)
    BY <1>2, <2>1 DEF Send, InCall
  <2>2. CASE Return(c)
    BY <2>2, ReturnResults
  <2>3. CASE Timeout(c)
    <3>1. InCall(c)
      BY <2>3 DEF Timeout, InCall
    <3>2. CASE UNCHANGED result
      BY <1>2, <3>1, <3>2
    <3>3. CASE Finish(c, "timeout", <<>>)
      <4>1. /\ result'.outcome = "timeout"
            /\ pc' = [pc EXCEPT ![c] = "idle"] \/ pc' = [pc EXCEPT ![c] = "sampling"]
        BY <3>3 DEF Finish
      <4>2. \A d \in Callers : d # c => ~InCall(d)
        BY <1>0, <3>1, OneCall
      <4>3. \A d \in Callers : ~InCall(d)'
        BY <1>0, <4>1, <4>2 DEF InCall
      <4> QED BY <4>1, <4>3 DEF Results, CleanAnswer
    <3> QED BY <2>3, <3>2, <3>3 DEF Timeout
  <2>4. CASE RetryNewline(c)
    BY <1>2, <2>4 DEF RetryNewline, InCall
  <2>5. CASE RetryFlush(c)
    BY <1>2, <2>5 DEF RetryFlush, InCall
  <2> QED BY <1>6, <2>1, <2>2, <2>3, <2>4, <2>5 DEF Progress
<1>7. ASSUME NEW c \in Callers, Drain(c) PROVE Results'
  BY <1>2, <1>7 DEF Drain, InCall
<1>8. ASSUME NEW c \in Callers, Outsider(c) PROVE Results'
  <2>1. PICK from \in Labels, to \in Labels \ {"send", "drain", "newline", "flush"} :
          Outside(c, from, to)
    BY <1>8 DEF Outsider, CollectFlush, Sample, SampleEnd, ResetWrite, ResetFlush, Labels
  <2>2. pc' = [pc EXCEPT ![c] = to] /\ UNCHANGED <<result, executed, sent>>
    BY <2>1 DEF Outside
  <2>3. \A d \in Callers : InCall(d)' => InCall(d)
    BY <1>0, <2>2 DEF InCall
  <2> QED BY <1>3, <2>2, <2>3
<1>9. ASSUME NEW c \in Callers, NEW kind, Call(c, kind) PROVE Results'
  BY <1>1, <1>9 DEF Call
<1> QED BY <1>4, <1>5, <1>6, <1>7, <1>8, <1>9 DEF Next
-----------------------------------------------------------------------------
(* Theorems                                                                *)

\* All of it holds at first.
LEMMA AInvInit == Init => AInv
<1> SUFFICES ASSUME Init PROVE AInv
  OBVIOUS
<1>1. IInv
  BY LinkAssumption, HostInit, LineInit DEF IInv
<1>2. Reads
  <2>1. <<>> \in Seq(Texts)
    BY EmptySeq
  <2> QED BY <2>1 DEF Init, Reads
<1>3. Attempt
  BY DEF Init, Attempt
<1>4. Results
  BY DEF Init, Results, CleanAnswer, InCall, NoResult
<1> QED BY <1>1, <1>2, <1>3, <1>4 DEF AInv

\* The invariant is inductive: an attempt that began alone goes through the four phases
\* of Lone, whatever the shell streams meanwhile, until somebody outside the lock
\* disturbs it or its deadline passes.
THEOREM AInvCorrect == Spec => []AInv
<1>1. AInv /\ [Next]_vars => AInv'
  <2>1. IInv /\ [Next]_vars => IInv'
    BY LinkAssumption, HostStep, FlagsStep, LineStep DEF IInv
  <2> QED BY <2>1, ReadsNext, AttemptNext, ResultsNext DEF AInv
<1> QED BY <1>1, AInvInit, PTL DEF Spec

\* An attempt that began with nothing under way and lines not streamed, and that nobody
\* outside the lock disturbed, returns the answer to its own command and nothing else,
\* and raises exactly when the answer is an error: after any number of timeouts, late
\* answers and retries before it.
THEOREM AnswerCorrect == Spec => []CleanAnswer
<1>1. AInv => CleanAnswer
  BY DEF AInv, Results
<1> QED BY <1>1, AInvCorrect, PTL

\* A call that returns or raises anything but a timeout has been executed as often as it
\* was written, if its last attempt began alone and nobody disturbed it, streamed lines
\* or not.
THEOREM ExecutedCorrect == Spec => []AnsweredIsExecuted
<1>1. AInv => AnsweredIsExecuted
  BY DEF AInv, Results, AnsweredIsExecuted
<1> QED BY <1>1, AInvCorrect, PTL
=============================================================================
