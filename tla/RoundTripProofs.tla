-------------------------- MODULE RoundTripProofs ---------------------------
(***************************************************************************)
(* The loopback of the UART in Peripherals, end to end: tb uart send, the  *)
(* wire, the receive ISR, the ring buffer and tb uart recv, for every      *)
(* length of the text, every size of the buffers and every place where the *)
(* ISR interrupts.                                                         *)
(***************************************************************************)
EXTENDS PeripheralsProofs

-----------------------------------------------------------------------------
(* The inductive invariant                                                 *)

\* What has come off the wire and has not been printed.
Came == buf \o ring

\* s is the last line that was sent.
Whole(s) == /\ Len(s) = line[2] - line[1] + 1
            /\ \A i \in DOMAIN s : s[i].n = line[1] + i - 1

Fits == line[2] - line[1] < RingSize

\* Nothing is under way, and what was answered is the last line.
Settled ==
  /\ pc = "idle" /\ wire = <<>> /\ ring = <<>>
  /\ answer # NoAnswer /\ Fits => Whole(answer.text)

\* The newline is the last byte on the wire, and the last of those that came.
Closing ==
  /\ \A i \in DOMAIN wire : wire[i] = "newline" <=> i = Len(wire)
  /\ \A i \in DOMAIN Came :
       /\ Came[i].kind # "nul"
       /\ Came[i].kind = "newline" => i = Len(Came) /\ wire = <<>>

\* A line that fits the ring buffer comes in order, and with nothing before it.
Coming ==
  Fits => /\ line[1] + Len(Came) = arrived + 1
          /\ \A i \in DOMAIN Came : Came[i].n = line[1] + i - 1

\* One line is under way, part of it on the wire, part of it in ring or buf.
UnderWay == arrived + Len(wire) = line[2] /\ Closing /\ Coming

\* With a DUT on PA3 no line was ever sent, and the first tb uart recv is not clean.
Exchange ==
  clean =>
    \/ "dut" \in session /\ pc = "idle" /\ owed = 0 /\ answer = NoAnswer
    \/ "dut" \notin session /\ owed = 0 /\ Settled
    \/ "dut" \notin session /\ owed = 1 /\ UnderWay

LineTyped == line[1] \in Nat /\ line[2] \in Nat /\ line = <<line[1], line[2]>>

RInv == IInv /\ Wired /\ Counted /\ LineTyped /\ session \in Sessions /\ Exchange
-----------------------------------------------------------------------------
(* The steps of the echo                                                   *)

\* The types the invariant gives.
LEMMA RInvTypes ==
  ASSUME RInv
  PROVE  /\ ring \in Seq(Bytes) /\ buf \in Seq(Bytes) /\ Came \in Seq(Bytes)
         /\ Len(ring) \in Nat /\ Len(buf) \in Nat /\ Len(Came) = Len(buf) + Len(ring)
         /\ Len(ring) <= RingSize /\ RingSize \in Nat
         /\ wire \in Seq({"char", "newline"}) /\ Len(wire) \in Nat
         /\ arrived \in Nat /\ line[1] \in Nat /\ line[2] \in Nat
         /\ (pc = "idle" => buf = <<>>)
<1>1. ring \in Seq(Bytes) /\ buf \in Seq(Bytes)
  BY DEF RInv, IInv, TypeOK
<1>2. Came \in Seq(Bytes) /\ Len(Came) = Len(buf) + Len(ring)
  BY <1>1, ConcatProperties DEF Came
<1>3. wire \in Seq({"char", "newline"})
  BY DEF RInv, Wired
<1> QED
  BY <1>1, <1>2, <1>3, LenProperties, UartAssumption
  DEF RInv, IInv, TypeOK, LineTyped, UartAssumption

\* A clean line begins when nothing is under way: all of it is on the wire.
LEMMA SendExchange ==
  ASSUME RInv, NEW words \in 1..MaxWords, cmd_uart_send(words), UNCHANGED session
  PROVE  Exchange' /\ LineTyped'
<1> DEFINE sent  == 2 * words + 1
           first == arrived + Len(wire) + 1
           body  == [i \in 1..sent - 1 |-> "char"]
           text  == Append(body, "newline")
<1>1. /\ words \in Nat /\ words >= 1 /\ arrived \in Nat /\ Len(wire) \in Nat
      /\ (pc = "idle" => buf = <<>>)
  BY RInvTypes, PeripheralsAssumption DEF PeripheralsAssumption
<1>2. sent \in Nat /\ sent >= 3 /\ first \in Nat
  BY <1>1
<1>3. /\ "echo" \in session /\ pc = "idle" /\ UNCHANGED vars
      /\ wire' = wire \o text /\ line' = <<first, first + sent - 1>>
      /\ owed' = owed + 1 /\ (clean' => clean /\ owed = 0)
  BY DEF cmd_uart_send, Handles
<1>4. UNCHANGED <<ring, pc, buf, answer, arrived>>
  BY <1>3 DEF vars
<1>5. LineTyped'
  BY <1>2, <1>3 DEF LineTyped
<1>6. ASSUME clean' PROVE "dut" \notin session' /\ owed' = 1 /\ UnderWay'
  <2>1. "dut" \notin session
    BY <1>3, PeripheralsAssumption DEF RInv, PeripheralsAssumption
  <2>2. owed = 0 /\ wire = <<>> /\ ring = <<>> /\ buf = <<>>
    BY <1>1, <1>3, <1>6, <2>1 DEF RInv, Exchange, Settled
  <2>3. /\ body \in Seq({"char", "newline"}) /\ Len(body) = sent - 1
        /\ \A i \in 1..sent - 1 : body[i] = "char"
    <3>1. sent - 1 \in Nat
      BY <1>2
    <3> HIDE DEF sent
    <3> QED BY <3>1, IsASeq
  <2> HIDE DEF sent, body
  <2>4. /\ text \in Seq({"char", "newline"}) /\ Len(text) = sent
        /\ \A i \in 1..sent - 1 : text[i] = "char"
        /\ text[sent] = "newline"
    BY <1>2, <2>3, AppendProperties
  <2> HIDE DEF text
  <2>5. wire' = text /\ Len(wire) = 0
    BY <1>3, <2>2, <2>4, ConcatEmptySeq, EmptySeq
  <2>6. Came' = <<>>
    BY <1>4, <2>2, EmptySeq, ConcatEmptySeq DEF Came
  <2>7. Closing'
    BY <1>2, <2>4, <2>5, <2>6 DEF Closing
  <2>8. Coming'
    <3>1. line'[1] = arrived' + 1 /\ Len(Came') = 0
      BY <1>1, <1>3, <1>4, <2>5, <2>6
    <3>2. DOMAIN Came' = {}
      BY <2>6
    <3> QED BY <1>1, <1>4, <3>1, <3>2 DEF Coming
  <2>9. arrived' + Len(wire') = line'[2]
    BY <1>1, <1>2, <1>3, <1>4, <2>4, <2>5
  <2> QED BY <1>3, <2>1, <2>2, <2>7, <2>8, <2>9 DEF UnderWay
<1> QED BY <1>5, <1>6 DEF Exchange

\* s with b behind it.
LEMMA Behind ==
  ASSUME NEW s \in Seq(Bytes), NEW r \in Seq(Bytes), NEW b \in Bytes
  PROVE  /\ s \o Append(r, b) \in Seq(Bytes)
         /\ Len(s \o Append(r, b)) = Len(s \o r) + 1
         /\ \A i \in 1..Len(s \o r) : (s \o Append(r, b))[i] = (s \o r)[i]
         /\ (s \o Append(r, b))[Len(s \o r) + 1] = b
<1>1. <<b>> \in Seq(Bytes) /\ Append(r, b) = r \o <<b>>
  BY AppendIsConcat
<1>2. s \o Append(r, b) = (s \o r) \o <<b>>
  BY <1>1, Regroup
<1>3. s \o r \in Seq(Bytes)
  BY ConcatProperties
<1>4. (s \o r) \o <<b>> = Append(s \o r, b)
  BY <1>3, AppendIsConcat
<1> QED BY <1>2, <1>3, <1>4, AppendProperties

\* The next byte of the line comes off the wire. A line that fits never finds the ring
\* buffer full: what is in it belongs to the same line, and this byte is not in it yet.
LEMMA EchoedExchange ==
  ASSUME RInv, Echoed, UNCHANGED session
  PROVE  Exchange' /\ LineTyped'
<1> DEFINE b == [n |-> arrived + 1, kind |-> Head(wire)]
<1>0. /\ ring \in Seq(Bytes) /\ buf \in Seq(Bytes) /\ Came \in Seq(Bytes)
      /\ Len(ring) \in Nat /\ Len(buf) \in Nat /\ Len(Came) = Len(buf) + Len(ring)
      /\ RingSize \in Nat /\ arrived \in Nat /\ line[1] \in Nat /\ line[2] \in Nat
      /\ wire \in Seq({"char", "newline"}) /\ Len(wire) \in Nat
  BY RInvTypes
<1>1. /\ wire # <<>> /\ wire' = Tail(wire) /\ uart_rx_isr(Head(wire))
      /\ UNCHANGED <<line, owed, clean>>
  BY DEF Echoed
<1>2. /\ arrived < MaxBytes /\ arrived' = arrived + 1 /\ UNCHANGED <<pc, buf, answer>>
      /\ \/ Len(ring) < RingSize /\ ring' = Append(ring, b)
         \/ Len(ring) = RingSize /\ ring' = ring
  BY <1>1 DEF uart_rx_isr
<1>3. /\ Head(wire) = wire[1] /\ Head(wire) \in {"char", "newline"}
      /\ Tail(wire) \in Seq({"char", "newline"}) /\ Len(Tail(wire)) = Len(wire) - 1
      /\ \A i \in 1..Len(Tail(wire)) : Tail(wire)[i] = wire[i + 1]
      /\ Len(wire) >= 1
  BY <1>0, <1>1, HeadTailProperties, EmptySeq
<1>4. b \in Bytes /\ b.n = arrived + 1 /\ b.kind = Head(wire)
  <2>1. Head(wire) \in Kinds
    BY <1>3, PeripheralsAssumption DEF PeripheralsAssumption
  <2>2. arrived + 1 \in 1..MaxBytes
    BY <1>0, <1>2, UartAssumption DEF UartAssumption
  <2> QED BY <2>1, <2>2 DEF Bytes
<1> HIDE DEF b
<1>5. ASSUME UnderWay PROVE UnderWay'
  <2>1. arrived' + Len(wire') = line'[2]
    BY <1>0, <1>1, <1>2, <1>3, <1>5 DEF UnderWay
  <2>2. \A i \in DOMAIN Came : Came[i].kind \notin {"nul", "newline"}
    BY <1>1, <1>5 DEF UnderWay, Closing
  <2>3. wire[1] = "newline" <=> Len(wire) = 1
    <3>1. \A i \in DOMAIN wire : wire[i] = "newline" <=> i = Len(wire)
      BY <1>5, Zenon DEF UnderWay, Closing
    <3>2. 1 \in DOMAIN wire
      BY <1>0, <1>3, LenProperties
    <3> QED BY <3>1, <3>2
  <2>4. \A i \in DOMAIN wire' : wire'[i] = "newline" <=> i = Len(wire')
    <3>1. ASSUME NEW i \in 1..Len(wire') PROVE wire'[i] = "newline" <=> i = Len(wire')
      <4>1. i + 1 \in DOMAIN wire /\ wire'[i] = wire[i + 1] /\ Len(wire') = Len(wire) - 1
        BY <1>0, <1>1, <1>3, <3>1
      <4>2. wire[i + 1] = "newline" <=> i + 1 = Len(wire)
        BY <1>5, <4>1 DEF UnderWay, Closing
      <4> QED BY <1>0, <4>1, <4>2
    <3>2. wire' \in Seq({"char", "newline"})
      BY <1>1, <1>3
    <3> QED BY <3>1, <3>2, LenProperties
  <2>5. CASE Len(ring) < RingSize /\ ring' = Append(ring, b)
    <3>1. /\ Came' \in Seq(Bytes) /\ Len(Came') = Len(Came) + 1
          /\ \A i \in 1..Len(Came) : Came'[i] = Came[i]
          /\ Came'[Len(Came) + 1] = b
      BY <1>0, <1>2, <1>4, <2>5, Behind DEF Came
    <3>2. Len(Came) \in Nat /\ DOMAIN Came = 1..Len(Came) /\ DOMAIN Came' = 1..Len(Came) + 1
      BY <1>0, <3>1
    <3>3. b.kind # "nul" /\ (b.kind = "newline" => wire' = <<>>)
      <4>1. b.kind = wire[1] /\ b.kind \in {"char", "newline"}
        BY <1>3, <1>4
      <4>2. ASSUME b.kind = "newline" PROVE wire' = <<>>
        <5>1. Len(wire) = 1
          BY <2>3, <4>1, <4>2
        <5>2. Len(Tail(wire)) = 0
          BY <1>3, <5>1
        <5> QED BY <1>1, <1>3, <5>2, EmptySeq
      <4> QED BY <4>1, <4>2
    <3>4. Closing'
      <4> SUFFICES ASSUME NEW i \in DOMAIN Came'
                   PROVE  /\ Came'[i].kind # "nul"
                          /\ Came'[i].kind = "newline" => i = Len(Came') /\ wire' = <<>>
        BY <2>4 DEF Closing
      <4>1. CASE i = Len(Came) + 1
        BY <3>1, <3>3, <4>1
      <4>2. CASE i \in 1..Len(Came)
        BY <2>2, <3>1, <3>2, <4>2
      <4> QED BY <3>2, <4>1, <4>2
    <3>5. Coming'
      <4> SUFFICES ASSUME Fits
                   PROVE  /\ line[1] + Len(Came') = arrived' + 1
                          /\ \A i \in DOMAIN Came' : Came'[i].n = line[1] + i - 1
        BY <1>1 DEF Coming, Fits
      <4>1. /\ line[1] + Len(Came) = arrived + 1
            /\ \A i \in DOMAIN Came : Came[i].n = line[1] + i - 1
        BY <1>5 DEF UnderWay, Coming
      <4>2. line[1] + Len(Came') = arrived' + 1
        BY <1>0, <1>2, <3>1, <4>1
      <4>3. b.n = line[1] + (Len(Came) + 1) - 1
        BY <1>0, <1>4, <3>2, <4>1
      <4>4. ASSUME NEW i \in DOMAIN Came' PROVE Came'[i].n = line[1] + i - 1
        <5>1. CASE i = Len(Came) + 1
          BY <3>1, <4>3, <5>1
        <5>2. CASE i \in 1..Len(Came)
          BY <3>1, <3>2, <4>1, <5>2
        <5> QED BY <3>2, <5>1, <5>2
      <4> QED BY <4>2, <4>4
    <3> QED BY <2>1, <3>4, <3>5 DEF UnderWay
  <2>6. CASE Len(ring) = RingSize /\ ring' = ring
    <3>1. Came' = Came
      BY <1>2, <2>6 DEF Came
    <3>2. ~Fits
      <4>1. SUFFICES ASSUME Fits PROVE FALSE
        OBVIOUS
      <4>2. line[1] + Len(Came) = arrived + 1 /\ arrived + Len(wire) = line[2]
        BY <1>5, <4>1 DEF UnderWay, Coming
      <4> QED BY <1>0, <1>3, <2>6, <4>1, <4>2 DEF Fits
    <3>3. Closing'
      BY <2>2, <2>4, <3>1 DEF Closing
    <3>4. Coming'
      BY <1>1, <3>2 DEF Coming, Fits
    <3> QED BY <2>1, <3>3, <3>4 DEF UnderWay
  <2> QED BY <1>2, <2>5, <2>6
<1>6. LineTyped'
  BY <1>1 DEF RInv, LineTyped
<1>7. ~Settled
  BY <1>1 DEF Settled
<1> QED BY <1>1, <1>2, <1>5, <1>6, <1>7 DEF RInv, Exchange

\* What is taken off the ring buffer stands behind what buf holds: Came is the same.
LEMMA TurnCame ==
  ASSUME RInv, NEW m \in 0..Len(ring)
  PROVE  LET s == buf \o SubSeq(ring, 1, m)
             r == SubSeq(ring, m + 1, Len(ring))
         IN  s \in Seq(Bytes) /\ r \in Seq(Bytes) /\ s \o r = Came
<1>1. ring \in Seq(Bytes) /\ buf \in Seq(Bytes)
  BY RInvTypes
<1> DEFINE c == SubSeq(ring, 1, m)
           r == SubSeq(ring, m + 1, Len(ring))
<1>2. c \in Seq(Bytes) /\ r \in Seq(Bytes) /\ c \o r = ring
  BY <1>1, Split
<1> HIDE DEF c, r
<1>3. buf \o c \in Seq(Bytes)
  BY <1>1, <1>2, ConcatProperties
<1>4. (buf \o c) \o r = buf \o (c \o r)
  BY <1>1, <1>2, Regroup
<1> QED BY <1>2, <1>3, <1>4 DEF Came, c, r

\* When the newline is printed the line is over: it was the last byte, so the ring buffer
\* and the wire are empty, and all that came is printed.
LEMMA PrintedExchange ==
  ASSUME RInv, UnderWay, NEW s \in Seq(Bytes), NEW r \in Seq(Bytes), s \o r = Came,
         EndsLine(s), shell_print(s), ring' = r, pc' = "idle",
         UNCHANGED <<wire, line>>
  PROVE  Settled'
<1>0. /\ RingSize \in Nat /\ arrived \in Nat /\ line[1] \in Nat /\ line[2] \in Nat
      /\ wire \in Seq({"char", "newline"})
  BY RInvTypes
<1>1. /\ Len(s) \in Nat /\ Len(r) \in Nat /\ Len(Came) = Len(s) + Len(r)
      /\ DOMAIN s = 1..Len(s) /\ DOMAIN Came = 1..Len(Came)
      /\ \A i \in 1..Len(s) : Came[i] = s[i]
  <2>1. s \o r \in Seq(Bytes)
    BY ConcatProperties
  <2> QED BY <2>1, ConcatProperties, LenProperties
<1>2. s # <<>> /\ Len(s) >= 1 /\ s[Len(s)].kind = "newline"
  BY <1>1, EmptySeq DEF EndsLine
<1>3. Len(s) = Len(Came) /\ wire = <<>>
  <2>1. Len(s) \in DOMAIN Came /\ Came[Len(s)].kind = "newline"
    BY <1>1, <1>2
  <2> QED BY <2>1 DEF UnderWay, Closing
<1>4. r = <<>> /\ s = Came
  <2>1. r = <<>>
    BY <1>1, <1>3, EmptySeq
  <2> QED BY <2>1, ConcatEmptySeq
<1>5. answer'.text = s
  <2>1. PICK k \in 0..Len(s) :
          /\ k < Len(s) => s[k + 1].kind = "nul"
          /\ answer' = [error |-> FALSE, text |-> SubSeq(s, 1, k)]
    BY DEF shell_print
  <2>2. k = Len(s)
    <3>1. k \in Nat /\ Len(s) \in Nat /\ k <= Len(s)
      BY <1>1
    <3>2. ASSUME k < Len(s) PROVE FALSE
      <4>1. k + 1 \in 1..Len(s)
        BY <3>1, <3>2
      <4> QED BY <1>1, <1>3, <2>1, <3>2, <4>1 DEF UnderWay, Closing
    <3> QED BY <3>1, <3>2
  <2>3. SubSeq(s, 1, Len(s)) = s
    <3>1. /\ SubSeq(s, 1, Len(s)) \in Seq(Bytes) /\ Len(SubSeq(s, 1, Len(s))) = Len(s)
          /\ \A i \in 1..Len(s) : SubSeq(s, 1, Len(s))[i] = s[i]
      BY <1>1, Split
    <3> QED BY <3>1, SeqEqual
  <2> QED BY <2>1, <2>2, <2>3
<1>6. Fits => Whole(s)
  <2> SUFFICES ASSUME Fits PROVE Whole(s)
    OBVIOUS
  <2>1. /\ line[1] + Len(Came) = arrived + 1 /\ arrived + Len(wire) = line[2]
        /\ \A i \in DOMAIN Came : Came[i].n = line[1] + i - 1
    BY DEF UnderWay, Coming
  <2>2. Len(wire) = 0
    BY <1>3, EmptySeq
  <2> QED BY <1>0, <1>1, <1>4, <2>1, <2>2 DEF Whole
<1> QED BY <1>3, <1>4, <1>5, <1>6 DEF Settled, Fits, Whole

\* A turn of tb uart recv, which is the only one that can run while a line is under way.
LEMMA TurnExchange ==
  ASSUME RInv, RecvTurn, UNCHANGED session
  PROVE  Exchange' /\ LineTyped'
<1> DEFINE m == least(Len(ring), BufSize - Len(buf) - 1)
           s == buf \o SubSeq(ring, 1, m)
           r == SubSeq(ring, m + 1, Len(ring))
<1>1. /\ pc = "loop" /\ Got(m, s) /\ owed' = (IF pc' = "idle" THEN 0 ELSE owed)
      /\ UNCHANGED <<wire, line, clean>>
  BY DEF RecvTurn, RecvGet
<1>2. m \in 0..Len(ring)
  <2>1. Len(buf) <= BufSize - 1 /\ BufSize \in Nat \ {0}
    BY UartAssumption DEF RInv, IInv, TypeOK, UartAssumption
  <2>2. Len(buf) \in Nat /\ Len(ring) \in Nat
    BY RInvTypes
  <2> QED BY <2>1, <2>2 DEF least
<1>3. ring' = r /\ UNCHANGED arrived
  BY <1>1 DEF Got
<1>4. s \in Seq(Bytes) /\ r \in Seq(Bytes) /\ s \o r = Came
  BY <1>2, TurnCame
<1>5. \/ EndsLine(s) /\ shell_print(s) /\ pc' = "idle"
      \/ buf' = s /\ UNCHANGED <<pc, answer>>
  BY <1>1 DEF Got
<1> HIDE DEF m, s, r
<1>6. LineTyped'
  BY <1>1 DEF RInv, LineTyped
<1>7. ASSUME clean' PROVE "dut" \notin session /\ owed = 1 /\ UnderWay
  BY <1>1, <1>7 DEF RInv, Exchange, Settled
<1>8. CASE EndsLine(s) /\ shell_print(s) /\ pc' = "idle"
  <2>1. owed' = 0
    BY <1>1, <1>8
  <2>2. clean' => Settled'
    BY <1>1, <1>3, <1>4, <1>7, <1>8, PrintedExchange
  <2> QED BY <1>6, <1>7, <2>1, <2>2 DEF Exchange
<1>9. CASE buf' = s /\ UNCHANGED <<pc, answer>>
  <2>1. Came' = Came
    BY <1>3, <1>4, <1>9 DEF Came
  <2>2. clean' => UnderWay'
    BY <1>1, <1>3, <1>7, <2>1 DEF UnderWay, Closing, Coming, Fits
  <2>3. owed' = owed
    BY <1>1, <1>9
  <2> QED BY <1>6, <1>7, <2>2, <2>3 DEF Exchange
<1> QED BY <1>5, <1>8, <1>9

\* tb uart recv begins, or gives up: an end at the deadline is not clean.
LEMMA RecvExchange ==
  ASSUME RInv, Recv \/ RecvGivesUp, UNCHANGED session
  PROVE  Exchange' /\ LineTyped'
<1>1. LineTyped'
  BY DEF RInv, LineTyped, Recv, RecvGivesUp
<1>2. CASE RecvGivesUp
  <2>1. ~clean'
    BY <1>2 DEF RecvGivesUp
  <2> QED BY <1>1, <2>1 DEF Exchange
<1>3. ASSUME Recv, clean' PROVE "dut" \notin session' /\ owed' = 1 /\ UnderWay'
  <2>1. PICK timeout_ms \in Timeouts : RecvBegin(timeout_ms)
    BY <1>3 DEF Recv
  <2>2. /\ clean /\ owed = 1 /\ UNCHANGED <<wire, line, owed>>
    BY <1>3 DEF Recv
  <2>3. /\ pc = "idle" /\ buf' = <<>> /\ UNCHANGED <<ring, arrived>>
    BY <2>1 DEF RecvBegin
  <2>4. buf = <<>>
    BY <2>3, RInvTypes
  <2>5. Came' = Came
    BY <2>3, <2>4 DEF Came
  <2>6. "dut" \notin session /\ UnderWay
    BY <2>2 DEF RInv, Exchange
  <2> QED BY <2>2, <2>3, <2>5, <2>6 DEF UnderWay, Closing, Coming, Fits
<1>4. CASE Recv
  BY <1>1, <1>3, <1>4 DEF Exchange
<1> QED BY <1>2, <1>4

\* The other steps: nothing this invariant speaks of changes, or the DUT drives PA3.
LEMMA OtherExchange ==
  ASSUME RInv, UNCHANGED session,
         DeviceStep \/ RecvOverdue \/ DutSends \/ UNCHANGED devVars
  PROVE  Exchange' /\ LineTyped'
<1>1. CASE DutSends
  <2>1. /\ "dut" \in session /\ UNCHANGED echoVars
        /\ \E kind \in Kinds : uart_rx_isr(kind)
    BY <1>1 DEF DutSends
  <2>2. UNCHANGED <<pc, answer>>
    BY <2>1 DEF uart_rx_isr
  <2> QED BY <2>1, <2>2 DEF RInv, Exchange, LineTyped, echoVars
<1>2. CASE DeviceStep \/ RecvOverdue \/ UNCHANGED devVars
  <2>1. UNCHANGED <<echoVars, ring, buf, pc, answer, arrived>>
    BY <1>2, DeviceFrame DEF RecvOverdue, Deadline, devVars, vars
  <2>2. Came' = Came
    BY <2>1 DEF Came
  <2>3. (UnderWay' <=> UnderWay) /\ (Settled' <=> Settled)
    BY <2>1, <2>2 DEF UnderWay, Closing, Coming, Fits, Settled, Whole, echoVars
  <2> QED BY <2>1, <2>3 DEF RInv, Exchange, LineTyped, echoVars
<1> QED BY <1>1, <1>2

\* It holds at first ...
LEMMA RInvInit == DevInit => RInv
<1> SUFFICES ASSUME DevInit PROVE RInv
  OBVIOUS
<1>1. IInv /\ Wired
  BY InitEstablishes, WiredInit DEF DevInit
<1>2. Counted /\ LineTyped /\ session \in Sessions
  BY DEF DevInit, Counted, LineTyped
<1>3. Exchange
  BY DEF DevInit, Init, Exchange, Settled
<1> QED BY <1>1, <1>2, <1>3 DEF RInv

\* ... and every step keeps it.
LEMMA RInvNext == RInv /\ [DevNext]_devVars => RInv'
<1> SUFFICES ASSUME RInv, [DevNext]_devVars PROVE RInv'
  OBVIOUS
<1>1. IInv'
  BY UartSteps, NextPreserves DEF RInv
<1>2. Wired' /\ Counted'
  BY WiredNext, CountedNext DEF RInv
<1>3. session' = session
  BY DEF DevNext, devVars
<1>4. Exchange' /\ LineTyped'
  BY <1>3, SendExchange, EchoedExchange, TurnExchange, RecvExchange, OtherExchange, Zenon
  DEF DevNext, UartStep
<1> QED BY <1>1, <1>2, <1>3, <1>4 DEF RInv

\* A host that receives each line before it sends the next, and whose deadlines suffice,
\* gets each line back whole and alone, if it fits the ring buffer.
THEOREM RoundTripCorrect == DevSpec => []RoundTrip
<1>1. RInv => RoundTrip
  <2> SUFFICES ASSUME RInv, clean, owed = 0, answer # NoAnswer, Fits
               PROVE  Whole(answer.text)
    BY DEF RoundTrip, Whole, Fits
  <2> QED BY DEF RInv, Exchange, Settled
<1> QED BY <1>1, RInvInit, RInvNext, PTL DEF DevSpec
=============================================================================
