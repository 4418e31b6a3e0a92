------------------------------ MODULE DutUart -------------------------------
(***************************************************************************)
(* Receiving from the DUT, tb_uart.c: the receive ISR puts what arrives on *)
(* usart2 into a ring buffer; tb uart recv, on the shell thread, polls it  *)
(* until a newline comes last, or its deadline passes, and prints what it  *)
(* has. Nothing empties the ring buffer between two commands, and the ISR  *)
(* interrupts the shell anywhere.                                          *)
(*                                                                         *)
(* A byte is its number in the order of arrival and its kind: a newline, a *)
(* NUL, which ends the string that is printed, or any other character.     *)
(***************************************************************************)
EXTENDS Integers, Sequences

CONSTANTS
  RingSize,  \* RX_BUF_SIZE
  BufSize,   \* size of buf in cmd_uart_recv, its terminator included
  Kinds,     \* the kinds of bytes the DUT sends
  Timeouts,  \* values of <timeout_ms>, as the host or a user types them
  MaxBytes   \* bound: bytes the DUT sends in one behaviour

ASSUME UartAssumption ==
  /\ RingSize \in Nat \ {0} /\ BufSize \in Nat \ {0} /\ MaxBytes \in Nat
  /\ Kinds \subseteq {"char", "newline", "nul"}
  /\ Timeouts \subseteq Int

VARIABLES
  ring,     \* uart_rx_ring
  pc,       \* of the shell thread: "idle", or "loop" in cmd_uart_recv
  buf,      \* the first len bytes of buf
  overdue,  \* k_uptime_get() has reached the deadline
  answer    \* what the last tb uart recv printed, NoAnswer while one runs
\* History: what became of the bytes, read by no action of the program.
VARIABLES
  arrived,  \* bytes the DUT has sent
  dropped,  \* numbers of those that found the ring buffer full
  printed,  \* the bytes printed so far
  cut       \* numbers of those taken off the ring but behind a NUL

vars == <<ring, pc, buf, overdue, answer, arrived, dropped, printed, cut>>
-----------------------------------------------------------------------------
Bytes == [n : 1..MaxBytes, kind : Kinds]

NoAnswer == [error |-> FALSE, text |-> <<>>]

least(a, b) == IF a <= b THEN a ELSE b

\* Mutant of EndsLine: any data ends the wait.
EndsLineAny(s) == s # <<>>

EndsLine(s) == s # <<>> /\ s[Len(s)].kind = "newline"

Init ==
  /\ ring = <<>> /\ pc = "idle" /\ buf = <<>> /\ overdue = FALSE /\ answer = NoAnswer
  /\ arrived = 0 /\ dropped = {} /\ printed = <<>> /\ cut = {}
-----------------------------------------------------------------------------
\* uart_rx_isr, for one byte. It does not look at what ring_buf_put returns.
uart_rx_isr(kind) ==
  /\ arrived < MaxBytes
  /\ arrived' = arrived + 1
  /\ \/ /\ Len(ring) < RingSize
        /\ ring' = Append(ring, [n |-> arrived + 1, kind |-> kind])
        /\ UNCHANGED dropped
     \/ /\ Len(ring) = RingSize
        /\ dropped' = dropped \cup {arrived + 1}
        /\ UNCHANGED ring
  /\ UNCHANGED <<pc, buf, overdue, answer, printed, cut>>

\* cmd_uart_recv up to its loop. The deadline of a timeout_ms that is not positive
\* has passed at once.
RecvBegin(timeout_ms) ==
  /\ pc = "idle"
  /\ pc' = "loop" /\ buf' = <<>> /\ answer' = NoAnswer
  /\ overdue' = (timeout_ms <= 0)
  /\ UNCHANGED <<ring, arrived, dropped, printed, cut>>

\* The clock reaches the deadline.
Deadline ==
  /\ pc = "loop" /\ ~overdue
  /\ overdue' = TRUE
  /\ UNCHANGED <<ring, pc, buf, answer, arrived, dropped, printed, cut>>

\* s printed as a string: what is behind a NUL is taken, but not printed.
shell_print(s) ==
  \E k \in 0..Len(s) :
    /\ \A i \in 1..k : s[i].kind # "nul"
    /\ k < Len(s) => s[k + 1].kind = "nul"
    /\ answer' = [error |-> FALSE, text |-> SubSeq(s, 1, k)]
    /\ printed' = printed \o SubSeq(s, 1, k)
    /\ cut' = cut \cup {s[i].n : i \in k + 1..Len(s)}

\* s is what buf holds after one ring_buf_get, m bytes long.
Got(m, s) ==
  /\ m > 0
  /\ ring' = SubSeq(ring, m + 1, Len(ring))
  /\ \/ /\ EndsLine(s)
        /\ shell_print(s)
        /\ pc' = "idle" /\ buf' = <<>> /\ overdue' = FALSE
     \/ /\ ~EndsLine(s)
        /\ buf' = s
        /\ UNCHANGED <<pc, overdue, answer, printed, cut>>
  /\ UNCHANGED <<arrived, dropped>>

\* Mutant of RecvGet: the terminator has no room of its own.
RecvGetFull ==
  /\ pc = "loop" /\ ~overdue
  /\ LET m == least(Len(ring), BufSize - Len(buf))
     IN  Got(m, buf \o SubSeq(ring, 1, m))

\* Mutant of RecvGet: each chunk is stored at the start of buf.
RecvGetOver ==
  /\ pc = "loop" /\ ~overdue
  /\ LET m == least(Len(ring), BufSize - Len(buf) - 1)
     IN  Got(m, SubSeq(ring, 1, m))

\* One turn of the loop. It looks for a newline in the last byte only.
RecvGet ==
  /\ pc = "loop" /\ ~overdue
  /\ LET m == least(Len(ring), BufSize - Len(buf) - 1)
     IN  Got(m, buf \o SubSeq(ring, 1, m))

\* Mutant of RecvTimeout: a wait that brought nothing is started again.
RecvTimeoutAgain ==
  /\ pc = "loop" /\ overdue
  /\ \/ /\ buf = <<>>
        /\ overdue' = FALSE
        /\ UNCHANGED <<pc, buf, answer, printed, cut>>
     \/ /\ buf # <<>>
        /\ shell_print(buf)
        /\ pc' = "idle" /\ buf' = <<>> /\ overdue' = FALSE
  /\ UNCHANGED <<ring, arrived, dropped>>

\* The loop ends at its deadline: an error if nothing came, else what came.
RecvTimeout ==
  /\ pc = "loop" /\ overdue
  /\ \/ /\ buf = <<>>
        /\ answer' = [error |-> TRUE, text |-> <<>>]
        /\ UNCHANGED <<printed, cut>>
     \/ /\ buf # <<>>
        /\ shell_print(buf)
  /\ pc' = "idle" /\ buf' = <<>> /\ overdue' = FALSE
  /\ UNCHANGED <<ring, arrived, dropped>>
-----------------------------------------------------------------------------
Next ==
  \/ \E kind \in Kinds : uart_rx_isr(kind)
  \/ \E timeout_ms \in Timeouts : RecvBegin(timeout_ms)
  \/ RecvGet \/ Deadline \/ RecvTimeout

Spec == Init /\ [][Next]_vars

\* Time passes and the shell thread gets the CPU; the DUT owes nothing.
FairSpec == Spec /\ WF_vars(Deadline) /\ WF_vars(RecvTimeout)
-----------------------------------------------------------------------------
(* Safety                                                                  *)

\* Above all, buf[len] = '\0' stays inside buf.
TypeOK ==
  /\ ring \in Seq(Bytes) /\ Len(ring) <= RingSize
  /\ buf \in Seq(Bytes) /\ Len(buf) <= BufSize - 1
  /\ pc \in {"idle", "loop"} /\ overdue \in BOOLEAN
  /\ answer \in [error : BOOLEAN, text : Seq(Bytes)]
  /\ arrived \in 0..MaxBytes
  /\ dropped \subseteq 1..MaxBytes /\ printed \in Seq(Bytes) /\ cut \subseteq 1..MaxBytes

Stream     == printed \o buf \o ring
Numbers(s) == {s[i].n : i \in DOMAIN s}

\* Over any number of commands, chunks and deadlines the bytes come out once and in
\* the order they arrived, and none is missing but those that found the ring buffer
\* full or stood behind a NUL.
Fifo ==
  /\ \A i, j \in DOMAIN Stream : i < j => Stream[i].n < Stream[j].n
  /\ Numbers(Stream) \cup dropped \cup cut = 1..arrived
-----------------------------------------------------------------------------
(* Liveness                                                                *)

\* tb uart recv ends, also when nothing comes or when buf is full without a newline.
RecvEnds == pc = "loop" ~> pc = "idle"
=============================================================================
