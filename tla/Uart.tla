-------------------------------- MODULE Uart --------------------------------
(* Output to the terminal: the print call, the ring of characters, the UART   *)
(* with its transmit interrupt, and UART0_IntHandler.                         *)
(*                                                                            *)
(* SVC and UART0 have the same priority, so neither the handler nor another   *)
(* print call comes between two steps of Kprint, nor Kprint between two of    *)
(* the handler; but the UART moves on by itself all the time.                 *)
EXTENDS Naturals, SequencesExt

CONSTANTS
    UART_QUEUE_SZ,  \* slots of out_queue
    Char,           \* the characters of a string
    NUL,            \* no character
    Strings         \* the strings the processes print

ASSUME UartAssumption ==
    /\ UART_QUEUE_SZ \in Nat \ {0, 1}
    /\ NUL \notin Char
    /\ Strings \subseteq Seq(Char)

VARIABLES
    out_queue, out_head, out_tail,   \* the ring of UART.c
    xmit_busy,
    string,     \* the rest of Kprint's outstring; << >> outside Kprint
    handling,   \* UART0_IntHandler has cleared the interrupt
    DR,         \* the character written to UART0_DR_R, NUL when it has left
    shifting,   \* the character on the line
    TXMIS       \* the transmit interrupt is pending

ring   == <<out_queue, out_head, out_tail>>
device == <<DR, shifting, TXMIS>>
vars   == <<ring, xmit_busy, string, handling, device>>

Slot == 0 .. UART_QUEUE_SZ - 1

TypeOK ==
    /\ out_queue \in [Slot -> Char \cup {NUL}]
    /\ out_head \in Slot
    /\ out_tail \in Slot
    /\ xmit_busy \in BOOLEAN
    /\ string \in Seq(Char)
    /\ handling \in BOOLEAN
    /\ DR \in Char \cup {NUL}
    /\ shifting \in Char \cup {NUL}
    /\ TXMIS \in BOOLEAN

Init ==
    /\ out_queue = [k \in Slot |-> NUL]
    /\ out_head = 1
    /\ out_tail = 0
    /\ xmit_busy = FALSE
    /\ string = << >>
    /\ handling = FALSE
    /\ DR = NUL
    /\ shifting = NUL
    /\ TXMIS = FALSE

-----------------------------------------------------------------------------
(* The ring: out_head is the next slot to write, out_tail the one read last.  *)

After(k) == (k + 1) % UART_QUEUE_SZ

IsEmpty == After(out_tail) = out_head

(* Mutant: the character before the oldest one. *)
DequeueLate ==
    /\ DR' = out_queue[out_tail]
    /\ out_tail' = After(out_tail)
    /\ UNCHANGED <<out_queue, out_head>>

(* dequeue_uart_out on a ring that is not empty, into the data register. *)
dequeue_uart_out ==
    /\ DR' = out_queue[After(out_tail)]
    /\ out_tail' = After(out_tail)
    /\ UNCHANGED <<out_queue, out_head>>

(* Mutant: the head is not wrapped. *)
EnqueueWithoutWrap(ch) ==
    /\ out_queue' = [out_queue EXCEPT ![out_head] = ch]
    /\ out_head' = out_head + 1
    /\ UNCHANGED out_tail

(* There is no test for a full ring. *)
enqueue_uart_out(ch) ==
    /\ out_queue' = [out_queue EXCEPT ![out_head] = ch]
    /\ out_head' = After(out_head)
    /\ UNCHANGED out_tail

-----------------------------------------------------------------------------
(* A process, which executes only when no interrupt is pending, calls         *)
(* print().  The 16 ticks it then waits "to let uart catch up" are no more    *)
(* than a time in which the UART may move on.                                 *)
print ==
    /\ string = << >>
    /\ ~handling
    /\ ~TXMIS
    /\ string' \in Strings
    /\ UNCHANGED <<ring, xmit_busy, handling, device>>

(* Mutant: xmit_busy is not set. *)
KprintNotBusy ==
    /\ string # << >>
    /\ IF xmit_busy
       THEN enqueue_uart_out(Head(string)) /\ UNCHANGED DR
       ELSE DR' = Head(string) /\ UNCHANGED ring
    /\ string' = Tail(string)
    /\ UNCHANGED <<xmit_busy, handling, shifting, TXMIS>>

(* One turn of Kprint's loop. *)
Kprint ==
    /\ string # << >>
    /\ IF xmit_busy
       THEN enqueue_uart_out(Head(string)) /\ UNCHANGED <<xmit_busy, DR>>
       ELSE DR' = Head(string) /\ xmit_busy' = TRUE /\ UNCHANGED ring
    /\ string' = Tail(string)
    /\ UNCHANGED <<handling, shifting, TXMIS>>

(* UART0_IntHandler: the interrupt is cleared before the next character is    *)
(* written, so that the one this character causes is not lost.                *)
UART0_IntHandler ==
    /\ string = << >>
    /\ ~handling
    /\ TXMIS
    /\ TXMIS' = FALSE
    /\ handling' = TRUE
    /\ UNCHANGED <<ring, xmit_busy, string, DR, shifting>>

(* Mutant: xmit_busy stays set when the ring is empty. *)
NextCharStaysBusy ==
    /\ handling
    /\ IF IsEmpty THEN UNCHANGED <<ring, DR, xmit_busy>>
                  ELSE dequeue_uart_out /\ UNCHANGED xmit_busy
    /\ handling' = FALSE
    /\ UNCHANGED <<string, shifting, TXMIS>>

(* The rest of UART0_IntHandler. *)
NextChar ==
    /\ handling
    /\ IF IsEmpty THEN xmit_busy' = FALSE /\ UNCHANGED <<ring, DR>>
                  ELSE dequeue_uart_out /\ UNCHANGED xmit_busy
    /\ handling' = FALSE
    /\ UNCHANGED <<string, shifting, TXMIS>>

-----------------------------------------------------------------------------
(* The UART without its FIFOs, as UART0_Init sets it up: the data register is *)
(* one character deep, and the transmit interrupt is raised when the          *)
(* character leaves it for the line.                                          *)
Shift ==
    /\ DR # NUL
    /\ shifting = NUL
    /\ shifting' = DR
    /\ DR' = NUL
    /\ TXMIS' = TRUE
    /\ UNCHANGED <<ring, xmit_busy, string, handling>>

Transmit ==
    /\ shifting # NUL
    /\ shifting' = NUL
    /\ UNCHANGED <<ring, xmit_busy, string, handling, DR, TXMIS>>

Next == print \/ Kprint \/ UART0_IntHandler \/ NextChar \/ Shift \/ Transmit

Spec == Init /\ [][Next]_vars

(* What has begun goes on, a pending interrupt is taken, and the UART         *)
(* transmits.  Nothing is assumed of the processes.                           *)
Fairness == /\ WF_vars(Kprint) /\ WF_vars(UART0_IntHandler) /\ WF_vars(NextChar)
            /\ WF_vars(Shift) /\ WF_vars(Transmit)

FairSpec == Spec /\ Fairness

-----------------------------------------------------------------------------
(* No character is left in the ring with nothing to come that would send it:  *)
(* whenever something waits, a character is on its way to the line, or the    *)
(* interrupt is pending or being handled (Kprint's test of xmit_busy).        *)
NoStall ==
    ~IsEmpty => xmit_busy /\ (DR # NUL \/ TXMIS \/ handling)

(* Neither Kprint nor the handler writes to the data register while the       *)
(* character in it has not left.                                              *)
NoOverwrite == [][DR # NUL => DR' \in {DR, NUL}]_vars

(* The characters in the ring, oldest first. *)
Waiting ==
    [k \in 1 .. (out_head + UART_QUEUE_SZ - After(out_tail)) % UART_QUEUE_SZ |->
        out_queue[(out_tail + k) % UART_QUEUE_SZ]]

Holding(ch) == IF ch = NUL THEN << >> ELSE <<ch>>

(* What has been printed and is not out: on the line, in the data register    *)
(* and in the ring.                                                           *)
Pending == Holding(shifting) \o Holding(DR) \o Waiting

Out == INSTANCE Stream WITH text <- Pending, Capacity <- UART_QUEUE_SZ - 1

(* What processes print comes out as Stream says.                             *)
Prints == Out!Spec

(* The inductive invariant behind NoStall and NoOverwrite: xmit_busy is set   *)
(* exactly while a character is in the data register or the interrupt it      *)
(* raises has not been handled to the end.                                    *)
BusyInv ==
    /\ xmit_busy <=> (DR # NUL \/ TXMIS \/ handling)
    /\ DR # NUL => ~TXMIS /\ ~handling
    /\ handling => string = << >> /\ ~TXMIS
    /\ ~IsEmpty => xmit_busy

(* A slot that is read has been written: out_head passes each slot first.     *)
Filled ==
    \/ /\ out_tail < out_head
       /\ \A k \in 1 .. out_head - 1 : out_queue[k] # NUL
    \/ /\ out_head = 0
       /\ \A k \in 1 .. UART_QUEUE_SZ - 1 : out_queue[k] # NUL
    \/ \A k \in Slot : out_queue[k] # NUL

IInv == TypeOK /\ BusyInv /\ Filled
=============================================================================
