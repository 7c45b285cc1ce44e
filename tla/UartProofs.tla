----------------------------- MODULE UartProofs -----------------------------
(* Output to the terminal never stalls and never overwrites a character in    *)
(* the data register, for any size of the ring and any strings.               *)
EXTENDS Uart, Arithmetic

(* The index after one of the ring is one of the ring. *)
LEMMA AfterInSlot == \A k \in Slot : After(k) \in Slot
  BY UartAssumption DEF Slot, After

(* The UART starts in the invariant. *)
LEMMA InitIInv == Init => IInv
  <1> SUFFICES ASSUME Init PROVE IInv
    OBVIOUS
  <1>1. 0 \in Slot /\ 1 \in Slot /\ After(0) = 1
    BY UartAssumption DEF Slot, After
  <1>2. TypeOK
    BY <1>1 DEF Init, TypeOK
  <1>3. BusyInv
    BY <1>1 DEF Init, BusyInv, IsEmpty
  <1>4. Filled
    BY DEF Init, Filled
  <1> QED BY <1>2, <1>3, <1>4 DEF IInv

(* The characters a step takes from the string or from the ring.              *)
LEMMA Characters ==
    ASSUME TypeOK
    PROVE  /\ string # << >> => Head(string) \in Char /\ Tail(string) \in Seq(Char)
           /\ out_queue[After(out_tail)] \in Char \cup {NUL}
           /\ After(out_tail) \in Slot
           /\ After(out_head) \in Slot
  BY AfterInSlot DEF TypeOK

(* Each step keeps the types. *)
LEMMA TypeStep == IInv /\ [Next]_vars => TypeOK'
  <1> SUFFICES ASSUME IInv, [Next]_vars PROVE TypeOK'
    OBVIOUS
  <1> USE DEF IInv, ring, device
  <1>1. CASE print
    BY <1>1, UartAssumption DEF print, TypeOK
  <1>2. CASE Kprint
    <2>1. Head(string) \in Char /\ Tail(string) \in Seq(Char) /\ After(out_head) \in Slot
      BY <1>2, Characters DEF Kprint
    <2>2. CASE xmit_busy
      BY <1>2, <2>1, <2>2 DEF Kprint, enqueue_uart_out, TypeOK
    <2>3. CASE ~xmit_busy
      BY <1>2, <2>1, <2>3 DEF Kprint, TypeOK
    <2> QED BY <2>2, <2>3
  <1>3. CASE UART0_IntHandler
    BY <1>3 DEF UART0_IntHandler, TypeOK
  <1>4. CASE NextChar
    <2>1. CASE IsEmpty
      BY <1>4, <2>1 DEF NextChar, TypeOK
    <2>2. CASE ~IsEmpty
      BY <1>4, <2>2, Characters DEF NextChar, dequeue_uart_out, TypeOK
    <2> QED BY <2>1, <2>2
  <1>5. CASE Shift
    BY <1>5 DEF Shift, TypeOK
  <1>6. CASE Transmit
    BY <1>6 DEF Transmit, TypeOK
  <1>7. CASE UNCHANGED vars
    BY <1>7 DEF vars, TypeOK
  <1> QED BY <1>1, <1>2, <1>3, <1>4, <1>5, <1>6, <1>7 DEF Next

(* The two operations on the ring keep what is in it written, and what is     *)
(* taken from it is a character.                                              *)
LEMMA RingStep ==
    ASSUME TypeOK, Filled
    PROVE  /\ \A ch \in Char : enqueue_uart_out(ch) => Filled'
           /\ ~IsEmpty /\ dequeue_uart_out => Filled' /\ DR' \in Char
           /\ UNCHANGED ring => Filled'
  <1>1. /\ UART_QUEUE_SZ \in Nat \ {0, 1} /\ NUL \notin Char
        /\ out_head \in Slot /\ out_tail \in Slot
        /\ out_queue \in [Slot -> Char \cup {NUL}]
    BY UartAssumption DEF TypeOK
  <1>2. ASSUME NEW k \in Slot
        PROVE  After(k) = IF k = UART_QUEUE_SZ - 1 THEN 0 ELSE k + 1
    BY <1>1 DEF Slot, After
  <1>3. ASSUME NEW ch \in Char, enqueue_uart_out(ch) PROVE Filled'
    <2>1. /\ out_queue' = [out_queue EXCEPT ![out_head] = ch]
          /\ out_head' = IF out_head = UART_QUEUE_SZ - 1 THEN 0 ELSE out_head + 1
          /\ out_tail' = out_tail
          /\ ch # NUL
      BY <1>1, <1>2, <1>3 DEF enqueue_uart_out
    <2>2. \A k \in Slot : out_queue'[k] = IF k = out_head THEN ch ELSE out_queue[k]
      BY <1>1, <2>1
    <2>3. CASE out_tail < out_head /\ \A k \in 1 .. out_head - 1 : out_queue[k] # NUL
      BY <1>1, <2>1, <2>2, <2>3 DEF Filled, Slot
    <2>4. CASE /\ out_head = 0
               /\ \A k \in 1 .. UART_QUEUE_SZ - 1 : out_queue[k] # NUL
      BY <1>1, <2>1, <2>2, <2>4 DEF Filled, Slot
    <2>5. CASE \A k \in Slot : out_queue[k] # NUL
      BY <1>1, <2>1, <2>2, <2>5 DEF Filled
    <2> QED BY <2>3, <2>4, <2>5 DEF Filled
  <1>4. ASSUME ~IsEmpty, dequeue_uart_out PROVE Filled' /\ DR' \in Char
    <2>1. /\ out_queue' = out_queue
          /\ out_head' = out_head
          /\ out_tail' = IF out_tail = UART_QUEUE_SZ - 1 THEN 0 ELSE out_tail + 1
          /\ out_tail' # out_head
          /\ DR' = out_queue[out_tail']
      BY <1>1, <1>2, <1>4 DEF dequeue_uart_out, IsEmpty
    <2>2. out_tail' \in Slot
      BY <1>1, <2>1 DEF Slot
    <2>3. Filled'
      BY <1>1, <2>1 DEF Filled, Slot
    <2>4. out_queue[out_tail'] # NUL
      BY <1>1, <2>1 DEF Filled, Slot
    <2> QED BY <1>1, <2>1, <2>2, <2>3, <2>4
  <1>5. ASSUME UNCHANGED ring PROVE Filled'
    BY <1>5 DEF ring, Filled
  <1> QED BY <1>3, <1>4, <1>5

(* xmit_busy and the ring through one step of Kprint, of the handler and of   *)
(* the UART.                                                                  *)
LEMMA BusyStep == IInv /\ [Next]_vars => BusyInv' /\ Filled'
  <1> SUFFICES ASSUME IInv, [Next]_vars PROVE BusyInv' /\ Filled'
    OBVIOUS
  <1> USE DEF IInv
  <1>1. CASE print
    BY <1>1, RingStep DEF print, BusyInv, IsEmpty, ring, device
  <1>2. CASE Kprint
    <2>1. Head(string) \in Char /\ Head(string) # NUL
      BY <1>2, Characters, UartAssumption DEF Kprint
    <2>2. CASE xmit_busy
      BY <1>2, <2>1, <2>2, RingStep DEF Kprint, enqueue_uart_out, BusyInv
    <2>3. CASE ~xmit_busy
      BY <1>2, <2>1, <2>3, RingStep DEF Kprint, BusyInv, IsEmpty, ring
    <2> QED BY <2>2, <2>3
  <1>3. CASE UART0_IntHandler
    BY <1>3, RingStep DEF UART0_IntHandler, BusyInv, IsEmpty, ring
  <1>4. CASE NextChar
    <2>1. CASE IsEmpty
      BY <1>4, <2>1, RingStep DEF NextChar, BusyInv, IsEmpty, ring
    <2>2. CASE ~IsEmpty
      BY <1>4, <2>2, RingStep, UartAssumption DEF NextChar, dequeue_uart_out, BusyInv
    <2> QED BY <2>1, <2>2
  <1>5. CASE Shift
    BY <1>5, RingStep DEF Shift, BusyInv, IsEmpty, ring
  <1>6. CASE Transmit
    BY <1>6, RingStep DEF Transmit, BusyInv, IsEmpty, ring
  <1>7. CASE UNCHANGED vars
    BY <1>7, RingStep DEF vars, BusyInv, IsEmpty, ring, device
  <1> QED BY <1>1, <1>2, <1>3, <1>4, <1>5, <1>6, <1>7 DEF Next

(* The inductive invariant holds of every reachable state.                    *)
THEOREM Invariance == Spec => []IInv
  <1>1. IInv /\ [Next]_vars => IInv'
    BY TypeStep, BusyStep DEF IInv
  <1> QED BY <1>1, InitIInv, PTL DEF Spec

(* The indices stay in the ring, and the registers hold characters.           *)
THEOREM Types == Spec => []TypeOK
  <1>1. IInv => TypeOK
    BY DEF IInv
  <1> QED BY <1>1, Invariance, PTL

(* Whenever a character waits in the ring, something is to come that sends it.*)
THEOREM NeverStalls == Spec => []NoStall
  <1>1. IInv => NoStall
    BY DEF IInv, BusyInv, NoStall
  <1> QED BY <1>1, Invariance, PTL

(* No character in the data register is overwritten before it has left.       *)
THEOREM NeverOverwrites == Spec => NoOverwrite
  <1>1. ASSUME IInv, [Next]_vars PROVE [DR # NUL => DR' \in {DR, NUL}]_vars
    <2> SUFFICES ASSUME DR # NUL PROVE DR' \in {DR, NUL}
      OBVIOUS
    <2>1. xmit_busy /\ ~handling
      BY <1>1 DEF IInv, BusyInv
    <2> QED BY <1>1, <2>1 DEF Next, print, Kprint, enqueue_uart_out, UART0_IntHandler,
                NextChar, Shift, Transmit, vars, ring, device
  <1> QED BY <1>1, Invariance, PTL DEF Spec, NoOverwrite

-----------------------------------------------------------------------------
(* The output as a stream of characters *)

(* The ring as the sequence of the characters that wait in it, and the two    *)
(* operations on it.                                                          *)
LEMMA WaitingIsUnseen ==
    ASSUME TypeOK
    PROVE  /\ Waiting = Unseen(UART_QUEUE_SZ, out_head, out_tail, out_queue)
           /\ Waiting \in Seq(Char \cup {NUL})
           /\ Waiting = << >> <=> IsEmpty
  <1>1. /\ UART_QUEUE_SZ \in Nat \ {0, 1}
        /\ out_head \in 0 .. UART_QUEUE_SZ - 1
        /\ out_tail \in 0 .. UART_QUEUE_SZ - 1
        /\ out_queue \in [0 .. UART_QUEUE_SZ - 1 -> Char \cup {NUL}]
    BY UartAssumption DEF TypeOK, Slot
  <1>2. Waiting = Unseen(UART_QUEUE_SZ, out_head, out_tail, out_queue)
    BY DEF Waiting, Unseen, Held, After
  <1>3. Waiting \in Seq(Char \cup {NUL})
    BY <1>1, <1>2, UnseenSeq
  <1>4. Waiting = << >> <=> IsEmpty
    BY <1>1, <1>2, UnseenLen DEF IsEmpty, After
  <1> QED BY <1>2, <1>3, <1>4

(* enqueue_uart_out appends to what waits in the ring, or, when it is full,   *)
(* empties it.                                                                *)
LEMMA EnqueueWaiting ==
    ASSUME TypeOK, NEW ch \in Char, enqueue_uart_out(ch)
    PROVE  Waiting' = IF Len(Waiting) < UART_QUEUE_SZ - 1
                      THEN Append(Waiting, ch) ELSE << >>
  <1> DEFINE N == UART_QUEUE_SZ
             h == out_head
             t == out_tail
             b == out_queue
             S == Char \cup {NUL}
  <1>1. /\ N \in Nat \ {0, 1} /\ h \in 0 .. N - 1 /\ t \in 0 .. N - 1
        /\ b \in [0 .. N - 1 -> S] /\ ch \in S
    BY UartAssumption DEF TypeOK, Slot
  <1>2. Waiting = Unseen(N, h, t, b)
    BY WaitingIsUnseen
  <1>3. Waiting' = Unseen(N, (h + 1) % N, t, [b EXCEPT ![h] = ch])
    BY DEF enqueue_uart_out, After, Waiting, Unseen, Held
  <1> HIDE DEF N, h, t, b, S
  <1>4. Unseen(N, (h + 1) % N, t, [b EXCEPT ![h] = ch]) =
            IF Len(Unseen(N, h, t, b)) < N - 1
            THEN Append(Unseen(N, h, t, b), ch) ELSE << >>
    BY <1>1, RingPut, Zenon
  <1> QED BY <1>2, <1>3, <1>4 DEF N

(* dequeue_uart_out takes what has waited longest. *)
LEMMA DequeueWaiting ==
    ASSUME TypeOK, ~IsEmpty, dequeue_uart_out
    PROVE  Waiting # << >> /\ DR' = Head(Waiting) /\ Waiting' = Tail(Waiting)
  <1> DEFINE N == UART_QUEUE_SZ
             h == out_head
             t == out_tail
             b == out_queue
             S == Char \cup {NUL}
  <1>1. /\ N \in Nat \ {0, 1} /\ h \in 0 .. N - 1 /\ t \in 0 .. N - 1
        /\ b \in [0 .. N - 1 -> S] /\ (t + 1) % N # h
    BY UartAssumption DEF TypeOK, Slot, IsEmpty, After
  <1>2. Waiting = Unseen(N, h, t, b)
    BY WaitingIsUnseen
  <1>3. /\ DR' = b[(t + 1) % N]
        /\ Waiting' = Unseen(N, h, (t + 1) % N, b)
    BY DEF dequeue_uart_out, After, Waiting, Unseen, Held
  <1> HIDE DEF N, h, t, b, S
  <1>4. /\ Unseen(N, h, t, b) # << >>
        /\ b[(t + 1) % N] = Head(Unseen(N, h, t, b))
        /\ Unseen(N, h, (t + 1) % N, b) = Tail(Unseen(N, h, t, b))
    BY <1>1, RingTake, Zenon
  <1> QED BY <1>2, <1>3, <1>4

(* What is printed, one step at a time. *)
LEMMA StreamStep ==
    ASSUME IInv, [Next]_vars
    PROVE  [Out!Next]_Pending
  <1> DEFINE S == Char \cup {NUL}
  <1>1. /\ TypeOK /\ BusyInv /\ NUL \notin Char
        /\ UART_QUEUE_SZ \in Nat \ {0, 1}
        /\ Waiting \in Seq(S) /\ (Waiting = << >> <=> IsEmpty)
        /\ DR \in S /\ shifting \in S
    BY UartAssumption, WaitingIsUnseen DEF IInv, TypeOK
  <1>2. /\ Holding(shifting) \in Seq(S) /\ Holding(DR) \in Seq(S)
        /\ Pending \in Seq(S)
    <2>1. ASSUME NEW ch \in S PROVE Holding(ch) \in Seq(S)
      <3>1. << >> \in Seq(S) /\ <<ch>> \in Seq(S)
        OBVIOUS
      <3> QED BY <3>1 DEF Holding
    <2> QED BY <1>1, <2>1 DEF Pending
  <1>3. ASSUME NEW ch \in Char, Pending' = Append(Pending, ch)
        PROVE  [Out!Next]_Pending
    BY <1>3 DEF Out!Next, Out!Put
  <1>4. ASSUME UNCHANGED <<ring, device>> PROVE [Out!Next]_Pending
    BY <1>4 DEF Pending, Waiting, ring, device, After
  <1>5. CASE print \/ UART0_IntHandler \/ UNCHANGED vars
    <2>1. UNCHANGED <<out_queue, out_head, out_tail, DR, shifting>>
      BY <1>5 DEF print, UART0_IntHandler, vars, ring, device
    <2> QED BY <2>1 DEF Pending, Waiting, After
  <1>6. CASE Kprint /\ xmit_busy
    <2> DEFINE ch == Head(string)
               on == Holding(shifting) \o Holding(DR)
    <2>1. ch \in Char
      BY <1>1, <1>6, Characters DEF Kprint
    <2> HIDE DEF ch
    <2>2. enqueue_uart_out(ch) /\ UNCHANGED <<DR, shifting>>
      BY <1>6 DEF Kprint, ch
    <2>3. Waiting' = IF Len(Waiting) < UART_QUEUE_SZ - 1
                     THEN Append(Waiting, ch) ELSE << >>
      BY <1>1, <2>1, <2>2, EnqueueWaiting
    <2>4. on \in Seq(S) /\ on' = on /\ Pending = on \o Waiting /\ Pending' = on \o Waiting'
      BY <1>2, <2>2 DEF Pending, Holding
    <2> HIDE DEF on
    <2>5. CASE Len(Waiting) < UART_QUEUE_SZ - 1
      <3>1. Pending' = Append(Pending, ch)
        BY <1>1, <2>1, <2>3, <2>4, <2>5
      <3> QED BY <1>3, <2>1, <3>1
    <2>6. CASE ~(Len(Waiting) < UART_QUEUE_SZ - 1)
      <3>1. /\ Len(Pending) = Len(on) + Len(Waiting) /\ Len(on) \in Nat
            /\ Len(Waiting) \in Nat
        BY <1>1, <2>4
      <3>2. Pending' = on
        BY <2>3, <2>4, <2>6
      <3>3. SubSeq(Pending, 1, Len(on)) = on
        BY <1>1, <2>4, <3>1
      <3>4. Len(on) \in 0 .. Len(Pending) - (UART_QUEUE_SZ - 1)
            /\ Len(Pending) >= UART_QUEUE_SZ - 1
        BY <1>1, <2>6, <3>1
      <3> QED BY <3>2, <3>3, <3>4 DEF Out!Next, Out!Overrun
    <2> QED BY <2>5, <2>6
  <1>7. CASE Kprint /\ ~xmit_busy
    <2>1. /\ DR = NUL /\ Waiting = << >> /\ DR' = Head(string)
          /\ UNCHANGED <<ring, shifting>> /\ Head(string) \in Char
      BY <1>1, <1>7, Characters DEF Kprint, BusyInv
    <2>2. Waiting' = << >>
      BY <2>1 DEF Waiting, ring, After
    <2>3. Pending = Holding(shifting)
      BY <1>2, <2>1 DEF Pending, Holding
    <2>4. Pending' = Append(Holding(shifting), Head(string))
      BY <1>1, <1>2, <2>1, <2>2 DEF Pending, Holding
    <2> QED BY <1>3, <2>1, <2>3, <2>4
  <1>8. CASE NextChar
    <2>1. CASE IsEmpty
      BY <1>4, <1>8, <2>1 DEF NextChar, Pending, Waiting, ring, After
    <2>2. CASE ~IsEmpty
      <3>1. dequeue_uart_out /\ shifting' = shifting /\ DR = NUL
        BY <1>1, <1>8, <2>2 DEF NextChar, BusyInv
      <3>2. Waiting # << >> /\ DR' = Head(Waiting) /\ Waiting' = Tail(Waiting)
        BY <1>1, <2>2, <3>1, DequeueWaiting
      <3>3. DR' # NUL
        BY <1>1, <2>2, <3>1, RingStep DEF IInv
      <3>4. Pending = Holding(shifting) \o Waiting
        BY <1>1, <1>2, <3>1 DEF Pending, Holding
      <3>5. Pending' = Holding(shifting) \o <<Head(Waiting)>> \o Tail(Waiting)
        BY <3>1, <3>2, <3>3 DEF Pending, Holding
      <3>6. Pending' = Pending
        BY SMTT(30), <1>1, <1>2, <3>2, <3>4, <3>5
      <3> QED BY <3>6
    <2> QED BY <2>1, <2>2
  <1>9. CASE Shift
    <2>1. /\ DR # NUL /\ shifting = NUL /\ shifting' = DR /\ DR' = NUL
          /\ Waiting' = Waiting
      BY <1>9 DEF Shift, ring, Waiting, After
    <2>2. Pending' = Pending
      BY <1>1, <2>1 DEF Pending, Holding
    <2> QED BY <2>2
  <1>10. CASE Transmit
    <2>1. /\ shifting # NUL /\ shifting' = NUL /\ DR' = DR /\ Waiting' = Waiting
      BY <1>10 DEF Transmit, ring, Waiting, After
    <2>2. Pending # << >> /\ Pending' = Tail(Pending)
      BY <1>1, <1>2, <2>1 DEF Pending, Holding
    <2> QED BY <2>2 DEF Out!Next, Out!ComeOut
  <1> QED BY <1>5, <1>6, <1>7, <1>8, <1>9, <1>10 DEF Next

(* What processes print comes out in order, each character once, up to the    *)
(* overruns of the ring, for any size of it and any strings (Kprint,          *)
(* UART0_IntHandler, enqueue_uart_out and dequeue_uart_out).                  *)
THEOREM ComesOutInOrder == Spec => Out!Safety
  <1>1. Init => Out!Init
    <2> SUFFICES ASSUME Init PROVE Pending = << >>
      BY DEF Out!Init
    <2>1. TypeOK /\ IsEmpty
      BY InitIInv, UartAssumption DEF IInv, Init, IsEmpty, After
    <2>2. Waiting = << >>
      BY <2>1, WaitingIsUnseen
    <2> QED BY <2>2 DEF Init, Pending, Holding
  <1>2. IInv /\ [Next]_vars => [Out!Next]_Pending
    BY StreamStep
  <1> QED BY <1>1, <1>2, Invariance, PTL DEF Spec, Out!Safety
=============================================================================
