---------------------------- MODULE KernelProofs ----------------------------
(* The kernel's safety for any number of processes, priorities, sockets and   *)
(* packets and any sequence of calls, as long as no process that receives     *)
(* changes its priority (NicersDoNotReceive).  Only train_control_init calls  *)
(* nice() in this program, and it does not receive.                           *)
EXTENDS Kernel, Arithmetic

-----------------------------------------------------------------------------
(* What the list operations of kernel.c do to the waiting-to-run queues.     *)

(* enqueue_pcb adds a process at the end of a queue and keeps every ring of   *)
(* links closed.                                                              *)
LEMMA EnqueueKeepsWellFormed ==
    ASSUME NEW q \in Links, NEW p \in Proc, NEW i \in Pri,
           WellFormed(q), ~Queued(q, p)
    PROVE  /\ enqueue_pcb(q, p, i) \in Links
           /\ WellFormed(enqueue_pcb(q, p, i))
           /\ \A x \in Proc, j \in Pri :
                StandsIn(enqueue_pcb(q, p, i), x, j) <=>
                    StandsIn(q, x, j) \/ (x = p /\ j = i)
  <1> DEFINE r == enqueue_pcb(q, p, i)
             s == q.order[i]
             n == Len(s)
             w == q.wtr[i]
             last == IF w = NULL THEN p ELSE q.prev[w]
             head == IF w = NULL THEN p ELSE w
  <1>1. /\ q.wtr \in [Pri -> Proc \cup {NULL}]
        /\ q.next \in [Proc -> Proc \cup {NULL}]
        /\ q.prev \in [Proc -> Proc \cup {NULL}]
        /\ q.order \in [Pri -> Seq(Proc)]
        /\ s \in Seq(Proc) /\ n \in Nat
        /\ NULL \notin Proc
    BY ReadyQueueAssumption DEF Links
  <1>2. /\ r.wtr = [q.wtr EXCEPT ![i] = head]
        /\ r.next = [[q.next EXCEPT ![last] = p] EXCEPT ![p] = head]
        /\ r.prev = [[q.prev EXCEPT ![p] = last] EXCEPT ![head] = p]
        /\ r.order = [q.order EXCEPT ![i] = Append(s, p)]
        /\ r = [wtr |-> r.wtr, next |-> r.next, prev |-> r.prev,
                order |-> r.order]
    BY DEF enqueue_pcb
  <1>3. /\ Append(s, p) \in Seq(Proc) /\ Len(Append(s, p)) = n + 1
        /\ \A k \in 1 .. n : Append(s, p)[k] = s[k]
        /\ Append(s, p)[n + 1] = p
    BY <1>1
  <1>4. \A j \in Pri : \A k \in 1 .. Len(q.order[j]) : 
           q.order[j][k] \in Proc /\ q.order[j][k] # p
    BY <1>1 DEF Queued, StandsIn
  <1>5. /\ n = 0 => last = p /\ head = p
        /\ n # 0 => last = s[n] /\ head = s[1] /\ last \in Proc /\ head \in Proc
    <2>1. CASE n = 0
      BY <1>1, <2>1 DEF WellFormed, RingOf
    <2>2. CASE n # 0
      <3>1. w = s[1] /\ w \in Proc /\ n \in 1 .. n /\ 1 \in 1 .. n
        BY <1>1, <1>4, <2>2 DEF WellFormed, RingOf
      <3>2. q.prev[s[1]] = s[n]
        BY <3>1, <1>1 DEF WellFormed, RingOf, Succ
      <3> QED BY <1>1, <1>4, <3>1, <3>2, <2>2
    <2> QED BY <2>1, <2>2
  <1> HIDE DEF r, s, n, w, last, head
  <1>6. last \in Proc /\ head \in Proc
    BY <1>5, <1>1
  <1>7. /\ r.next \in [Proc -> Proc \cup {NULL}]
        /\ \A x \in Proc : r.next[x] = IF x = p THEN head
                                     ELSE IF x = last THEN p ELSE q.next[x]
    <2> DEFINE f == [q.next EXCEPT ![last] = p]
    <2>1. /\ f \in [Proc -> Proc \cup {NULL}]
          /\ \A x \in Proc : f[x] = IF x = last THEN p ELSE q.next[x]
      BY <1>1, <1>6
    <2>2. r.next = [f EXCEPT ![p] = head]
      BY <1>2
    <2> HIDE DEF f
    <2> QED BY <2>1, <2>2, <1>6
  <1>8. /\ r.prev \in [Proc -> Proc \cup {NULL}]
        /\ \A x \in Proc : r.prev[x] = IF x = head THEN p
                                     ELSE IF x = p THEN last ELSE q.prev[x]
    <2> DEFINE f == [q.prev EXCEPT ![p] = last]
    <2>1. /\ f \in [Proc -> Proc \cup {NULL}]
          /\ \A x \in Proc : f[x] = IF x = p THEN last ELSE q.prev[x]
      BY <1>1, <1>6
    <2>2. r.prev = [f EXCEPT ![head] = p]
      BY <1>2
    <2> HIDE DEF f
    <2> QED BY <2>1, <2>2, <1>6
  <1>9. r \in Links
    <2>1. r.wtr \in [Pri -> Proc \cup {NULL}]
      BY <1>1, <1>2, <1>6
    <2>2. r.order \in [Pri -> Seq(Proc)]
      BY <1>1, <1>2, <1>3
    <2> QED BY <1>2, <1>7, <1>8, <2>1, <2>2 DEF Links
  <1>10. NoDuplicates(r)
    <2> SUFFICES ASSUME NEW j1 \in Pri, NEW j2 \in Pri,
                        NEW k \in 1 .. Len(r.order[j1]),
                        NEW l \in 1 .. Len(r.order[j2]),
                        r.order[j1][k] = r.order[j2][l]
                 PROVE  j1 = j2 /\ k = l
      BY DEF NoDuplicates
    <2>1. NoDuplicates(q)
      BY DEF WellFormed
    <2>2. ASSUME NEW j \in Pri, NEW m \in 1 .. Len(r.order[j])
          PROVE  \/ m \in 1 .. Len(q.order[j]) /\ r.order[j][m] = q.order[j][m]
                 \/ j = i /\ m = n + 1 /\ r.order[j][m] = p
      BY <1>1, <1>2, <1>3 DEF s, n
    <2>3. CASE k \in 1 .. Len(q.order[j1]) /\ r.order[j1][k] = q.order[j1][k]
      <3>1. r.order[j1][k] # p
        BY <2>3, <1>4
      <3>2. l \in 1 .. Len(q.order[j2]) /\ r.order[j2][l] = q.order[j2][l]
        BY <3>1, <2>2
      <3>3. q.order[j1][k] = q.order[j2][l]
        BY <2>3, <3>2
      <3> QED BY <2>1, <2>3, <3>2, <3>3 DEF NoDuplicates
    <2>4. CASE j1 = i /\ k = n + 1 /\ r.order[j1][k] = p
      <3>1. ~(l \in 1 .. Len(q.order[j2]) /\ r.order[j2][l] = q.order[j2][l])
        BY <2>4, <1>4
      <3> QED BY <2>2, <2>4, <3>1
    <2> QED BY <2>2, <2>3, <2>4
  <1>11. ASSUME NEW j \in Pri, j # i PROVE RingOf(r, j)
    <2>1. r.order[j] = q.order[j] /\ r.wtr[j] = q.wtr[j] /\ RingOf(q, j)
      BY <1>1, <1>2, <1>11 DEF WellFormed
    <2>2. ASSUME NEW k \in 1 .. Len(q.order[j])
          PROVE  q.order[j][k] # last /\ q.order[j][k] # head /\ q.order[j][k] # p
      <3>1. n = 0 \/ (n # 0 /\ n \in 1 .. n /\ 1 \in 1 .. n)
        BY <1>1
      <3> QED BY <3>1, <1>4, <1>5, <1>11, <2>2 DEF s, n, WellFormed, NoDuplicates
    <2>3. ASSUME NEW k \in 1 .. Len(q.order[j])
          PROVE  Succ(q.order[j], k) \in 1 .. Len(q.order[j])
      BY <1>1 DEF Succ
    <2>4. ASSUME NEW k \in 1 .. Len(q.order[j])
          PROVE  /\ r.next[q.order[j][k]] = q.next[q.order[j][k]]
                 /\ r.prev[q.order[j][k]] = q.prev[q.order[j][k]]
      BY <1>7, <1>8, <1>4, <2>2
    <2>5. /\ r.wtr[j] = IF q.order[j] = << >> THEN NULL ELSE q.order[j][1]
          /\ \A k \in 1 .. Len(q.order[j]) :
                /\ q.next[q.order[j][k]] = q.order[j][Succ(q.order[j], k)]
                /\ q.prev[q.order[j][Succ(q.order[j], k)]] = q.order[j][k]
      BY <2>1 DEF RingOf
    <2>6. ASSUME NEW k \in 1 .. Len(q.order[j])
          PROVE  /\ r.next[q.order[j][k]] = q.order[j][Succ(q.order[j], k)]
                 /\ r.prev[q.order[j][Succ(q.order[j], k)]] = q.order[j][k]
      BY <2>3, <2>4, <2>5
    <2> QED BY <2>1, <2>5, <2>6 DEF RingOf
  <1>12. RingOf(r, i)
    <2> DEFINE t == r.order[i]
    <2>1. t = Append(s, p) /\ t # << >>
      BY <1>1, <1>2, <1>3
    <2>2. r.wtr[i] = head
      BY <1>1, <1>2
    <2>3. head = t[1]
      BY <1>1, <1>3, <1>5, <2>1
    <2>4. ASSUME NEW k \in 1 .. Len(t)
          PROVE  r.next[t[k]] = t[Succ(t, k)] /\ r.prev[t[Succ(t, k)]] = t[k]
      <3>1. CASE k = n + 1
        <4>1. t[k] = p /\ Succ(t, k) = 1 /\ t[1] = head
          BY <3>1, <1>1, <1>3, <2>1, <2>3 DEF Succ
        <4> QED BY <4>1, <1>7, <1>8, <1>6
      <3>2. CASE k = n
        <4>1. n # 0 /\ n \in 1 .. n /\ 1 \in 1 .. n
          BY <3>2, <2>4, <1>1
        <4>2. t[k] = s[n] /\ t[Succ(t, k)] = p
          BY <3>2, <1>1, <1>3, <2>1, <4>1 DEF Succ
        <4>3. last = s[n] /\ head = s[1] /\ last # p /\ head # p
          BY <4>1, <1>1, <1>4, <1>5 DEF s, n
        <4> QED BY <4>2, <4>3, <1>7, <1>8, <1>6
      <3>3. CASE k < n
        <4>1. s[k] \in Proc /\ s[k] # last /\ s[k] # p
          BY <3>3, <1>1, <1>4, <1>5, <2>4 DEF s, n, WellFormed, NoDuplicates
        <4>2. s[k+1] \in Proc /\ s[k+1] # head /\ s[k+1] # p
          BY <3>3, <1>1, <1>4, <1>5, <2>4 DEF s, n, WellFormed, NoDuplicates
        <4>3. q.next[s[k]] = s[k+1] /\ q.prev[s[k+1]] = s[k]
          BY <3>3, <1>1, <2>4 DEF s, n, WellFormed, RingOf, Succ
        <4>4. t[k] = s[k] /\ t[Succ(t, k)] = s[k+1]
          BY <3>3, <1>1, <1>3, <2>1, <2>4 DEF Succ
        <4>5. r.next[s[k]] = s[k+1]
          BY <1>7, <4>1, <4>3
        <4>6. r.prev[s[k+1]] = s[k]
          BY <1>8, <4>2, <4>3
        <4> HIDE DEF t
        <4> QED BY <4>4, <4>5, <4>6
      <3>4. Len(t) = n + 1
        BY <1>3, <2>1
      <3> HIDE DEF t
      <3> QED BY <1>1, <2>4, <3>1, <3>2, <3>3, <3>4
    <2> QED BY <2>1, <2>2, <2>3, <2>4 DEF RingOf
  <1>13. ASSUME NEW x \in Proc, NEW j \in Pri
         PROVE  StandsIn(r, x, j) <=> StandsIn(q, x, j) \/ (x = p /\ j = i)
    <2>1. CASE j = i
      <3>1. r.order[j] = Append(s, p) /\ Len(r.order[j]) = n + 1 /\ s = q.order[j]
        BY <1>1, <1>2, <1>3, <2>1 DEF s
      <3>2. ASSUME NEW k \in 1 .. n + 1, r.order[j][k] = x
            PROVE  StandsIn(q, x, j) \/ x = p
        BY <1>1, <1>3, <3>1, <3>2 DEF StandsIn, n
      <3>3. ASSUME NEW k \in 1 .. n, s[k] = x
            PROVE  k \in 1 .. n + 1 /\ r.order[j][k] = x
        BY <1>1, <1>3, <3>1, <3>3
      <3>4. n + 1 \in 1 .. n + 1 /\ r.order[j][n + 1] = p
        BY <1>1, <1>3, <3>1
      <3> QED BY <2>1, <3>1, <3>2, <3>3, <3>4 DEF StandsIn, n
    <2>2. CASE j # i
      <3>1. r.order[j] = q.order[j]
        BY <1>1, <1>2, <2>2
      <3> QED BY <2>2, <3>1 DEF StandsIn
    <2> QED BY <2>1, <2>2
  <1> QED BY <1>9, <1>10, <1>11, <1>12, <1>13 DEF WellFormed, r

(* Removing the last process of a queue, which is where the running process   *)
(* stands, keeps the lists; get_new_proc's rotation below keeps them too.     *)
LEMMA DequeueKeepsWellFormed ==
    ASSUME NEW q \in Links, NEW i \in Pri, WellFormed(q), q.order[i] # << >>
    PROVE  LET p == q.order[i][Len(q.order[i])] IN
           /\ dequeue_pcb(q, p, i) \in Links
           /\ WellFormed(dequeue_pcb(q, p, i))
           /\ \A x \in Proc, j \in Pri :
                StandsIn(dequeue_pcb(q, p, i), x, j) <=>
                    StandsIn(q, x, j) /\ x # p
  <1> DEFINE s == q.order[i]
             n == Len(s)
             p == s[n]
             r == dequeue_pcb(q, p, i)
             t == SubSeq(s, 1, n - 1)
  <1>1. /\ q.wtr \in [Pri -> Proc \cup {NULL}]
        /\ q.next \in [Proc -> Proc \cup {NULL}]
        /\ q.prev \in [Proc -> Proc \cup {NULL}]
        /\ q.order \in [Pri -> Seq(Proc)]
        /\ s \in Seq(Proc) /\ n \in Nat \ {0}
        /\ NULL \notin Proc
    BY ReadyQueueAssumption DEF Links
  <1>2. /\ r.wtr = IF q.next[p] = p THEN [q.wtr EXCEPT ![i] = NULL] ELSE q.wtr
        /\ r.next = IF q.next[p] = p THEN q.next
                    ELSE [q.next EXCEPT ![q.prev[p]] = q.next[p]]
        /\ r.prev = IF q.next[p] = p THEN q.prev
                    ELSE [q.prev EXCEPT ![q.next[p]] = q.prev[p]]
        /\ r.order = [q.order EXCEPT ![i] = t]
        /\ r = [wtr |-> r.wtr, next |-> r.next, prev |-> r.prev,
                order |-> r.order]
    BY DEF dequeue_pcb
  <1>3. /\ t \in Seq(Proc) /\ Len(t) = n - 1
        /\ \A k \in 1 .. n - 1 : t[k] = s[k]
    BY <1>1
  <1>4. /\ n \in 1 .. n /\ 1 \in 1 .. n /\ (n > 1 => n - 1 \in 1 .. n)
        /\ p \in Proc /\ s[1] \in Proc /\ (n > 1 => s[n - 1] \in Proc)
        /\ (n = 1 \/ n > 1)
    <2>1. n \in Nat \ {0} /\ \A k \in 1 .. n : s[k] \in Proc
      BY <1>1
    <2> HIDE DEF n
    <2>2. n \in 1 .. n /\ 1 \in 1 .. n /\ (n > 1 => n - 1 \in 1 .. n)
      BY <2>1
    <2>3. n = 1 \/ n > 1
      BY <2>1
    <2> QED BY <2>1, <2>2, <2>3
  <1>5. /\ \A j \in Pri : \A k \in 1 .. Len(q.order[j]) : q.order[j][k] \in Proc
        /\ \A j \in Pri : Len(q.order[j]) \in Nat
    BY <1>1
  <1>6. /\ q.wtr[i] = s[1]
        /\ q.next[p] = s[1]
        /\ n > 1 => q.prev[p] = s[n - 1] /\ s[1] # p
        /\ q.next[p] = p <=> n = 1
    <2>1. q.wtr[i] = s[1] /\ q.next[p] = s[1]
      BY <1>1, <1>4 DEF WellFormed, RingOf, Succ
    <2>2. s[1] = s[n] => n = 1
      <3>1. NoDuplicates(q)
        BY DEF WellFormed
      <3> QED BY <1>4, <3>1 DEF NoDuplicates
    <2>3. n > 1 => q.prev[s[n]] = s[n - 1]
      <3> SUFFICES ASSUME n > 1 PROVE q.prev[s[n]] = s[n - 1]
        OBVIOUS
      <3>1. Succ(s, n - 1) = n
        BY <1>1 DEF Succ
      <3>2. q.prev[s[Succ(s, n - 1)]] = s[n - 1]
        BY <1>4 DEF WellFormed, RingOf
      <3> QED BY <3>1, <3>2
    <2> QED BY <1>1, <2>1, <2>2, <2>3
  <1>7. NoDuplicates(q)
    BY DEF WellFormed
  <1> HIDE DEF r, t
  <1>8. \A j \in Pri : \A k \in 1 .. Len(r.order[j]) :
            /\ k \in 1 .. Len(q.order[j])
            /\ r.order[j][k] = q.order[j][k]
            /\ r.order[j][k] # p
    <2> SUFFICES ASSUME NEW j \in Pri, NEW k \in 1 .. Len(r.order[j])
                 PROVE  /\ k \in 1 .. Len(q.order[j])
                        /\ r.order[j][k] = q.order[j][k]
                        /\ r.order[j][k] # p
      OBVIOUS
    <2>1. CASE j = i
      <3>1. r.order[j] = t
        BY <1>1, <1>2, <2>1
      <3>2. k \in 1 .. n /\ k # n /\ r.order[j][k] = s[k]
        BY <1>1, <1>3, <3>1
      <3> QED BY <1>4, <1>7, <2>1, <3>2 DEF NoDuplicates
    <2>2. CASE j # i
      <3>1. r.order[j] = q.order[j]
        BY <1>1, <1>2, <2>2
      <3> QED BY <1>4, <1>7, <2>2, <3>1 DEF NoDuplicates
    <2> QED BY <2>1, <2>2
  <1>9. r \in Links
    <2>1. r.wtr \in [Pri -> Proc \cup {NULL}]
      <3>1. r.wtr = q.wtr \/ r.wtr = [q.wtr EXCEPT ![i] = NULL]
        BY <1>2
      <3>2. q.wtr \in [Pri -> Proc \cup {NULL}]
        BY <1>1
      <3> QED BY <3>1, <3>2
    <2>2. r.next \in [Proc -> Proc \cup {NULL}]
      <3>1. r.next = q.next \/ r.next = [q.next EXCEPT ![q.prev[p]] = s[1]]
        BY <1>2, <1>6
      <3>2. q.next \in [Proc -> Proc \cup {NULL}] /\ s[1] \in Proc
        BY <1>1, <1>4
      <3> QED BY <3>1, <3>2
    <2>3. r.prev \in [Proc -> Proc \cup {NULL}]
      <3>1. r.prev = q.prev \/ r.prev = [q.prev EXCEPT ![s[1]] = q.prev[p]]
        BY <1>2, <1>6
      <3>2. q.prev \in [Proc -> Proc \cup {NULL}] /\ p \in Proc
        BY <1>1, <1>4
      <3>3. q.prev[p] \in Proc \cup {NULL}
        BY <3>2
      <3> QED BY <3>1, <3>2, <3>3
    <2>4. r.order \in [Pri -> Seq(Proc)]
      BY <1>1, <1>2, <1>3
    <2> QED BY <1>2, <2>1, <2>2, <2>3, <2>4 DEF Links
  <1>10. NoDuplicates(r)
    BY <1>7, <1>8 DEF NoDuplicates
  <1>11. ASSUME NEW j \in Pri, j # i PROVE RingOf(r, j)
    <2>1. r.order[j] = q.order[j] /\ r.wtr[j] = q.wtr[j] /\ RingOf(q, j)
      BY <1>1, <1>2, <1>11 DEF WellFormed
    <2>2. ASSUME NEW k \in 1 .. Len(q.order[j])
          PROVE  /\ q.order[j][k] # s[1]
                 /\ n > 1 => q.order[j][k] # s[n - 1]
      BY SMTT(30), <1>4, <1>7, <1>11 DEF NoDuplicates
    <2>3. ASSUME NEW k \in 1 .. Len(q.order[j])
          PROVE  Succ(q.order[j], k) \in 1 .. Len(q.order[j])
      BY <1>5 DEF Succ
    <2>4. ASSUME NEW k \in 1 .. Len(q.order[j])
          PROVE  /\ r.next[q.order[j][k]] = q.next[q.order[j][k]]
                 /\ r.prev[q.order[j][k]] = q.prev[q.order[j][k]]
      <3>1. q.order[j][k] \in Proc
        BY <1>5
      <3> QED BY <3>1, <1>1, <1>2, <1>4, <1>6, <2>2
    <2>5. /\ r.wtr[j] = IF q.order[j] = << >> THEN NULL ELSE q.order[j][1]
          /\ \A k \in 1 .. Len(q.order[j]) :
                /\ q.next[q.order[j][k]] = q.order[j][Succ(q.order[j], k)]
                /\ q.prev[q.order[j][Succ(q.order[j], k)]] = q.order[j][k]
      BY <2>1 DEF RingOf
    <2>6. ASSUME NEW k \in 1 .. Len(q.order[j])
          PROVE  /\ r.next[q.order[j][k]] = q.order[j][Succ(q.order[j], k)]
                 /\ r.prev[q.order[j][Succ(q.order[j], k)]] = q.order[j][k]
      BY <2>3, <2>4, <2>5
    <2> QED BY <2>1, <2>5, <2>6 DEF RingOf
  <1>12. RingOf(r, i)
    <2>1. r.order[i] = t
      BY <1>1, <1>2
    <2>2. CASE n = 1
      <3>1. t = << >> /\ r.wtr[i] = NULL
        BY <1>1, <1>2, <1>3, <1>6, <2>2
      <3>2. Len(t) = 0
        BY <1>3, <2>2
      <3> QED BY <2>1, <3>1, <3>2 DEF RingOf
    <2>3. CASE n # 1
      <3>0. n > 1
        BY <1>4, <2>3
      <3>a. r.wtr[i] = s[1] /\ t[1] = s[1]
        <4>1. q.next[p] # p
          BY <1>6, <3>0
        <4>2. r.wtr = q.wtr
          BY <1>2, <4>1
        <4>3. 1 \in 1 .. n - 1
          BY <1>1, <3>0
        <4> QED BY <1>3, <1>6, <4>2, <4>3
      <3>b. t # << >>
        BY <1>1, <1>3, <3>0
      <3>1. r.wtr[i] = t[1] /\ t # << >>
        BY <3>a, <3>b
      <3>2. /\ r.next = [q.next EXCEPT ![s[n - 1]] = s[1]]
            /\ r.prev = [q.prev EXCEPT ![s[1]] = s[n - 1]]
        BY <1>2, <1>6, <3>0
      <3>3. ASSUME NEW k \in 1 .. Len(t)
            PROVE  r.next[t[k]] = t[Succ(t, k)] /\ r.prev[t[Succ(t, k)]] = t[k]
        <4>1. CASE k = n - 1
          <5>1. t[k] = s[n - 1] /\ t[Succ(t, k)] = s[1]
            BY <1>1, <1>3, <3>0, <4>1 DEF Succ
          <5> QED BY <1>1, <1>4, <3>0, <3>2, <5>1
        <4>2. CASE k < n - 1
          <5>1. k \in 1 .. n /\ k + 1 \in 1 .. n /\ k # n - 1 /\ k + 1 # 1
            BY <1>1, <1>3, <4>2
          <5>2. t[k] = s[k] /\ t[Succ(t, k)] = s[k + 1]
            BY SMTT(30), <1>1, <1>3, <4>2 DEF Succ
          <5>3. Succ(s, k) = k + 1
            BY <1>1, <4>2 DEF Succ
          <5>4. q.next[s[k]] = s[k + 1] /\ q.prev[s[k + 1]] = s[k]
            BY <5>1, <5>3 DEF WellFormed, RingOf
          <5>5. s[k] # s[n - 1] /\ s[k + 1] # s[1] /\ s[k] \in Proc /\ s[k + 1] \in Proc
            <6>1. n - 1 \in 1 .. n
              BY <1>4, <3>0
            <6>2. s[k] # s[n - 1]
              BY SMTT(30), <1>7, <5>1, <6>1 DEF NoDuplicates
            <6>3. s[k + 1] # s[1]
              BY <1>4, <1>7, <5>1 DEF NoDuplicates
            <6> QED BY <1>5, <5>1, <6>2, <6>3
          <5> QED BY <1>1, <3>2, <5>2, <5>4, <5>5
        <4> QED BY <1>1, <1>3, <4>1, <4>2
      <3> QED BY <2>1, <3>1, <3>3 DEF RingOf
    <2> QED BY <2>2, <2>3
  <1>13. ASSUME NEW x \in Proc, NEW j \in Pri
         PROVE  StandsIn(r, x, j) <=> StandsIn(q, x, j) /\ x # p
    <2>1. ASSUME StandsIn(r, x, j) PROVE StandsIn(q, x, j) /\ x # p
      BY <1>8, <2>1 DEF StandsIn
    <2>2. ASSUME StandsIn(q, x, j), x # p PROVE StandsIn(r, x, j)
      <3>1. PICK k \in 1 .. Len(q.order[j]) : q.order[j][k] = x
        BY <2>2 DEF StandsIn
      <3>2. CASE j = i
        <4>1. k \in 1 .. n /\ s[k] = x /\ k # n
          BY <2>2, <3>1, <3>2
        <4>2. k \in 1 .. n - 1
          BY <1>1, <4>1
        <4>3. r.order[j] = t
          BY <1>1, <1>2, <3>2
        <4> QED BY <1>3, <4>1, <4>2, <4>3 DEF StandsIn
      <3>3. CASE j # i
        <4>1. r.order[j] = q.order[j]
          BY <1>1, <1>2, <3>3
        <4> QED BY <3>1, <4>1 DEF StandsIn
      <3> QED BY <3>2, <3>3
    <2> QED BY <2>1, <2>2
  <1> QED BY <1>9, <1>10, <1>11, <1>12, <1>13 DEF WellFormed, r

(* get_new_proc's rotation moves the first process of a queue to its end. *)
LEMMA SelectKeepsWellFormed ==
    ASSUME NEW q \in Links, NEW i \in Pri, WellFormed(q), q.order[i] # << >>
    PROVE  /\ Select(q, i) \in Links
           /\ WellFormed(Select(q, i))
           /\ q.wtr[i] = Head(q.order[i])
           /\ \A p \in Proc, j \in Pri :
                StandsIn(Select(q, i), p, j) <=> StandsIn(q, p, j)
           /\ Select(q, i).order[i][Len(Select(q, i).order[i])] = q.wtr[i]
           /\ Select(q, i).order[i] # << >>
  <1> DEFINE s == q.order[i]
             n == Len(s)
             r == Select(q, i)
             t == Append(Tail(s), Head(s))
  <1>1. /\ q.wtr \in [Pri -> Proc \cup {NULL}]
        /\ q.next \in [Proc -> Proc \cup {NULL}]
        /\ q.prev \in [Proc -> Proc \cup {NULL}]
        /\ q.order \in [Pri -> Seq(Proc)]
        /\ s \in Seq(Proc) /\ n \in Nat \ {0}
        /\ NULL \notin Proc
    BY ReadyQueueAssumption DEF Links
  <1>2. /\ r.wtr = [q.wtr EXCEPT ![i] = q.next[q.wtr[i]]]
        /\ r.next = q.next
        /\ r.prev = q.prev
        /\ r.order = [q.order EXCEPT ![i] = t]
        /\ r = [wtr |-> r.wtr, next |-> r.next, prev |-> r.prev,
                order |-> r.order]
    BY DEF Select
  <1>3. /\ t \in Seq(Proc) /\ Len(t) = n
        /\ \A k \in 1 .. n : t[k] = s[Succ(s, k)]
    BY <1>1 DEF Succ
  <1>4. /\ \A k \in 1 .. n : Succ(s, k) \in 1 .. n
        /\ \A k, l \in 1 .. n : Succ(s, k) = Succ(s, l) => k = l
        /\ 1 \in 1 .. n /\ n \in 1 .. n
    BY <1>1 DEF Succ
  <1>5. q.wtr[i] = s[1] /\ s[1] \in Proc /\ s[1] = Head(s)
    BY <1>1, <1>4 DEF WellFormed, RingOf
  <1>6. /\ NoDuplicates(q)
        /\ \A k \in 1 .. n : /\ q.next[s[k]] = s[Succ(s, k)]
                             /\ q.prev[s[Succ(s, k)]] = s[k]
    BY DEF WellFormed, RingOf
  <1>7. r.order[i] = t /\ \A j \in Pri : j # i => r.order[j] = q.order[j]
    BY <1>1, <1>2
  <1> HIDE DEF r, t
  <1>8. r \in Links
    <2>1. r.wtr \in [Pri -> Proc \cup {NULL}]
      BY <1>1, <1>2, <1>5
    <2>2. r.order \in [Pri -> Seq(Proc)]
      BY <1>1, <1>2, <1>3
    <2> QED BY <1>1, <1>2, <2>1, <2>2 DEF Links
  <1>9. NoDuplicates(r)
    <2> SUFFICES ASSUME NEW j1 \in Pri, NEW j2 \in Pri,
                        NEW k \in 1 .. Len(r.order[j1]),
                        NEW l \in 1 .. Len(r.order[j2]),
                        r.order[j1][k] = r.order[j2][l]
                 PROVE  j1 = j2 /\ k = l
      BY DEF NoDuplicates
    <2> DEFINE at(j, m) == IF j = i THEN Succ(s, m) ELSE m
    <2>1. ASSUME NEW j \in Pri, NEW m \in 1 .. Len(r.order[j])
          PROVE  /\ at(j, m) \in 1 .. Len(q.order[j])
                 /\ r.order[j][m] = q.order[j][at(j, m)]
      <3>1. CASE j = i
        BY <3>1, <1>3, <1>4, <1>7
      <3>2. CASE j # i
        BY <3>2, <1>7
      <3> QED BY <3>1, <3>2
    <2>2. j1 = j2 /\ at(j1, k) = at(j2, l)
      <3>1. q.order[j1][at(j1, k)] = q.order[j2][at(j2, l)]
        BY <2>1
      <3> HIDE DEF at
      <3> QED BY SMTT(30), <1>6, <2>1, <3>1 DEF NoDuplicates
    <2>3. CASE j1 = i
      BY <1>3, <1>4, <1>7, <2>2, <2>3
    <2> QED BY <2>2, <2>3
  <1>10. ASSUME NEW j \in Pri, j # i PROVE RingOf(r, j)
    BY <1>1, <1>2, <1>10 DEF WellFormed, RingOf
  <1>11. RingOf(r, i)
    <2>a. r.wtr[i] = q.next[s[1]]
      BY <1>1, <1>2, <1>5
    <2>b. q.next[s[1]] = t[1]
      BY <1>3, <1>4, <1>6
    <2>c. t # << >>
      BY <1>1, <1>3
    <2>1. r.wtr[i] = t[1] /\ t # << >>
      BY <2>a, <2>b, <2>c
    <2>2. ASSUME NEW k \in 1 .. Len(t)
          PROVE  q.next[t[k]] = t[Succ(t, k)] /\ q.prev[t[Succ(t, k)]] = t[k]
      <3>1. k \in 1 .. n /\ Succ(t, k) = Succ(s, k)
        BY <1>3 DEF Succ
      <3>2. t[k] = s[Succ(s, k)] /\ t[Succ(t, k)] = s[Succ(s, Succ(s, k))]
        BY <1>3, <1>4, <3>1
      <3> QED BY <1>4, <1>6, <3>1, <3>2
    <2> QED BY <1>2, <1>7, <2>1, <2>2 DEF RingOf
  <1>12. ASSUME NEW p \in Proc, NEW j \in Pri
         PROVE  StandsIn(r, p, j) <=> StandsIn(q, p, j)
    <2>1. ASSUME NEW k \in 1 .. n PROVE \E l \in 1 .. n : s[k] = t[l]
      <3>1. CASE k = 1
        BY <3>1, <1>3, <1>4 DEF Succ
      <3>2. CASE k # 1
        <4>1. k - 1 \in 1 .. n /\ Succ(s, k - 1) = k
          BY <1>1, <3>2 DEF Succ
        <4> QED BY <1>3, <4>1
      <3> QED BY <3>1, <3>2
    <2>2. ASSUME NEW k \in 1 .. n PROVE \E l \in 1 .. n : t[k] = s[l]
      BY <1>3, <1>4
    <2>3. CASE j = i
      <3>1. r.order[j] = t /\ Len(t) = n /\ q.order[j] = s
        BY <1>3, <1>7, <2>3
      <3>2. StandsIn(r, p, j) <=> \E k \in 1 .. n : t[k] = p
        BY <3>1 DEF StandsIn
      <3>3. StandsIn(q, p, j) <=> \E k \in 1 .. n : s[k] = p
        BY <2>3 DEF StandsIn
      <3> HIDE DEF n, s
      <3>4. ASSUME NEW k \in 1 .. n, t[k] = p PROVE StandsIn(q, p, j)
        BY <2>2, <3>3, <3>4
      <3>5. ASSUME NEW k \in 1 .. n, s[k] = p PROVE StandsIn(r, p, j)
        BY <2>1, <3>2, <3>5
      <3> QED BY <3>2, <3>3, <3>4, <3>5
    <2>4. CASE j # i
      BY <1>7, <2>4 DEF StandsIn
    <2> QED BY <2>3, <2>4
  <1>13. r.order[i] # << >> /\ r.order[i][Len(r.order[i])] = q.wtr[i]
    <2>1. t # << >>
      BY <1>1, <1>3
    <2>2. t[n] = s[1]
      BY <1>3, <1>4 DEF Succ
    <2> QED BY <1>3, <1>5, <1>7, <2>1, <2>2
  <1> QED BY <1>5, <1>8, <1>9, <1>10, <1>11, <1>12, <1>13 DEF WellFormed, r

-----------------------------------------------------------------------------
(* The kernel. *)

NicersDoNotReceive == Nicers \cap Receivers = {}

(* Bounds of a socket's indices. *)
LEMMA QueueTypes ==
    ASSUME NEW q \in MsgQueues
    PROVE  /\ ZeroQueue \in MsgQueues
           /\ \A m \in Msg : Put(q, m) \in MsgQueues
           /\ Take(q) \in MsgQueues
           /\ Reset(q) \in MsgQueues
           /\ First(q) \in Msg \cup {NoMsg}
           /\ IsEmpty(Reset(q))
  <1>1. /\ q.head \in Slot /\ q.tail \in Slot
        /\ q.buf \in [Slot -> Msg \cup {NoMsg}]
        /\ MSG_QUEUE_SIZE \in Nat \ {0, 1}
    BY MsgQueueAssumption DEF MsgQueues
  <1>2. ASSUME NEW k \in Slot PROVE (k + 1) % MSG_QUEUE_SIZE \in Slot
    BY <1>1 DEF Slot
  <1>3. 0 \in Slot /\ 1 \in Slot /\ (0 + 1) % MSG_QUEUE_SIZE = 1
    BY <1>1 DEF Slot
  <1>4. ReadSlot(q) \in Slot
    BY <1>1, <1>2 DEF ReadSlot
  <1>5. ZeroQueue \in MsgQueues
    BY <1>3 DEF ZeroQueue, MsgQueues
  <1>6. ASSUME NEW m \in Msg PROVE Put(q, m) \in MsgQueues
    BY <1>1, <1>2 DEF Put, MsgQueues
  <1>7. Take(q) \in MsgQueues
    BY <1>1, <1>4 DEF Take, MsgQueues
  <1>8. Reset(q) \in MsgQueues /\ IsEmpty(Reset(q))
    BY <1>1, <1>3 DEF Reset, MsgQueues, IsEmpty, ReadSlot
  <1>9. First(q) \in Msg \cup {NoMsg}
    BY <1>1, <1>4 DEF First
  <1> QED BY <1>5, <1>6, <1>7, <1>8, <1>9

(* The executing process is in exactly one queue, at its end, and spins on no  *)
(* socket.                                                                    *)
LEMMA RunningFacts ==
    ASSUME IInv, Up, ~pendsv
    PROVE  /\ cur_priority \in Pri
           /\ running \in Proc
           /\ rq.order[cur_priority] # << >>
           /\ running = rq.order[cur_priority][Len(rq.order[cur_priority])]
           /\ \A i \in Pri : StandsIn(rq, running, i) <=> i = cur_priority
           /\ \A s \in Sock : sock[s].spin_lock => sock[s].binded_pcb # running
  <1> DEFINE o == rq.order[cur_priority]
  <1>1. cur_priority \in Pri
    BY DEF IInv, BootInv
  <1>2. o # << >> /\ running = o[Len(o)]
    BY DEF IInv, RunningIsTail
  <1>3. o \in Seq(Proc) /\ Len(o) \in 1 .. Len(o)
    <2>1. o \in Seq(Proc)
      BY <1>1 DEF IInv, TypeOK, Links
    <2> QED BY <1>2, <2>1
  <1>4. running \in Proc
    BY <1>2, <1>3
  <1>5. ASSUME NEW i \in Pri PROVE StandsIn(rq, running, i) <=> i = cur_priority
    <2>1. NoDuplicates(rq)
      BY DEF IInv, RingsMatch, WellFormed
    <2>2. StandsIn(rq, running, cur_priority)
      BY <1>2, <1>3 DEF StandsIn
    <2> QED BY <1>1, <1>2, <1>3, <2>1, <2>2 DEF StandsIn, NoDuplicates
  <1>6. ASSUME NEW s \in Sock, sock[s].spin_lock PROVE sock[s].binded_pcb # running
    BY <1>1, <1>5, <1>6 DEF IInv, NoLostWakeup, Queued
  <1> QED BY <1>1, <1>2, <1>4, <1>5, <1>6

(* The kernel starts in the invariant. *)
LEMMA InitIInv == Init => IInv
  <1> SUFFICES ASSUME Init PROVE IInv
    OBVIOUS
  <1> USE DEF Init
  <1>1. /\ rq = NoLinks /\ rq \in Links
        /\ \A i \in Pri : rq.order[i] = << >> /\ rq.wtr[i] = NULL
    BY DEF NoLinks, Links
  <1>2. \A p \in Proc, i \in Pri : ~StandsIn(rq, p, i)
    BY <1>1 DEF StandsIn
  <1>3. Len(BootTable) \in Nat /\ MAX_NUM_PRI \in Nat /\ MAX_NUM_PRI > 1 
        /\ TIME_QUANTUM \in Nat \ {0}
    BY KernelAssumption, ReadyQueueAssumption
  <1>4. TypeOK
    <2>1. ZeroQueue \in MsgQueues
      BY MsgQueueAssumption DEF ZeroQueue, MsgQueues, Slot
    <2>2. thread \in [Proc -> ThreadStates]
      BY DEF InUser, ThreadStates
    <2>3. sock \in [Sock -> [binded_pcb : Proc \cup {NULL}, spin_lock : BOOLEAN,
                             q : MsgQueues]]
      BY <2>1
    <2>4. pcb \in [Proc -> [priority : Pri, binded_socket : Sock \cup {NoSock}]]
      BY <1>3 DEF Pri
    <2>5. /\ cur_priority \in 0 .. MAX_NUM_PRI
          /\ ToD \in 0 .. TIME_QUANTUM - 1
          /\ booted \in 0 .. Len(BootTable) + 1
      BY <1>3
    <2>6. running \in Proc \cup {NULL} /\ pendsv \in BOOLEAN
      OBVIOUS
    <2> QED BY <1>1, <2>2, <2>3, <2>4, <2>5, <2>6 DEF TypeOK
  <1>5. RingsMatch
    BY <1>1 DEF RingsMatch, WellFormed, NoDuplicates, RingOf
  <1>6. ~Up
    BY <1>3 DEF Up
  <1>7. BootInv
    BY <1>2, <1>6 DEF BootInv, Queued
  <1>8. PlaceInv
    BY <1>2, <1>3 DEF PlaceInv
  <1>9. OwnerInv
    BY KernelAssumption DEF OwnerInv, InUser
  <1>10. BindingsAgree
    BY KernelAssumption, ReadyQueueAssumption DEF BindingsAgree
  <1>11. NoLostWakeup
    BY DEF NoLostWakeup
  <1>12. CreatedInv
    BY <1>3 DEF CreatedInv, Created
  <1>13. RunningIsTail /\ HighestRuns
    BY <1>6 DEF RunningIsTail, HighestRuns
  <1> QED BY <1>4, <1>5, <1>7, <1>8, <1>9, <1>10, <1>11, <1>12, <1>13 DEF IInv

(* The scan of get_new_proc finds the first priority with a process. *)
LEMMA TopPriIsFirst ==
    ASSUME NEW q \in Links, SomeReady(q)
    PROVE  /\ TopPri(q) \in Pri
           /\ q.wtr[TopPri(q)] # NULL
           /\ \A j \in Pri : j < TopPri(q) => q.wtr[j] = NULL
  <1> DEFINE T == {i \in Pri : q.wtr[i] # NULL}
  <1>1. T \in SUBSET Nat /\ T # {}
    BY ReadyQueueAssumption DEF SomeReady, Pri
  <1>2. PICK x \in T : \A y \in T : x <= y
    BY <1>1, LeastNat
  <1>3. \A j \in 0 .. x - 1 : j \in Pri /\ j \notin T
    BY <1>2, ReadyQueueAssumption DEF Pri
  <1>4. \E i \in Pri : q.wtr[i] # NULL /\ \A j \in 0 .. i - 1 : q.wtr[j] = NULL
    BY <1>2, <1>3
  <1>5. /\ TopPri(q) \in Pri
        /\ q.wtr[TopPri(q)] # NULL
        /\ \A j \in 0 .. TopPri(q) - 1 : q.wtr[j] = NULL
    BY <1>4 DEF TopPri
  <1>6. \A j \in Pri : j < TopPri(q) => j \in 0 .. TopPri(q) - 1
    BY <1>5, ReadyQueueAssumption DEF Pri
  <1> QED BY <1>5, <1>6

(* Some process is always ready: the idle process never leaves its queue. *)
LEMMA IdleReady ==
    ASSUME IInv, booted >= Len(BootTable)
    PROVE  SomeReady(rq)
  <1>1. Len(BootTable) \in Nat /\ booted \in Nat
    BY KernelAssumption DEF IInv, TypeOK
  <1>2. Created(Idle)
    <2>1. PICK k \in 1 .. Len(BootTable) : BootTable[k][1] = Idle
      BY KernelAssumption
    <2>2. k <= booted
      BY <1>1, <2>1
    <2> QED BY <2>1, <2>2 DEF Created
  <1>3. ~Blocked(Idle) /\ thread[Idle].at # "dead" /\ Idle \in Proc
    BY KernelAssumption, ReadyQueueAssumption DEF IInv, OwnerInv, Blocked
  <1>4. PICK i \in Pri : StandsIn(rq, Idle, i)
    BY <1>2, <1>3 DEF IInv, CreatedInv, Queued
  <1>5. rq.order[i] \in Seq(Proc) /\ RingOf(rq, i)
    BY DEF IInv, TypeOK, Links, RingsMatch, WellFormed
  <1>6. rq.order[i] # << >> /\ rq.order[i][1] \in Proc
    BY <1>4, <1>5 DEF StandsIn
  <1> QED BY <1>5, <1>6, ReadyQueueAssumption DEF RingOf, SomeReady

(* Krun and PendSV: a rotation of the first queue that is not empty. *)
LEMMA SelectStep ==
    ASSUME IInv, get_new_proc, booted >= Len(BootTable),
           booted' = Len(BootTable) + 1,
           pendsv' = FALSE, UNCHANGED <<ToD, pcb, sock, thread>>
    PROVE  IInv'
  <1>1. Len(BootTable) \in Nat /\ MAX_NUM_PRI \in Nat /\ MAX_NUM_PRI > 1
    BY KernelAssumption, ReadyQueueAssumption
  <1>2. rq \in Links /\ WellFormed(rq) /\ SomeReady(rq)
    BY IdleReady DEF IInv, TypeOK, RingsMatch
  <1> DEFINE i == TopPri(rq)
  <1>3. /\ i \in Pri /\ rq.wtr[i] # NULL
        /\ \A j \in Pri : j < i => rq.wtr[j] = NULL
    BY <1>2, TopPriIsFirst
  <1>4. running' = rq.wtr[i] /\ rq' = Select(rq, i) /\ cur_priority' = i
    BY <1>2 DEF get_new_proc
  <1> HIDE DEF i
  <1>5. rq.order[i] # << >>
    BY <1>2, <1>3 DEF WellFormed, RingOf
  <1>6. /\ rq' \in Links
        /\ WellFormed(rq')
        /\ \A p \in Proc, j \in Pri : StandsIn(rq', p, j) <=> StandsIn(rq, p, j)
        /\ rq'.order[i][Len(rq'.order[i])] = rq.wtr[i]
        /\ rq'.order[i] # << >>
    BY <1>2, <1>3, <1>4, <1>5, SelectKeepsWellFormed
  <1>7. \A p \in Proc : Queued(rq', p) <=> Queued(rq, p)
    BY <1>6 DEF Queued
  <1>8. running' \in Proc
    BY <1>2, <1>3, <1>4 DEF Links
  <1>9. Up' /\ \A p \in Proc : Created(p) => Created(p)'
    BY <1>1 DEF Up, Created, IInv, TypeOK
  <1>10. \A p \in Proc : Created(p)
    BY <1>1, KernelAssumption DEF Created, IInv, TypeOK
  <1>11. TypeOK'
    <2>1. /\ cur_priority' \in 0 .. MAX_NUM_PRI
          /\ booted' \in 0 .. Len(BootTable) + 1
      BY <1>1, <1>3, <1>4 DEF Pri
    <2> QED BY <1>6, <1>8, <2>1 DEF IInv, TypeOK
  <1>12. RingsMatch'
    BY <1>6 DEF RingsMatch
  <1>13. BootInv'
    BY <1>3, <1>4, <1>9, <1>10 DEF BootInv
  <1>14. PlaceInv'
    BY <1>6 DEF IInv, PlaceInv
  <1>15. OwnerInv' /\ BindingsAgree'
    BY DEF IInv, OwnerInv, BindingsAgree
  <1>16. NoLostWakeup'
    BY <1>7 DEF IInv, NoLostWakeup
  <1>17. CreatedInv'
    BY <1>7, <1>10 DEF IInv, CreatedInv, Blocked
  <1>18. RunningIsTail'
    BY <1>4, <1>6 DEF RunningIsTail
  <1>19. HighestRuns'
    <2>1. \A j \in Pri : j < i => rq'.wtr[j] = NULL
      BY <1>2, <1>3, <1>4 DEF Select, Links, Pri
    <2> QED BY <1>4, <2>1 DEF HighestRuns
  <1> QED BY <1>11, <1>12, <1>13, <1>14, <1>15, <1>16, <1>17, <1>18, <1>19 DEF IInv

(* create_proc keeps the invariant. *)
LEMMA CreateStep == ASSUME IInv, create_proc PROVE IInv'
  <1> DEFINE p == BootTable[booted + 1][1]
             i == BootTable[booted + 1][2]
  <1>1. /\ Len(BootTable) \in Nat /\ booted \in Nat /\ booted < Len(BootTable)
        /\ booted + 1 \in 1 .. Len(BootTable)
        /\ booted' = booted + 1
    <2>1. Len(BootTable) \in Nat
      BY KernelAssumption
    <2>2. booted \in 0 .. Len(BootTable) + 1
      BY DEF IInv, TypeOK
    <2>3. booted < Len(BootTable) /\ booted' = booted + 1
      BY DEF create_proc
    <2> QED BY <2>1, <2>2, <2>3
  <1>2. p \in Proc /\ i \in Pri
    BY SMTT(30), <1>1, KernelAssumption
  <1>3. ~Up /\ ~Up' /\ ~pendsv /\ \A s \in Sock : sock[s].binded_pcb = NULL
    BY <1>1 DEF IInv, BootInv, Up
  <1>4. /\ rq' = enqueue_pcb(rq, p, i)
        /\ pcb' = [pcb EXCEPT ![p] = [priority |-> i, binded_socket |-> NoSock]]
        /\ UNCHANGED <<running, cur_priority, pendsv, ToD, sock, thread>>
    BY DEF create_proc
  <1>5. ~Created(p)
    BY <1>1, KernelAssumption DEF Created
  <1>6. ~Queued(rq, p)
    BY <1>2, <1>5 DEF IInv, BootInv
  <1>7. p # Idle => i # MAX_NUM_PRI - 1
    BY <1>1, KernelAssumption
  <1> HIDE DEF p, i
  <1>8. /\ rq' \in Links /\ WellFormed(rq')
        /\ \A x \in Proc, j \in Pri : StandsIn(rq', x, j) <=>
                StandsIn(rq, x, j) \/ (x = p /\ j = i)
    BY <1>2, <1>4, <1>6, EnqueueKeepsWellFormed DEF IInv, TypeOK, RingsMatch
  <1>9. \A x \in Proc : Queued(rq', x) <=> Queued(rq, x) \/ x = p
    BY <1>2, <1>8 DEF Queued
  <1>10. ASSUME NEW x \in Proc PROVE Created(x)' <=> Created(x) \/ x = p
    <2>1. ASSUME Created(x)' PROVE Created(x) \/ x = p
      <3>1. PICK k \in 1 .. Len(BootTable) : k <= booted' /\ BootTable[k][1] = x
        BY <2>1 DEF Created
      <3>2. k <= booted \/ k = booted + 1
        BY <1>1, <3>1
      <3> QED BY <3>1, <3>2 DEF Created, p
    <2>2. ASSUME Created(x) PROVE Created(x)'
      <3>1. PICK k \in 1 .. Len(BootTable) : k <= booted /\ BootTable[k][1] = x
        BY <2>2 DEF Created
      <3>2. k <= booted'
        BY <1>1, <3>1
      <3> QED BY <3>1, <3>2 DEF Created
    <2>3. ASSUME x = p PROVE Created(x)'
      <3>1. booted + 1 <= booted' /\ BootTable[booted + 1][1] = x
        BY <1>1, <2>3 DEF p
      <3> QED BY <1>1, <3>1 DEF Created
    <2> QED BY <2>1, <2>2, <2>3
  <1>11. TypeOK'
    <2>1. booted' \in 0 .. Len(BootTable) + 1
      BY <1>1
    <2>2. pcb' \in [Proc -> [priority : Pri, binded_socket : Sock \cup {NoSock}]]
      BY <1>2, <1>4 DEF IInv, TypeOK
    <2> QED BY <1>4, <1>8, <2>1, <2>2 DEF IInv, TypeOK
  <1>12. RingsMatch'
    BY <1>8 DEF RingsMatch
  <1>13. BootInv'
    BY <1>3, <1>4, <1>9, <1>10 DEF IInv, BootInv
  <1>14. PlaceInv'
    <2>1. ASSUME NEW x \in Proc, NEW j \in Pri, StandsIn(rq', x, j)
          PROVE  /\ x \in Receivers => j = pcb'[x].priority
                 /\ x # Idle => j # MAX_NUM_PRI - 1
      <3>1. CASE x = p
        <4>1. ~StandsIn(rq, x, j)
          BY <1>6, <3>1 DEF Queued
        <4>2. j = i
          BY <1>8, <2>1, <4>1
        <4>3. pcb'[x].priority = i
          BY <1>2, <1>4, <3>1 DEF IInv, TypeOK
        <4> QED BY <1>7, <3>1, <4>2, <4>3
      <3>2. CASE x # p
        <4>1. StandsIn(rq, x, j) /\ pcb'[x] = pcb[x]
          BY <1>4, <1>8, <2>1, <3>2 DEF IInv, TypeOK
        <4> QED BY <4>1 DEF IInv, PlaceInv
      <3> QED BY <3>1, <3>2
    <2>2. ASSUME NEW x \in Proc, x # Idle PROVE pcb'[x].priority # MAX_NUM_PRI - 1
      BY <1>2, <1>4, <1>7, <2>2 DEF IInv, TypeOK, PlaceInv
    <2> QED BY <2>1, <2>2 DEF PlaceInv
  <1>15. OwnerInv'
    BY <1>4 DEF IInv, OwnerInv
  <1>16. BindingsAgree'
    <2> SUFFICES ASSUME NEW x \in Proc, NEW s \in Sock
                 PROVE  pcb'[x].binded_socket # s /\ sock'[s].binded_pcb # x
      BY DEF BindingsAgree
    <2>1. pcb[x].binded_socket # s /\ sock'[s].binded_pcb # x
      BY <1>3, <1>4, ReadyQueueAssumption DEF IInv, BindingsAgree
    <2>2. pcb'[x] = pcb[x] \/ pcb'[x].binded_socket = NoSock
      BY <1>2, <1>4 DEF IInv, TypeOK
    <2> QED BY <2>1, <2>2, KernelAssumption
  <1>17. NoLostWakeup'
    BY <1>3, <1>4, ReadyQueueAssumption DEF IInv, NoLostWakeup
  <1>18. CreatedInv'
    BY <1>4, <1>9, <1>10 DEF IInv, CreatedInv, Blocked
  <1>19. RunningIsTail' /\ HighestRuns'
    BY <1>3 DEF RunningIsTail, HighestRuns
  <1> QED BY <1>11, <1>12, <1>13, <1>14, <1>15, <1>16, <1>17, <1>18, <1>19 DEF IInv

(* k_send_message, from a process or from the GPIO handler. *)
LEMMA SendStep ==
    ASSUME IInv, booted >= Len(BootTable), NEW s \in Sock, NEW m \in Msg,
           k_send_message(s, m),
           UNCHANGED <<running, cur_priority, ToD, booted, pcb, thread>>
    PROVE  IInv'
  <1> DEFINE p == sock[s].binded_pcb
             i == pcb[p].priority
  <1>1. sock' = [sock EXCEPT ![s] = [@ EXCEPT !.q = Put(sock[s].q, m),
                                             !.spin_lock = FALSE]]
    BY DEF k_send_message
  <1>2. /\ sock[s].q \in MsgQueues
        /\ sock \in [Sock -> [binded_pcb : Proc \cup {NULL}, spin_lock : BOOLEAN,
                              q : MsgQueues]]
        /\ rq \in Links /\ WellFormed(rq)
        /\ Len(BootTable) \in Nat /\ booted \in Nat
    BY KernelAssumption DEF IInv, TypeOK, RingsMatch
  <1>3. Put(sock[s].q, m) \in MsgQueues
    BY <1>2, QueueTypes
  <1>4. /\ sock' \in [Sock -> [binded_pcb : Proc \cup {NULL}, spin_lock : BOOLEAN,
                               q : MsgQueues]]
        /\ sock'[s].spin_lock = FALSE
        /\ \A x \in Sock : sock'[x].binded_pcb = sock[x].binded_pcb
        /\ \A x \in Sock : x # s => sock'[x] = sock[x]
    BY <1>1, <1>2, <1>3
  <1>5. (\A x \in Proc : Created(x)' <=> Created(x)) /\ (Up' <=> Up)
    BY DEF Created, Up
  <1>6. OwnerInv' /\ BindingsAgree'
    BY <1>4 DEF IInv, OwnerInv, BindingsAgree
  <1>7. CASE ~sock[s].spin_lock
    <2>1. UNCHANGED <<rq, pendsv>>
      BY <1>7 DEF k_send_message
    <2>2. \A x \in Sock : sock'[x].spin_lock <=> sock[x].spin_lock
      BY <1>4, <1>7
    <2>3. TypeOK' /\ RingsMatch' /\ PlaceInv' /\ RunningIsTail' /\ HighestRuns'
      BY <1>4, <1>5, <2>1
        DEF IInv, TypeOK, RingsMatch, PlaceInv, RunningIsTail, HighestRuns
    <2>4. BootInv'
      BY <1>4, <1>5, <2>1 DEF IInv, BootInv
    <2>5. NoLostWakeup'
      BY <1>4, <2>1, <2>2 DEF IInv, NoLostWakeup
    <2>6. CreatedInv'
      BY <1>4, <1>5, <2>1, <2>2 DEF IInv, CreatedInv, Blocked
    <2> QED BY <1>6, <2>3, <2>4, <2>5, <2>6 DEF IInv
  <1>8. CASE sock[s].spin_lock
    <2>1. rq' = enqueue_pcb(rq, p, i) /\ pendsv' = TRUE
      BY <1>8 DEF k_send_message
    <2>2. p \in Receivers /\ p \in Proc /\ ~Queued(rq, p) /\ p # Idle
      BY <1>8, KernelAssumption, ReadyQueueAssumption DEF IInv, NoLostWakeup, OwnerInv
    <2>3. i \in Pri /\ i # MAX_NUM_PRI - 1
      BY <2>2 DEF IInv, TypeOK, PlaceInv
    <2>4. Up
      BY <2>2, ReadyQueueAssumption DEF IInv, BootInv
    <2> HIDE DEF p, i
    <2>5. /\ rq' \in Links /\ WellFormed(rq')
          /\ \A x \in Proc, j \in Pri : StandsIn(rq', x, j) <=>
                  StandsIn(rq, x, j) \/ (x = p /\ j = i)
      BY <1>2, <2>1, <2>2, <2>3, EnqueueKeepsWellFormed
    <2>6. \A x \in Proc : Queued(rq', x) <=> Queued(rq, x) \/ x = p
      BY <2>3, <2>5 DEF Queued
    <2>7. \A x \in Sock : sock'[x].spin_lock =>
                sock[x].spin_lock /\ sock'[x] = sock[x] /\ sock[x].binded_pcb # p
      <3> SUFFICES ASSUME NEW x \in Sock, sock'[x].spin_lock
                   PROVE  sock[x].spin_lock /\ sock'[x] = sock[x]
                          /\ sock[x].binded_pcb # p
        OBVIOUS
      <3>1. x # s
        BY <1>4
      <3>2. sock[x].binded_pcb = p => x = s
        BY <2>2 DEF p, IInv, BindingsAgree
      <3> QED BY <1>4, <3>1, <3>2
    <2>8. TypeOK' /\ RingsMatch'
      BY <1>4, <2>1, <2>5 DEF IInv, TypeOK, RingsMatch
    <2>9. BootInv'
      BY <1>5, <2>1, <2>2, <2>4, <2>6, KernelAssumption, <1>2
        DEF IInv, BootInv, Created
    <2>10. PlaceInv'
      BY <2>2, <2>3, <2>5 DEF IInv, PlaceInv, i
    <2>11. NoLostWakeup'
      BY <2>6, <2>7 DEF IInv, NoLostWakeup
    <2>12. CreatedInv'
      <3> SUFFICES ASSUME NEW x \in Proc, Created(x), ~Queued(rq', x),
                          thread[x].at # "dead"
                   PROVE  Blocked(x)'
        BY <1>5 DEF CreatedInv
      <3>1. Blocked(x) /\ x # p
        BY <2>6 DEF IInv, CreatedInv
      <3>2. PICK y \in Sock : sock[y].spin_lock /\ sock[y].binded_pcb = x
        BY <3>1 DEF Blocked
      <3>3. y # s
        BY <3>1, <3>2 DEF p
      <3> QED BY <1>4, <3>2, <3>3 DEF Blocked
    <2>13. RunningIsTail' /\ HighestRuns'
      BY <2>1 DEF RunningIsTail, HighestRuns
    <2> QED BY <1>6, <2>8, <2>9, <2>10, <2>11, <2>12, <2>13 DEF IInv
  <1> QED BY <1>7, <1>8

(* k_recv_message, by the running process p: the first SVC of recv() or the   *)
(* second.                                                                    *)
LEMMA RecvStep ==
    ASSUME IInv, NicersDoNotReceive, Up, ~pendsv,
           NEW p \in Receivers, running = p, NEW s \in Sock,
           NEW no \in {"recv2", "copy"}, k_recv_message(p, s, no),
           UNCHANGED <<running, cur_priority, ToD, booted, pcb>>
    PROVE  IInv'
  <1> DEFINE i == pcb[p].priority
  <1>1. /\ p \in Proc /\ p # Idle
        /\ sock[s].q \in MsgQueues
        /\ sock \in [Sock -> [binded_pcb : Proc \cup {NULL}, spin_lock : BOOLEAN,
                              q : MsgQueues]]
        /\ thread \in [Proc -> ThreadStates]
        /\ rq \in Links /\ WellFormed(rq)
    BY KernelAssumption DEF IInv, TypeOK, RingsMatch
  <1>2. (\A x \in Proc : Created(x)' <=> Created(x)) /\ (Up' <=> Up)
    BY DEF Created, Up
  <1>3. /\ cur_priority \in Pri /\ rq.order[cur_priority] # << >>
        /\ p = rq.order[cur_priority][Len(rq.order[cur_priority])]
        /\ StandsIn(rq, p, cur_priority)
        /\ \A x \in Sock : sock[x].spin_lock => sock[x].binded_pcb # p
    BY RunningFacts
  <1>4. cur_priority = i
    BY <1>1, <1>3 DEF IInv, PlaceInv
  <1>5. /\ \E k \in Msg \cup {NoMsg}, at \in {"recv2", "copy"} :
              thread' = [thread EXCEPT ![p] = [at |-> at, dst |-> s, pkt |-> k]]
        /\ \A x \in Sock : sock'[x].binded_pcb = sock[x].binded_pcb
        /\ sock' \in [Sock -> [binded_pcb : Proc \cup {NULL}, spin_lock : BOOLEAN,
                               q : MsgQueues]]
    <2>1. CASE sock[s].binded_pcb # p
      <3>1. /\ thread' = [thread EXCEPT ![p] =
                              [at |-> "copy", dst |-> s, pkt |-> NoMsg]]
            /\ sock' = sock
        BY <2>1 DEF k_recv_message
      <3> QED BY <1>1, <3>1
    <2>2. CASE sock[s].binded_pcb = p /\ IsEmpty(sock[s].q)
      <3>1. /\ thread' = [thread EXCEPT ![p] = [at |-> no, dst |-> s, pkt |-> NoMsg]]
            /\ sock' = [sock EXCEPT ![s] = [@ EXCEPT !.spin_lock = TRUE]]
        BY <2>2 DEF k_recv_message
      <3> QED BY <1>1, <3>1
    <2>3. CASE sock[s].binded_pcb = p /\ ~IsEmpty(sock[s].q)
      <3>1. Take(sock[s].q) \in MsgQueues /\ First(sock[s].q) \in Msg \cup {NoMsg}
        BY <1>1, QueueTypes
      <3>2. /\ thread' = [thread EXCEPT ![p] =
                              [at |-> "copy", dst |-> s, pkt |-> First(sock[s].q)]]
            /\ sock' = [sock EXCEPT ![s] = [@ EXCEPT !.q = Take(sock[s].q)]]
        BY <2>3 DEF k_recv_message
      <3> QED BY <1>1, <3>1, <3>2
    <2> QED BY <2>1, <2>2, <2>3
  <1>6. /\ thread' \in [Proc -> ThreadStates]
        /\ thread'[p].at \in {"recv2", "copy"} /\ thread'[p].dst = s
        /\ \A x \in Proc : x # p => thread'[x] = thread[x]
    BY <1>1, <1>5 DEF ThreadStates
  <1>7. OwnerInv' /\ BindingsAgree'
    <2>1. OwnerInv'
      BY <1>1, <1>5, <1>6, KernelAssumption DEF IInv, OwnerInv
    <2>2. BindingsAgree'
      BY <1>5 DEF IInv, BindingsAgree
    <2> QED BY <2>1, <2>2
  <1>8. CASE sock[s].binded_pcb = p /\ IsEmpty(sock[s].q)
    <2>1. /\ sock' = [sock EXCEPT ![s] = [@ EXCEPT !.spin_lock = TRUE]]
          /\ rq' = dequeue_pcb(rq, p, cur_priority)
          /\ pendsv' = TRUE
      BY <1>4, <1>8 DEF k_recv_message
    <2>2. /\ rq' \in Links /\ WellFormed(rq')
          /\ \A x \in Proc, j \in Pri :
                StandsIn(rq', x, j) <=> StandsIn(rq, x, j) /\ x # p
      BY <1>1, <1>3, <2>1, DequeueKeepsWellFormed
    <2>3. \A x \in Proc : Queued(rq', x) <=> Queued(rq, x) /\ x # p
      BY <2>2 DEF Queued
    <2>4. /\ sock'[s].spin_lock /\ sock'[s].q = sock[s].q
          /\ \A x \in Sock : x # s => sock'[x] = sock[x]
      BY <1>1, <2>1
    <2>5. TypeOK' /\ RingsMatch'
      BY <1>5, <1>6, <2>1, <2>2 DEF IInv, TypeOK, RingsMatch
    <2>6. BootInv'
      BY <1>2, <2>3 DEF IInv, BootInv
    <2>7. PlaceInv'
      BY <2>2 DEF IInv, PlaceInv
    <2>8. NoLostWakeup'
      <3> SUFFICES ASSUME NEW x \in Sock, sock'[x].spin_lock
                   PROVE  /\ IsEmpty(sock'[x].q)
                          /\ sock'[x].binded_pcb \in Proc
                          /\ thread'[sock'[x].binded_pcb].at \in {"recv2", "copy"}
                          /\ ~Queued(rq', sock'[x].binded_pcb)
        BY DEF NoLostWakeup
      <3>1. CASE x = s
        BY <1>1, <1>5, <1>6, <1>8, <2>3, <2>4, <3>1
      <3>2. CASE x # s
        <4>1. sock[x].spin_lock /\ sock'[x] = sock[x] /\ sock[x].binded_pcb # p
          BY <1>3, <2>4, <3>2
        <4> QED BY <1>6, <2>3, <4>1 DEF IInv, NoLostWakeup
      <3> QED BY <3>1, <3>2
    <2>9. CreatedInv'
      <3> SUFFICES ASSUME NEW x \in Proc, Created(x), ~Queued(rq', x),
                          thread'[x].at # "dead"
                   PROVE  Blocked(x)'
        BY <1>2 DEF CreatedInv
      <3>1. CASE x = p
        BY <1>5, <1>8, <2>4, <3>1 DEF Blocked
      <3>2. CASE x # p
        <4>1. Blocked(x)
          BY <1>6, <2>3, <3>2 DEF IInv, CreatedInv
        <4>2. PICK y \in Sock : sock[y].spin_lock /\ sock[y].binded_pcb = x
          BY <4>1 DEF Blocked
        <4> QED BY <1>8, <2>4, <3>2, <4>2 DEF Blocked
      <3> QED BY <3>1, <3>2
    <2>10. RunningIsTail' /\ HighestRuns'
      BY <2>1 DEF RunningIsTail, HighestRuns
    <2> QED BY <1>7, <2>5, <2>6, <2>7, <2>8, <2>9, <2>10 DEF IInv
  <1>9. CASE ~(sock[s].binded_pcb = p /\ IsEmpty(sock[s].q))
    <2>1. UNCHANGED <<rq, pendsv>>
      BY <1>9 DEF k_recv_message
    <2>2. /\ \A x \in Sock : sock'[x].spin_lock = sock[x].spin_lock
          /\ \A x \in Sock : sock[x].spin_lock => sock'[x] = sock[x]
      <3>1. CASE sock[s].binded_pcb # p
        BY <3>1 DEF k_recv_message
      <3>2. CASE sock[s].binded_pcb = p
        <4>1. sock' = [sock EXCEPT ![s] = [@ EXCEPT !.q = Take(sock[s].q)]]
          BY <1>9, <3>2 DEF k_recv_message
        <4>2. ~sock[s].spin_lock
          BY <1>3, <3>2
        <4> QED BY <1>1, <4>1, <4>2
      <3> QED BY <3>1, <3>2
    <2>3. TypeOK' /\ RingsMatch' /\ PlaceInv' /\ RunningIsTail' /\ HighestRuns'
      BY <1>2, <1>5, <1>6, <2>1
        DEF IInv, TypeOK, RingsMatch, PlaceInv, RunningIsTail, HighestRuns
    <2>4. BootInv'
      BY <1>2, <1>5, <2>1 DEF IInv, BootInv
    <2>5. NoLostWakeup'
      BY <1>3, <1>6, <2>1, <2>2 DEF IInv, NoLostWakeup
    <2>6. CreatedInv'
      BY <1>2, <1>3, <1>5, <1>6, <2>1, <2>2 DEF IInv, CreatedInv, Blocked, Queued
    <2> QED BY <1>7, <2>3, <2>4, <2>5, <2>6 DEF IInv
  <1> QED BY <1>8, <1>9

(* bind keeps it. *)
LEMMA BindStep == ASSUME IInv, NEW p \in Proc, bind(p) PROVE IInv'
  <1>1. PICK s \in Sock :
            /\ sock[s].binded_pcb = NULL
            /\ pcb[p].binded_socket = NoSock
            /\ sock' = [sock EXCEPT ![s] = [@ EXCEPT !.binded_pcb = p,
                                                    !.q = Reset(sock[s].q)]]
            /\ pcb' = [pcb EXCEPT ![p] = [@ EXCEPT !.binded_socket = s]]
    BY DEF bind
  <1>2. /\ p \in Receivers /\ Up
        /\ UNCHANGED <<rq, running, cur_priority, pendsv, ToD, booted, thread>>
    BY DEF bind, Runs, sched
  <1>3. /\ sock[s].q \in MsgQueues
        /\ sock \in [Sock -> [binded_pcb : Proc \cup {NULL}, spin_lock : BOOLEAN,
                              q : MsgQueues]]
        /\ pcb \in [Proc -> [priority : Pri, binded_socket : Sock \cup {NoSock}]]
    BY DEF IInv, TypeOK
  <1>4. Reset(sock[s].q) \in MsgQueues
    BY <1>3, QueueTypes
  <1>5. ~sock[s].spin_lock
    BY <1>1, ReadyQueueAssumption DEF IInv, NoLostWakeup
  <1>6. /\ sock' \in [Sock -> [binded_pcb : Proc \cup {NULL}, spin_lock : BOOLEAN,
                               q : MsgQueues]]
        /\ \A x \in Sock : x # s => sock'[x] = sock[x]
        /\ sock'[s].binded_pcb = p /\ ~sock'[s].spin_lock
        /\ \A x \in Sock : sock'[x].spin_lock <=> sock[x].spin_lock
    BY <1>1, <1>3, <1>4, <1>5
  <1>7. /\ pcb' \in [Proc -> [priority : Pri, binded_socket : Sock \cup {NoSock}]]
        /\ \A x \in Proc : x # p => pcb'[x] = pcb[x]
        /\ \A x \in Proc : pcb'[x].priority = pcb[x].priority
        /\ pcb'[p].binded_socket = s
    BY <1>1, <1>3
  <1>8. (\A x \in Proc : Created(x)' <=> Created(x)) /\ (Up' <=> Up)
    BY <1>2 DEF Created, Up
  <1>9. TypeOK' /\ RingsMatch' /\ RunningIsTail' /\ HighestRuns'
    BY <1>2, <1>6, <1>7, <1>8 DEF IInv, TypeOK, RingsMatch, RunningIsTail, HighestRuns
  <1>10. BootInv' /\ PlaceInv'
    BY <1>2, <1>7, <1>8 DEF IInv, BootInv, PlaceInv
  <1>11. OwnerInv'
    BY <1>2, <1>6 DEF IInv, OwnerInv
  <1>12. BindingsAgree'
    <2> SUFFICES ASSUME NEW x \in Proc, NEW y \in Sock
                 PROVE  pcb'[x].binded_socket = y <=> sock'[y].binded_pcb = x
      BY DEF BindingsAgree
    <2>1. pcb[x].binded_socket = y <=> sock[y].binded_pcb = x
      BY DEF IInv, BindingsAgree
    <2>2. CASE x = p /\ y = s
      BY <1>6, <1>7, <2>2
    <2>3. CASE x = p /\ y # s
      BY <1>1, <1>6, <1>7, <2>1, <2>3, KernelAssumption
    <2>4. CASE x # p /\ y = s
      BY <1>1, <1>6, <1>7, <2>1, <2>4, ReadyQueueAssumption
    <2>5. CASE x # p /\ y # s
      BY <1>6, <1>7, <2>1, <2>5
    <2> QED BY <2>2, <2>3, <2>4, <2>5
  <1>13. NoLostWakeup'
    BY <1>2, <1>6 DEF IInv, NoLostWakeup
  <1>14. CreatedInv'
    BY <1>2, <1>5, <1>6, <1>8 DEF IInv, CreatedInv, Blocked
  <1> QED BY <1>9, <1>10, <1>11, <1>12, <1>13, <1>14 DEF IInv

(* A step that only moves the clock or the running process within its code.   *)
LEMMA TickStep == ASSUME IInv, SysTickHandler PROVE IInv'
  <1>1. /\ Up /\ Up' /\ (pendsv => pendsv') /\ pendsv' \in BOOLEAN
        /\ UNCHANGED <<rq, running, cur_priority, booted, pcb, sock, thread>>
    BY DEF SysTickHandler, Up, IInv, TypeOK
  <1>2. ToD' \in 0 .. TIME_QUANTUM - 1
    <2>1. TIME_QUANTUM \in Nat \ {0} /\ ToD \in Nat
      BY KernelAssumption DEF IInv, TypeOK
    <2>2. ToD' = (ToD + 1) % TIME_QUANTUM
      BY DEF SysTickHandler
    <2> QED BY <2>1, <2>2
  <1>3. TypeOK' /\ RingsMatch' /\ PlaceInv' /\ OwnerInv' /\ BindingsAgree'
    BY <1>1, <1>2
      DEF IInv, TypeOK, RingsMatch, PlaceInv, OwnerInv, BindingsAgree
  <1>4. BootInv' /\ NoLostWakeup' /\ CreatedInv'
    BY <1>1 DEF IInv, BootInv, NoLostWakeup, CreatedInv, Created, Blocked
  <1>5. RunningIsTail' /\ HighestRuns'
    BY <1>1 DEF IInv, RunningIsTail, HighestRuns
  <1> QED BY <1>3, <1>4, <1>5 DEF IInv

(* The return from recv keeps it. *)
LEMMA ReturnStep == ASSUME IInv, NEW p \in Proc, recv_return(p) PROVE IInv'
  <1>1. /\ Up /\ Up' /\ ~pendsv /\ running = p
        /\ thread' = [thread EXCEPT ![p] = InUser]
        /\ UNCHANGED <<rq, running, cur_priority, pendsv, ToD, booted, pcb, sock>>
    BY DEF recv_return, Runs, Up, sched
  <1>2. \A s \in Sock : sock[s].spin_lock => sock[s].binded_pcb # p
    BY <1>1, RunningFacts
  <1>3. thread' \in [Proc -> ThreadStates] /\ thread'[p].at = "user"
        /\ \A x \in Proc : x # p => thread'[x] = thread[x]
    BY <1>1 DEF IInv, TypeOK, InUser, ThreadStates
  <1>4. Queued(rq, p)
    BY <1>1, RunningFacts DEF Queued
  <1>5. TypeOK' /\ RingsMatch' /\ PlaceInv' /\ BindingsAgree'
    BY <1>1, <1>3 DEF IInv, TypeOK, RingsMatch, PlaceInv, BindingsAgree
  <1>6. OwnerInv'
    <2>1. thread'[Idle].at = "user"
      BY <1>3, KernelAssumption DEF IInv, OwnerInv
    <2>2. ASSUME NEW x \in Proc, thread'[x].at \in {"recv2", "copy"}
          PROVE  x \in Receivers /\ thread'[x].dst \in Sock
      <3>1. x # p /\ thread'[x] = thread[x]
        BY <1>3, <2>2
      <3> QED BY <2>2, <3>1 DEF IInv, OwnerInv
    <2>3. \A s \in Sock : sock'[s].binded_pcb # NULL => sock'[s].binded_pcb \in Receivers
      BY <1>1 DEF IInv, OwnerInv
    <2> QED BY <2>1, <2>2, <2>3 DEF OwnerInv
  <1>7. BootInv'
    BY <1>1 DEF IInv, BootInv, Created
  <1>8. NoLostWakeup'
    BY <1>1, <1>2, <1>3 DEF IInv, NoLostWakeup
  <1>9. CreatedInv'
    BY <1>1, <1>3, <1>4 DEF IInv, CreatedInv, Created, Blocked
  <1>10. RunningIsTail' /\ HighestRuns'
    BY <1>1 DEF IInv, RunningIsTail, HighestRuns
  <1> QED BY <1>5, <1>6, <1>7, <1>8, <1>9, <1>10 DEF IInv

(* terminate keeps it: the process leaves its queue and PendSV takes          *)
(* another.                                                                   *)
LEMMA TerminateStep == ASSUME IInv, NEW p \in Proc, Kterminate(p) PROVE IInv'
  <1>1. /\ Up /\ Up' /\ ~pendsv /\ running = p /\ p # Idle
        /\ rq' = dequeue_pcb(rq, p, cur_priority)
        /\ pendsv' = TRUE
        /\ thread' = [thread EXCEPT ![p] = [InUser EXCEPT !.at = "dead"]]
        /\ UNCHANGED <<running, cur_priority, ToD, booted, pcb, sock>>
    BY DEF Kterminate, Runs, Up
  <1>2. /\ cur_priority \in Pri /\ rq.order[cur_priority] # << >>
        /\ p = rq.order[cur_priority][Len(rq.order[cur_priority])]
        /\ \A x \in Sock : sock[x].spin_lock => sock[x].binded_pcb # p
    BY <1>1, RunningFacts
  <1>3. /\ rq' \in Links /\ WellFormed(rq')
        /\ \A x \in Proc, j \in Pri :
              StandsIn(rq', x, j) <=> StandsIn(rq, x, j) /\ x # p
    BY <1>1, <1>2, DequeueKeepsWellFormed DEF IInv, TypeOK, RingsMatch
  <1>4. \A x \in Proc : Queued(rq', x) <=> Queued(rq, x) /\ x # p
    BY <1>3 DEF Queued
  <1>5. /\ thread' \in [Proc -> ThreadStates] /\ thread'[p].at = "dead"
        /\ \A x \in Proc : x # p => thread'[x] = thread[x]
    BY <1>1 DEF IInv, TypeOK, InUser, ThreadStates
  <1>6. TypeOK' /\ RingsMatch'
    BY <1>1, <1>3, <1>5 DEF IInv, TypeOK, RingsMatch
  <1>7. PlaceInv' /\ BindingsAgree'
    BY <1>1, <1>3 DEF IInv, PlaceInv, BindingsAgree
  <1>8. OwnerInv'
    <2>1. thread'[Idle].at = "user"
      BY <1>1, <1>5, KernelAssumption DEF IInv, OwnerInv
    <2>2. ASSUME NEW x \in Proc, thread'[x].at \in {"recv2", "copy"}
          PROVE  x \in Receivers /\ thread'[x].dst \in Sock
      <3>1. x # p /\ thread'[x] = thread[x]
        BY <1>5, <2>2
      <3> QED BY <2>2, <3>1 DEF IInv, OwnerInv
    <2>3. \A s \in Sock : sock'[s].binded_pcb # NULL => sock'[s].binded_pcb \in Receivers
      BY <1>1 DEF IInv, OwnerInv
    <2> QED BY <2>1, <2>2, <2>3 DEF OwnerInv
  <1>9. BootInv'
    BY <1>1, <1>4 DEF IInv, BootInv, Created
  <1>10. NoLostWakeup'
    BY <1>1, <1>2, <1>4, <1>5 DEF IInv, NoLostWakeup
  <1>11. CreatedInv'
    BY <1>1, <1>4, <1>5 DEF IInv, CreatedInv, Created, Blocked
  <1>12. RunningIsTail' /\ HighestRuns'
    BY <1>1 DEF RunningIsTail, HighestRuns
  <1> QED BY <1>6, <1>7, <1>8, <1>9, <1>10, <1>11, <1>12 DEF IInv

(* nice keeps it: the process moves to the queue it will be taken from. *)
LEMMA NiceStep ==
    ASSUME IInv, NicersDoNotReceive, NEW p \in Proc, Knice(p) PROVE IInv'
  <1> DEFINE r == dequeue_pcb(rq, p, cur_priority)
             i == cur_priority'
  <1>1. PICK command \in Commands(p) : cur_priority' = NewPriority(command)
    BY DEF Knice
  <1>2. /\ Up /\ Up' /\ ~pendsv /\ running = p /\ p # Idle
        /\ rq' = enqueue_pcb(r, p, i)
        /\ pendsv' = TRUE
        /\ UNCHANGED <<running, ToD, booted, pcb, sock, thread>>
    BY DEF Knice, Runs, Up
  <1>3. /\ cur_priority \in Pri /\ rq.order[cur_priority] # << >>
        /\ p = rq.order[cur_priority][Len(rq.order[cur_priority])]
        /\ StandsIn(rq, p, cur_priority)
        /\ \A x \in Sock : sock[x].spin_lock => sock[x].binded_pcb # p
    BY <1>2, RunningFacts
  <1>4. cur_priority # MAX_NUM_PRI - 1 /\ (p \in Receivers => cur_priority = pcb[p].priority)
    BY <1>2, <1>3 DEF IInv, PlaceInv
  <1>5. i \in Pri /\ i # MAX_NUM_PRI - 1 /\ (p \in Receivers => i = cur_priority)
    <2>1. MAX_NUM_PRI \in Nat /\ MAX_NUM_PRI > 1 /\ cur_priority \in 0 .. MAX_NUM_PRI - 2
      BY <1>3, <1>4, ReadyQueueAssumption, KernelAssumption DEF Pri
    <2>2. command \in 0 .. GUCPU /\ (p \in Receivers => command = GUCPU)
      <3>1. GUCPU \in 0 .. GUCPU
        BY <2>1 DEF GUCPU
      <3> QED BY <3>1 DEF Commands, NicersDoNotReceive
    <2>3. CASE command < INC
      BY <1>1, <2>1, <2>2, <2>3 DEF NewPriority, INC, GUCPU, Pri
    <2>4. CASE command = INC
      BY <1>1, <2>1, <2>2, <2>4 DEF NewPriority, INC, DEC, GUCPU, Pri
    <2>5. CASE command = DEC
      BY <1>1, <2>1, <2>2, <2>5 DEF NewPriority, INC, DEC, GUCPU, Pri
    <2>6. CASE command > DEC
      BY <1>1, <2>1, <2>2, <2>6 DEF NewPriority, INC, DEC, GUCPU, Pri
    <2> QED BY <2>1, <2>2, <2>3, <2>4, <2>5, <2>6 DEF INC, DEC, GUCPU
  <1>6. /\ r \in Links /\ WellFormed(r)
        /\ \A x \in Proc, j \in Pri :
              StandsIn(r, x, j) <=> StandsIn(rq, x, j) /\ x # p
    BY <1>2, <1>3, DequeueKeepsWellFormed DEF IInv, TypeOK, RingsMatch
  <1>7. ~Queued(r, p)
    BY <1>6 DEF Queued
  <1> HIDE DEF r
  <1>8. /\ rq' \in Links /\ WellFormed(rq')
        /\ \A x \in Proc, j \in Pri :
              StandsIn(rq', x, j) <=> StandsIn(r, x, j) \/ (x = p /\ j = i)
    BY <1>2, <1>5, <1>6, <1>7, EnqueueKeepsWellFormed
  <1>9. \A x \in Proc : Queued(rq', x) <=> Queued(rq, x)
    BY <1>3, <1>5, <1>6, <1>8 DEF Queued
  <1>10. TypeOK' /\ RingsMatch'
    <2>1. i \in 0 .. MAX_NUM_PRI
      BY <1>5, ReadyQueueAssumption DEF Pri
    <2> QED BY <1>2, <1>8, <2>1 DEF IInv, TypeOK, RingsMatch
  <1>11. PlaceInv'
    BY <1>2, <1>4, <1>5, <1>6, <1>8 DEF IInv, PlaceInv
  <1>12. OwnerInv' /\ BindingsAgree'
    BY <1>2 DEF IInv, OwnerInv, BindingsAgree
  <1>13. BootInv'
    BY <1>2, <1>5, <1>9 DEF IInv, BootInv, Created
  <1>14. NoLostWakeup' /\ CreatedInv'
    BY <1>2, <1>9 DEF IInv, NoLostWakeup, CreatedInv, Created, Blocked
  <1>15. RunningIsTail' /\ HighestRuns'
    BY <1>2 DEF RunningIsTail, HighestRuns
  <1> QED BY <1>10, <1>11, <1>12, <1>13, <1>14, <1>15 DEF IInv

(* The invariant is inductive. *)
LEMMA NextIInv == ASSUME IInv, NicersDoNotReceive, [Next]_vars PROVE IInv'
  <1>1. Len(BootTable) \in Nat
    BY KernelAssumption
  <1>2. CASE create_proc
    BY <1>2, CreateStep
  <1>3. CASE Krun
    <2>1. ~Up /\ booted = Len(BootTable)
      BY <1>1, <1>3 DEF Krun, Up
    <2>2. pendsv' = FALSE
      BY <1>3, <2>1 DEF Krun, IInv, BootInv, TypeOK
    <2>3. /\ get_new_proc /\ booted >= Len(BootTable)
          /\ booted' = Len(BootTable) + 1
          /\ UNCHANGED <<ToD, pcb, sock, thread>>
      BY <1>1, <1>3, <2>1 DEF Krun
    <2> QED BY <2>2, <2>3, SelectStep
  <1>4. CASE SysTickHandler
    BY <1>4, TickStep
  <1>5. CASE PendSV
    <2>1. /\ get_new_proc /\ booted >= Len(BootTable)
          /\ booted' = Len(BootTable) + 1
          /\ pendsv' = FALSE /\ UNCHANGED <<ToD, pcb, sock, thread>>
      BY <1>1, <1>5 DEF PendSV, Up
    <2> QED BY <2>1, SelectStep
  <1>6. CASE GPIOPortF_IntHandler
    <2>1. PICK s \in IsrSock, m \in Msg : k_send_message(s, m)
      BY <1>6 DEF GPIOPortF_IntHandler
    <2>2. s \in Sock
      BY KernelAssumption
    <2> QED BY <1>6, <2>1, <2>2, SendStep DEF GPIOPortF_IntHandler
  <1>7. ASSUME NEW p \in Proc, bind(p) PROVE IInv'
    BY <1>7, BindStep
  <1>8. ASSUME NEW p \in Proc, send(p) PROVE IInv'
    BY <1>1, <1>8, SendStep DEF send, Runs, Up
  <1>9. ASSUME NEW p \in Proc, recv(p) PROVE IInv'
    <2>1. /\ Up /\ ~pendsv /\ running = p /\ p # Idle /\ p \in Receivers
          /\ UNCHANGED <<running, cur_priority, ToD, booted, pcb>>
      BY <1>9 DEF recv, Runs
    <2>2. PICK s \in Sock : k_recv_message(p, s, "recv2")
      BY <1>9 DEF recv
    <2> QED BY <2>1, <2>2, RecvStep
  <1>10. ASSUME NEW p \in Proc, recv_again(p) PROVE IInv'
    <2>1. p \in Receivers /\ thread[p].dst \in Sock
      BY <1>10 DEF recv_again, Runs, IInv, OwnerInv
    <2>2. /\ Up /\ ~pendsv /\ running = p /\ p # Idle
          /\ UNCHANGED <<running, cur_priority, ToD, booted, pcb>>
      BY <1>10 DEF recv_again, Runs
    <2>3. k_recv_message(p, thread[p].dst, "copy")
      BY <1>10 DEF recv_again
    <2> QED BY <2>1, <2>2, <2>3, RecvStep
  <1>11. ASSUME NEW p \in Proc, recv_return(p) PROVE IInv'
    BY <1>11, ReturnStep
  <1>12. ASSUME NEW p \in Proc, Knice(p) PROVE IInv'
    BY <1>12, NiceStep
  <1>13. ASSUME NEW p \in Proc, Kterminate(p) PROVE IInv'
    BY <1>13, TerminateStep
  <1>14. CASE UNCHANGED vars
    BY <1>14 DEF vars, IInv, TypeOK, RingsMatch, BootInv, PlaceInv, OwnerInv,
        BindingsAgree, NoLostWakeup, CreatedInv, RunningIsTail, HighestRuns,
        Up, Created, Blocked
  <1> QED BY <1>2, <1>3, <1>4, <1>5, <1>6, <1>7, <1>8, <1>9, <1>10, <1>11,
             <1>12, <1>13, <1>14 DEF Next

(* The queues of kernel.c, the running process and the sockets stay           *)
(* consistent in every run in which no receiver changes its priority.         *)
THEOREM Invariance == NicersDoNotReceive => (Spec => []IInv)
  <1> SUFFICES ASSUME NicersDoNotReceive PROVE Spec => []IInv
    OBVIOUS
  <1>1. Init => IInv
    BY InitIInv
  <1>2. IInv /\ [Next]_vars => IInv'
    BY NextIInv
  <1> QED BY <1>1, <1>2, PTL DEF Spec

-----------------------------------------------------------------------------
(* The properties TLC checks on a small instance, for every instance in which *)
(* no process that receives changes its priority.                             *)

(* The state of the kernel keeps its types. *)
THEOREM Types == NicersDoNotReceive => (Spec => []TypeOK)
  <1>1. IInv => TypeOK
    BY DEF IInv
  <1> QED BY <1>1, Invariance, PTL

(* enqueue_pcb, dequeue_pcb and get_new_proc keep every list one cycle        *)
(* through the processes of its queue.                                        *)
THEOREM Rings == NicersDoNotReceive => (Spec => []RingsMatch)
  <1>1. IInv => RingsMatch
    BY DEF IInv
  <1> QED BY <1>1, Invariance, PTL

(* The thread that executes stands at the end of the queue cur_priority.      *)
THEOREM LastOfItsQueue == NicersDoNotReceive => (Spec => []RunningIsTail)
  <1>1. IInv => RunningIsTail
    BY DEF IInv
  <1> QED BY <1>1, Invariance, PTL

(* Strict priorities: nothing runs while a process of a higher one is ready.  *)
THEOREM Priorities == NicersDoNotReceive => (Spec => []HighestRuns)
  <1>1. IInv => HighestRuns
    BY DEF IInv
  <1> QED BY <1>1, Invariance, PTL

(* No packet arrives at a socket and leaves its receiver waiting.             *)
THEOREM Wakeup == NicersDoNotReceive => (Spec => []NoLostWakeup)
  <1>1. IInv => NoLostWakeup
    BY DEF IInv
  <1> QED BY <1>1, Invariance, PTL

(* The PCB and the socket name each other. *)
THEOREM Bindings == NicersDoNotReceive => (Spec => []BindingsAgree)
  <1>1. IInv => BindingsAgree
    BY DEF IInv
  <1> QED BY <1>1, Invariance, PTL

(* Every process of Kinit's table is queued, waits for a packet or has ended. *)
THEOREM Processes == NicersDoNotReceive => (Spec => []NoLostProcess)
  <1>1. ASSUME IInv PROVE NoLostProcess
    <2> SUFFICES ASSUME booted >= Len(BootTable), NEW p \in Proc PROVE Created(p)
      BY <1>1 DEF NoLostProcess, IInv, CreatedInv
    <2>1. Len(BootTable) \in Nat /\ booted \in Nat
      BY <1>1, KernelAssumption DEF IInv, TypeOK
    <2>2. PICK k \in 1 .. Len(BootTable) : BootTable[k][1] = p
      BY KernelAssumption
    <2>3. k <= booted
      BY <2>1, <2>2
    <2> QED BY <2>2, <2>3 DEF Created
  <1> QED BY <1>1, Invariance, PTL
-----------------------------------------------------------------------------
(* The kernel implements the abstract specifications: the sockets deliver as  *)
(* Mailbox says, whatever the processes do, and the processor is given as     *)
(* Scheduler says.                                                            *)

(* The state of Mailbox that a state of the kernel stands for.                *)
Owner == [s \in Sock |-> sock[s].binded_pcb]

Mail == [s \in Sock |-> IF sock[s].binded_pcb = NULL THEN << >>
                        ELSE Contents(sock[s].q)]

Inbox == [p \in Proc |-> thread[p].pkt]

-----------------------------------------------------------------------------
(* The circular array of a socket as the sequence of its unread packets.      *)

(* Between the indices of k_send_message and k_recv_message, as Arithmetic    *)
(* has it.                                                                    *)
LEMMA ContentsIsUnseen ==
    ASSUME NEW q \in MsgQueues
    PROVE  /\ Contents(q) = Unseen(MSG_QUEUE_SIZE, q.head, q.tail, q.buf)
           /\ MSG_QUEUE_SIZE \in Nat \ {0, 1}
           /\ q.head \in 0 .. MSG_QUEUE_SIZE - 1
           /\ q.tail \in 0 .. MSG_QUEUE_SIZE - 1
           /\ q.buf \in [0 .. MSG_QUEUE_SIZE - 1 -> Msg \cup {NoMsg}]
  BY MsgQueueAssumption
    DEF MsgQueues, Slot, Contents, Unread, ReadSlot, Unseen, Held

(* What is unread is a sequence, empty exactly when k_recv_message says so,   *)
(* and after k_bind_message.                                                  *)
LEMMA ContentsSeq ==
    ASSUME NEW q \in MsgQueues
    PROVE  /\ Contents(q) \in Seq(Msg \cup {NoMsg})
           /\ Len(Contents(q)) = Unread(q)
           /\ Unread(q) \in 0 .. MSG_QUEUE_SIZE - 1
           /\ Contents(q) = << >> <=> IsEmpty(q)
           /\ Contents(Reset(q)) = << >>
  <1>1. /\ Contents(q) = Unseen(MSG_QUEUE_SIZE, q.head, q.tail, q.buf)
        /\ MSG_QUEUE_SIZE \in Nat \ {0, 1}
        /\ q.head \in 0 .. MSG_QUEUE_SIZE - 1
        /\ q.tail \in 0 .. MSG_QUEUE_SIZE - 1
        /\ q.buf \in [0 .. MSG_QUEUE_SIZE - 1 -> Msg \cup {NoMsg}]
    BY ContentsIsUnseen
  <1>2. Unread(q) = Held(MSG_QUEUE_SIZE, q.head, q.tail)
    BY DEF Unread, ReadSlot, Held
  <1>3. Contents(q) \in Seq(Msg \cup {NoMsg})
    BY <1>1, UnseenSeq
  <1>4. Len(Contents(q)) = Unread(q) /\ (Contents(q) = << >> <=> IsEmpty(q))
    BY <1>1, <1>2, UnseenLen DEF IsEmpty, ReadSlot
  <1>5. Unread(q) \in 0 .. MSG_QUEUE_SIZE - 1
    BY <1>1, <1>2, HeldValue
  <1>6. Contents(Reset(q)) = << >>
    <2>1. Reset(q) \in MsgQueues /\ IsEmpty(Reset(q))
      BY QueueTypes
    <2>2. /\ Contents(Reset(q)) =
                Unseen(MSG_QUEUE_SIZE, Reset(q).head, Reset(q).tail, Reset(q).buf)
          /\ Reset(q).head \in 0 .. MSG_QUEUE_SIZE - 1
          /\ Reset(q).tail \in 0 .. MSG_QUEUE_SIZE - 1
      BY <2>1, ContentsIsUnseen
    <2> QED BY <1>1, <2>1, <2>2, UnseenLen DEF IsEmpty, ReadSlot
  <1> QED BY <1>3, <1>4, <1>5, <1>6

(* k_send_message appends, and empties the queue when it is full.             *)
LEMMA ContentsPut ==
    ASSUME NEW q \in MsgQueues, NEW m \in Msg
    PROVE  Contents(Put(q, m)) = IF Len(Contents(q)) < MSG_QUEUE_SIZE - 1
                                 THEN Append(Contents(q), m) ELSE << >>
  <1>1. /\ Contents(q) = Unseen(MSG_QUEUE_SIZE, q.head, q.tail, q.buf)
        /\ MSG_QUEUE_SIZE \in Nat \ {0, 1}
        /\ q.head \in 0 .. MSG_QUEUE_SIZE - 1
        /\ q.tail \in 0 .. MSG_QUEUE_SIZE - 1
        /\ q.buf \in [0 .. MSG_QUEUE_SIZE - 1 -> Msg \cup {NoMsg}]
    BY ContentsIsUnseen
  <1>2. Contents(Put(q, m)) = Unseen(MSG_QUEUE_SIZE, (q.head + 1) % MSG_QUEUE_SIZE,
                                     q.tail, [q.buf EXCEPT ![q.head] = m])
    <2>1. Put(q, m) \in MsgQueues
      BY QueueTypes
    <2> QED BY <2>1, ContentsIsUnseen DEF Put
  <1>3. m \in Msg \cup {NoMsg}
    OBVIOUS
  <1> DEFINE N == MSG_QUEUE_SIZE
             h == q.head
             t == q.tail
             b == q.buf
             S == Msg \cup {NoMsg}
  <1>4. /\ N \in Nat \ {0, 1} /\ h \in 0 .. N - 1 /\ t \in 0 .. N - 1
        /\ b \in [0 .. N - 1 -> S] /\ m \in S
    BY <1>1, <1>3
  <1> HIDE DEF N, h, t, b, S
  <1>5. Unseen(N, (h + 1) % N, t, [b EXCEPT ![h] = m]) =
            IF Len(Unseen(N, h, t, b)) < N - 1
            THEN Append(Unseen(N, h, t, b), m) ELSE << >>
    BY <1>4, RingPut, Zenon
  <1> QED BY <1>1, <1>2, <1>5 DEF N, h, t, b

(* k_recv_message takes the oldest packet.                                    *)
LEMMA ContentsTake ==
    ASSUME NEW q \in MsgQueues, ~IsEmpty(q)
    PROVE  /\ Contents(q) # << >>
           /\ First(q) = Head(Contents(q))
           /\ Contents(Take(q)) = Tail(Contents(q))
  <1>1. /\ Contents(q) = Unseen(MSG_QUEUE_SIZE, q.head, q.tail, q.buf)
        /\ MSG_QUEUE_SIZE \in Nat \ {0, 1}
        /\ q.head \in 0 .. MSG_QUEUE_SIZE - 1
        /\ q.tail \in 0 .. MSG_QUEUE_SIZE - 1
        /\ q.buf \in [0 .. MSG_QUEUE_SIZE - 1 -> Msg \cup {NoMsg}]
    BY ContentsIsUnseen
  <1>2. (q.tail + 1) % MSG_QUEUE_SIZE # q.head
    BY DEF IsEmpty, ReadSlot
  <1>3. Contents(Take(q)) = Unseen(MSG_QUEUE_SIZE, q.head,
                                   (q.tail + 1) % MSG_QUEUE_SIZE, q.buf)
    <2>1. Take(q) \in MsgQueues
      BY QueueTypes
    <2>2. Take(q).head = q.head /\ Take(q).buf = q.buf
          /\ Take(q).tail = (q.tail + 1) % MSG_QUEUE_SIZE
      BY DEF Take, ReadSlot, MsgQueues
    <2> QED BY <2>1, <2>2, ContentsIsUnseen
  <1>4. First(q) = q.buf[(q.tail + 1) % MSG_QUEUE_SIZE]
    BY DEF First, ReadSlot
  <1> DEFINE N == MSG_QUEUE_SIZE
             h == q.head
             t == q.tail
             b == q.buf
             S == Msg \cup {NoMsg}
  <1>5. /\ N \in Nat \ {0, 1} /\ h \in 0 .. N - 1 /\ t \in 0 .. N - 1
        /\ b \in [0 .. N - 1 -> S] /\ (t + 1) % N # h
    BY <1>1, <1>2
  <1> HIDE DEF N, h, t, b, S
  <1>6. /\ Unseen(N, h, t, b) # << >>
        /\ b[(t + 1) % N] = Head(Unseen(N, h, t, b))
        /\ Unseen(N, h, (t + 1) % N, b) = Tail(Unseen(N, h, t, b))
    BY <1>5, RingTake, Zenon
  <1> QED BY <1>1, <1>3, <1>4, <1>6 DEF N, h, t, b

-----------------------------------------------------------------------------
(* The sockets *)

Same == UNCHANGED <<Owner, Mail, Inbox>>

(* k_send_message to a bound socket is Send; to another it changes nothing    *)
(* Mailbox speaks of.                                                         *)
LEMMA SendBox ==
    ASSUME BoxInv, NEW s \in Sock, NEW m \in Msg, k_send_message(s, m),
           UNCHANGED thread
    PROVE  BoxInv' /\ (Boxes!Send(s, m) \/ Same)
  <1> DEFINE q == sock[s].q
  <1>1. q \in MsgQueues /\ Put(q, m) \in MsgQueues
    BY QueueTypes DEF BoxInv
  <1>2. sock' = [sock EXCEPT ![s] = [@ EXCEPT !.q = Put(q, m), !.spin_lock = FALSE]]
    BY DEF k_send_message
  <1>3. Contents(Put(q, m)) = IF Len(Contents(q)) < MSG_QUEUE_SIZE - 1
                              THEN Append(Contents(q), m) ELSE << >>
    BY <1>1, ContentsPut
  <1> HIDE DEF q
  <1>4. /\ sock'[s].binded_pcb = sock[s].binded_pcb /\ sock'[s].q = Put(q, m)
        /\ sock' \in [Sock -> [binded_pcb : Proc \cup {NULL}, spin_lock : BOOLEAN,
                               q : MsgQueues]]
        /\ \A x \in Sock : x # s => sock'[x] = sock[x]
    BY <1>1, <1>2 DEF BoxInv
  <1>5. BoxInv'
    BY <1>4 DEF BoxInv
  <1>6. Owner' = Owner /\ Inbox' = Inbox
    BY <1>4 DEF Owner, Inbox
  <1>7. CASE sock[s].binded_pcb = NULL
    <2>1. Mail' = Mail
      BY <1>4, <1>7 DEF Mail
    <2> QED BY <1>5, <1>6, <2>1 DEF Same
  <1>8. CASE sock[s].binded_pcb # NULL
    <2>1. Mail' = [Mail EXCEPT ![s] =
                      IF Len(@) < MSG_QUEUE_SIZE - 1 THEN Append(@, m) ELSE << >>]
      BY <1>3, <1>4, <1>8 DEF Mail, q
    <2>2. Owner[s] # NULL
      BY <1>8 DEF Owner
    <2>3. Boxes!Send(s, m)
      BY <1>6, <2>1, <2>2 DEF Boxes!Send, Owner, Mail, Inbox
    <2> QED BY <1>5, <2>3
  <1> QED BY <1>5, <1>7, <1>8

(* k_recv_message by a process without a packet is Receive when its socket    *)
(* has one, and changes nothing otherwise.                                    *)
LEMMA RecvBox ==
    ASSUME BoxInv, NEW p \in Proc, NEW s \in Sock, NEW no \in {"recv2", "copy"},
           thread[p].at # "copy", k_recv_message(p, s, no)
    PROVE  BoxInv' /\ (Boxes!Receive(p, s) \/ Same)
  <1> DEFINE q == sock[s].q
  <1>1. /\ q \in MsgQueues /\ Take(q) \in MsgQueues
        /\ First(q) \in Msg \cup {NoMsg} /\ p # NULL
        /\ thread[p].pkt = NoMsg
    BY QueueTypes, ReadyQueueAssumption DEF BoxInv
  <1>2. CASE sock[s].binded_pcb # p
    <2>1. /\ thread' = [thread EXCEPT ![p] =
                          [at |-> "copy", dst |-> s, pkt |-> NoMsg]]
          /\ sock' = sock
      BY <1>2 DEF k_recv_message
    <2>2. BoxInv'
      BY <2>1 DEF BoxInv, ThreadStates
    <2>3. Inbox' = Inbox
      BY <1>1, <2>1 DEF Inbox, BoxInv
    <2> QED BY <2>1, <2>2, <2>3 DEF Owner, Mail, Same
  <1>3. CASE sock[s].binded_pcb = p /\ IsEmpty(q)
    <2>1. /\ sock' = [sock EXCEPT ![s] = [@ EXCEPT !.spin_lock = TRUE]]
          /\ thread' = [thread EXCEPT ![p] =
                          [at |-> no, dst |-> s, pkt |-> NoMsg]]
      BY <1>3 DEF k_recv_message
    <2>2. BoxInv'
      BY <2>1 DEF BoxInv, ThreadStates
    <2>3. Inbox' = Inbox
      BY <1>1, <2>1 DEF Inbox, BoxInv
    <2>4. \A x \in Sock : /\ sock'[x].binded_pcb = sock[x].binded_pcb
                          /\ sock'[x].q = sock[x].q
      BY <2>1 DEF BoxInv
    <2> QED BY <2>2, <2>3, <2>4 DEF Owner, Mail, Same
  <1>4. CASE sock[s].binded_pcb = p /\ ~IsEmpty(q)
    <2>1. /\ thread' = [thread EXCEPT ![p] =
                          [at |-> "copy", dst |-> s, pkt |-> First(q)]]
          /\ sock' = [sock EXCEPT ![s] = [@ EXCEPT !.q = Take(q)]]
      BY SMTT(30), <1>4 DEF k_recv_message
    <2>2. /\ Contents(q) # << >> /\ First(q) = Head(Contents(q))
          /\ Contents(Take(q)) = Tail(Contents(q))
      BY <1>1, <1>4, ContentsTake
    <2> HIDE DEF q
    <2>3. BoxInv'
      BY <1>1, <2>1 DEF BoxInv, ThreadStates
    <2>4. /\ \A x \in Sock : sock'[x].binded_pcb = sock[x].binded_pcb
          /\ \A x \in Sock : x # s => sock'[x] = sock[x]
          /\ sock'[s].q = Take(q)
      BY <2>1 DEF BoxInv
    <2>5. Owner' = Owner /\ Owner[s] = p
      BY <1>4, <2>4 DEF Owner
    <2>6. Mail[s] = Contents(q) /\ Mail' = [Mail EXCEPT ![s] = Tail(@)]
      BY <1>1, <1>4, <2>2, <2>4 DEF Mail, q
    <2>7. Inbox' = [Inbox EXCEPT ![p] = Head(Mail[s])]
      BY <2>1, <2>2, <2>6 DEF Inbox, BoxInv
    <2> QED BY <2>2, <2>3, <2>5, <2>6, <2>7 DEF Boxes!Receive, Owner, Mail, Inbox
  <1> QED BY <1>2, <1>3, <1>4

(* bind is Bind of the mailbox. *)
LEMMA BindBox ==
    ASSUME BoxInv, NEW p \in Proc, bind(p)
    PROVE  BoxInv' /\ \E s \in Sock : Boxes!Bind(p, s)
  <1>1. PICK s \in Sock :
            /\ sock[s].binded_pcb = NULL
            /\ sock' = [sock EXCEPT ![s] = [@ EXCEPT !.binded_pcb = p,
                                                     !.q = Reset(sock[s].q)]]
    BY DEF bind
  <1> DEFINE q == sock[s].q
  <1>2. thread' = thread
    BY DEF bind
  <1>3. q \in MsgQueues /\ Reset(q) \in MsgQueues /\ Contents(Reset(q)) = << >>
    BY QueueTypes, ContentsSeq DEF BoxInv
  <1> HIDE DEF q
  <1>4. /\ sock'[s].binded_pcb = p /\ sock'[s].q = Reset(q)
        /\ sock' \in [Sock -> [binded_pcb : Proc \cup {NULL}, spin_lock : BOOLEAN,
                               q : MsgQueues]]
        /\ \A x \in Sock : x # s => sock'[x] = sock[x]
    BY <1>1, <1>3 DEF BoxInv, q
  <1>5. BoxInv'
    BY <1>2, <1>4 DEF BoxInv
  <1>6. Owner' = [Owner EXCEPT ![s] = p] /\ Owner[s] = NULL
    BY <1>1, <1>4 DEF Owner
  <1>7. Mail' = Mail
    BY <1>1, <1>3, <1>4, ReadyQueueAssumption DEF Mail
  <1>8. Boxes!Bind(p, s)
    BY <1>2, <1>6, <1>7 DEF Boxes!Bind, Owner, Mail, Inbox
  <1> QED BY <1>5, <1>8

(* The return from recv is Return of the mailbox. *)
LEMMA ReturnBox ==
    ASSUME BoxInv, NEW p \in Proc, recv_return(p)
    PROVE  BoxInv' /\ Boxes!Return(p)
  <1>1. thread' = [thread EXCEPT ![p] = InUser] /\ sock' = sock
    BY DEF recv_return
  <1>2. BoxInv'
    BY <1>1 DEF BoxInv, InUser, ThreadStates
  <1>3. Inbox' = [Inbox EXCEPT ![p] = NoMsg] /\ Owner' = Owner /\ Mail' = Mail
    BY <1>1 DEF Inbox, Owner, Mail, InUser, BoxInv
  <1> QED BY <1>2, <1>3 DEF Boxes!Return, Owner, Mail, Inbox

(* A process that ends changes no mailbox. *)
LEMMA TerminateBox ==
    ASSUME BoxInv, NEW p \in Proc, Kterminate(p)
    PROVE  BoxInv' /\ Same
  <1>1. /\ thread' = [thread EXCEPT ![p] = [InUser EXCEPT !.at = "dead"]]
        /\ sock' = sock /\ thread[p].at = "user"
    BY DEF Kterminate, Runs
  <1>2. BoxInv'
    BY <1>1 DEF BoxInv, InUser, ThreadStates
  <1>3. Inbox' = Inbox /\ Owner' = Owner /\ Mail' = Mail
    BY <1>1 DEF Inbox, Owner, Mail, InUser, BoxInv
  <1> QED BY <1>2, <1>3 DEF Same

(* The kernel starts as the mailboxes do. *)
LEMMA InitBox == Init => BoxInv /\ Boxes!Init
  <1> SUFFICES ASSUME Init PROVE BoxInv /\ Boxes!Init
    OBVIOUS
  <1>1. ZeroQueue \in MsgQueues
    BY MsgQueueAssumption DEF ZeroQueue, MsgQueues, Slot
  <1>2. BoxInv
    BY <1>1 DEF Init, BoxInv, InUser, ThreadStates
  <1>3. Boxes!Init
    BY DEF Init, Boxes!Init, InUser
  <1> QED BY <1>2, <1>3

(* Each step of the kernel is one of the mailboxes, or changes none of        *)
(* them.                                                                      *)
LEMMA NextBox ==
    ASSUME BoxInv, [Next]_vars
    PROVE  BoxInv' /\ [Boxes!Next]_(Boxes!vars)
  <1>1. ASSUME UNCHANGED <<sock, thread>> PROVE BoxInv' /\ Same
    BY <1>1 DEF BoxInv, Same, Owner, Mail, Inbox
  <1>2. ASSUME Same PROVE [Boxes!Next]_(Boxes!vars)
    BY <1>2 DEF Same, Owner, Mail, Inbox, Boxes!vars
  <1>3. CASE create_proc \/ Krun \/ SysTickHandler \/ PendSV \/ UNCHANGED vars
             \/ \E p \in Proc : Knice(p)
    BY <1>1, <1>2, <1>3
      DEF create_proc, Krun, SysTickHandler, PendSV, Knice, vars
  <1>4. ASSUME NEW s \in Sock, NEW m \in Msg, k_send_message(s, m), UNCHANGED thread
        PROVE  BoxInv' /\ [Boxes!Next]_(Boxes!vars)
    BY <1>2, <1>4, SendBox DEF Boxes!Next
  <1>5. CASE GPIOPortF_IntHandler
    BY <1>4, <1>5, KernelAssumption DEF GPIOPortF_IntHandler
  <1>6. ASSUME NEW p \in Proc, send(p) PROVE BoxInv' /\ [Boxes!Next]_(Boxes!vars)
    BY <1>4, <1>6 DEF send
  <1>7. ASSUME NEW p \in Proc, bind(p) PROVE BoxInv' /\ [Boxes!Next]_(Boxes!vars)
    BY <1>7, BindBox DEF Boxes!Next
  <1>8. ASSUME NEW p \in Proc, recv(p) PROVE BoxInv' /\ [Boxes!Next]_(Boxes!vars)
    <2>1. PICK s \in Sock : k_recv_message(p, s, "recv2")
      BY <1>8 DEF recv
    <2>2. thread[p].at # "copy"
      BY <1>8 DEF recv, Runs
    <2> QED BY <1>2, <2>1, <2>2, RecvBox DEF Boxes!Next
  <1>9. ASSUME NEW p \in Proc, recv_again(p)
        PROVE  BoxInv' /\ [Boxes!Next]_(Boxes!vars)
    <2>1. k_recv_message(p, thread[p].dst, "copy") /\ thread[p].at = "recv2"
      BY <1>9 DEF recv_again, Runs
    <2>2. thread[p].dst \in Sock
      BY <2>1 DEF BoxInv
    <2> QED BY <1>2, <2>1, <2>2, RecvBox DEF Boxes!Next
  <1>10. ASSUME NEW p \in Proc, recv_return(p)
         PROVE  BoxInv' /\ [Boxes!Next]_(Boxes!vars)
    BY <1>10, ReturnBox DEF Boxes!Next
  <1>11. ASSUME NEW p \in Proc, Kterminate(p)
         PROVE  BoxInv' /\ [Boxes!Next]_(Boxes!vars)
    BY <1>2, <1>11, TerminateBox
  <1> QED BY <1>3, <1>5, <1>6, <1>7, <1>8, <1>9, <1>10, <1>11 DEF Next

(* Every behaviour of the kernel, with any processes, priorities and sockets  *)
(* and any calls, delivers its packets as Mailbox says (k_send_message,       *)
(* k_recv_message, k_bind_message and recv()).                                *)
THEOREM Delivery == Spec => Delivers
  <1>1. BoxInv /\ [Next]_vars => BoxInv' /\ [Boxes!Next]_(Boxes!vars)
    BY NextBox
  <1> QED BY <1>1, InitBox, PTL DEF Spec, Delivers, Boxes!Spec

-----------------------------------------------------------------------------
(* What recv() hands out, when no socket is ever sent so much that its array  *)
(* wraps: one packet fewer than it has slots.                                 *)
NoOverrun == Burst < MSG_QUEUE_SIZE

(* k_send_message, to a socket whose queue has room for a burst, loses        *)
(* nothing its process waits for.                                             *)
LEMMA SendPacket ==
    ASSUME NoOverrun, BoxInv, PacketInv, NEW s \in Sock, NEW m \in Msg,
           k_send_message(s, m), UNCHANGED thread
    PROVE  PacketInv'
  <1> DEFINE q == sock[s].q
  <1>1. /\ q \in MsgQueues /\ Put(q, m) \in MsgQueues
        /\ MSG_QUEUE_SIZE \in Nat /\ Burst \in Nat
    <2>1. q \in MsgQueues /\ Put(q, m) \in MsgQueues
      BY QueueTypes DEF BoxInv
    <2> QED BY <2>1, MsgQueueAssumption, KernelAssumption
  <1>2. /\ sock' = [sock EXCEPT ![s] = [@ EXCEPT !.q = Put(q, m), !.spin_lock = FALSE]]
        /\ sock[s].binded_pcb # NULL => Unread(q) < Burst
    BY DEF k_send_message
  <1>3. ASSUME sock[s].binded_pcb # NULL
        PROVE  Contents(Put(q, m)) \in Seq(Msg) /\ ~IsEmpty(Put(q, m))
    <2>1. Contents(q) \in Seq(Msg)
      BY <1>3 DEF PacketInv
    <2>2. Len(Contents(q)) < MSG_QUEUE_SIZE - 1
      <3>1. Len(Contents(q)) = Unread(q) /\ Unread(q) \in Nat
        BY <1>1, ContentsSeq
      <3> QED BY <1>1, <1>2, <1>3, <3>1 DEF NoOverrun
    <2>3. Contents(Put(q, m)) = Append(Contents(q), m)
      BY <1>1, <2>2, ContentsPut
    <2>4. Contents(Put(q, m)) \in Seq(Msg) /\ Contents(Put(q, m)) # << >>
      BY <2>1, <2>3
    <2> QED BY <1>1, <2>4, ContentsSeq
  <1> HIDE DEF q
  <1>4. /\ sock'[s].binded_pcb = sock[s].binded_pcb /\ sock'[s].q = Put(q, m)
        /\ \A x \in Sock : x # s => sock'[x] = sock[x]
    BY <1>2 DEF BoxInv
  <1>5. ASSUME NEW x \in Sock, sock'[x].binded_pcb # NULL
        PROVE  Contents(sock'[x].q) \in Seq(Msg)
    BY <1>3, <1>4, <1>5 DEF PacketInv
  <1>6. ASSUME NEW p \in Proc, thread[p].at = "recv2"
        PROVE  LET x == thread[p].dst
               IN  /\ sock'[x].binded_pcb = p
                   /\ sock'[x].spin_lock \/ ~IsEmpty(sock'[x].q)
    <2>1. thread[p].dst \in Sock /\ sock[thread[p].dst].binded_pcb = p /\ p # NULL
      BY <1>6, ReadyQueueAssumption DEF BoxInv, PacketInv
    <2> QED BY <1>3, <1>4, <1>6, <2>1 DEF PacketInv
  <1>7. RecvDelivers'
    <2> SUFFICES ASSUME NEW p \in Proc, thread[p].at = "copy", thread[p].pkt \notin Msg
                 PROVE  sock'[thread[p].dst].binded_pcb # p
      BY DEF RecvDelivers
    <2>1. sock[thread[p].dst].binded_pcb # p
      BY DEF PacketInv, RecvDelivers
    <2> QED BY <1>2, <1>4, <2>1
  <1> QED BY <1>5, <1>6, <1>7 DEF PacketInv

(* The two SVCs of recv(): the second finds a packet in its own socket. *)
LEMMA RecvPacket ==
    ASSUME BoxInv, PacketInv, NEW p \in Proc, NEW s \in Sock,
           NEW no \in {"recv2", "copy"}, k_recv_message(p, s, no),
           no = "copy" => sock[s].binded_pcb = p /\ ~IsEmpty(sock[s].q)
    PROVE  PacketInv'
  <1> DEFINE q == sock[s].q
  <1>1. q \in MsgQueues /\ Take(q) \in MsgQueues /\ p # NULL
    BY QueueTypes, ReadyQueueAssumption DEF BoxInv
  <1>2. \A x \in Proc : thread[x].at = "recv2" =>
            thread[x].dst \in Sock /\ sock[thread[x].dst].binded_pcb = x
    BY DEF BoxInv, PacketInv
  <1>3. CASE sock[s].binded_pcb # p
    <2>1. /\ thread' = [thread EXCEPT ![p] =
                          [at |-> "copy", dst |-> s, pkt |-> NoMsg]]
          /\ sock' = sock
      BY <1>3 DEF k_recv_message
    <2>2. /\ thread'[p] = [at |-> "copy", dst |-> s, pkt |-> NoMsg]
          /\ \A x \in Proc : x # p => thread'[x] = thread[x]
      BY <2>1 DEF BoxInv
    <2>3. RecvDelivers'
      BY <1>3, <2>1, <2>2 DEF PacketInv, RecvDelivers
    <2> QED BY <2>1, <2>2, <2>3 DEF PacketInv
  <1>4. CASE sock[s].binded_pcb = p /\ IsEmpty(q)
    <2>1. /\ sock' = [sock EXCEPT ![s] = [@ EXCEPT !.spin_lock = TRUE]]
          /\ thread' = [thread EXCEPT ![p] =
                          [at |-> "recv2", dst |-> s, pkt |-> NoMsg]]
      BY <1>4 DEF k_recv_message
    <2>2. /\ thread'[p] = [at |-> "recv2", dst |-> s, pkt |-> NoMsg]
          /\ \A x \in Proc : x # p => thread'[x] = thread[x]
          /\ \A y \in Sock : y # s => sock'[y] = sock[y]
          /\ sock'[s].binded_pcb = sock[s].binded_pcb /\ sock'[s].q = q
          /\ sock'[s].spin_lock
      BY <2>1 DEF BoxInv
    <2>3. \A y \in Sock : sock'[y].binded_pcb = sock[y].binded_pcb
                          /\ sock'[y].q = sock[y].q
      BY <2>2
    <2>4. \A y \in Sock : sock'[y].binded_pcb # NULL =>
              Contents(sock'[y].q) \in Seq(Msg)
      BY <2>3 DEF PacketInv
    <2>5. ASSUME NEW x \in Proc, thread'[x].at = "recv2"
          PROVE  LET y == thread'[x].dst
                 IN  /\ sock'[y].binded_pcb = x
                     /\ sock'[y].spin_lock \/ ~IsEmpty(sock'[y].q)
      <3>1. CASE x = p
        BY <1>4, <2>2, <3>1
      <3>2. CASE x # p
        <4>1. thread[x].dst # s
          BY <1>2, <1>4, <2>2, <2>5, <3>2
        <4> QED BY <1>2, <2>2, <2>5, <3>2, <4>1 DEF PacketInv
      <3> QED BY <3>1, <3>2
    <2>6. RecvDelivers'
      <3> SUFFICES ASSUME NEW x \in Proc, thread'[x].at = "copy", thread'[x].pkt \notin Msg
                   PROVE  sock'[thread'[x].dst].binded_pcb # x
        BY DEF RecvDelivers
      <3>1. x # p /\ thread'[x] = thread[x]
        BY <2>2
      <3>2. sock[thread[x].dst].binded_pcb # x
        BY <3>1 DEF PacketInv, RecvDelivers
      <3> QED BY <1>4, <2>1, <2>2, <3>1, <3>2
    <2> QED BY <2>4, <2>5, <2>6 DEF PacketInv
  <1>5. CASE sock[s].binded_pcb = p /\ ~IsEmpty(q)
    <2>1. /\ thread' = [thread EXCEPT ![p] =
                          [at |-> "copy", dst |-> s, pkt |-> First(q)]]
          /\ sock' = [sock EXCEPT ![s] = [@ EXCEPT !.q = Take(q)]]
      BY <1>5 DEF k_recv_message
    <2>2. /\ Contents(q) # << >> /\ First(q) = Head(Contents(q))
          /\ Contents(Take(q)) = Tail(Contents(q))
      BY <1>1, <1>5, ContentsTake
    <2>3. Contents(q) \in Seq(Msg)
      BY <1>1, <1>5 DEF PacketInv
    <2>4. First(q) \in Msg /\ Contents(Take(q)) \in Seq(Msg)
      BY <2>2, <2>3
    <2> HIDE DEF q
    <2>5. /\ thread'[p] = [at |-> "copy", dst |-> s, pkt |-> First(q)]
          /\ \A x \in Proc : x # p => thread'[x] = thread[x]
          /\ \A y \in Sock : y # s => sock'[y] = sock[y]
          /\ sock'[s].binded_pcb = sock[s].binded_pcb /\ sock'[s].q = Take(q)
      BY <2>1 DEF BoxInv
    <2>6. \A y \in Sock : sock'[y].binded_pcb # NULL =>
              Contents(sock'[y].q) \in Seq(Msg)
      BY <2>4, <2>5 DEF PacketInv
    <2>7. ASSUME NEW x \in Proc, thread'[x].at = "recv2"
          PROVE  LET y == thread'[x].dst
                 IN  /\ sock'[y].binded_pcb = x
                     /\ sock'[y].spin_lock \/ ~IsEmpty(sock'[y].q)
      <3>1. x # p /\ thread'[x] = thread[x]
        BY <2>5, <2>7
      <3>2. thread[x].dst # s
        BY <1>2, <1>5, <2>7, <3>1
      <3> QED BY <1>2, <2>5, <2>7, <3>1, <3>2 DEF PacketInv
    <2>8. RecvDelivers'
      <3> SUFFICES ASSUME NEW x \in Proc, thread'[x].at = "copy", thread'[x].pkt \notin Msg
                   PROVE  sock'[thread'[x].dst].binded_pcb # x
        BY DEF RecvDelivers
      <3>1. x # p /\ thread'[x] = thread[x]
        BY <2>4, <2>5
      <3>2. sock[thread[x].dst].binded_pcb # x
        BY <3>1 DEF PacketInv, RecvDelivers
      <3> QED BY <1>5, <2>1, <2>5, <3>1, <3>2
    <2> QED BY <2>6, <2>7, <2>8 DEF PacketInv
  <1> QED BY <1>3, <1>4, <1>5

(* bind starts with an empty queue. *)
LEMMA BindPacket ==
    ASSUME BoxInv, PacketInv, NEW p \in Proc, bind(p)
    PROVE  PacketInv'
  <1>1. PICK s \in Sock :
            /\ sock[s].binded_pcb = NULL
            /\ sock' = [sock EXCEPT ![s] = [@ EXCEPT !.binded_pcb = p,
                                                     !.q = Reset(sock[s].q)]]
    BY DEF bind
  <1> DEFINE q == sock[s].q
  <1>2. thread' = thread /\ thread[p].at = "user" /\ p # NULL
    BY ReadyQueueAssumption DEF bind, Runs
  <1>3. Contents(Reset(q)) = << >>
    BY ContentsSeq DEF BoxInv
  <1>4. /\ sock'[s].binded_pcb = p /\ sock'[s].q = Reset(q)
        /\ \A y \in Sock : y # s => sock'[y] = sock[y]
    BY <1>1 DEF BoxInv
  <1> HIDE DEF q
  <1>5. \A y \in Sock : sock'[y].binded_pcb # NULL => Contents(sock'[y].q) \in Seq(Msg)
    <2>1. << >> \in Seq(Msg)
      OBVIOUS
    <2> QED BY <1>3, <1>4, <2>1 DEF PacketInv
  <1>6. ASSUME NEW x \in Proc, thread[x].at = "recv2"
        PROVE  LET y == thread[x].dst
               IN  /\ sock'[y].binded_pcb = x
                   /\ sock'[y].spin_lock \/ ~IsEmpty(sock'[y].q)
    <2>1. thread[x].dst \in Sock /\ thread[x].dst # s
      BY <1>1, <1>6, ReadyQueueAssumption DEF BoxInv, PacketInv
    <2> QED BY <1>4, <1>6, <2>1 DEF PacketInv
  <1>7. RecvDelivers'
    <2> SUFFICES ASSUME NEW x \in Proc, thread[x].at = "copy", thread[x].pkt \notin Msg
                 PROVE  sock'[thread[x].dst].binded_pcb # x
      BY <1>2 DEF RecvDelivers
    <2>1. sock[thread[x].dst].binded_pcb # x /\ x # p
      BY <1>2 DEF PacketInv, RecvDelivers
    <2> QED BY <1>1, <1>4, <2>1
  <1> QED BY <1>2, <1>5, <1>6, <1>7 DEF PacketInv

(* A thread that leaves recv() or ends. *)
LEMMA LeavePacket ==
    ASSUME PacketInv, NEW p \in Proc, sock' = sock,
           thread'[p].at \notin {"recv2", "copy"},
           \A x \in Proc : x # p => thread'[x] = thread[x]
    PROVE  PacketInv'
  BY DEF PacketInv, RecvDelivers

(* No step of the kernel makes a recv return without a packet. *)
LEMMA NextPacket ==
    ASSUME NoOverrun, IInv, BoxInv, PacketInv, [Next]_vars
    PROVE  PacketInv'
  <1>1. CASE create_proc \/ Krun \/ SysTickHandler \/ PendSV \/ UNCHANGED vars
             \/ \E p \in Proc : Knice(p)
    <2>1. UNCHANGED <<sock, thread>>
      BY <1>1 DEF create_proc, Krun, SysTickHandler, PendSV, Knice, vars
    <2> QED BY <2>1 DEF PacketInv, RecvDelivers
  <1>2. CASE GPIOPortF_IntHandler
    BY <1>2, SendPacket, KernelAssumption DEF GPIOPortF_IntHandler
  <1>3. ASSUME NEW p \in Proc, send(p) PROVE PacketInv'
    BY <1>3, SendPacket DEF send
  <1>4. ASSUME NEW p \in Proc, bind(p) PROVE PacketInv'
    BY <1>4, BindPacket
  <1>5. ASSUME NEW p \in Proc, recv(p) PROVE PacketInv'
    BY <1>5, RecvPacket DEF recv
  <1>6. ASSUME NEW p \in Proc, recv_again(p) PROVE PacketInv'
    <2>1. /\ k_recv_message(p, thread[p].dst, "copy") /\ thread[p].at = "recv2"
          /\ Up /\ ~pendsv /\ running = p
      BY <1>6 DEF recv_again, Runs
    <2>2. thread[p].dst \in Sock /\ sock[thread[p].dst].binded_pcb = p
      BY <2>1 DEF BoxInv, PacketInv
    <2>3. ~sock[thread[p].dst].spin_lock
      BY <2>1, <2>2, RunningFacts
    <2>4. ~IsEmpty(sock[thread[p].dst].q)
      BY <2>1, <2>3 DEF PacketInv
    <2> QED BY <2>1, <2>2, <2>4, RecvPacket
  <1>7. ASSUME NEW p \in Proc, recv_return(p) PROVE PacketInv'
    <2>1. /\ sock' = sock /\ thread'[p].at = "user"
          /\ \A x \in Proc : x # p => thread'[x] = thread[x]
      BY <1>7 DEF recv_return, InUser, BoxInv
    <2> QED BY <2>1, LeavePacket
  <1>8. ASSUME NEW p \in Proc, Kterminate(p) PROVE PacketInv'
    <2>1. /\ sock' = sock /\ thread'[p].at = "dead"
          /\ \A x \in Proc : x # p => thread'[x] = thread[x]
      BY <1>8 DEF Kterminate, InUser, BoxInv
    <2> QED BY <2>1, LeavePacket
  <1> QED BY <1>1, <1>2, <1>3, <1>4, <1>5, <1>6, <1>7, <1>8 DEF Next

(* recv() hands its caller a packet that was sent, also when others ran       *)
(* between its two SVCs, for any processes, sockets and packets, if no        *)
(* receiver changes its priority and no socket is overrun.                    *)
THEOREM Receives == NicersDoNotReceive /\ NoOverrun => (Spec => []RecvDelivers)
  <1> SUFFICES ASSUME NicersDoNotReceive, NoOverrun PROVE Spec => []RecvDelivers
    OBVIOUS
  <1>1. Init => BoxInv /\ PacketInv
    <2>1. Init => PacketInv
      BY DEF Init, PacketInv, RecvDelivers, InUser
    <2> QED BY <2>1, InitBox
  <1>2. IInv /\ BoxInv /\ PacketInv /\ [Next]_vars => BoxInv' /\ PacketInv'
    BY NextBox, NextPacket
  <1>3. PacketInv => RecvDelivers
    BY DEF PacketInv
  <1>4. Spec => []IInv
    BY Invariance
  <1> QED BY <1>1, <1>2, <1>3, <1>4, PTL DEF Spec

-----------------------------------------------------------------------------
(* The processor *)

(* The abstract scheduler's ready processes are the ones in a queue. *)
LEMMA ReadyIsQueued ==
    ASSUME NEW p \in Proc
    PROVE  Sched!IsReady(p) <=> Queued(rq, p)
  BY DEF Sched!IsReady, Sched!Elements, Queued, StandsIn

(* enqueue_pcb of a process in no queue is Wake. *)
LEMMA EnqueueWakes ==
    ASSUME NEW p \in Proc, NEW i \in Pri, ~Queued(rq, p),
           rq' = enqueue_pcb(rq, p, i), UNCHANGED <<running, cur_priority>>
    PROVE  Sched!Wake(p, i)
  BY ReadyIsQueued DEF Sched!Wake, enqueue_pcb

(* dequeue_pcb of the executing process is Leave. *)
LEMMA DequeueLeaves ==
    ASSUME IInv, Up, ~pendsv, rq' = dequeue_pcb(rq, running, cur_priority),
           UNCHANGED <<running, cur_priority>>
    PROVE  Sched!Leave
  <1>1. Sched!HasProcessor
    BY RunningFacts DEF Sched!HasProcessor
  <1>2. rq'.order = Sched!Without(cur_priority)
    BY DEF dequeue_pcb, Sched!Without
  <1> QED BY <1>1, <1>2 DEF Sched!Leave

(* get_new_proc once there is a process is Dispatch. *)
LEMMA SelectDispatches ==
    ASSUME IInv, booted >= Len(BootTable), get_new_proc
    PROVE  Sched!Dispatch
  <1>1. rq \in Links /\ WellFormed(rq) /\ SomeReady(rq)
    BY IdleReady DEF IInv, TypeOK, RingsMatch
  <1> DEFINE i == TopPri(rq)
  <1>2. /\ i \in Pri /\ rq.wtr[i] # NULL
        /\ \A j \in Pri : j < i => rq.wtr[j] = NULL
    BY <1>1, TopPriIsFirst
  <1>3. running' = rq.wtr[i] /\ rq' = Select(rq, i) /\ cur_priority' = i
    BY <1>1 DEF get_new_proc
  <1> HIDE DEF i
  <1>4. ASSUME NEW j \in Pri
        PROVE  rq.wtr[j] = NULL <=> rq.order[j] = << >>
    <2>1. rq.order[j] \in Seq(Proc) /\ RingOf(rq, j)
      BY <1>1 DEF Links, WellFormed
    <2>2. rq.order[j] # << >> => rq.order[j][1] \in Proc
      BY <2>1
    <2> QED BY <2>1, <2>2, ReadyQueueAssumption DEF RingOf
  <1>5. rq.order[i] # << >> /\ \A j \in Pri : j < i => rq.order[j] = << >>
    BY <1>2, <1>4
  <1>6. rq.wtr[i] = Head(rq.order[i])
    BY <1>1, <1>2, <1>5, SelectKeepsWellFormed
  <1>7. rq'.order = [rq.order EXCEPT ![i] = Append(Tail(@), Head(@))]
    BY <1>3 DEF Select
  <1> QED BY <1>2, <1>3, <1>5, <1>6, <1>7 DEF Sched!Dispatch

(* Each step of the kernel is one of the scheduler, or changes none of what   *)
(* it keeps.                                                                  *)
LEMMA NextSched ==
    ASSUME NicersDoNotReceive, IInv, [Next]_vars
    PROVE  [Sched!Next]_(Sched!vars)
  <1>1. Len(BootTable) \in Nat /\ booted \in 0 .. Len(BootTable) + 1
    BY KernelAssumption DEF IInv, TypeOK
  <1>2. ASSUME UNCHANGED <<rq, running, cur_priority>>
        PROVE  [Sched!Next]_(Sched!vars)
    BY <1>2 DEF Sched!vars
  <1>3. CASE create_proc
    <2> DEFINE p == BootTable[booted + 1][1]
               i == BootTable[booted + 1][2]
    <2>1. booted + 1 \in 1 .. Len(BootTable)
      BY <1>1, <1>3 DEF create_proc
    <2>2. p \in Proc /\ i \in Pri
      BY <2>1, KernelAssumption
    <2>3. ~Created(p)
      BY <1>1, <2>1, KernelAssumption DEF Created
    <2>4. ~Queued(rq, p)
      BY <2>2, <2>3 DEF IInv, BootInv
    <2>5. rq' = enqueue_pcb(rq, p, i) /\ UNCHANGED <<running, cur_priority>>
      BY <1>3 DEF create_proc
    <2> HIDE DEF p, i
    <2> QED BY <2>2, <2>4, <2>5, EnqueueWakes DEF Sched!Next
  <1>4. CASE Krun \/ PendSV
    <2>1. get_new_proc /\ booted >= Len(BootTable)
      BY <1>1, <1>4 DEF Krun, PendSV, Up
    <2> QED BY <2>1, SelectDispatches DEF Sched!Next
  <1>5. ASSUME NEW s \in Sock, NEW m \in Msg, k_send_message(s, m),
               UNCHANGED <<running, cur_priority>>
        PROVE  [Sched!Next]_(Sched!vars)
    <2>1. CASE sock[s].spin_lock
      <3> DEFINE p == sock[s].binded_pcb
                 i == pcb[p].priority
      <3>1. p \in Proc /\ ~Queued(rq, p)
        BY <2>1 DEF IInv, NoLostWakeup
      <3>2. i \in Pri
        BY <3>1 DEF IInv, TypeOK
      <3>3. rq' = enqueue_pcb(rq, p, i)
        BY <1>5, <2>1 DEF k_send_message
      <3> HIDE DEF p, i
      <3> QED BY <1>5, <3>1, <3>2, <3>3, EnqueueWakes DEF Sched!Next
    <2>2. CASE ~sock[s].spin_lock
      BY <1>2, <1>5, <2>2 DEF k_send_message
    <2> QED BY <2>1, <2>2
  <1>6. CASE GPIOPortF_IntHandler
    BY <1>5, <1>6, KernelAssumption DEF GPIOPortF_IntHandler
  <1>7. ASSUME NEW p \in Proc, send(p) PROVE [Sched!Next]_(Sched!vars)
    BY <1>5, <1>7 DEF send
  <1>8. ASSUME NEW p \in Receivers, NEW s, NEW no, k_recv_message(p, s, no),
               Up, ~pendsv, running = p, UNCHANGED <<running, cur_priority>>
        PROVE  [Sched!Next]_(Sched!vars)
    <2>1. CASE sock[s].binded_pcb = p /\ IsEmpty(sock[s].q)
      <3>1. rq' = dequeue_pcb(rq, p, pcb[p].priority)
        BY <1>8, <2>1 DEF k_recv_message
      <3>2. pcb[p].priority = cur_priority
        BY <1>8, RunningFacts DEF IInv, PlaceInv
      <3> QED BY <1>8, <3>1, <3>2, DequeueLeaves DEF Sched!Next
    <2>2. CASE ~(sock[s].binded_pcb = p /\ IsEmpty(sock[s].q))
      BY <1>2, <1>8, <2>2 DEF k_recv_message
    <2> QED BY <2>1, <2>2
  <1>9. ASSUME NEW p \in Proc, recv(p) PROVE [Sched!Next]_(Sched!vars)
    BY <1>8, <1>9 DEF recv, Runs
  <1>10. ASSUME NEW p \in Proc, recv_again(p) PROVE [Sched!Next]_(Sched!vars)
    <2>1. p \in Receivers
      BY <1>10 DEF recv_again, Runs, IInv, OwnerInv
    <2> QED BY <1>8, <1>10, <2>1 DEF recv_again, Runs
  <1>11. ASSUME NEW p \in Proc, Kterminate(p) PROVE [Sched!Next]_(Sched!vars)
    BY <1>11, DequeueLeaves DEF Kterminate, Runs, Sched!Next
  <1>12. ASSUME NEW p \in Proc, Knice(p) PROVE [Sched!Next]_(Sched!vars)
    <2>1. /\ rq' = enqueue_pcb(dequeue_pcb(rq, p, cur_priority), p, cur_priority')
          /\ Up /\ ~pendsv /\ running = p /\ running' = running
      BY <1>12 DEF Knice, Runs
    <2>2. Sched!HasProcessor
      BY <2>1, RunningFacts DEF Sched!HasProcessor
    <2>3. cur_priority' \in Pri
      BY <1>12, NiceStep DEF IInv, BootInv, Knice, Runs, Up
    <2>4. rq'.order = [Sched!Without(cur_priority)
                          EXCEPT ![cur_priority'] = Append(@, running)]
      BY <2>1 DEF enqueue_pcb, dequeue_pcb, Sched!Without
    <2>5. Sched!Move(cur_priority')
      BY <2>1, <2>2, <2>4 DEF Sched!Move
    <2> QED BY <2>3, <2>5 DEF Sched!Next
  <1>13. ASSUME NEW p \in Proc, bind(p) \/ recv_return(p)
         PROVE  [Sched!Next]_(Sched!vars)
    BY <1>2, <1>13 DEF bind, recv_return, sched
  <1>14. CASE SysTickHandler \/ UNCHANGED vars
    BY <1>2, <1>14 DEF SysTickHandler, vars
  <1> QED BY <1>3, <1>4, <1>6, <1>7, <1>9, <1>10, <1>11, <1>12, <1>13, <1>14
          DEF Next

(* The processor is given as Scheduler says, strict priorities and round      *)
(* robin within one, for any processes and priorities (create_proc, nice,     *)
(* terminate, get_new_proc and what send and recv do to the queues).          *)
THEOREM Scheduling == NicersDoNotReceive => (Spec => Sched!Safety)
  <1> SUFFICES ASSUME NicersDoNotReceive PROVE Spec => Sched!Safety
    OBVIOUS
  <1>1. Init => Sched!Init
    BY DEF Init, NoLinks, Sched!Init
  <1>2. IInv /\ [Next]_vars => [Sched!Next]_(Sched!vars)
    BY NextSched
  <1>3. Spec => []IInv
    BY Invariance
  <1> QED BY <1>1, <1>2, <1>3, PTL DEF Spec, Sched!Safety
=============================================================================
