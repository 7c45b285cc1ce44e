----------------------------- MODULE Arithmetic -----------------------------
(* What the proofs of several components need of natural numbers and of       *)
(* circular arrays, apart from any of them.                                   *)
EXTENDS Naturals, SequenceTheorems, WellFoundedInduction, TLAPS

(* Every set of natural numbers that is not empty has a least element: the    *)
(* form of induction the proofs of this project use.                          *)
LEMMA LeastNat ==
    ASSUME NEW T \in SUBSET Nat, T # {}
    PROVE  \E x \in T : \A y \in T : x <= y
  <1> DEFINE R == OpToRel(<, Nat)
  <1>1. IsWellFoundedOn(R, Nat)
    BY NatLessThanWellFounded
  <1>2. \A x, y \in Nat : <<x, y>> \in R <=> x < y
    BY DEF OpToRel
  <1> HIDE DEF R
  <1>3. \A x, y \in T : ~(<<y, x>> \in R) => x <= y
    <2>1. ASSUME NEW x \in T, NEW y \in T, ~(<<y, x>> \in R) PROVE x <= y
      <3>1. x \in Nat /\ y \in Nat
        OBVIOUS
      <3>2. ~(y < x)
        BY <1>2, <2>1, <3>1, Zenon
      <3> QED BY <3>1, <3>2
    <2> QED BY <2>1
  <1>4. \E x \in T : \A y \in T : ~ (<<y, x>> \in R)
    BY <1>1, WFMin, Zenon
  <1> QED BY <1>3, <1>4

(* A function of the numbers up to n can be defined by its first value and a  *)
(* step from each value to the next.                                          *)
Iterated(n, S, x, f) ==
    \E g \in [0 .. n -> S] : g[0] = x /\ \A k \in 1 .. n : g[k] = f[k][g[k - 1]]

(* Any finite number of functions on a set can be applied one after the       *)
(* other to one of its members.                                               *)
LEMMA Iterates ==
    \A n \in Nat : \A S : \A x \in S : \A f \in [1 .. n -> [S -> S]] : Iterated(n, S, x, f)
  <1> SUFFICES ASSUME NEW n \in Nat, NEW S, NEW x \in S, NEW f \in [1 .. n -> [S -> S]]
               PROVE  \E g \in [0 .. n -> S] :
                         g[0] = x /\ \A k \in 1 .. n : g[k] = f[k][g[k - 1]]
    BY DEF Iterated
  <1> DEFINE Upto(m, g) == g[0] = x /\ \A k \in 1 .. m : g[k] = f[k][g[k - 1]]
             T == {m \in Nat : m <= n /\ ~ \E g \in [0 .. m -> S] : Upto(m, g)}
  <1>1. SUFFICES ASSUME T # {} PROVE FALSE
    <2>1. n \notin T
      BY <1>1
    <2> QED BY <2>1
  <1>2. PICK m \in T : \A y \in T : m <= y
    BY <1>1, LeastNat
  <1>3. m \in Nat /\ m <= n
    OBVIOUS
  <1>4. CASE m = 0
    <2> DEFINE g == [k \in 0 .. 0 |-> x]
    <2>1. g \in [0 .. m -> S] /\ Upto(m, g)
      BY <1>4
    <2> QED BY <2>1
  <1>5. CASE m # 0
    <2>1. m - 1 \in Nat /\ m - 1 <= n /\ ~(m <= m - 1)
      BY <1>3, <1>5
    <2>2. PICK g \in [0 .. m - 1 -> S] : Upto(m - 1, g)
      BY <1>2, <2>1
    <2> DEFINE h == [k \in 0 .. m |-> IF k = m THEN f[m][g[m - 1]] ELSE g[k]]
    <2>3. m \in 1 .. n /\ m - 1 \in 0 .. m - 1
      BY <1>3, <1>5
    <2>4. f[m][g[m - 1]] \in S
      BY <2>3
    <2>5. h \in [0 .. m -> S]
      BY <1>3, <2>4
    <2>6. h[0] = x
      BY <1>3, <1>5, <2>2
    <2>7. ASSUME NEW k \in 1 .. m PROVE h[k] = f[k][h[k - 1]]
      <3>1. k - 1 \in 0 .. m - 1 /\ h[k - 1] = g[k - 1]
        BY <1>3
      <3>2. CASE k = m
        BY <3>1, <3>2
      <3>3. CASE k # m
        <4>1. k \in 1 .. m - 1 /\ h[k] = g[k]
          BY <1>3, <3>3
        <4> QED BY <2>2, <3>1, <4>1
      <3> QED BY <3>2, <3>3
    <2> QED BY <2>5, <2>6, <2>7
  <1> QED BY <1>4, <1>5

-----------------------------------------------------------------------------
(* The circular arrays of msg_queue.c and UART.c: N slots, the next one to    *)
(* write and the one read last.                                               *)

Held(N, head, tail) == (head + N - ((tail + 1) % N)) % N

Unseen(N, head, tail, buf) ==
    [k \in 1 .. Held(N, head, tail) |-> buf[(tail + k) % N]]

(* An index that has gone once past the end at most. *)
LEMMA Wrap ==
    ASSUME NEW N \in Nat \ {0}, NEW a \in 0 .. 2 * N - 1
    PROVE  a % N = IF a < N THEN a ELSE a - N
  OBVIOUS

(* The next index, without arithmetic modulo N. *)
LEMMA NextIndex ==
    ASSUME NEW N \in Nat \ {0, 1}, NEW k \in 0 .. N - 1
    PROVE  /\ (k + 1) % N = IF k = N - 1 THEN 0 ELSE k + 1
           /\ (k + 1) % N \in 0 .. N - 1
  <1>1. CASE k + 1 < N
    BY <1>1
  <1>2. CASE k + 1 = N
    BY <1>2
  <1> QED BY <1>1, <1>2

(* How many slots are unread, without arithmetic modulo N. *)
LEMMA HeldValue ==
    ASSUME NEW N \in Nat \ {0, 1}, NEW head \in 0 .. N - 1, NEW tail \in 0 .. N - 1
    PROVE  /\ Held(N, head, tail) = IF head > tail THEN head - tail - 1
                                                   ELSE head + N - tail - 1
           /\ Held(N, head, tail) \in 0 .. N - 1
           /\ Held(N, head, tail) = 0 <=> (tail + 1) % N = head
  <1> DEFINE first == (tail + 1) % N
             a == head + N - first
             n == Held(N, head, tail)
  <1>1. first = (IF tail = N - 1 THEN 0 ELSE tail + 1) /\ first \in 0 .. N - 1
    BY NextIndex
  <1>2. a \in 0 .. 2 * N - 1
    BY <1>1
  <1>3. n = a % N
    BY DEF Held
  <1> HIDE DEF a
  <1>4. a % N = IF a < N THEN a ELSE a - N
    BY <1>2, Wrap
  <1> HIDE DEF first, n
  <1>5. n = IF head > tail THEN head - tail - 1 ELSE head + N - tail - 1
    BY <1>1, <1>3, <1>4 DEF a
  <1>6. n \in 0 .. N - 1 /\ (n = 0 <=> first = head)
    BY <1>1, <1>5
  <1> QED BY <1>5, <1>6 DEF n, first

(* The unread slots of a ring are a sequence.                                 *)
LEMMA UnseenLen ==
    ASSUME NEW N \in Nat \ {0, 1}, NEW head \in 0 .. N - 1, NEW tail \in 0 .. N - 1,
           NEW buf
    PROVE  /\ Len(Unseen(N, head, tail, buf)) = Held(N, head, tail)
           /\ \A k \in 1 .. Held(N, head, tail) :
                Unseen(N, head, tail, buf)[k] = buf[(tail + k) % N]
           /\ Unseen(N, head, tail, buf) = << >> <=> (tail + 1) % N = head
  <1> DEFINE n == Held(N, head, tail)
             u == Unseen(N, head, tail, buf)
             S == {buf[(tail + k) % N] : k \in 1 .. n}
  <1>1. n \in Nat /\ (n = 0 <=> (tail + 1) % N = head)
    BY HeldValue
  <1> HIDE DEF n
  <1>2. u = [k \in 1 .. n |-> buf[(tail + k) % N]]
    BY DEF Unseen, n
  <1>3. u \in [1 .. n -> S]
    BY <1>2
  <1> HIDE DEF S
  <1>4. u \in Seq(S) /\ Len(u) = n
    BY <1>1, <1>3
  <1> HIDE DEF u
  <1>5. u = << >> <=> n = 0
    BY <1>1, <1>4
  <1> QED BY <1>1, <1>2, <1>4, <1>5 DEF n, u

(* The elements between the indices make a sequence. *)
LEMMA UnseenSeq ==
    ASSUME NEW N \in Nat \ {0, 1}, NEW head \in 0 .. N - 1, NEW tail \in 0 .. N - 1,
           NEW S, NEW buf \in [0 .. N - 1 -> S]
    PROVE  Unseen(N, head, tail, buf) \in Seq(S)
  <1> DEFINE n == Held(N, head, tail)
             u == Unseen(N, head, tail, buf)
  <1>1. n \in 0 .. N - 1
    BY HeldValue
  <1> HIDE DEF n
  <1>2. \A k \in 1 .. n : (tail + k) % N \in 0 .. N - 1
    BY <1>1
  <1>3. u = [k \in 1 .. n |-> buf[(tail + k) % N]]
    BY DEF Unseen, n
  <1>4. u \in [1 .. n -> S]
    BY <1>2, <1>3
  <1> QED BY <1>1, <1>4

(* A store without a test for a full ring appends, or loses all there is.     *)
LEMMA RingPut ==
    ASSUME NEW N \in Nat \ {0, 1}, NEW head \in 0 .. N - 1, NEW tail \in 0 .. N - 1,
           NEW S, NEW buf \in [0 .. N - 1 -> S], NEW m \in S
    PROVE  LET u == Unseen(N, head, tail, buf)
               v == Unseen(N, (head + 1) % N, tail, [buf EXCEPT ![head] = m])
           IN  v = IF Len(u) < N - 1 THEN Append(u, m) ELSE << >>
  <1> DEFINE u == Unseen(N, head, tail, buf)
             h == (head + 1) % N
             b == [buf EXCEPT ![head] = m]
             v == Unseen(N, h, tail, b)
             n == Held(N, head, tail)
  <1>1. h = (IF head = N - 1 THEN 0 ELSE head + 1) /\ h \in 0 .. N - 1
    BY NextIndex
  <1>2. b \in [0 .. N - 1 -> S]
    OBVIOUS
  <1>3. /\ u \in Seq(S) /\ Len(u) = n /\ n \in 0 .. N - 1
        /\ \A k \in 1 .. n : u[k] = buf[(tail + k) % N]
    <2>1. u \in Seq(S)
      BY UnseenSeq
    <2>2. /\ Len(u) = n /\ (u = << >> <=> (tail + 1) % N = head)
          /\ \A k \in 1 .. n : u[k] = buf[(tail + k) % N]
      BY UnseenLen
    <2>3. n \in 0 .. N - 1 /\ (n = 0 <=> (tail + 1) % N = head)
      BY HeldValue
    <2> QED BY <2>1, <2>2, <2>3
  <1> HIDE DEF h, b
  <1>4. /\ v \in Seq(S) /\ Len(v) = Held(N, h, tail)
        /\ \A k \in 1 .. Len(v) : v[k] = b[(tail + k) % N]
    <2>1. v \in Seq(S)
      BY <1>1, <1>2, UnseenSeq
    <2> QED BY <1>1, <2>1, UnseenLen
  <1>5. /\ n = IF head > tail THEN head - tail - 1 ELSE head + N - tail - 1
        /\ Held(N, h, tail) = IF h > tail THEN h - tail - 1 ELSE h + N - tail - 1
    BY <1>1, HeldValue
  <1>6. ASSUME n < N - 1 PROVE Len(v) = n + 1
    BY <1>1, <1>4, <1>5, <1>6
  <1>7. ASSUME ~(n < N - 1) PROVE Len(v) = 0
    BY <1>1, <1>3, <1>4, <1>5, <1>7
  <1> HIDE DEF u, v, n
  <1>8. CASE n < N - 1
    <2>1. ASSUME NEW k \in 1 .. n
          PROVE  (tail + k) % N \in 0 .. N - 1 /\ (tail + k) % N # head
      <3> DEFINE a == tail + k
                 r == a % N
      <3>1. a \in 0 .. 2 * N - 1 /\ a = tail + k
        BY <1>3
      <3> HIDE DEF a
      <3>2. r = IF a < N THEN a ELSE a - N
        BY <3>1, Wrap
      <3> HIDE DEF r
      <3>3. r \in 0 .. N - 1 /\ r # head
        BY <1>3, <1>5, <3>1, <3>2
      <3> QED BY <3>3 DEF a, r
    <2>2. (tail + (n + 1)) % N = head
      <3> DEFINE a == tail + (n + 1)
                 r == a % N
      <3>1. a \in 0 .. 2 * N - 1 /\ a = tail + (n + 1)
        BY <1>3, <1>8
      <3> HIDE DEF a
      <3>2. r = IF a < N THEN a ELSE a - N
        BY <3>1, Wrap
      <3> HIDE DEF r
      <3>3. r = head
        BY <1>3, <1>5, <1>8, <3>1, <3>2
      <3> QED BY <3>3 DEF a, r
    <2>3. \A k \in 1 .. n : v[k] = u[k]
      BY <1>3, <1>4, <1>6, <1>8, <2>1 DEF b
    <2>4. v[n + 1] = m
      BY <1>3, <1>4, <1>6, <1>8, <2>2 DEF b
    <2>5. Append(u, m) \in Seq(S) /\ Len(Append(u, m)) = n + 1
          /\ \A k \in 1 .. n : Append(u, m)[k] = u[k]
          /\ Append(u, m)[n + 1] = m
      BY <1>3
    <2>6. \A k \in 1 .. n + 1 : v[k] = Append(u, m)[k]
      BY <1>3, <2>3, <2>4, <2>5
    <2>7. v = Append(u, m)
      BY <1>3, <1>4, <1>6, <1>8, <2>5, <2>6, SeqEqual
    <2> QED BY <1>3, <1>8, <2>7 DEF u, v, h, b
  <1>9. CASE ~(n < N - 1)
    <2>1. v = << >>
      BY <1>4, <1>7, <1>9
    <2> QED BY <1>3, <1>9, <2>1 DEF u, v, h, b
  <1> QED BY <1>8, <1>9

(* A read of a ring that is not empty takes the oldest.                       *)
LEMMA RingTake ==
    ASSUME NEW N \in Nat \ {0, 1}, NEW head \in 0 .. N - 1, NEW tail \in 0 .. N - 1,
           NEW S, NEW buf \in [0 .. N - 1 -> S], (tail + 1) % N # head
    PROVE  LET u == Unseen(N, head, tail, buf)
           IN  /\ u # << >>
               /\ buf[(tail + 1) % N] = Head(u)
               /\ Unseen(N, head, (tail + 1) % N, buf) = Tail(u)
  <1> DEFINE u == Unseen(N, head, tail, buf)
             t == (tail + 1) % N
             v == Unseen(N, head, t, buf)
             n == Held(N, head, tail)
  <1>1. t = (IF tail = N - 1 THEN 0 ELSE tail + 1) /\ t \in 0 .. N - 1
    BY NextIndex
  <1>2. /\ u \in Seq(S) /\ Len(u) = n /\ n \in 0 .. N - 1 /\ n # 0
        /\ \A k \in 1 .. n : u[k] = buf[(tail + k) % N]
    <2>1. u \in Seq(S)
      BY UnseenSeq
    <2>2. /\ Len(u) = n /\ (u = << >> <=> (tail + 1) % N = head)
          /\ \A k \in 1 .. n : u[k] = buf[(tail + k) % N]
      BY UnseenLen
    <2>3. n \in 0 .. N - 1 /\ (n = 0 <=> (tail + 1) % N = head)
      BY HeldValue
    <2> QED BY <2>1, <2>2, <2>3
  <1>3. u # << >> /\ Head(u) = buf[t]
    BY <1>2
  <1> HIDE DEF t
  <1>4. /\ v \in Seq(S) /\ Len(v) = Held(N, head, t)
        /\ \A k \in 1 .. Len(v) : v[k] = buf[(t + k) % N]
    <2>1. v \in Seq(S)
      BY <1>1, UnseenSeq
    <2>2. Len(v) = Held(N, head, t)
      BY <1>1, UnseenLen
    <2>3. \A k \in 1 .. Held(N, head, t) : v[k] = buf[(t + k) % N]
      BY DEF Unseen
    <2> QED BY <2>1, <2>2, <2>3
  <1>5. /\ n = IF head > tail THEN head - tail - 1 ELSE head + N - tail - 1
        /\ Held(N, head, t) = IF head > t THEN head - t - 1 ELSE head + N - t - 1
    BY <1>1, HeldValue
  <1>6. Len(v) = n - 1
    BY <1>1, <1>2, <1>4, <1>5
  <1> HIDE DEF u, v, n
  <1>7. ASSUME NEW k \in 1 .. n - 1
        PROVE  (t + k) % N = (tail + (k + 1)) % N
    <2> DEFINE a == t + k
               c == tail + (k + 1)
    <2>1. a \in 0 .. 2 * N - 1 /\ c \in 0 .. 2 * N - 1
      BY <1>1, <1>2
    <2> HIDE DEF a, c
    <2>2. /\ a % N = IF a < N THEN a ELSE a - N
          /\ c % N = IF c < N THEN c ELSE c - N
      BY <2>1, Wrap
    <2>3. a = c \/ a = c - N
      BY <1>1 DEF a, c
    <2>4. a % N = c % N
      BY <2>1, <2>2, <2>3
    <2> QED BY <2>4 DEF a, c
  <1>8. /\ Tail(u) \in Seq(S) /\ Len(Tail(u)) = n - 1
        /\ \A k \in 1 .. n - 1 : Tail(u)[k] = u[k + 1]
    BY <1>2, <1>3, HeadTailProperties
  <1>9. ASSUME NEW k \in 1 .. n - 1 PROVE v[k] = Tail(u)[k]
    <2>1. k \in 1 .. Len(v) /\ k + 1 \in 1 .. n
      BY <1>2, <1>6
    <2>2. v[k] = buf[(t + k) % N] /\ u[k + 1] = buf[(tail + (k + 1)) % N]
      BY <1>2, <1>4, <2>1
    <2> QED BY <1>7, <1>8, <2>2
  <1>10. v = Tail(u)
    BY <1>4, <1>6, <1>8, <1>9, SeqEqual
  <1> QED BY <1>3, <1>10 DEF u, v, t
=============================================================================
