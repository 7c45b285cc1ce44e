-------------------------- MODULE ToolchainProofs ---------------------------
(* What the assembler emits is what the loader puts into memory, and whatever *)
(* is run there keeps the machine in its ranges: for any source files, length *)
(* of the records, devices and options of the debugger. A program that keeps  *)
(* its stack as it must is resumed where an interrupt came.                   *)
EXTENDS Toolchain, AssemblerProofs

-----------------------------------------------------------------------------
(* Words and bits *)

(* The quotient and the remainder of a whole number. *)
LEMMA Division ==
    ASSUME NEW x \in Int, NEW n \in Nat \ {0}
    PROVE  x % n \in 0 .. n - 1 /\ x \div n \in Int /\ x = n * (x \div n) + (x % n)
  OBVIOUS

(* A number written as quotient and remainder has no other. *)
LEMMA Quotient ==
    ASSUME NEW d \in Nat \ {0}, NEW q \in Int, NEW r \in 0 .. d - 1
    PROVE  (d * q + r) % d = r /\ (d * q + r) \div d = q
  OBVIOUS

(* The powers of two that the masks and fields are made of. *)
LEMMA Powers ==
    /\ 2^0 = 1 /\ 2^1 = 2 /\ 2^2 = 4 /\ 2^3 = 8 /\ 2^4 = 16 /\ 2^6 = 64 /\ 2^7 = 128
    /\ 2^8 = 256 /\ 2^9 = 512 /\ 2^10 = 1024 /\ 2^12 = 4096 /\ 2^13 = 8192
    /\ 2^15 = 32768 /\ 2^16 = 65536 /\ 2^20 = 1048576
  <1>1. 2^0 = 1 /\ 2^1 = 2 /\ 2^2 = 4 /\ 2^3 = 8 /\ 2^4 = 16 /\ 2^6 = 64 /\ 2^7 = 128
    BY SMT
  <1>2. 2^8 = 256 /\ 2^9 = 512 /\ 2^10 = 1024 /\ 2^12 = 4096 /\ 2^13 = 8192
    BY SMT
  <1>3. 2^15 = 32768 /\ 2^16 = 65536 /\ 2^20 = 1048576
    BY SMT
  <1> QED BY <1>1, <1>2, <1>3

(* Each power of two that a register of 20 bits needs is twice the one        *)
(* before: one exponent at a time, as no prover here does induction over      *)
(* data.                                                                      *)
LEMMA Doubles ==
    ASSUME NEW k \in 0 .. 19
    PROVE  2^k \in Nat \ {0} /\ 2^(k + 1) = 2 * 2^k
  <1>0. k = 0 => 2^k \in Nat \ {0} /\ 2^(k + 1) = 2 * 2^k
    BY SMT
  <1>1. k = 1 => 2^k \in Nat \ {0} /\ 2^(k + 1) = 2 * 2^k
    BY SMT
  <1>2. k = 2 => 2^k \in Nat \ {0} /\ 2^(k + 1) = 2 * 2^k
    BY SMT
  <1>3. k = 3 => 2^k \in Nat \ {0} /\ 2^(k + 1) = 2 * 2^k
    BY SMT
  <1>4. k = 4 => 2^k \in Nat \ {0} /\ 2^(k + 1) = 2 * 2^k
    BY SMT
  <1>5. k = 5 => 2^k \in Nat \ {0} /\ 2^(k + 1) = 2 * 2^k
    BY SMT
  <1>6. k = 6 => 2^k \in Nat \ {0} /\ 2^(k + 1) = 2 * 2^k
    BY SMT
  <1>7. k = 7 => 2^k \in Nat \ {0} /\ 2^(k + 1) = 2 * 2^k
    BY SMT
  <1>8. k = 8 => 2^k \in Nat \ {0} /\ 2^(k + 1) = 2 * 2^k
    BY SMT
  <1>9. k = 9 => 2^k \in Nat \ {0} /\ 2^(k + 1) = 2 * 2^k
    BY SMT
  <1>10. k = 10 => 2^k \in Nat \ {0} /\ 2^(k + 1) = 2 * 2^k
    BY SMT
  <1>11. k = 11 => 2^k \in Nat \ {0} /\ 2^(k + 1) = 2 * 2^k
    BY SMT
  <1>12. k = 12 => 2^k \in Nat \ {0} /\ 2^(k + 1) = 2 * 2^k
    BY SMT
  <1>13. k = 13 => 2^k \in Nat \ {0} /\ 2^(k + 1) = 2 * 2^k
    BY SMT
  <1>14. k = 14 => 2^k \in Nat \ {0} /\ 2^(k + 1) = 2 * 2^k
    BY SMT
  <1>15. k = 15 => 2^k \in Nat \ {0} /\ 2^(k + 1) = 2 * 2^k
    BY SMT
  <1>16. k = 16 => 2^k \in Nat \ {0} /\ 2^(k + 1) = 2 * 2^k
    BY SMT
  <1>17. k = 17 => 2^k \in Nat \ {0} /\ 2^(k + 1) = 2 * 2^k
    BY SMT
  <1>18. k = 18 => 2^k \in Nat \ {0} /\ 2^(k + 1) = 2 * 2^k
    BY SMT
  <1>19. k = 19 => 2^k \in Nat \ {0} /\ 2^(k + 1) = 2 * 2^k
    BY SMT
  <1> QED
    BY <1>0, <1>1, <1>2, <1>3, <1>4, <1>5, <1>6, <1>7, <1>8, <1>9, <1>10, <1>11, <1>12, <1>13, <1>14, <1>15, <1>16, <1>17, <1>18, <1>19

(* A bit of the macros of reg_table.h is 0 or 1. *)
LEMMA BitRange ==
    ASSUME NEW x \in Int, NEW k \in 0 .. 19
    PROVE  Bit(x, k) \in {0, 1}
  <1>1. 2^k \in Nat \ {0}
    BY Doubles
  <1>2. x \div 2^k \in Int
    BY <1>1, Division
  <1>3. (x \div 2^k) % 2 \in 0 .. 1
    BY <1>2
  <1>4. 2^1 = 2
    BY Powers
  <1> QED BY <1>3, <1>4 DEF Bit, Field

(* The low bits of a number, one bit more. *)
LEMMA LowBits ==
    ASSUME NEW x \in Int, NEW P \in Nat \ {0}
    PROVE  x % (2 * P) = (x % P) + P * ((x \div P) % 2)
  <1> DEFINE q == x \div P
             r == x % P
             h == q \div 2
             b == q % 2
  <1>1. q \in Int /\ r \in 0 .. P - 1 /\ x = P * q + r
    BY Division
  <1>2. h \in Int /\ b \in 0 .. 1 /\ q = 2 * h + b
    BY <1>1
  <1> HIDE DEF q, r, h, b
  <1>3. x = (2 * P) * h + (P * b + r)
    BY <1>1, <1>2
  <1>4. P * b + r \in 0 .. 2 * P - 1
    <2>1. CASE b = 0
      BY <1>1, <2>1
    <2>2. CASE b = 1
      BY <1>1, <2>2
    <2> QED BY <1>2, <2>1, <2>2
  <1>5. x % (2 * P) = P * b + r
    <2> DEFINE d == 2 * P
               low == P * b + r
    <2>1. d \in Nat \ {0} /\ low \in 0 .. d - 1 /\ x = d * h + low
      BY <1>3, <1>4
    <2> HIDE DEF d, low
    <2>2. x % d = low
      BY <1>2, <2>1, Quotient
    <2> QED BY <2>2 DEF d, low
  <1> QED BY <1>1, <1>2, <1>5 DEF b, q, r

(* The operator & of C on 20 bits, as the running sum it is defined by. *)
LEMMA AndRuns ==
    ASSUME NEW x \in Int, NEW y \in Int
    PROVE  \E g \in [0 .. 20 -> Int] :
              /\ g[0] = 0
              /\ \A k \in 0 .. 19 : g[k + 1] = g[k] + 2^k * Bit(x, k) * Bit(y, k)
              /\ And(x, y) = g[20]
  <1> DEFINE both(k) == 2^k * Bit(x, k) * Bit(y, k)
             f == [k \in 1 .. 20 |-> [v \in Int |-> v + both(k - 1)]]
             Runs(h) == h = [k \in 0 .. 20 |-> IF k = 0 THEN 0 ELSE h[k - 1] + both(k - 1)]
             low == CHOOSE h : Runs(h)
  <1>1. \A k \in 0 .. 19 : both(k) \in Int
    <2> SUFFICES ASSUME NEW k \in 0 .. 19 PROVE both(k) \in Int
      OBVIOUS
    <2>1. 2^k \in Nat
      BY Doubles
    <2>2. Bit(x, k) \in {0, 1} /\ Bit(y, k) \in {0, 1}
      BY BitRange
    <2> QED BY <2>1, <2>2
  <1>2. And(x, y) = low[20]
    BY DEF And
  <1> HIDE DEF both
  <1>3. f \in [1 .. 20 -> [Int -> Int]]
    <2>1. \A k \in 1 .. 20 : k - 1 \in 0 .. 19
      OBVIOUS
    <2> QED BY <1>1, <2>1
  <1>4. \A k \in 1 .. 20 : \A v \in Int : f[k][v] = v + both(k - 1)
    OBVIOUS
  <1> HIDE DEF f
  <1>5. PICK g \in [0 .. 20 -> Int] : g[0] = 0 /\ \A k \in 1 .. 20 : g[k] = f[k][g[k - 1]]
    <2>1. 20 \in Nat /\ 0 \in Int
      OBVIOUS
    <2>2. Iterated(20, Int, 0, f)
      BY <1>3, <2>1, Iterates
    <2> QED BY <2>2 DEF Iterated
  <1>6. \A k \in 1 .. 20 : g[k] = g[k - 1] + both(k - 1)
    <2> SUFFICES ASSUME NEW k \in 1 .. 20 PROVE g[k] = g[k - 1] + both(k - 1)
      OBVIOUS
    <2>1. g[k - 1] \in Int
      OBVIOUS
    <2> QED BY <1>4, <1>5, <2>1
  <1>7. Runs(g)
    <2> DEFINE e == [k \in 0 .. 20 |-> IF k = 0 THEN 0 ELSE g[k - 1] + both(k - 1)]
    <2>1. \A k \in 0 .. 20 : g[k] = e[k]
      BY <1>5, <1>6
    <2> QED BY <1>5, <2>1
  <1>8. Runs(low)
    BY <1>7
  <1> HIDE DEF low
  <1>9. low[0] = 0 /\ \A k \in 1 .. 20 : low[k] = low[k - 1] + both(k - 1)
    BY <1>8
  <1> DEFINE T == {k \in 0 .. 20 : low[k] # g[k]}
  <1>10. T = {}
    <2>1. SUFFICES ASSUME T # {} PROVE FALSE
      OBVIOUS
    <2> T \in SUBSET Nat
      OBVIOUS
    <2>2. PICK k \in T : \A j \in T : k <= j
      BY <2>1, LeastNat
    <2>3. k \in 1 .. 20 /\ k - 1 \in 0 .. 20 /\ ~(k <= k - 1)
      BY <1>5, <1>9
    <2>4. low[k - 1] = g[k - 1]
      BY <2>2, <2>3
    <2> QED BY <1>6, <1>9, <2>3, <2>4
  <1>11. And(x, y) = g[20]
    BY <1>2, <1>10
  <1>12. ASSUME NEW k \in 0 .. 19 PROVE g[k + 1] = g[k] + both(k)
    <2>1. k + 1 \in 1 .. 20 /\ k + 1 - 1 = k
      OBVIOUS
    <2> QED BY <1>6, <2>1
  <1> QED BY <1>5, <1>11, <1>12 DEF both

(* x & y has no bit that x has not: it lies between 0 and the low 20 bits of  *)
(* x.                                                                         *)
LEMMA AndBounds ==
    ASSUME NEW x \in Int, NEW y \in Int
    PROVE  /\ And(x, y) \in Nat
           /\ And(x, y) <= x % 2^20 /\ And(x, y) <= y % 2^20
           /\ (x % 2^20) + (y % 2^20) - And(x, y) < 2^20
  <1>1. PICK g \in [0 .. 20 -> Int] :
            /\ g[0] = 0
            /\ \A k \in 0 .. 19 : g[k + 1] = g[k] + 2^k * Bit(x, k) * Bit(y, k)
            /\ And(x, y) = g[20]
    BY AndRuns
  <1> DEFINE Bounded(v, P) == /\ 0 <= v /\ v <= x % P /\ v <= y % P
                              /\ (x % P) + (y % P) - v < P
             T == {k \in 0 .. 20 : ~Bounded(g[k], 2^k)}
  <1>2. Bounded(g[0], 2^0)
    <2>1. 2^0 = 1
      BY Powers
    <2>2. x % 1 = 0 /\ y % 1 = 0
      OBVIOUS
    <2> QED BY <1>1, <2>1, <2>2
  <1>3. ASSUME NEW v \in Int, NEW P \in Nat \ {0}, NEW b \in {0, 1}, NEW c \in {0, 1},
               Bounded(v, P), b = (x \div P) % 2, c = (y \div P) % 2
        PROVE  Bounded(v + P * b * c, 2 * P)
    <2>1. x % P \in Int /\ y % P \in Int
      BY Division
    <2>2. x % (2 * P) = (x % P) + P * b /\ y % (2 * P) = (y % P) + P * c
      BY <1>3, LowBits
    <2> DEFINE p == x % P
               q == y % P
               u == x % (2 * P)
               w == y % (2 * P)
    <2>3. p \in Int /\ q \in Int /\ u = p + P * b /\ w = q + P * c
      BY <2>1, <2>2
    <2>4. 0 <= v /\ v <= p /\ v <= q /\ p + q - v < P /\ p < P /\ q < P
      <3>1. p \in 0 .. P - 1 /\ q \in 0 .. P - 1
        BY Division
      <3> QED BY <1>3, <3>1
    <2> SUFFICES /\ 0 <= v + P * b * c /\ v + P * b * c <= u /\ v + P * b * c <= w
                 /\ u + w - (v + P * b * c) < 2 * P
      OBVIOUS
    <2> HIDE DEF p, q, u, w
    <2>5. CASE b = 0 /\ c = 0
      BY <2>3, <2>4, <2>5
    <2>6. CASE b = 0 /\ c = 1
      BY <2>3, <2>4, <2>6
    <2>7. CASE b = 1 /\ c = 0
      BY <2>3, <2>4, <2>7
    <2>8. CASE b = 1 /\ c = 1
      BY <2>3, <2>4, <2>8
    <2> QED BY <2>5, <2>6, <2>7, <2>8
  <1>4. ASSUME NEW k \in 0 .. 19, Bounded(g[k], 2^k) PROVE Bounded(g[k + 1], 2^(k + 1))
    <2>1. 2^k \in Nat \ {0} /\ 2^(k + 1) = 2 * 2^k
      BY Doubles
    <2>4. Bit(x, k) \in {0, 1} /\ Bit(y, k) \in {0, 1}
      BY BitRange
    <2>5. g[k] \in Int
      <3>1. k \in 0 .. 20
        OBVIOUS
      <3> QED BY <3>1, Zenon
    <2>6. g[k + 1] = g[k] + 2^k * Bit(x, k) * Bit(y, k)
      BY <1>1, Zenon
    <2>2. Bit(x, k) = (x \div 2^k) % 2 /\ Bit(y, k) = (y \div 2^k) % 2
      <3>1. 2^1 = 2
        BY Powers
      <3> QED BY <3>1 DEF Bit, Field
    <2> HIDE DEF Bounded
    <2>3. Bounded(g[k] + 2^k * Bit(x, k) * Bit(y, k), 2 * 2^k)
      BY <1>3, <1>4, <2>1, <2>2, <2>4, <2>5
    <2> QED BY <2>1, <2>3, <2>6
  <1>5. T = {}
    <2>1. SUFFICES ASSUME T # {} PROVE FALSE
      OBVIOUS
    <2> T \in SUBSET Nat
      OBVIOUS
    <2>2. PICK k \in T : \A j \in T : k <= j
      BY <2>1, LeastNat
    <2> HIDE DEF Bounded
    <2>3. k # 0
      BY <1>2
    <2>4. k - 1 \in 0 .. 19 /\ ~(k <= k - 1) /\ k - 1 + 1 = k
      BY <2>3
    <2>5. Bounded(g[k - 1], 2^(k - 1))
      BY <2>2, <2>4
    <2> QED BY <1>4, <2>4, <2>5
  <1>6. Bounded(g[20], 2^20)
    <2> HIDE DEF Bounded
    <2>1. 20 \in 0 .. 20
      OBVIOUS
    <2> QED BY <1>5, <2>1, Zenon
  <1>7. g[20] \in Int
    OBVIOUS
  <1> QED BY <1>1, <1>6, <1>7

(* Bytes, words and registers: by comparisons, which SMT reasons about, and   *)
(* not as intervals, which it lists.                                          *)
Word8  == {x \in Nat : x < 256}
Word16 == {x \in Nat : x < 65536}
Word20 == {x \in Nat : x < 2^20}

(* The numbers up to n, by a comparison. *)
LEMMA Below == \A n \in Nat : 0 .. n = {x \in Nat : x < n + 1}
  OBVIOUS

(* The bytes are the interval that TypeOK names. *)
LEMMA Interval8 == Word8 = 0 .. 255
  BY SMT DEF Word8

(* So are the words. *)
LEMMA Interval16 == Word16 = 0 .. 2^16 - 1
  <1> DEFINE n == 2^16
  <1>1. n \in Nat \ {0}
    BY Powers, SMT
  <1> SUFFICES Word16 = 0 .. n - 1
    OBVIOUS
  <1>2. Word16 = {x \in Nat : x < n}
    BY Powers, SMT DEF Word16
  <1> HIDE DEF n
  <1> QED BY <1>1, <1>2

(* So are the contents of a register. *)
LEMMA Interval20 == Word20 = 0 .. 2^20 - 1
  <1> DEFINE n == 2^20
  <1>1. n \in Nat \ {0}
    BY Powers, SMT
  <1> SUFFICES Word20 = 0 .. n - 1
    OBVIOUS
  <1>2. Word20 = {x \in Nat : x < n}
    BY DEF Word20
  <1> HIDE DEF n
  <1> QED BY <1>1, <1>2

(* What is stored in a register fits it, and what fits is stored as it is. *)
LEMMA Word20Range ==
    /\ \A x \in Int : Reg32(x) \in Word20
    /\ \A x \in Word20 : x \in Nat /\ Reg32(x) = x
    /\ \A x \in Word16 : x \in Word20
  <1>1. \A x \in Int : Reg32(x) \in Word20
    BY SMT DEF Reg32, Word20
  <1>2. \A x \in Word20 : x \in Nat /\ Reg32(x) = x
    BY SMT DEF Reg32, Word20
  <1>3. \A x \in Word16 : x \in Word20
    BY SMT DEF Word16, Word20
  <1> QED BY <1>1, <1>2, <1>3

(* LOWWORD gives words, and a word is its two bytes. *)
LEMMA Word16Range ==
    /\ \A x \in Int : LOWWORD(x) \in Word16
    /\ \A x \in Word16 : x \in Nat /\ LOWWORD(x) = x
    /\ \A x \in Word16 : x = LOWBYTE(x) + 256 * HIGHBYTE(x)
  <1>1. \A x \in Int : LOWWORD(x) \in Word16
    BY SMT DEF LOWWORD, Word16
  <1>2. \A x \in Word16 : x \in Nat /\ LOWWORD(x) = x
    BY SMT DEF LOWWORD, Word16
  <1>3. \A x \in Word16 : x = LOWBYTE(x) + 256 * HIGHBYTE(x)
    BY SMT DEF LOWBYTE, HIGHBYTE, Word16
  <1> QED BY <1>1, <1>2, <1>3

(* LOWBYTE and HIGHBYTE give bytes, and two bytes make a word. *)
LEMMA Word8Range ==
    /\ \A x \in Int : LOWBYTE(x) \in Word8 /\ HIGHBYTE(x) \in Word8
    /\ \A x \in Word8 : x \in Nat /\ x \in Word16
    /\ \A x, y \in Word8 : x + 256 * y \in Word16
  <1>1. \A x \in Int : LOWBYTE(x) \in Word8 /\ HIGHBYTE(x) \in Word8
    BY SMT DEF LOWBYTE, HIGHBYTE, Word8
  <1>2. \A x \in Word8 : x \in Nat /\ x \in Word16
    BY SMT DEF Word8, Word16
  <1>3. \A x, y \in Word8 : x + 256 * y \in Word16
    BY SMT DEF Word8, Word16
  <1> QED BY <1>1, <1>2, <1>3

(* The fields of the instruction register. *)
LEMMA FieldRange ==
    ASSUME NEW x \in Int, NEW k \in 0 .. 19, NEW n \in 0 .. 19
    PROVE  Field(x, k, n) \in Nat /\ Field(x, k, n) < 2^n
  <1> DEFINE P == 2^n
             q == x \div 2^k
  <1>1. P \in Nat \ {0} /\ 2^k \in Nat \ {0}
    BY Doubles
  <1>2. q \in Int
    BY <1>1, Division
  <1> HIDE DEF P, q
  <1>3. q % P \in 0 .. P - 1
    BY <1>1, <1>2, Division
  <1>4. Field(x, k, n) = q % P
    BY DEF Field, P, q
  <1> QED BY <1>1, <1>3, <1>4 DEF P

(* The fields of an instruction, for the 16 bits that the bus reads. *)
LEMMA Fields ==
    ASSUME NEW s, s.ir \in Int
    PROVE  /\ OP_T1(s) \in 0 .. 15 /\ SRC_T2(s) \in 0 .. 15 /\ DST_T2(s) \in 0 .. 15
           /\ INST_T1(s) \in 0 .. 7 /\ COND_T3(s) \in 0 .. 7
           /\ As_mode(s) \in 0 .. 3 /\ Ad_mode(s) \in {0, 1} /\ BW_mode(s) \in {0, 1}
           /\ OFFSET_T3(s) \in Nat /\ OFFSET_T3(s) < 1024
  <1>1. 2^2 = 4 /\ 2^3 = 8 /\ 2^4 = 16 /\ 2^10 = 1024
    BY Powers
  <1>2. \A n \in 0 .. 19 : \A k \in 0 .. 19 : Field(s.ir, k, n) \in Nat /\ Field(s.ir, k, n) < 2^n
    BY FieldRange
  <1>3. \A k \in 0 .. 19 : Field(s.ir, k, 4) \in 0 .. 15
    <2>1. 4 \in 0 .. 19
      OBVIOUS
    <2>2. \A k \in 0 .. 19 : Field(s.ir, k, 4) \in Nat /\ Field(s.ir, k, 4) < 2^4
      BY <1>2, <2>1, Zenon
    <2> QED BY <1>1, <2>2
  <1>4. \A k \in 0 .. 19 : Field(s.ir, k, 3) \in 0 .. 7
    <2>1. 3 \in 0 .. 19
      OBVIOUS
    <2>2. \A k \in 0 .. 19 : Field(s.ir, k, 3) \in Nat /\ Field(s.ir, k, 3) < 2^3
      BY <1>2, <2>1, Zenon
    <2> QED BY <1>1, <2>2
  <1>5. \A k \in 0 .. 19 : Field(s.ir, k, 2) \in 0 .. 3
    <2>1. 2 \in 0 .. 19
      OBVIOUS
    <2>2. \A k \in 0 .. 19 : Field(s.ir, k, 2) \in Nat /\ Field(s.ir, k, 2) < 2^2
      BY <1>2, <2>1, Zenon
    <2> QED BY <1>1, <2>2
  <1>6. Field(s.ir, 0, 10) \in Nat /\ Field(s.ir, 0, 10) < 1024
    <2>1. 10 \in 0 .. 19 /\ 0 \in 0 .. 19
      OBVIOUS
    <2>2. Field(s.ir, 0, 10) \in Nat /\ Field(s.ir, 0, 10) < 2^10
      BY <1>2, <2>1, Zenon
    <2> QED BY <1>1, <2>2
  <1>7. OP_T1(s) \in 0 .. 15 /\ SRC_T2(s) \in 0 .. 15 /\ DST_T2(s) \in 0 .. 15
    BY <1>3 DEF OP_T1, SRC_T2, DST_T2
  <1>8. INST_T1(s) \in 0 .. 7 /\ COND_T3(s) \in 0 .. 7
    BY <1>4 DEF INST_T1, COND_T3
  <1>9. As_mode(s) \in 0 .. 3
    BY <1>5 DEF As_mode
  <1>10. Ad_mode(s) \in {0, 1} /\ BW_mode(s) \in {0, 1}
    BY BitRange DEF Ad_mode, BW_mode
  <1> QED BY <1>6, <1>7, <1>8, <1>9, <1>10 DEF OFFSET_T3

-----------------------------------------------------------------------------
(* mem[] of memory.c: 64K bytes. *)
IsMemory(mem) ==
    \A x \in DOMAIN mem : x \in Word16 /\ mem[x] \in Word8

(* The machine: a record of registers, memory and the tables of decoder.c     *)
(* and ALU.c, each in its range.                                              *)
IsMachine(s) ==
    /\ s = [reg |-> s.reg, mem |-> s.mem, MDR |-> s.MDR, ir |-> s.ir,
            src_mode |-> s.src_mode, dst_mode |-> s.dst_mode,
            condition_tbl |-> s.condition_tbl, sys_clock |-> s.sys_clock, wild |-> s.wild]
    /\ s.reg \in [reg_file -> Word20]
    /\ IsMemory(s.mem)
    /\ s.MDR \in Int
    /\ s.ir \in Word16
    /\ s.src_mode \in DIR .. IMM /\ s.dst_mode \in DIR .. IMM
    /\ s.condition_tbl \in [1 .. 8 -> BOOLEAN]
    /\ s.wild \in BOOLEAN

(* The instruction that is executed, its modes and the clock. *)
Alike(s, t) ==
    /\ t.ir = s.ir /\ t.src_mode = s.src_mode /\ t.dst_mode = s.dst_mode
    /\ t.sys_clock = s.sys_clock

(* Steps that leave them alone, one after the other. *)
LEMMA AlikeChain ==
    \A s, t, u : Alike(s, t) /\ Alike(t, u) => Alike(s, u)
  BY DEF Alike

(* A byte of memory, written or not. *)
LEMMA AtByte ==
    ASSUME NEW mem, IsMemory(mem), NEW x
    PROVE  At(mem, x) \in Word8
  BY DEF IsMemory, At, Word8

(* A byte is stored where it belongs, and nowhere else. *)
LEMMA StoreKeeps ==
    ASSUME NEW mem, IsMemory(mem), NEW x \in Word16, NEW b \in Word8
    PROVE  /\ IsMemory(Store(mem, x, b))
           /\ At(Store(mem, x, b), x) = b
           /\ \A y : y # x => At(Store(mem, x, b), y) = At(mem, y)
  BY DEF IsMemory, Store, At

(* Bytes laid over the memory. *)
LEMMA OverKeeps ==
    ASSUME NEW mem, IsMemory(mem), NEW bytes, IsMemory(bytes)
    PROVE  IsMemory(Over(bytes, mem))
  BY DEF IsMemory, Over

(* From s to t one register was set. *)
RegSet(s, t, r, v) ==
    /\ IsMachine(t) /\ Alike(s, t)
    /\ t.reg = [s.reg EXCEPT ![r] = Reg32(v)]
    /\ t.reg[r] = Reg32(v)
    /\ \A q \in reg_file : q # r => t.reg[q] = s.reg[q]
    /\ t.mem = s.mem /\ t.MDR = s.MDR /\ t.wild = s.wild
    /\ t.condition_tbl = s.condition_tbl

(* The word at an address, low byte first. *)
WordAt(mem, x) == At(mem, x) + 256 * At(mem, x + 1)

(* From s to t the bus has read into MDR. *)
IsRead(s, t, addr, bw) ==
    /\ IsMachine(t) /\ Alike(s, t)
    /\ t.reg = s.reg /\ t.mem = s.mem /\ t.condition_tbl = s.condition_tbl
    /\ t.MDR \in Word16 /\ t.MDR \in Nat
    /\ bw = WordOp => t.MDR = WordAt(s.mem, addr)
    /\ t.wild = Wild(s, addr, bw)

(* From s to t the bus has written v, unless the address is outside mem[]. *)
IsWritten(s, t, addr, bw, v) ==
    /\ IsMachine(t) /\ Alike(s, t)
    /\ t.reg = s.reg /\ t.condition_tbl = s.condition_tbl
    /\ t.wild = Wild(s, addr, bw)
    /\ ~t.wild =>
          /\ At(t.mem, addr) = LOWBYTE(v)
          /\ bw = WordOp => At(t.mem, addr + 1) = HIGHBYTE(v)
          /\ \A y : y # addr /\ y # addr + 1 => At(t.mem, y) = At(s.mem, y)
    /\ t.wild => t.mem = s.mem

(* SetReg sets one register. *)
LEMMA SetRegKeeps ==
    ASSUME NEW s, IsMachine(s), NEW r \in reg_file, NEW v \in Int
    PROVE  RegSet(s, SetReg(s, r, v), r, v)
  <1> DEFINE t == SetReg(s, r, v)
  <1>1. Reg32(v) \in Word20
    BY Word20Range
  <1>2. t = [s EXCEPT !.reg = [s.reg EXCEPT ![r] = Reg32(v)]]
    BY DEF SetReg
  <1>3. [s.reg EXCEPT ![r] = Reg32(v)] \in [reg_file -> Word20]
    BY <1>1 DEF IsMachine
  <1> HIDE DEF t
  <1>4. /\ t.reg = [s.reg EXCEPT ![r] = Reg32(v)]
        /\ t.mem = s.mem /\ t.MDR = s.MDR /\ t.wild = s.wild
        /\ t.condition_tbl = s.condition_tbl /\ Alike(s, t)
        /\ t = [reg |-> t.reg, mem |-> t.mem, MDR |-> t.MDR, ir |-> t.ir,
                src_mode |-> t.src_mode, dst_mode |-> t.dst_mode,
                condition_tbl |-> t.condition_tbl, sys_clock |-> t.sys_clock, wild |-> t.wild]
    BY <1>2 DEF IsMachine, Alike
  <1>5. IsMachine(t)
    BY <1>3, <1>4 DEF IsMachine, Alike
  <1>6. t.reg[r] = Reg32(v) /\ \A q \in reg_file : q # r => t.reg[q] = s.reg[q]
    BY <1>4 DEF IsMachine
  <1> QED BY <1>4, <1>5, <1>6 DEF t, RegSet

(* A read of the bus. *)
LEMMA ReadKeeps ==
    ASSUME NEW s, IsMachine(s), NEW addr, NEW bw \in {0, 1}
    PROVE  IsRead(s, Read(s, addr, bw), addr, bw)
  <1> DEFINE v == At(s.mem, addr) + IF bw = WordOp THEN 256 * At(s.mem, addr + 1) ELSE 0
             w == Wild(s, addr, bw)
             t == Read(s, addr, bw)
  <1>1. At(s.mem, addr) \in Word8 /\ At(s.mem, addr + 1) \in Word8
    BY AtByte DEF IsMachine
  <1>2. v \in Word16 /\ v \in Nat /\ v \in Int
    <2> DEFINE lo == At(s.mem, addr)
               hi == At(s.mem, addr + 1)
    <2>1. lo \in Word8 /\ hi \in Word8
      BY <1>1
    <2> HIDE DEF lo, hi
    <2>2. lo + 256 * hi \in Word16 /\ lo \in Word16 /\ lo + 0 = lo
      BY <2>1, Word8Range
    <2>3. v = IF bw = WordOp THEN lo + 256 * hi ELSE lo + 0
      BY DEF v, lo, hi
    <2>4. v \in Word16
      BY <2>2, <2>3
    <2> HIDE DEF v
    <2> QED BY <2>4, Word16Range
  <1>3. w \in BOOLEAN
    BY DEF Wild, IsMachine
  <1>4. t = [s EXCEPT !.MDR = v, !.wild = w]
    BY DEF Read
  <1> HIDE DEF t, v, w
  <1>5. /\ t.reg = s.reg /\ t.mem = s.mem /\ t.condition_tbl = s.condition_tbl
        /\ t.MDR = v /\ t.wild = w /\ Alike(s, t)
        /\ t = [reg |-> t.reg, mem |-> t.mem, MDR |-> t.MDR, ir |-> t.ir,
                src_mode |-> t.src_mode, dst_mode |-> t.dst_mode,
                condition_tbl |-> t.condition_tbl, sys_clock |-> t.sys_clock, wild |-> t.wild]
    BY <1>4 DEF IsMachine, Alike
  <1>6. IsMachine(t)
    BY <1>2, <1>3, <1>5 DEF IsMachine, Alike
  <1> QED BY <1>2, <1>5, <1>6 DEF t, v, w, IsRead, WordAt

(* A write of the bus. *)
LEMMA WriteKeeps ==
    ASSUME NEW s, IsMachine(s), NEW addr \in Nat, NEW bw \in {0, 1}, NEW v \in Int
    PROVE  IsWritten(s, Write(s, addr, bw, v), addr, bw, v)
  <1> DEFINE w == Wild(s, addr, bw)
             low == Store(s.mem, addr, LOWBYTE(v))
             word == Store(low, addr + 1, HIGHBYTE(v))
             new == IF w THEN s.mem ELSE IF bw = WordOp THEN word ELSE low
             t == Write(s, addr, bw, v)
  <1>1. w \in BOOLEAN
    BY DEF Wild, IsMachine
  <1>2. t = [s EXCEPT !.MDR = v, !.mem = new, !.wild = w]
    BY DEF Write
  <1>3. LOWBYTE(v) \in Word8 /\ HIGHBYTE(v) \in Word8 /\ IsMemory(s.mem)
    BY Word8Range DEF IsMachine
  <1>4. ~w => addr \in Word16 /\ (bw = WordOp => addr + 1 \in Word16)
    BY SMT DEF Wild, Word16, WordOp
  <1>5. /\ ~w => /\ IsMemory(low) /\ At(low, addr) = LOWBYTE(v)
                 /\ \A y : y # addr => At(low, y) = At(s.mem, y)
    BY <1>3, <1>4, StoreKeeps
  <1> HIDE DEF low
  <1>6. ~w /\ bw = WordOp => /\ IsMemory(word) /\ At(word, addr + 1) = HIGHBYTE(v)
                             /\ \A y : y # addr + 1 => At(word, y) = At(low, y)
    BY <1>3, <1>4, <1>5, StoreKeeps
  <1> HIDE DEF word, w, t
  <1>7. IsMemory(new)
    BY <1>3, <1>5, <1>6
  <1>8. ~w => /\ At(new, addr) = LOWBYTE(v)
              /\ bw = WordOp => At(new, addr + 1) = HIGHBYTE(v)
              /\ \A y : y # addr /\ y # addr + 1 => At(new, y) = At(s.mem, y)
    <2>1. addr # addr + 1
      OBVIOUS
    <2> QED BY <1>5, <1>6, <2>1
  <1>9. w => new = s.mem
    OBVIOUS
  <1> HIDE DEF new
  <1>10. /\ t.reg = s.reg /\ t.mem = new /\ t.condition_tbl = s.condition_tbl
         /\ t.MDR = v /\ t.wild = w /\ Alike(s, t)
         /\ t = [reg |-> t.reg, mem |-> t.mem, MDR |-> t.MDR, ir |-> t.ir,
                 src_mode |-> t.src_mode, dst_mode |-> t.dst_mode,
                 condition_tbl |-> t.condition_tbl, sys_clock |-> t.sys_clock, wild |-> t.wild]
    BY <1>2 DEF IsMachine, Alike
  <1>11. IsMachine(t)
    BY <1>1, <1>7, <1>10 DEF IsMachine, Alike
  <1> QED BY <1>8, <1>9, <1>10, <1>11 DEF t, w, IsWritten

(* The names of the registers. *)
LEMMA Registers ==
    /\ PC \in reg_file /\ SP \in reg_file /\ SR \in reg_file /\ TA \in reg_file
    /\ TD1 \in reg_file /\ TD2 \in reg_file /\ \A r \in 0 .. 15 : r \in reg_file
    /\ WordOp \in {0, 1} /\ \A r \in reg_file : r \in Nat
  BY DEF PC, SP, SR, TA, TD1, TD2, reg_file, WordOp

(* What a register holds. *)
LEMMA RegNat ==
    ASSUME NEW s, IsMachine(s), NEW r \in reg_file
    PROVE  s.reg[r] \in Word20 /\ s.reg[r] \in Nat
  <1>1. s.reg[r] \in Word20
    BY DEF IsMachine
  <1> QED BY <1>1, Word20Range

(* fetch() of CPU.c reads the word at the PC and moves the PC on. *)
LEMMA FetchKeeps ==
    ASSUME NEW s, IsMachine(s)
    PROVE  /\ IsMachine(fetch(s)) /\ Alike(s, fetch(s))
           /\ fetch(s).MDR = WordAt(s.mem, s.reg[PC]) /\ fetch(s).MDR \in Word16
           /\ \A q \in reg_file : q # PC => fetch(s).reg[q] = s.reg[q]
           /\ fetch(s).mem = s.mem /\ fetch(s).condition_tbl = s.condition_tbl
           /\ fetch(s).wild = Wild(s, s.reg[PC], WordOp)
  <1> DEFINE r == Read(s, s.reg[PC], WordOp)
             v == r.reg[PC] + 2
             t == SetReg(r, PC, v)
  <1>1. IsRead(s, r, s.reg[PC], WordOp)
    BY ReadKeeps, Registers
  <1>2. fetch(s) = t
    BY DEF fetch
  <1> HIDE DEF r, t, v
  <1>3. IsMachine(r) /\ PC \in reg_file
    BY <1>1, Registers DEF IsRead
  <1>4. v \in Int
    BY <1>3, RegNat DEF v
  <1>5. RegSet(r, t, PC, v)
    BY <1>3, <1>4, SetRegKeeps DEF t
  <1>6. Alike(s, t)
    BY <1>1, <1>5, AlikeChain DEF IsRead, RegSet
  <1> QED BY <1>1, <1>2, <1>5, <1>6 DEF IsRead, RegSet

(* From s to t it is still a machine, in the same instruction. *)
Kept(s, t) == IsMachine(t) /\ Alike(s, t)

(* One such step after the other. *)
LEMMA KeptChain ==
    /\ \A s : IsMachine(s) => Kept(s, s)
    /\ \A s, t, u : Kept(s, t) /\ Kept(t, u) => Kept(s, u)
  BY DEF Kept, Alike

(* What the lemmas above say of the bus cycles, as far as the state's shape. *)
LEMMA BusKeeps ==
    /\ \A s : IsMachine(s) => \A r \in reg_file : \A v \in Int : Kept(s, SetReg(s, r, v))
    /\ \A s : IsMachine(s) => \A x : \A bw \in {0, 1} :
          Kept(s, Read(s, x, bw)) /\ Read(s, x, bw).MDR \in Int
    /\ \A s : IsMachine(s) => \A x \in Nat : \A bw \in {0, 1} : \A v \in Int :
          Kept(s, Write(s, x, bw, v))
  <1>1. ASSUME NEW s, IsMachine(s), NEW r \in reg_file, NEW v \in Int
        PROVE  Kept(s, SetReg(s, r, v))
    <2>1. RegSet(s, SetReg(s, r, v), r, v)
      BY <1>1, SetRegKeeps
    <2> QED BY <2>1 DEF RegSet, Kept
  <1>2. ASSUME NEW s, IsMachine(s), NEW x, NEW bw \in {0, 1}
        PROVE  Kept(s, Read(s, x, bw)) /\ Read(s, x, bw).MDR \in Int
    <2>1. IsRead(s, Read(s, x, bw), x, bw)
      BY <1>2, ReadKeeps
    <2> QED BY <2>1 DEF IsRead, Kept
  <1>3. ASSUME NEW s, IsMachine(s), NEW x \in Nat, NEW bw \in {0, 1}, NEW v \in Int
        PROVE  Kept(s, Write(s, x, bw, v))
    <2>1. IsWritten(s, Write(s, x, bw, v), x, bw, v)
      BY <1>3, WriteKeeps
    <2> QED BY <2>1 DEF IsWritten, Kept
  <1> QED BY <1>1, <1>2, <1>3

(* fetch_op() brings an operand into a temporary, whatever its mode. *)
LEMMA FetchOpKeeps ==
    ASSUME NEW s, IsMachine(s), NEW TMP \in reg_file, NEW mode \in DIR .. IMM, NEW Rn \in reg_file
    PROVE  Kept(s, fetch_op(s, TMP, mode, Rn))
  <1> DEFINE extended == fetch(s)
             ta   == extended.MDR + IF mode = ABS THEN 0 ELSE extended.reg[Rn]
             at   == IF mode \in {IDX, REL, ABS} THEN SetReg(extended, TA, ta) ELSE s
             from == IF mode \in {IDX, REL, ABS} THEN at.reg[TA] ELSE s.reg[Rn]
             got  == Read(at, from, BW_mode(s))
             step == IF mode = IMM \/ BW_mode(s) = WordOp THEN 2 ELSE 1
             set  == SetReg(got, TMP, got.MDR)
             stepped == SetReg(set, Rn, set.reg[Rn] + step)
             direct == SetReg(s, TMP, s.reg[Rn])
             t == fetch_op(s, TMP, mode, Rn)
  <1>1. Kept(s, extended) /\ extended.MDR \in Int
    BY FetchKeeps, Word16Range DEF Kept
  <1>2. BW_mode(s) \in {0, 1}
    BY BitRange, Word16Range DEF BW_mode, IsMachine
  <1>3. t = CASE mode = DIR -> direct [] mode \in {INC, IMM} -> stepped [] OTHER -> set
    BY DEF fetch_op
  <1> HIDE DEF t
  <1>4. TA \in reg_file
    BY Registers
  <1>5. ta \in Int
    <2>1. extended.reg[Rn] \in Int
      BY <1>1, RegNat DEF Kept
    <2> HIDE DEF extended
    <2> QED BY <1>1, <2>1
  <1>6. Kept(s, at)
    <2> HIDE DEF ta, extended
    <2>1. Kept(extended, SetReg(extended, TA, ta))
      BY <1>1, <1>4, <1>5, BusKeeps DEF Kept
    <2> QED BY <1>1, <2>1, KeptChain
  <1> HIDE DEF at, ta, extended
  <1>7. Kept(s, got) /\ got.MDR \in Int
    <2>1. Kept(at, got) /\ got.MDR \in Int
      BY <1>2, <1>6, BusKeeps DEF Kept
    <2> QED BY <1>6, <2>1, KeptChain
  <1> HIDE DEF got, from
  <1>8. Kept(s, set)
    <2>1. Kept(got, set)
      BY <1>7, BusKeeps DEF Kept
    <2> QED BY <1>7, <2>1, KeptChain
  <1> HIDE DEF set
  <1>9. Kept(s, stepped)
    <2>1. set.reg[Rn] + step \in Int
      BY <1>8, RegNat DEF Kept
    <2>2. Kept(set, stepped)
      BY <1>8, <2>1, BusKeeps DEF Kept
    <2> QED BY <1>8, <2>2, KeptChain
  <1>10. Kept(s, direct)
    <2>1. s.reg[Rn] \in Int
      BY RegNat
    <2> QED BY <2>1, BusKeeps
  <1> HIDE DEF stepped, direct, step
  <1> QED BY <1>3, <1>8, <1>9, <1>10 DEF t

(* set_result() puts the result into a register or into memory. *)
LEMMA SetResultKeeps ==
    ASSUME NEW s, IsMachine(s), NEW dst \in reg_file, NEW res \in Int
    PROVE  Kept(s, set_result(s, dst, res))
  <1> DEFINE t == SetReg(s, dst, LOWWORD(res))
             u == Write(t, t.reg[TA], BW_mode(s), t.reg[TD2])
  <1>1. LOWWORD(res) \in Int
    BY Word16Range
  <1>2. Kept(s, t)
    BY <1>1, BusKeeps
  <1>3. BW_mode(s) \in {0, 1}
    BY BitRange, Word16Range DEF BW_mode, IsMachine
  <1>4. set_result(s, dst, res) = IF dst # TD2 THEN t ELSE u
    BY DEF set_result
  <1> HIDE DEF t
  <1>5. t.reg[TA] \in Nat /\ t.reg[TD2] \in Int
    BY <1>2, Registers, RegNat DEF Kept
  <1>6. Kept(t, u)
    BY <1>2, <1>3, <1>5, BusKeeps DEF Kept
  <1> HIDE DEF u
  <1> QED BY <1>2, <1>4, <1>6, KeptChain

(* Push() moves the stack pointer and writes. *)
LEMMA PushKeeps ==
    ASSUME NEW s, IsMachine(s), NEW op \in reg_file
    PROVE  Kept(s, Push(s, op))
  <1> DEFINE v == s.reg[SP] - 2
             t == SetReg(s, SP, v)
             u == Write(t, t.reg[SP], WordOp, t.reg[op])
  <1>1. v \in Int
    BY Registers, RegNat
  <1>2. Push(s, op) = u
    BY DEF Push
  <1> HIDE DEF v
  <1>3. Kept(s, t)
    BY <1>1, Registers, BusKeeps
  <1> HIDE DEF t
  <1>4. t.reg[SP] \in Nat /\ t.reg[op] \in Int
    BY <1>3, Registers, RegNat DEF Kept
  <1>5. Kept(t, u)
    BY <1>3, <1>4, Registers, BusKeeps DEF Kept
  <1> HIDE DEF u
  <1> QED BY <1>2, <1>3, <1>5, KeptChain

(* A number with one bit cleared is a number. *)
LEMMA ClearRange ==
    ASSUME NEW x \in Int, NEW k \in 0 .. 19
    PROVE  Clear(x, k) \in Int
  <1>1. 2^k \in Nat /\ Bit(x, k) \in {0, 1}
    BY Doubles, BitRange
  <1> DEFINE p == 2^k
             b == Bit(x, k)
  <1>2. x - p * b \in Int
    <2>1. p \in Nat /\ b \in {0, 1}
      BY <1>1
    <2> HIDE DEF p, b
    <2> QED BY <2>1
  <1> QED BY <1>2 DEF Clear

(* The entry into an ISR: two pushes, the vector, and GIE cleared. *)
LEMMA InterruptKeeps ==
    ASSUME NEW s, IsMachine(s), NEW TMP \in reg_file, NEW x \in Int
    PROVE  Kept(s, Interrupt(s, TMP, x))
  <1> DEFINE once  == Push(s, PC)
             saved == Push(once, SR)
             named == SetReg(saved, TMP, x)
             read  == Read(named, x, WordOp)
             there == SetReg(read, PC, read.MDR)
             off   == Clear(read.reg[SR], GIE)
             t     == SetReg(there, SR, off)
  <1>1. Interrupt(s, TMP, x) = t
    BY DEF Interrupt
  <1>2. Kept(s, once)
    BY PushKeeps, Registers
  <1> HIDE DEF once
  <1>3. Kept(s, saved)
    BY <1>2, PushKeeps, Registers, KeptChain DEF Kept
  <1> HIDE DEF saved
  <1>4. Kept(s, named)
    <2>1. Kept(saved, named)
      BY <1>3, BusKeeps DEF Kept
    <2> QED BY <1>3, <2>1, KeptChain
  <1> HIDE DEF named
  <1>5. Kept(s, read) /\ read.MDR \in Int
    <2>1. Kept(named, read) /\ read.MDR \in Int
      BY <1>4, Registers, BusKeeps DEF Kept
    <2> QED BY <1>4, <2>1, KeptChain
  <1> HIDE DEF read
  <1>6. Kept(s, there)
    <2>1. Kept(read, there)
      BY <1>5, Registers, BusKeeps DEF Kept
    <2> QED BY <1>5, <2>1, KeptChain
  <1> HIDE DEF there
  <1>7. off \in Int
    <2>1. read.reg[SR] \in Int
      BY <1>5, Registers, RegNat DEF Kept
    <2>2. GIE \in 0 .. 19
      BY DEF GIE
    <2> QED BY <2>1, <2>2, ClearRange
  <1> HIDE DEF off
  <1>8. Kept(there, t)
    BY <1>6, <1>7, Registers, BusKeeps DEF Kept
  <1> HIDE DEF t
  <1> QED BY <1>1, <1>6, <1>8, KeptChain

(* error() clears the instruction register. *)
LEMMA ErrorKeeps ==
    ASSUME NEW s, IsMachine(s)
    PROVE  IsMachine(error(s)) /\ error(s).ir = 0 /\ error(s).sys_clock = s.sys_clock
  <1> DEFINE t == Interrupt(s, TA, 65534)
             u == error(s)
  <1>1. Kept(s, t)
    <2> DEFINE x == 65534
    <2>1. x \in Int
      BY SMT
    <2> HIDE DEF x
    <2>2. Kept(s, Interrupt(s, TA, x))
      BY <2>1, Registers, InterruptKeeps
    <2> QED BY <2>2 DEF x
  <1>2. u = [t EXCEPT !.ir = 0]
    BY DEF error
  <1> HIDE DEF t, u
  <1>3. 0 \in Word16
    BY SMT DEF Word16
  <1>4. IsMachine(u) /\ u.ir = 0 /\ u.sys_clock = t.sys_clock
    BY <1>1, <1>2, <1>3 DEF IsMachine, Kept
  <1> QED BY <1>1, <1>4 DEF u, Kept, Alike

(* The eight conditions of a jump are truth values. *)
LEMMA ConditionsType == \A sr : Conditions(sr) \in [1 .. 8 -> BOOLEAN]
  <1>1. ASSUME NEW S, NEW a1 \in S, NEW a2 \in S, NEW a3 \in S, NEW a4 \in S,
               NEW a5 \in S, NEW a6 \in S, NEW a7 \in S, NEW a8 \in S
        PROVE  <<a1, a2, a3, a4, a5, a6, a7, a8>> \in [1 .. 8 -> S]
    OBVIOUS
  <1> SUFFICES ASSUME NEW sr PROVE Conditions(sr) \in [1 .. 8 -> BOOLEAN]
    OBVIOUS
  <1> DEFINE on(k) == Bit(sr, k) = 1
             less  == on(NEG) \/ on(OVF)
  <1>2. Conditions(sr) = <<~on(1), on(1), ~on(CARRY), on(CARRY), on(NEG), ~less, less, TRUE>>
    BY DEF Conditions
  <1>3. /\ (~on(1)) \in BOOLEAN /\ on(1) \in BOOLEAN /\ (~on(CARRY)) \in BOOLEAN
        /\ on(CARRY) \in BOOLEAN /\ on(NEG) \in BOOLEAN /\ (~less) \in BOOLEAN
        /\ less \in BOOLEAN /\ TRUE \in BOOLEAN
    OBVIOUS
  <1>4. <<~on(1), on(1), ~on(CARRY), on(CARRY), on(NEG), ~less, less, TRUE>>
           \in [1 .. 8 -> BOOLEAN]
    <2> HIDE DEF on, less
    <2> QED BY <1>1, <1>3, ZenonT(40)
  <1> QED BY <1>2, <1>4, Zenon

(* update_SR() puts four flags into SR, and the conditions with them. *)
LEMMA UpdateKeeps ==
    ASSUME NEW s, IsMachine(s), NEW signs, NEW dst, NEW res \in Int
    PROVE  Kept(s, update_SR(s, signs, dst, res))
  <1> DEFINE top   == IF BW_mode(s) = WordOp THEN 15 ELSE 7
             carry == IF BW_mode(s) = WordOp
                      THEN Bit(res, 16) + 4 * Bit(res, 15)
                      ELSE IF Bit(res, 8) = 1 \/ Bit(res, 7) = 1 THEN 1 ELSE 0
             ovf   == signs[top] = Bit(dst, top) /\ signs[top] # Bit(res, top)
             zero  == IF res = 0 THEN 2 ELSE 0
             over  == IF ovf THEN 256 ELSE 0
             sr    == carry + zero + over
             t     == update_SR(s, signs, dst, res)
             tbl   == Conditions(sr)
  <1>1. t = [s EXCEPT !.reg[SR] = sr, !.condition_tbl = tbl]
    BY DEF update_SR
  <1>2. carry \in 0 .. 5
    <2>1. Bit(res, 16) \in {0, 1} /\ Bit(res, 15) \in {0, 1}
      BY BitRange
    <2> DEFINE b == Bit(res, 16)
               c == Bit(res, 15)
    <2>2. b + 4 * c \in 0 .. 5
      <3>1. b \in {0, 1} /\ c \in {0, 1}
        BY <2>1
      <3> HIDE DEF b, c
      <3> QED BY <3>1
    <2> QED BY <2>2
  <1>3. tbl \in [1 .. 8 -> BOOLEAN]
    BY ConditionsType
  <1> HIDE DEF t, tbl, carry
  <1>4. sr \in Word20
    <2>1. zero \in 0 .. 2 /\ over \in Nat /\ over < 257
      BY SMT
    <2> HIDE DEF zero, over
    <2>2. sr \in Nat /\ sr < 1000
      BY <1>2, <2>1
    <2> HIDE DEF sr
    <2> QED BY <2>2, SMT DEF Word20
  <1> HIDE DEF sr
  <1>5. [s.reg EXCEPT ![SR] = sr] \in [reg_file -> Word20]
    BY <1>4 DEF IsMachine
  <1>6. /\ t.reg = [s.reg EXCEPT ![SR] = sr] /\ t.mem = s.mem /\ t.MDR = s.MDR
        /\ t.wild = s.wild /\ t.condition_tbl = tbl /\ Alike(s, t)
        /\ t = [reg |-> t.reg, mem |-> t.mem, MDR |-> t.MDR, ir |-> t.ir,
                src_mode |-> t.src_mode, dst_mode |-> t.dst_mode,
                condition_tbl |-> t.condition_tbl, sys_clock |-> t.sys_clock, wild |-> t.wild]
    BY <1>1 DEF IsMachine, Alike
  <1>7. IsMachine(t)
    BY <1>3, <1>5, <1>6 DEF IsMachine, Alike
  <1> QED BY <1>6, <1>7 DEF Kept, t

(* The results of the operators &, | and ^ are integers. *)
LEMMA Logic ==
    \A x, y \in Int : And(x, y) \in Int /\ Or(x, y) \in Int /\ Xor(x, y) \in Int
  <1> SUFFICES ASSUME NEW x \in Int, NEW y \in Int
               PROVE  And(x, y) \in Int /\ Or(x, y) \in Int /\ Xor(x, y) \in Int
    OBVIOUS
  <1> DEFINE z == And(x, y)
  <1>1. z \in Int
    BY AndBounds
  <1>2. Or(x, y) = x + y - z /\ Xor(x, y) = x + y - 2 * z
    BY DEF Or, Xor
  <1> HIDE DEF z
  <1>3. Or(x, y) \in Int /\ Xor(x, y) \in Int
    BY <1>1, <1>2
  <1> QED BY <1>1, <1>3 DEF z

(* The bit that a rotation drops goes into the carry. *)
LEMMA CarryOutKeeps ==
    ASSUME NEW s, IsMachine(s), NEW op
    PROVE  Kept(s, CarryOut(s, op))
  <1>1. CASE s.reg[op] % 2 = 0
    BY <1>1, KeptChain DEF CarryOut
  <1>2. CASE s.reg[op] % 2 # 0
    <2> DEFINE t == CarryOut(s, op)
               sr == Or(s.reg[SR], 1)
    <2>1. t = [s EXCEPT !.reg[SR] = sr, !.condition_tbl[3] = FALSE, !.condition_tbl[4] = TRUE]
      BY <1>2 DEF CarryOut
    <2>2. sr \in Word20
      <3> DEFINE x == s.reg[SR]
                 z == And(x, 1)
                 P == 2^20
      <3>1. x \in Nat /\ x < P
        BY Registers, RegNat DEF Word20
      <3>2. P \in Nat \ {0} /\ P > 1
        BY SMT
      <3>3. z \in Nat /\ (x % P) + (1 % P) - z < P /\ z <= x % P
        <4>1. x \in Int /\ 1 \in Int
          BY <3>1
        <4> QED BY <4>1, AndBounds
      <3>4. sr = x + 1 - z
        BY DEF Or
      <3> HIDE DEF x, z, P, sr
      <3>5. x % P = x /\ 1 % P = 1
        BY <3>1, <3>2
      <3>6. sr \in Nat /\ sr < P
        BY <3>1, <3>3, <3>4, <3>5
      <3> QED BY <3>6 DEF Word20, P
    <2> HIDE DEF t, sr
    <2>3. [s.reg EXCEPT ![SR] = sr] \in [reg_file -> Word20]
      BY <2>2 DEF IsMachine
    <2>4. [s.condition_tbl EXCEPT ![3] = FALSE, ![4] = TRUE] \in [1 .. 8 -> BOOLEAN]
      BY DEF IsMachine
    <2>5. /\ t.reg = [s.reg EXCEPT ![SR] = sr] /\ t.mem = s.mem /\ t.MDR = s.MDR
          /\ t.wild = s.wild /\ Alike(s, t)
          /\ t.condition_tbl = [s.condition_tbl EXCEPT ![3] = FALSE, ![4] = TRUE]
          /\ t = [reg |-> t.reg, mem |-> t.mem, MDR |-> t.MDR, ir |-> t.ir,
                  src_mode |-> t.src_mode, dst_mode |-> t.dst_mode,
                  condition_tbl |-> t.condition_tbl, sys_clock |-> t.sys_clock, wild |-> t.wild]
      BY <2>1 DEF IsMachine, Alike
    <2>6. IsMachine(t)
      BY <2>3, <2>4, <2>5 DEF IsMachine, Alike
    <2> QED BY <2>5, <2>6 DEF Kept, t
  <1> QED BY <1>1, <1>2

(* What RRC and RRA have in common. *)
LEMMA RotatedKeeps ==
    ASSUME NEW s, IsMachine(s), NEW op \in reg_file, NEW res \in Int
    PROVE  Kept(s, Rotated(s, op, res))
  <1> DEFINE u == update_SR(s, Signs(0), 1, res)
             c == CarryOut(u, op)
             t == set_result(c, op, res)
  <1>1. Rotated(s, op, res) = t
    BY DEF Rotated
  <1>2. Kept(s, u)
    BY UpdateKeeps
  <1> HIDE DEF u
  <1>3. Kept(u, c)
    BY <1>2, CarryOutKeeps DEF Kept
  <1> HIDE DEF c
  <1>4. Kept(c, t)
    BY <1>3, SetResultKeeps DEF Kept
  <1> HIDE DEF t
  <1> QED BY <1>1, <1>2, <1>3, <1>4, KeptChain

(* RRC, the rotation through the carry. *)
LEMMA RRCKeeps ==
    ASSUME NEW s, IsMachine(s), NEW op \in reg_file
    PROVE  Kept(s, RRC(s, op))
  <1> DEFINE into == IF BW_mode(s) = WordOp THEN 16 ELSE 8
             h == s.reg[op] \div 2
             p == 2^into
             b == Bit(s.reg[SR], CARRY)
             res == h + p * b
  <1>1. RRC(s, op) = Rotated(s, op, res)
    BY DEF RRC
  <1>2. p \in Nat
    BY Doubles
  <1>3. h \in Int
    BY RegNat
  <1>4. b \in {0, 1}
    BY Registers, RegNat, BitRange DEF CARRY
  <1> HIDE DEF p, h, b
  <1>5. res \in Int
    BY <1>2, <1>3, <1>4
  <1> HIDE DEF res
  <1> QED BY <1>1, <1>5, RotatedKeeps

(* RRA, the arithmetic shift. *)
LEMMA RRAKeeps ==
    ASSUME NEW s, IsMachine(s), NEW op \in reg_file
    PROVE  Kept(s, RRA(s, op))
  <1> DEFINE top == IF BW_mode(s) = WordOp THEN 15 ELSE 7
             x == s.reg[op]
             h == x \div 2
             p == 2^top
             b == Bit(x, top)
             sign == p * b
             res == Or(h, sign)
  <1>1. RRA(s, op) = Rotated(s, op, res)
    BY DEF RRA
  <1>2. p \in Nat /\ top \in 0 .. 19
    BY Doubles
  <1>3. x \in Int
    BY RegNat
  <1> HIDE DEF p, x, top
  <1>4. b \in {0, 1} /\ h \in Int
    BY <1>2, <1>3, BitRange
  <1> HIDE DEF h, b
  <1>5. sign \in Int
    BY <1>2, <1>4
  <1> HIDE DEF sign
  <1>6. res \in Int
    BY <1>4, <1>5, Logic
  <1> HIDE DEF res
  <1> QED BY <1>1, <1>6, RotatedKeeps

(* SWPB swaps the bytes of a word. *)
LEMMA SWPBKeeps ==
    ASSUME NEW s, IsMachine(s), NEW op \in reg_file
    PROVE  Kept(s, SWPB(s, op))
  <1> DEFINE x == s.reg[op]
             res == HIGHBYTE(x) + 256 * LOWBYTE(x)
  <1>1. x \in Int
    BY RegNat
  <1>2. SWPB(s, op) = set_result(s, op, res)
    BY DEF SWPB
  <1> HIDE DEF x
  <1>3. res \in Int
    BY <1>1 DEF HIGHBYTE, LOWBYTE
  <1> HIDE DEF res
  <1> QED BY <1>2, <1>3, SetResultKeeps

(* SXT extends the sign of a byte. *)
LEMMA SXTKeeps ==
    ASSUME NEW s, IsMachine(s), NEW op \in reg_file
    PROVE  Kept(s, SXT(s, op))
  <1> DEFINE x == s.reg[op]
             k == 65280
             res == IF Bit(x, 7) = 1 THEN Or(x, k) ELSE LOWBYTE(x)
             u == update_SR(s, Signs(0), 1, res)
             t == set_result(u, op, res)
  <1>1. x \in Int /\ k \in Int
    BY RegNat, SMT
  <1>2. SXT(s, op) = t
    BY SMT DEF SXT
  <1> HIDE DEF x, k
  <1>3. res \in Int
    BY <1>1, Logic DEF LOWBYTE
  <1> HIDE DEF res
  <1>4. Kept(s, u)
    BY <1>3, UpdateKeeps
  <1> HIDE DEF u
  <1>5. Kept(u, t)
    BY <1>3, <1>4, SetResultKeeps DEF Kept
  <1> HIDE DEF t
  <1> QED BY <1>2, <1>4, <1>5, KeptChain

(* CALL pushes the PC and goes to the operand. *)
LEMMA CALLKeeps ==
    ASSUME NEW s, IsMachine(s), NEW op \in reg_file
    PROVE  Kept(s, CALL(s, op))
  <1> DEFINE p == Push(s, PC)
             v == IF s.dst_mode \in {IDX, REL, ABS} THEN p.reg[TA] ELSE p.reg[op]
             t == SetReg(p, PC, v)
  <1>1. CALL(s, op) = t
    BY DEF CALL
  <1>2. Kept(s, p)
    BY Registers, PushKeeps
  <1> HIDE DEF p
  <1>3. v \in Int
    BY <1>2, Registers, RegNat DEF Kept
  <1> HIDE DEF v
  <1>4. Kept(p, t)
    BY <1>2, <1>3, Registers, BusKeeps DEF Kept
  <1> HIDE DEF t
  <1> QED BY <1>1, <1>2, <1>4, KeptChain

(* RETI takes SR and PC off the stack. *)
LEMMA RETIKeeps ==
    ASSUME NEW s, IsMachine(s), NEW op
    PROVE  Kept(s, RETI(s, op))
  <1> DEFINE sr  == Read(s, s.reg[SP], WordOp)
             st  == SetReg(sr, SR, sr.MDR)
             v   == sr.reg[SP] + 2
             sp  == SetReg(st, SP, v)
             pc  == Read(sp, sp.reg[SP], WordOp)
             at  == SetReg(pc, PC, pc.MDR)
             w   == pc.reg[SP] + 2
             t   == SetReg(at, SP, w)
  <1>1. RETI(s, op) = t
    BY DEF RETI
  <1>2. Kept(s, sr) /\ sr.MDR \in Int
    BY Registers, BusKeeps
  <1> HIDE DEF sr
  <1>3. Kept(s, st)
    <2>1. Kept(sr, st)
      BY <1>2, Registers, BusKeeps DEF Kept
    <2> QED BY <1>2, <2>1, KeptChain
  <1>4. v \in Int
    BY <1>2, Registers, RegNat DEF Kept
  <1> HIDE DEF st, v
  <1>5. Kept(s, sp)
    <2>1. Kept(st, sp)
      BY <1>3, <1>4, Registers, BusKeeps DEF Kept
    <2> QED BY <1>3, <2>1, KeptChain
  <1> HIDE DEF sp
  <1>6. Kept(s, pc) /\ pc.MDR \in Int
    <2>1. Kept(sp, pc) /\ pc.MDR \in Int
      BY <1>5, Registers, BusKeeps DEF Kept
    <2> QED BY <1>5, <2>1, KeptChain
  <1> HIDE DEF pc
  <1>7. Kept(s, at)
    <2>1. Kept(pc, at)
      BY <1>6, Registers, BusKeeps DEF Kept
    <2> QED BY <1>6, <2>1, KeptChain
  <1>8. w \in Int
    BY <1>6, Registers, RegNat DEF Kept
  <1> HIDE DEF at, w
  <1>9. Kept(at, t)
    BY <1>7, <1>8, Registers, BusKeeps DEF Kept
  <1> HIDE DEF t
  <1> QED BY <1>1, <1>7, <1>9, KeptChain

(* The one-operand instructions together. *)
LEMMA Type1Keeps ==
    ASSUME NEW s, IsMachine(s), NEW op \in reg_file, INST_T1(s) \in 0 .. 6
    PROVE  Kept(s, Type1(s, op))
  <1>1. /\ Kept(s, RRC(s, op)) /\ Kept(s, SWPB(s, op)) /\ Kept(s, RRA(s, op))
        /\ Kept(s, SXT(s, op)) /\ Kept(s, PUSH(s, op)) /\ Kept(s, CALL(s, op))
        /\ Kept(s, RETI(s, op))
    BY RRCKeeps, SWPBKeeps, RRAKeeps, SXTKeeps, PushKeeps, CALLKeeps, RETIKeeps DEF PUSH
  <1> QED BY <1>1 DEF Type1

(* A jump, taken or not: its target is not reduced, the register is. *)
LEMMA JMPKeeps ==
    ASSUME NEW s, IsMachine(s)
    PROVE  Kept(s, JMP(s))
  <1> DEFINE offset == IF Bit(s.ir, 9) = 1 THEN OFFSET_T3(s) - 1024 ELSE OFFSET_T3(s)
             target == s.reg[PC] + 2 * offset
             there  == SetReg(s, TD1, target)
             on     == SetReg(there, PC, target)
             off    == SetReg(s, TD1, OFFSET_T3(s))
  <1>1. JMP(s) = IF s.condition_tbl[COND_T3(s) + 1] THEN on ELSE off
    BY DEF JMP
  <1>2. OFFSET_T3(s) \in Int /\ offset \in Int
    BY Word16Range, Fields DEF IsMachine
  <1> HIDE DEF offset
  <1>3. target \in Int
    BY <1>2, Registers, RegNat
  <1> HIDE DEF target
  <1>4. Kept(s, off) /\ Kept(s, there)
    BY <1>2, <1>3, Registers, BusKeeps
  <1> HIDE DEF there, off
  <1>5. Kept(there, on)
    BY <1>3, <1>4, Registers, BusKeeps DEF Kept
  <1> HIDE DEF on
  <1> QED BY <1>1, <1>4, <1>5, KeptChain

(* ADD, ADDC, SUB and SUBC. *)
LEMMA AddedKeeps ==
    ASSUME NEW s, IsMachine(s), NEW src, NEW dst \in reg_file, NEW res \in Int
    PROVE  Kept(s, Added(s, src, dst, res))
  <1> DEFINE u == update_SR(s, Signs(s.reg[src]), s.reg[dst], res)
             t == set_result(u, dst, res)
  <1>1. Added(s, src, dst, res) = t
    BY DEF Added
  <1>2. Kept(s, u)
    BY UpdateKeeps
  <1> HIDE DEF u
  <1>3. Kept(u, t)
    BY <1>2, SetResultKeeps DEF Kept
  <1> HIDE DEF t
  <1> QED BY <1>1, <1>2, <1>3, KeptChain

(* CMP, BIT and the like, which may or may not keep the result. *)
LEMMA ComparedKeeps ==
    ASSUME NEW s, IsMachine(s), NEW src, NEW dst \in reg_file, NEW res \in Int
    PROVE  /\ Kept(s, Compared(s, src, dst, res))
           /\ Kept(s, set_result(Compared(s, src, dst, res), dst, res))
  <1> DEFINE u == Compared(s, src, dst, res)
             t == set_result(u, dst, res)
  <1>1. Kept(s, u)
    BY UpdateKeeps DEF Compared
  <1> HIDE DEF u
  <1>2. Kept(u, t)
    BY <1>1, SetResultKeeps DEF Kept
  <1> HIDE DEF t
  <1>3. Kept(s, t)
    BY <1>1, <1>2, KeptChain
  <1> QED BY <1>1, <1>3 DEF u, t

(* DADD adds digit by digit. *)
LEMMA DADDKeeps ==
    ASSUME NEW s, IsMachine(s), NEW src \in reg_file, NEW dst \in reg_file
    PROVE  IsMachine(DADD(s, src, dst))
  <1>1. ASSUME NEW x \in Int PROVE Decimal(x) \in Nat
    <2>1. \A i \in 0 .. 3 : Nibble(x, i) \in Nat
      <3> SUFFICES ASSUME NEW i \in 0 .. 3 PROVE Nibble(x, i) \in Nat
        OBVIOUS
      <3>1. 4 * i \in 0 .. 19 /\ 4 \in 0 .. 19
        OBVIOUS
      <3> QED BY <3>1, FieldRange, Zenon DEF Nibble
    <2> DEFINE n0 == Nibble(x, 0)
               n1 == Nibble(x, 1)
               n2 == Nibble(x, 2)
               n3 == Nibble(x, 3)
    <2>2. n0 \in Nat /\ n1 \in Nat /\ n2 \in Nat /\ n3 \in Nat
      BY <2>1
    <2>3. Decimal(x) = n0 + 10 * n1 + 100 * n2 + 1000 * n3
      BY DEF Decimal
    <2> HIDE DEF n0, n1, n2, n3
    <2> QED BY <2>2, <2>3, SMT
  <1>2. ASSUME NEW n \in Nat PROVE AsHex(n) \in Int
    <2> DEFINE n0 == n % 10
               n1 == (n \div 10) % 10
               n2 == (n \div 100) % 10
               n3 == (n \div 1000) % 10
               n4 == n \div 10000
    <2>1. n0 \in Int /\ n1 \in Int /\ n2 \in Int /\ n3 \in Int /\ n4 \in Int
      BY SMT
    <2>2. AsHex(n) = n0 + 16 * n1 + 256 * n2 + 4096 * n3 + 65536 * n4
      BY SMT DEF AsHex
    <2> HIDE DEF n0, n1, n2, n3, n4
    <2> QED BY <2>1, <2>2, SMT
  <1> DEFINE sw  == LOWWORD(s.reg[src])
             dw  == LOWWORD(s.reg[dst])
             sum == Decimal(sw) + Decimal(dw)
             hex == AsHex(sum)
             done == Added(s, src, dst, hex)
             failed == error(s)
  <1>3. sw \in Int /\ dw \in Int
    BY RegNat, Word16Range
  <1>4. DADD(s, src, dst) \in {done, failed}
    BY DEF DADD
  <1> HIDE DEF sw, dw
  <1>5. sum \in Nat
    BY <1>1, <1>3
  <1> HIDE DEF sum
  <1>6. hex \in Int
    BY <1>2, <1>5
  <1> HIDE DEF hex
  <1>7. IsMachine(done) /\ IsMachine(failed)
    BY <1>6, AddedKeeps, ErrorKeeps DEF Kept
  <1> HIDE DEF done, failed
  <1> QED BY <1>4, <1>7

(* The two-operand instructions together. *)
LEMMA Type2Keeps ==
    ASSUME NEW s, IsMachine(s), NEW src \in reg_file, NEW dst \in reg_file,
           INST_T2(s) \in 0 .. 11
    PROVE  IsMachine(Type2(s, src, dst))
  <1> DEFINE x == s.reg[src]
             y == s.reg[dst]
             c == Bit(s.reg[SR], CARRY)
  <1>1. x \in Int /\ y \in Int /\ c \in Int
    <2>1. Bit(s.reg[SR], CARRY) \in {0, 1}
      BY Registers, RegNat, BitRange DEF CARRY
    <2> QED BY <2>1, RegNat
  <1> HIDE DEF x, y, c
  <1>2. /\ Reg32(x + y) \in Int /\ Reg32(x + y + c) \in Int
        /\ Reg32(y - x) \in Int /\ Reg32(y - x - 1 + c) \in Int
    BY <1>1, Word20Range
  <1>3. And(x, y) \in Int /\ y - And(y, x) \in Int /\ Or(x, y) \in Int /\ Xor(x, y) \in Int
    <2> DEFINE z == And(y, x)
    <2>1. z \in Int /\ And(x, y) \in Int /\ Or(x, y) \in Int /\ Xor(x, y) \in Int
      BY <1>1, Logic
    <2> HIDE DEF z
    <2>2. y - z \in Int
      BY <1>1, <2>1
    <2> QED BY <2>1, <2>2 DEF z
  <1>4. IsMachine(MOV(s, src, dst)) /\ IsMachine(BIC(s, src, dst)) /\ IsMachine(BIS(s, src, dst))
    <2>1. \A res \in Int : IsMachine(set_result(s, dst, res))
      BY SetResultKeeps DEF Kept
    <2> QED BY <1>1, <1>3, <2>1 DEF MOV, BIC, BIS, x, y
  <1>5. /\ IsMachine(ADD(s, src, dst)) /\ IsMachine(ADDC(s, src, dst))
        /\ IsMachine(XOR(s, src, dst)) /\ IsMachine(AND(s, src, dst))
    <2>1. \A res \in Int : IsMachine(Added(s, src, dst, res))
      BY AddedKeeps DEF Kept
    <2> QED BY <1>2, <1>3, <2>1, Zenon DEF ADD, ADDC, XOR, AND, x, y, c
  <1>6. IsMachine(SUB(s, src, dst)) /\ IsMachine(SUBC(s, src, dst)) /\ IsMachine(CMP(s, src, dst))
    <2>1. \A res \in Int : /\ IsMachine(Compared(s, src, dst, res))
                           /\ IsMachine(set_result(Compared(s, src, dst, res), dst, res))
      BY ComparedKeeps DEF Kept
    <2> QED BY <1>2, <2>1, Zenon DEF SUB, SUBC, CMP, Difference, x, y, c
  <1>7. IsMachine(BIT(s, src, dst))
    BY <1>3, UpdateKeeps DEF BIT, Kept, x, y
  <1>8. IsMachine(DADD(s, src, dst))
    BY DADDKeeps
  <1> QED BY <1>4, <1>5, <1>6, <1>7, <1>8 DEF Type2

(* The least value of a type-2 instruction is that of MOV: 4 in bits 12 - 15. *)
LEMMA InstRange ==
    ASSUME NEW s, s.ir \in Word16
    PROVE  /\ INST_TYPE(s) \in Nat
           /\ INST_TYPE(s) = 0 => Bit(s.ir, 12) \in {0, 1}
           /\ INST_TYPE(s) \notin {0, 1} => INST_T2(s) \in 0 .. 11
  <1> DEFINE x == s.ir
             q == x \div 8192
             h == x \div 4096
  <1>1. x \in Nat /\ x < 65536
    BY SMT DEF Word16
  <1>2. INST_TYPE(s) = q
    BY DEF INST_TYPE
  <1>3. INST_T2(s) = (h % 16) - 4
    <2>1. 2^12 = 4096 /\ 2^4 = 16
      BY Powers
    <2> QED BY <2>1, SMT DEF INST_T2, Field
  <1>4. Bit(x, 12) \in {0, 1}
    BY <1>1, BitRange
  <1> HIDE DEF x
  <1>5. q \in Nat /\ h \in Nat /\ h < 16
    BY <1>1, SMT
  <1>6. q \notin {0, 1} => h >= 4
    BY <1>1, SMT
  <1> HIDE DEF q, h
  <1>7. q \notin {0, 1} => (h % 16) - 4 \in 0 .. 11
    BY <1>5, <1>6, SMT
  <1> QED BY <1>2, <1>3, <1>4, <1>5, <1>7 DEF x

(* An addressing mode is one of the seven. *)
LEMMA Modes ==
    /\ \A r : \A As \in 0 .. 3 : ADDR_TBL(r, As) \in DIR .. IMM
    /\ DIR \in DIR .. IMM
  BY DEF ADDR_TBL, DIR, IDX, REL, ABS, IND, INC, IMM

(* Fields of an instruction register that is replaced as a whole. *)
LEMMA SetModes ==
    ASSUME NEW s, IsMachine(s), NEW src \in DIR .. IMM, NEW dst \in DIR .. IMM
    PROVE  /\ IsMachine([s EXCEPT !.dst_mode = dst])
           /\ IsMachine([s EXCEPT !.src_mode = src, !.dst_mode = dst])
           /\ [s EXCEPT !.dst_mode = dst].ir = s.ir
           /\ [s EXCEPT !.src_mode = src, !.dst_mode = dst].ir = s.ir
  <1> DEFINE t == [s EXCEPT !.dst_mode = dst]
             u == [s EXCEPT !.src_mode = src, !.dst_mode = dst]
  <1>1. IsMachine(t) /\ t.ir = s.ir
    BY DEF IsMachine
  <1>2. IsMachine(u) /\ u.ir = s.ir
    <2> DEFINE v == [s EXCEPT !.src_mode = src]
    <2>1. IsMachine(v) /\ v.ir = s.ir
      BY DEF IsMachine
    <2>2. u = [v EXCEPT !.dst_mode = dst]
      OBVIOUS
    <2> HIDE DEF u, v
    <2>3. IsMachine(u) /\ u.ir = v.ir
      BY <2>1, <2>2 DEF IsMachine
    <2> QED BY <2>1, <2>3
  <1> QED BY <1>1, <1>2

(* What the decoder leaves: the word it was given, or none after an error. *)
LEMMA DecodeKeeps ==
    ASSUME NEW s, IsMachine(s)
    PROVE  LET t == decode(s)
           IN  /\ IsMachine(t)
               /\ t.ir = 0 \/ (t.ir = s.ir /\ (INST_TYPE(s) = 0 => INST_T1(s) # 7))
  <1> DEFINE d1 == ADDR_TBL(OP_T1(s), As_mode(s))
             s2 == ADDR_TBL(SRC_T2(s), As_mode(s))
             d2 == ADDR_TBL(DST_T2(s), Ad_mode(s))
             one == [s EXCEPT !.dst_mode = d1]
             two == [s EXCEPT !.src_mode = s2, !.dst_mode = d2]
             t == decode(s)
  <1>1. As_mode(s) \in 0 .. 3 /\ Ad_mode(s) \in 0 .. 3
    BY Word16Range, Fields DEF IsMachine
  <1>2. d1 \in DIR .. IMM /\ s2 \in DIR .. IMM /\ d2 \in DIR .. IMM
    BY <1>1, Modes
  <1>3. t = CASE INST_TYPE(s) = 0 -> IF Bit(s.ir, 12) = 1 /\ INST_T1(s) # 7 THEN one ELSE error(s)
              [] INST_TYPE(s) = 1 -> s
              [] OTHER -> two
    BY DEF decode
  <1> HIDE DEF d1, s2, d2, t
  <1>4. IsMachine(one) /\ IsMachine(two) /\ one.ir = s.ir /\ two.ir = s.ir
    BY <1>2, SetModes, Modes
  <1>5. IsMachine(error(s)) /\ error(s).ir = 0
    BY ErrorKeeps
  <1> HIDE DEF one, two
  <1>6. CASE INST_TYPE(s) = 0
    BY <1>3, <1>4, <1>5, <1>6 DEF t
  <1>7. CASE INST_TYPE(s) = 1
    <2>1. t = s
      BY <1>3, <1>7
    <2> QED BY <1>7, <2>1 DEF t
  <1>8. CASE INST_TYPE(s) \notin {0, 1}
    <2>1. t = two
      BY <1>3, <1>8
    <2> QED BY <1>4, <1>8, <2>1 DEF t
  <1> QED BY <1>6, <1>7, <1>8

(* Whatever the decoder lets through is executed to a machine. *)
LEMMA ExecuteKeeps ==
    ASSUME NEW s, IsMachine(s), s.ir = 0 \/ (INST_TYPE(s) = 0 => INST_T1(s) # 7)
    PROVE  IsMachine(execute(s))
  <1>1. OP_T1(s) \in reg_file /\ SRC_T2(s) \in reg_file /\ DST_T2(s) \in reg_file
    BY Word16Range, Fields, Registers DEF IsMachine
  <1>2. s.src_mode \in DIR .. IMM /\ s.dst_mode \in DIR .. IMM /\ s.ir \in Word16
    BY DEF IsMachine
  <1>3. INST_T1(s) \in 0 .. 7
    BY <1>2, Word16Range, Fields
  <1>4. ASSUME INST_TYPE(s) = 0, INST_T1(s) # 7 PROVE IsMachine(ExecuteT1(s))
    <2> DEFINE f == fetch_op(s, TD2, s.dst_mode, OP_T1(s))
    <2>1. Kept(s, f)
      BY <1>1, <1>2, Registers, FetchOpKeeps
    <2>2. ExecuteT1(s) = IF s.dst_mode = DIR THEN Type1(s, OP_T1(s)) ELSE Type1(f, TD2)
      BY DEF ExecuteT1
    <2> HIDE DEF f
    <2>3. INST_T1(f) = INST_T1(s) /\ INST_T1(s) \in 0 .. 6
      BY <1>3, <1>4, <2>1 DEF INST_T1, Kept, Alike
    <2>4. IsMachine(Type1(s, OP_T1(s)))
      BY <1>1, <2>3, Type1Keeps DEF Kept
    <2>5. IsMachine(Type1(f, TD2))
      BY <2>1, <2>3, Registers, Type1Keeps DEF Kept
    <2> QED BY <2>2, <2>4, <2>5
  <1>5. ASSUME INST_TYPE(s) \notin {0, 1} PROVE IsMachine(ExecuteT2(s))
    <2> DEFINE src == fetch_op(s, TD1, s.src_mode, SRC_T2(s))
               both == fetch_op(src, TD2, s.dst_mode, DST_T2(s))
    <2>1. Kept(s, src)
      BY <1>1, <1>2, Registers, FetchOpKeeps
    <2>2. ExecuteT2(s) = IF s.dst_mode = DIR
                         THEN Type2(src, TD1, DST_T2(s))
                         ELSE Type2(both, TD1, TD2)
      BY DEF ExecuteT2
    <2> HIDE DEF src
    <2>3. Kept(src, both)
      BY <1>1, <1>2, <2>1, Registers, FetchOpKeeps DEF Kept
    <2> HIDE DEF both
    <2>4. INST_T2(src) = INST_T2(s) /\ INST_T2(both) = INST_T2(s) /\ INST_T2(s) \in 0 .. 11
      BY <1>2, <1>5, <2>1, <2>3, InstRange DEF INST_T2, Kept, Alike
    <2>5. IsMachine(Type2(src, TD1, DST_T2(s)))
      BY <1>1, <2>1, <2>4, Registers, Type2Keeps DEF Kept
    <2>6. IsMachine(Type2(both, TD1, TD2))
      BY <2>3, <2>4, Registers, Type2Keeps DEF Kept
    <2> QED BY <2>2, <2>5, <2>6
  <1>6. IsMachine(JMP(s))
    BY JMPKeeps DEF Kept
  <1>7. CASE s.ir = 0
    <2>1. INST_TYPE(s) = 0
      BY <1>7, SMT DEF INST_TYPE
    <2>2. execute(s) = s
      BY <1>7, <2>1 DEF execute
    <2> QED BY <2>2
  <1>8. CASE s.ir # 0
    BY <1>4, <1>5, <1>6, <1>8 DEF execute
  <1> QED BY <1>7, <1>8

(* The instruction register after the fetch. *)
LEMMA FetchedMachine ==
    ASSUME IsMachine(m)
    PROVE  IsMachine(Fetched)
  <1> DEFINE f == fetch(m)
             t == [f EXCEPT !.ir = f.MDR]
  <1>1. IsMachine(f) /\ f.MDR \in Word16
    BY FetchKeeps
  <1>2. Fetched = t
    BY DEF Fetched
  <1> HIDE DEF f
  <1>3. IsMachine(t)
    BY <1>1 DEF IsMachine
  <1> QED BY <1>2, <1>3

(* A whole instruction: fetch, decode, execute. *)
LEMMA StepMachine ==
    ASSUME IsMachine(m)
    PROVE  IsMachine(execute(decode(Fetched)))
  <1> DEFINE s == Fetched
             d == decode(s)
  <1>1. IsMachine(s)
    BY FetchedMachine
  <1> HIDE DEF s
  <1>2. /\ IsMachine(d)
        /\ d.ir = 0 \/ (d.ir = s.ir /\ (INST_TYPE(s) = 0 => INST_T1(s) # 7))
    BY <1>1, DecodeKeeps
  <1> HIDE DEF d
  <1>3. d.ir = 0 \/ (INST_TYPE(d) = 0 => INST_T1(d) # 7)
    BY <1>2 DEF INST_TYPE, INST_T1
  <1>4. IsMachine(execute(d))
    BY <1>2, <1>3, ExecuteKeeps
  <1> QED BY <1>4 DEF d, s

-----------------------------------------------------------------------------
(* A device: its two bytes of status lie in memory, and its file holds        *)
(* numbers.                                                                   *)
Device == [port : {x \in Nat : x < 65535}, ToI : Int, rest : Seq(Int)]

(* So do all of them. *)
IsDevices(d) == \A i \in DOMAIN d : d[i] \in Device

(* The addresses of its status. *)
LEMMA PortRange ==
    \A d \in Device : d.port \in Word16 /\ d.port + 1 \in Word16 /\ d.port \in Nat
  BY SMT DEF Device, Word16

(* A value of the file, or what is left in the buffer at its end. *)
LEMMA ValueKeeps ==
    ASSUME NEW d \in Device, NEW junk \in Int
    PROVE  Value(d, junk) \in Int /\ Rest(d) \in Seq(Int)
  <1>1. d.rest \in Seq(Int)
    BY DEF Device
  <1>2. CASE d.rest = << >>
    BY <1>1, <1>2 DEF Value, Rest
  <1>3. CASE d.rest # << >>
    <2>1. Head(d.rest) \in Int /\ Tail(d.rest) \in Seq(Int)
      BY <1>1, <1>3, HeadTailProperties
    <2> QED BY <1>3, <2>1 DEF Value, Rest
  <1> QED BY <1>2, <1>3

(* The bytes of status that the clock writes. *)
LEMMA StatusesKeep ==
    ASSUME IsDevices(dev), NEW due, due \subseteq DOMAIN dev, NEW junk \in Int
    PROVE  IsMemory(Statuses(due, junk))
  <1> DEFINE b == Statuses(due, junk)
  <1>1. DOMAIN b = UNION {{dev[i].port, dev[i].port + 1} : i \in due}
    BY DEF Statuses
  <1>2. ASSUME NEW p \in DOMAIN b PROVE p \in Word16 /\ b[p] \in Word8
    <2> DEFINE i == CHOOSE i \in due : p \in {dev[i].port, dev[i].port + 1}
               v == Value(dev[i], junk)
    <2>1. b[p] = IF p = dev[i].port THEN LOWBYTE(v) ELSE HIGHBYTE(v)
      BY <1>1, <1>2 DEF Statuses
    <2>2. i \in due /\ p \in {dev[i].port, dev[i].port + 1}
      BY <1>1, <1>2
    <2> HIDE DEF b, i
    <2>3. dev[i] \in Device
      BY <2>2 DEF IsDevices
    <2>4. v \in Int
      BY <2>3, ValueKeeps
    <2> HIDE DEF v
    <2>5. LOWBYTE(v) \in Word8 /\ HIGHBYTE(v) \in Word8
      BY <2>4, Word8Range
    <2> QED BY <2>1, <2>2, <2>3, <2>5, PortRange
  <1> QED BY <1>2 DEF IsMemory

(* A tick of the clock with the devices that are due. *)
LEMMA ClockKeeps ==
    ASSUME NEW s, IsMachine(s), IsDevices(dev), NEW junk \in Int, inc_clk(s, junk)
    PROVE  IsMachine(m') /\ IsDevices(dev')
  <1> DEFINE clock == s.sys_clock + Cycles(s)
             due == Due(clock)
             new == Over(Statuses(due, junk), s.mem)
  <1>1. m' = [s EXCEPT !.sys_clock = clock, !.mem = new]
    BY DEF inc_clk
  <1>2. dev' = [i \in DOMAIN dev |-> IF i \in due THEN [dev[i] EXCEPT !.rest = Rest(dev[i])] ELSE dev[i]]
    BY DEF inc_clk
  <1>3. due \subseteq DOMAIN dev
    BY DEF Due
  <1> HIDE DEF clock, due
  <1>4. IsMemory(new)
    <2>1. IsMemory(Statuses(due, junk))
      BY <1>3, StatusesKeep
    <2> QED BY <2>1, OverKeeps DEF IsMachine
  <1> HIDE DEF new
  <1>5. IsMachine(m')
    BY <1>1, <1>4 DEF IsMachine
  <1>6. ASSUME NEW i \in DOMAIN dev' PROVE dev'[i] \in Device
    <2>1. i \in DOMAIN dev /\ dev[i] \in Device
      BY <1>2, <1>6 DEF IsDevices
    <2>2. Rest(dev[i]) \in Seq(Int)
      BY <2>1, ValueKeeps
    <2>3. [dev[i] EXCEPT !.rest = Rest(dev[i])] \in Device
      BY <2>1, <2>2 DEF Device
    <2> QED BY <1>2, <2>1, <2>3
  <1> QED BY <1>5, <1>6 DEF IsDevices

(* A device that is served has its port still, a new time and a file to go on *)
(* with.                                                                      *)
LEMMA DeviceServed ==
    ASSUME NEW d \in Device, NEW v \in Int, NEW rest \in Seq(Int)
    PROVE  LET e == [d EXCEPT !.ToI = v, !.rest = rest]
           IN  e \in Device /\ e.port = d.port
  <1> DEFINE e == [d EXCEPT !.ToI = v]
             f == [d EXCEPT !.ToI = v, !.rest = rest]
  <1>1. d = [port |-> d.port, ToI |-> d.ToI, rest |-> d.rest]
        /\ d.port \in {x \in Nat : x < 65535}
    BY DEF Device
  <1>2. e = [port |-> d.port, ToI |-> v, rest |-> d.rest]
    BY <1>1
  <1>3. f = [e EXCEPT !.rest = rest]
    OBVIOUS
  <1> HIDE DEF e, f
  <1>4. f = [port |-> d.port, ToI |-> v, rest |-> rest]
    BY <1>2, <1>3
  <1>5. f \in Device /\ f.port = d.port
    BY <1>1, <1>4 DEF Device
  <1> QED BY <1>5 DEF f

(* A device is served, with or without an interrupt. *)
LEMMA ServeKeeps ==
    ASSUME IsMachine(m), IsDevices(dev), NEW junk \in Int, NEW i \in DOMAIN dev,
           Serve(i, junk)
    PROVE  IsMachine(m') /\ IsDevices(dev')
  <1> DEFINE x     == VECT_TBL + dev[i].port
             isr   == Interrupt(m, TD1, x)
             off   == Clear(isr.reg[SR], C_OFF)
             awake == SetReg(isr, SR, off)
             s     == IF IsInput(i) THEN awake ELSE m
             port  == dev[i].port
             byte  == Clear(At(s.mem, port), 2)
             new   == Store(s.mem, port, byte)
  <1>1. dev[i] \in Device /\ port \in Word16 /\ port \in Nat
    BY PortRange DEF IsDevices
  <1>2. m' = [s EXCEPT !.mem = new]
    BY DEF Serve, ClrDBA
  <1>3. dev' = [dev EXCEPT ![i].ToI = Value(dev[i], junk), ![i].rest = Rest(dev[i])]
    BY DEF Serve
  <1>4. x \in Int
    BY <1>1, SMT DEF VECT_TBL
  <1> HIDE DEF x
  <1>5. Kept(m, isr)
    BY <1>4, Registers, InterruptKeeps
  <1> HIDE DEF isr
  <1>6. off \in Int
    <2>1. isr.reg[SR] \in Int /\ C_OFF \in 0 .. 19
      BY <1>5, Registers, RegNat DEF Kept, C_OFF
    <2> QED BY <2>1, ClearRange
  <1> HIDE DEF off
  <1>7. IsMachine(s)
    <2>1. Kept(isr, awake)
      BY <1>5, <1>6, Registers, BusKeeps DEF Kept
    <2> QED BY <2>1 DEF Kept
  <1> HIDE DEF s
  <1>8. byte \in Word8
    <2> DEFINE b == At(s.mem, port)
               c == Bit(b, 2)
    <2>1. b \in Word8 /\ b \in Int
      <3>1. IsMemory(s.mem)
        BY <1>7 DEF IsMachine
      <3>2. b \in Word8
        BY <3>1, AtByte
      <3> QED BY <3>2, Word8Range
    <2>2. byte = b - 4 * c
      <3>1. 2^2 = 4
        BY Powers
      <3> QED BY <3>1 DEF Clear
    <2>3. c = (b \div 4) % 2
      BY Powers DEF Bit, Field
    <2> HIDE DEF b, c, byte
    <2> QED BY <2>1, <2>2, <2>3, SMT DEF Word8
  <1> HIDE DEF byte
  <1>9. IsMemory(new)
    <2> HIDE DEF port
    <2> QED BY <1>1, <1>7, <1>8, StoreKeeps DEF IsMachine
  <1> HIDE DEF new, port
  <1>10. IsMachine(m')
    BY <1>2, <1>7, <1>9 DEF IsMachine
  <1>11. ASSUME NEW j \in DOMAIN dev' PROVE dev'[j] \in Device
    <2>1. j \in DOMAIN dev /\ dev[j] \in Device
      BY <1>3, <1>11 DEF IsDevices
    <2>2. Rest(dev[i]) \in Seq(Int) /\ Value(dev[i], junk) \in Int
      BY <1>1, ValueKeeps
    <2>3. [dev[i] EXCEPT !.ToI = Value(dev[i], junk), !.rest = Rest(dev[i])] \in Device
      BY <1>1, <2>2, DeviceServed
    <2>4. CASE j = i
      BY <1>3, <2>1, <2>3, <2>4
    <2>5. CASE j # i
      BY <1>3, <2>1, <2>5
    <2> QED BY <2>4, <2>5
  <1> QED BY <1>10, <1>11 DEF IsDevices

(* Every step of the processor, of its devices and of the debugger. *)
LEMMA RunKeeps ==
    ASSUME AtEnd \subseteq Int, IsMachine(m), IsDevices(dev), runNext
    PROVE  IsMachine(m') /\ IsDevices(dev')
  <1>1. CASE Step
    <2>1. PICK junk \in AtEnd : inc_clk(execute(decode(Fetched)), junk)
      BY <1>1 DEF Step
    <2>2. IsMachine(execute(decode(Fetched)))
      BY StepMachine
    <2> QED BY <2>1, <2>2, ClockKeeps
  <1>2. CASE Idle
    <2>1. PICK junk \in AtEnd : inc_clk(m, junk)
      BY <1>2 DEF Idle
    <2> QED BY <2>1, ClockKeeps
  <1>3. CASE Poll
    <2>1. PICK junk \in AtEnd : poll_dev(junk)
      BY <1>3 DEF Poll
    <2>2. CASE Ready = {}
      <3>1. m' = m /\ dev' = dev
        BY <2>1, <2>2 DEF poll_dev
      <3> QED BY <3>1
    <2>3. CASE Ready # {}
      <3>1. PICK i \in Ready : Serve(i, junk)
        BY <2>1, <2>3 DEF poll_dev
      <3>2. i \in DOMAIN dev
        BY DEF Ready
      <3> QED BY <3>1, <3>2, ServeKeeps
    <2> QED BY <2>2, <2>3
  <1>4. CASE Break \/ Resume \/ Terminate
    <2>1. m' = m /\ dev' = dev
      BY <1>4 DEF Break, Resume, Terminate
    <2> QED BY <2>1
  <1> QED BY <1>1, <1>2, <1>3, <1>4 DEF runNext

(* The machine when it is switched on. *)
LEMMA InitMem == IsMemory(init_mem)
  <1> DEFINE code == <<50, 208, 16, 0>>
             D == (ISR_HCF .. ISR_HCF + 3) \cup {ERR_VECT, ERR_VECT + 1}
  <1>1. \A i \in 1 .. 4 : code[i] \in Word8
    BY SMT DEF Word8
  <1>2. \A x \in D : x \in Word16 /\ x \in Int
    BY SMT DEF Word16, ISR_HCF, ERR_VECT
  <1>3. \A x \in D : x # ERR_VECT /\ x # ERR_VECT + 1 => x - ISR_HCF + 1 \in 1 .. 4
    BY SMT DEF ISR_HCF, ERR_VECT
  <1>4. LOWBYTE(ISR_HCF) \in Word8 /\ HIGHBYTE(ISR_HCF) \in Word8
    BY Word8Range, SMT DEF ISR_HCF
  <1>5. /\ DOMAIN init_mem = D
        /\ \A x \in D : init_mem[x] = CASE x = ERR_VECT     -> LOWBYTE(ISR_HCF)
                                       [] x = ERR_VECT + 1 -> HIGHBYTE(ISR_HCF)
                                       [] OTHER            -> code[x - ISR_HCF + 1]
    BY Zenon DEF init_mem
  <1> HIDE DEF D, code
  <1> QED BY <1>1, <1>2, <1>3, <1>4, <1>5 DEF IsMemory

(* What SetupsAssumption says of the files that the user attaches. *)
Attachable(files) ==
    \A i \in DOMAIN files :
        /\ files[i].port \in Nat /\ files[i].port < 65535
        /\ files[i].status \in Int
        /\ files[i].rest \in Seq(Int) /\ files[i].rest # << >>

(* The machine that is switched on with them. *)
LEMMA ResetKeeps ==
    ASSUME NEW files, Attachable(files), NEW pc \in Word20
    PROVE  IsMachine(Reset(files, pc))
  <1> DEFINE b == StatusAt(files)
             mem == Over(b, init_mem)
             s == Reset(files, pc)
  <1>1. ASSUME NEW p \in DOMAIN b PROVE p \in Word16 /\ b[p] \in Word8
    <2> DEFINE f == CHOOSE f \in Range(files) : f.port = p
    <2>1. PICK i \in DOMAIN files : p = files[i].port
      BY <1>1 DEF StatusAt
    <2>2. b[p] = LOWBYTE(f.status)
      BY <1>1 DEF StatusAt
    <2>3. f \in Range(files)
      BY <2>1 DEF Range
    <2> HIDE DEF f, b
    <2>4. f.status \in Int
      BY <2>3 DEF Range, Attachable
    <2>5. p \in Word16
      BY <2>1, SMT DEF Word16, Attachable
    <2> QED BY <2>2, <2>4, <2>5, Word8Range
  <1>2. IsMemory(mem)
    <2>1. IsMemory(b)
      BY <1>1 DEF IsMemory
    <2> QED BY <2>1, InitMem, OverKeeps
  <1>3. Conditions(0) \in [1 .. 8 -> BOOLEAN]
    BY ConditionsType
  <1>4. [r \in reg_file |-> IF r = PC THEN pc ELSE 0] \in [reg_file -> Word20]
    <2>1. 0 \in Word20
      BY SMT DEF Word20
    <2> QED BY <2>1
  <1>5. 0 \in Word16 /\ 0 \in Int
    BY SMT DEF Word16
  <1> HIDE DEF b, mem
  <1>6. /\ s.reg = [r \in reg_file |-> IF r = PC THEN pc ELSE 0] /\ s.mem = mem
        /\ s.MDR = 0 /\ s.ir = 0 /\ s.src_mode = DIR /\ s.dst_mode = DIR
        /\ s.condition_tbl = Conditions(0) /\ s.wild = FALSE
        /\ s = [reg |-> s.reg, mem |-> s.mem, MDR |-> s.MDR, ir |-> s.ir,
                src_mode |-> s.src_mode, dst_mode |-> s.dst_mode,
                condition_tbl |-> s.condition_tbl, sys_clock |-> s.sys_clock, wild |-> s.wild]
    BY DEF Reset, mem, b
  <1> HIDE DEF s
  <1>7. IsMachine(s)
    BY <1>2, <1>3, <1>4, <1>5, <1>6, Modes DEF IsMachine
  <1> QED BY <1>7 DEF s

(* The devices that they make. *)
LEMMA AttachedKeeps ==
    ASSUME NEW files, Attachable(files)
    PROVE  IsDevices([i \in DOMAIN files |-> Attached(files[i])])
  <1> SUFFICES ASSUME NEW i \in DOMAIN files PROVE Attached(files[i]) \in Device
    BY DEF IsDevices
  <1> DEFINE f == files[i]
  <1>1. /\ f.port \in {x \in Nat : x < 65535} /\ f.rest \in Seq(Int) /\ f.rest # << >>
    BY SMT DEF Attachable
  <1> HIDE DEF f
  <1>2. Head(f.rest) \in Int /\ Tail(f.rest) \in Seq(Int)
    BY <1>1, HeadTailProperties
  <1>3. Attached(f) \in Device
    BY <1>1, <1>2 DEF Attached, Device
  <1> QED BY <1>3 DEF f

-----------------------------------------------------------------------------
(* memory.c: the loader *)

(* What memory holds before the first record. *)
Base == DOMAIN init_mem \cup {dev[i].port : i \in DOMAIN dev}

(* Of the first n records, the last that covers an address has given it its   *)
(* byte, and what no record covers was there before.                          *)
Loaded(mem, file, n) ==
    /\ \A x \in DOMAIN mem :
          x \in Base \/ (x \in Int /\ \E k \in 1 .. n : Covers(file[k], x))
    /\ \A x \in Int : \A k \in 1 .. n : \A b :
          Says(file, n, k, x, b) => x \in DOMAIN mem /\ mem[x] = b

(* How far the loader has come, and what memory holds meanwhile. *)
Loading ==
    /\ stage # "off" => phase = "written"
    /\ stage = "off" => next = 0
    /\ stage = "load" => /\ next \in 0 .. Len(a.w.file)
                        /\ "mem" \in DOMAIN m
                        /\ Loaded(m.mem, a.w.file, next)

(* A record is stored. *)
LEMMA StoredLoads ==
    ASSUME NEW mem, NEW file, NEW n \in Nat, Loaded(mem, file, n),
           file[n + 1] \in Records
    PROVE  Loaded(Stored(mem, file[n + 1]), file, n + 1)
  <1> DEFINE rec == file[n + 1]
             new == Stored(mem, rec)
  <1>1. /\ rec.addr \in Nat /\ DOMAIN rec.data \subseteq Nat
    BY LenProperties DEF Records
  <1>2. /\ DOMAIN new = DOMAIN mem \cup {rec.addr + i - 1 : i \in DOMAIN rec.data}
        /\ \A x \in DOMAIN new : new[x] = IF Covers(rec, x) THEN ByteAt(rec, x) ELSE mem[x]
    BY DEF Stored, Covers, ByteAt
  <1>3. \A x \in Int : Covers(rec, x) => x \in DOMAIN new
    <2> SUFFICES ASSUME NEW x \in Int, Covers(rec, x) PROVE x \in DOMAIN new
      OBVIOUS
    <2> DEFINE i == x - rec.addr + 1
    <2>1. i \in DOMAIN rec.data
      BY DEF Covers
    <2>2. x = rec.addr + i - 1
      BY <1>1
    <2> HIDE DEF i, rec
    <2> QED BY <1>2, <2>1, <2>2
  <1>4. \A i \in DOMAIN rec.data : Covers(rec, rec.addr + i - 1) /\ rec.addr + i - 1 \in Int
    <2> SUFFICES ASSUME NEW i \in DOMAIN rec.data
                 PROVE  Covers(rec, rec.addr + i - 1) /\ rec.addr + i - 1 \in Int
      OBVIOUS
    <2>1. i \in Nat /\ rec.addr \in Nat
      BY <1>1
    <2>2. rec.addr + i - 1 - rec.addr + 1 = i
      BY <2>1
    <2> QED BY <2>1, <2>2 DEF Covers
  <1> HIDE DEF new
  <1>5. ASSUME NEW x \in DOMAIN new
        PROVE  x \in Base \/ (x \in Int /\ \E k \in 1 .. n + 1 : Covers(file[k], x))
    <2>1. CASE x \in DOMAIN mem
      <3>1. x \in Base \/ (x \in Int /\ \E k \in 1 .. n : Covers(file[k], x))
        BY <2>1 DEF Loaded
      <3>2. \A k \in 1 .. n : k \in 1 .. n + 1
        OBVIOUS
      <3> QED BY <3>1, <3>2
    <2>2. CASE x \notin DOMAIN mem
      <3>1. PICK i \in DOMAIN rec.data : x = rec.addr + i - 1
        BY <1>2, <2>2
      <3>2. Covers(file[n + 1], x) /\ x \in Int
        BY <1>4, <3>1
      <3>3. n + 1 \in 1 .. n + 1
        OBVIOUS
      <3> HIDE DEF rec
      <3> QED BY <3>2, <3>3
    <2> QED BY <2>1, <2>2
  <1>6. ASSUME NEW x \in Int, NEW k \in 1 .. n + 1, NEW b, Says(file, n + 1, k, x, b)
        PROVE  x \in DOMAIN new /\ new[x] = b
    <2>1. CASE k = n + 1
      <3>1. Covers(rec, x) /\ ByteAt(rec, x) = b
        BY <1>6, <2>1 DEF Says
      <3> HIDE DEF rec
      <3> QED BY <1>2, <1>3, <3>1
    <2>2. CASE k # n + 1
      <3>1. k \in 1 .. n /\ n + 1 \in k + 1 .. n + 1
        BY <2>2
      <3>2. ~Covers(rec, x)
        BY <1>6, <3>1 DEF Says
      <3>3. \A j \in k + 1 .. n : j \in k + 1 .. n + 1
        OBVIOUS
      <3>4. Says(file, n, k, x, b)
        BY <1>6, <3>3 DEF Says
      <3>5. x \in DOMAIN mem /\ mem[x] = b
        BY <3>1, <3>4 DEF Loaded
      <3> HIDE DEF rec
      <3> QED BY <1>2, <3>2, <3>5
    <2> QED BY <2>1, <2>2
  <1> HIDE DEF rec
  <1> QED BY <1>5, <1>6 DEF Loaded, new, rec

(* What the assembler has written, read back, is what it has emitted. *)
LEMMA LoadedImage ==
    ASSUME NEW mem, NEW w, NEW image, NEW lc, Written(w, image, lc), w.data = << >>,
           Loaded(mem, w.file, Len(w.file))
    PROVE  /\ \A x \in DOMAIN mem : IF x \in DOMAIN image THEN mem[x] = image[x] ELSE x \in Base
           /\ DOMAIN image \subseteq DOMAIN mem
  <1> DEFINE n == Len(w.file)
             p == Pieces(w)
             file == w.file
  <1>1. n \in Nat /\ Replays(p, n + 1, image)
    BY LenProperties DEF Written, Writers
  <1>2. /\ \A k \in 1 .. n : p[k].addr = file[k].addr /\ p[k].data = file[k].data
        /\ p[n + 1].data = << >>
    BY <1>1 DEF Pieces
  <1> HIDE DEF p, n, file
  <1>3. \A x \in Int : /\ \A k \in 1 .. n : /\ Covers(p[k], x) <=> Covers(file[k], x)
                                           /\ ByteAt(p[k], x) = ByteAt(file[k], x)
                       /\ ~Covers(p[n + 1], x)
    <2>1. DOMAIN << >> = {}
      OBVIOUS
    <2> QED BY <1>2, <2>1 DEF Covers, ByteAt
  <1>4. ASSUME NEW x \in DOMAIN image PROVE x \in DOMAIN mem /\ mem[x] = image[x]
    <2>1. x \in Int
      BY <1>1 DEF Replays
    <2>2. PICK k \in 1 .. n + 1 : Says(p, n + 1, k, x, image[x])
      BY <1>1 DEF Replays
    <2>3. k \in 1 .. n
      <3>1. k # n + 1
        BY <1>3, <2>1, <2>2 DEF Says
      <3> QED BY <1>1, <3>1
    <2>4. ASSUME NEW j \in k + 1 .. n PROVE ~Covers(file[j], x)
      <3>1. j \in k + 1 .. n + 1 /\ j \in 1 .. n
        BY <1>1, <2>3
      <3> QED BY <1>3, <2>1, <2>2, <3>1 DEF Says
    <2>5. Says(file, n, k, x, image[x])
      BY <1>3, <2>1, <2>2, <2>3, <2>4 DEF Says
    <2> QED BY <2>1, <2>3, <2>5 DEF Loaded, n, file
  <1>5. ASSUME NEW x \in DOMAIN mem, x \notin DOMAIN image PROVE x \in Base
    <2>1. \A k \in 1 .. n : k \in 1 .. n + 1
      BY <1>1
    <2>2. x \in Int => \A k \in 1 .. n : ~Covers(file[k], x)
      BY <1>1, <1>3, <1>5, <2>1 DEF Replays
    <2> QED BY <2>2 DEF Loaded, n, file
  <1> QED BY <1>4, <1>5

(* The S1 records, and what is known of them when they are loaded. *)
LEMMA RecordsLoad ==
    ASSUME Output, Loading, stage = "load"
    PROVE  /\ Written(a.w, a.image, a.LC_cur) /\ a.w.data = << >>
           /\ Len(a.w.file) \in Nat /\ next \in Nat
           /\ next < Len(a.w.file) => /\ a.w.file[next + 1] \in Records
                                      /\ Valid(a.w.file[next + 1])
  <1>1. phase = "written" /\ next \in 0 .. Len(a.w.file)
    BY DEF Loading
  <1>2. Written(a.w, a.image, a.LC_cur) /\ a.w.data = << >>
    BY <1>1 DEF Output, Out
  <1>3. a.w.file \in Seq(Records)
    BY <1>2 DEF Written, Writers
  <1>4. Len(a.w.file) \in Nat /\ DOMAIN a.w.file = 1 .. Len(a.w.file)
    BY <1>3, LenProperties
  <1>5. ASSUME next < Len(a.w.file)
        PROVE  a.w.file[next + 1] \in Records /\ Valid(a.w.file[next + 1])
    <2>1. next + 1 \in 1 .. Len(a.w.file)
      BY <1>1, <1>4, <1>5
    <2> QED BY <1>2, <1>3, <1>4, <2>1, ElementOfSeq DEF Written
  <1> QED BY <1>1, <1>2, <1>4, <1>5

(* No step but the loader's own begins or ends the loading. *)
LEMMA LoadingNext ==
    ASSUME Output, Loading, [Next]_vars
    PROVE  Loading'
  <1>1. CASE Assemble
    <2>1. phase # "written" /\ stage' = stage /\ next' = next
      BY <1>1 DEF Assemble, asmNext, FirstPass, Rewind, SecondPass, Srec_s9, emuVars
    <2> QED BY <2>1 DEF Loading
  <1>2. CASE Start
    <2>1. /\ phase = "written" /\ phase' = phase /\ a' = a
          /\ stage = "off" /\ stage' = "load" /\ next' = next
      BY <1>2 DEF Start, PowerOn, asmVars
    <2>2. PICK u : /\ m' = Reset(u.files, u.dbg.INIT_PC)
                   /\ dev' = [i \in DOMAIN u.files |-> Attached(u.files[i])]
      BY <1>2 DEF Start, PowerOn
    <2>3. "mem" \in DOMAIN m' /\ m'.mem = Over(StatusAt(u.files), init_mem)
      BY <2>2 DEF Reset
    <2>4. /\ DOMAIN dev' = DOMAIN u.files
          /\ \A i \in DOMAIN u.files : dev'[i].port = u.files[i].port
      BY <2>2 DEF Attached
    <2>5. DOMAIN StatusAt(u.files) = {u.files[i].port : i \in DOMAIN u.files}
      BY DEF StatusAt
    <2>6. DOMAIN m'.mem = {u.files[i].port : i \in DOMAIN u.files} \cup DOMAIN init_mem
      BY <2>3, <2>5 DEF Over
    <2>7. \A x \in DOMAIN m'.mem : x \in Base'
      <3>1. \A i \in DOMAIN u.files : u.files[i].port \in {dev'[j].port : j \in DOMAIN dev'}
        BY <2>4
      <3>2. init_mem' = init_mem
        BY DEF init_mem
      <3> QED BY <2>6, <3>1, <3>2 DEF Base
    <2>8. next' = 0 /\ 1 .. 0 = {}
      BY <2>1 DEF Loading
    <2>9. Loaded(m.mem, a.w.file, next)'
      BY <2>7, <2>8 DEF Loaded
    <2>10. Len(a.w.file) \in Nat
      <3>1. a.w.file \in Seq(Records)
        BY <2>1 DEF Output, Out, Written, Writers
      <3> QED BY <3>1, LenProperties
    <2> QED BY <2>1, <2>3, <2>8, <2>9, <2>10 DEF Loading
  <1>3. CASE Load
    <2>1. /\ phase' = phase /\ a' = a /\ stage = "load"
          /\ LoadS1(a.w.file) \/ LoadS9(a.w.file, a.PC_init)
      BY <1>3 DEF Load, asmVars, LoadS1, LoadS9
    <2>2. CASE LoadS1(a.w.file)
      <3>1. /\ next < Len(a.w.file) /\ next' = next + 1 /\ dev' = dev
            /\ m' = [m EXCEPT !.mem = Stored(m.mem, a.w.file[next + 1])]
        BY <2>2 DEF LoadS1
      <3>2. /\ next \in Nat /\ Len(a.w.file) \in Nat
            /\ a.w.file[next + 1] \in Records
        BY <2>1, <3>1, RecordsLoad
      <3>3. "mem" \in DOMAIN m' /\ m'.mem = Stored(m.mem, a.w.file[next + 1])
        BY <2>1, <3>1 DEF Loading
      <3>4. Loaded(m'.mem, a.w.file, next + 1)
        <4>1. Loaded(m.mem, a.w.file, next)
          BY <2>1 DEF Loading
        <4> QED BY <3>2, <3>3, <4>1, StoredLoads
      <3>5. Loaded(m.mem, a.w.file, next)'
        <4>1. Base' = Base
          BY <3>1 DEF Base, init_mem
        <4> QED BY <2>1, <3>1, <3>4, <4>1 DEF Loaded
      <3>6. next' \in 0 .. Len(a'.w.file)
        BY <2>1, <3>1, <3>2
      <3>7. stage' # "off" /\ phase' = "written"
        BY <2>1, <2>2 DEF LoadS1, Loading
      <3> QED BY <3>3, <3>5, <3>6, <3>7 DEF Loading
    <2>3. CASE LoadS9(a.w.file, a.PC_init)
      BY <2>1, <2>3 DEF LoadS9, Loading
    <2> QED BY <2>1, <2>2, <2>3
  <1>4. CASE Run
    <2>1. phase' = phase /\ stage \notin {"off", "load"} /\ stage' \notin {"off", "load"}
      BY <1>4 DEF Run, asmVars, runNext, Step, Idle, Poll, Break, Resume, Terminate
    <2> QED BY <2>1 DEF Loading
  <1>5. CASE UNCHANGED vars
    <2>1. /\ phase' = phase /\ a' = a /\ stage' = stage /\ next' = next /\ m' = m /\ dev' = dev
      BY <1>5 DEF vars, asmVars, emuVars
    <2> QED BY <2>1 DEF Loading, Loaded, Base, init_mem
  <1> QED BY <1>1, <1>2, <1>3, <1>4, <1>5 DEF Next

-----------------------------------------------------------------------------
(* The types of the machine and its devices. *)

(* The machine, its devices, the main loop and the loader are in their        *)
(* ranges.                                                                    *)
Powered ==
    /\ stage \in {"off", "load", "run", "poll", "doze", "scan"}
    /\ next \in 0 .. Len(a.w.file)
    /\ IsMachine(m)
    /\ IsDevices(dev)

(* In every phase the records written so far are a sequence. *)
LEMMA FileLength == Output => a.w.file \in Seq(Records) /\ Len(a.w.file) \in Nat
  <1> SUFFICES ASSUME Output PROVE a.w.file \in Seq(Records) /\ Len(a.w.file) \in Nat
    OBVIOUS
  <1>1. a.w \in Writers
    BY NothingWritten DEF Output, Out, Written
  <1>2. a.w.file \in Seq(Records)
    BY <1>1 DEF Writers
  <1> QED BY <1>2, LenProperties

(* The loader stores bytes, inside of the memory: those of a record are in    *)
(* the assembler's image.                                                     *)
LEMMA StoredKeeps ==
    ASSUME NEW w, NEW image, NEW lc, Written(w, image, lc),
           \A x \in DOMAIN image : x <= 65535,
           NEW n \in Nat, n < Len(w.file), NEW mem, IsMemory(mem)
    PROVE  IsMemory(Stored(mem, w.file[n + 1]))
  <1> DEFINE rec == w.file[n + 1]
             p == Pieces(w)
             new == Stored(mem, rec)
  <1>1. w.file \in Seq(Records) /\ Len(w.file) \in Nat /\ Replays(p, Len(w.file) + 1, image)
    BY LenProperties DEF Written, Writers
  <1>2. n + 1 \in 1 .. Len(w.file) /\ n + 1 \in 1 .. Len(w.file) + 1 /\ n + 1 # Len(w.file) + 1
    BY <1>1
  <1>3. rec \in Records
    BY <1>1, <1>2, ElementOfSeq
  <1>4. p[n + 1].addr = rec.addr /\ p[n + 1].data = rec.data
    BY <1>2 DEF Pieces
  <1>5. rec.addr \in Nat /\ rec.data \in Seq(Bytes) /\ DOMAIN rec.data \subseteq Nat
    BY <1>3, LenProperties DEF Records
  <1>6. /\ DOMAIN new = DOMAIN mem \cup {rec.addr + i - 1 : i \in DOMAIN rec.data}
        /\ \A x \in DOMAIN new : new[x] = IF x - rec.addr + 1 \in DOMAIN rec.data
                                          THEN rec.data[x - rec.addr + 1]
                                          ELSE mem[x]
    BY DEF Stored
  <1> HIDE DEF new, p, rec
  <1>7. ASSUME NEW i \in DOMAIN rec.data
        PROVE  rec.addr + i - 1 \in Word16
    <2> DEFINE x == rec.addr + i - 1
    <2>1. x \in Int /\ x - rec.addr + 1 = i
      BY <1>5
    <2> HIDE DEF x
    <2>2. x \in DOMAIN image
      BY <1>1, <1>2, <1>4, <2>1 DEF Replays, Covers
    <2>3. x \in Nat /\ x <= 65535
      BY <1>1, <2>2 DEF Replays
    <2>4. x \in Word16
      BY <2>3, SMT DEF Word16
    <2> QED BY <2>4 DEF x
  <1>8. \A k \in DOMAIN rec.data : rec.data[k] \in Word8
    <2>1. \A k \in DOMAIN rec.data : rec.data[k] \in Bytes
      BY <1>5
    <2> QED BY <2>1, Interval8 DEF Bytes
  <1>9. ASSUME NEW x \in DOMAIN new PROVE x \in Word16 /\ new[x] \in Word8
    <2>1. CASE x \in DOMAIN mem
      BY <1>6, <1>8, <2>1 DEF IsMemory
    <2>2. CASE x \notin DOMAIN mem
      <3>1. PICK i \in DOMAIN rec.data : x = rec.addr + i - 1
        BY <1>6, <2>2
      <3>2. x - rec.addr + 1 = i
        BY <1>5, <3>1
      <3> QED BY <1>6, <1>7, <1>8, <3>1, <3>2
    <2> QED BY <2>1, <2>2
  <1>10. IsMemory(new)
    BY <1>9 DEF IsMemory
  <1> QED BY <1>10 DEF new, rec

(* Whatever is run, with the devices and the options of the debugger that the *)
(* user may give.                                                             *)
LEMMA PoweredNext ==
    ASSUME PassInv, Output, Low, Loading, Powered, [Next]_vars
    PROVE  Powered'
  <1>1. CASE Assemble
    <2>1. phase # "written" /\ stage' = stage /\ next' = next /\ m' = m /\ dev' = dev
      BY <1>1 DEF Assemble, asmNext, FirstPass, Rewind, SecondPass, Srec_s9, emuVars
    <2>2. next' = 0
      BY <2>1 DEF Loading
    <2>3. Output'
      BY <1>1, OutputNext DEF Assemble
    <2>4. Len(a.w.file)' \in Nat
      <3>1. Output' => (a.w.file \in Seq(Records) /\ Len(a.w.file) \in Nat)'
        BY FileLength, PTL
      <3> QED BY <2>3, <3>1
    <2>5. next' \in 0 .. Len(a.w.file)'
      BY <2>2, <2>4
    <2> QED BY <2>1, <2>5 DEF Powered
  <1>2. CASE Start
    <2>1. /\ a' = a /\ stage' = "load" /\ next' = next
      BY <1>2 DEF Start, PowerOn, asmVars
    <2> DEFINE setups == IF prog \in DOMAIN Setups
                         THEN Setups[prog]
                         ELSE {[files |-> << >>, dbg |-> NoDebugger]}
    <2>2. PICK u \in setups :
              /\ m' = Reset(u.files, u.dbg.INIT_PC)
              /\ dev' = [i \in DOMAIN u.files |-> Attached(u.files[i])]
      BY <1>2 DEF Start, PowerOn
    <2>3. Attachable(u.files) /\ u.dbg.INIT_PC \in Word20
      <3>1. CASE prog \in DOMAIN Setups
        BY <2>2, <3>1, SetupsAssumption DEF Attachable, Word20
      <3>2. CASE prog \notin DOMAIN Setups
        <4>1. u.files = << >> /\ u.dbg = NoDebugger /\ DOMAIN << >> = {}
          BY <2>2, <3>2
        <4>2. u.dbg.INIT_PC = 0
          BY <4>1 DEF NoDebugger
        <4>3. 0 \in Word20
          BY SMT DEF Word20
        <4> QED BY <4>1, <4>2, <4>3 DEF Attachable
      <3> QED BY <3>1, <3>2
    <2>4. IsMachine(m') /\ IsDevices(dev')
      BY <2>2, <2>3, ResetKeeps, AttachedKeeps
    <2> QED BY <2>1, <2>4 DEF Powered
  <1>3. CASE Load
    <2>1. /\ phase' = phase /\ a' = a /\ stage = "load"
          /\ LoadS1(a.w.file) \/ LoadS9(a.w.file, a.PC_init)
      BY <1>3 DEF Load, asmVars, LoadS1, LoadS9
    <2>2. CASE LoadS1(a.w.file)
      <3> DEFINE new == Stored(m.mem, a.w.file[next + 1])
      <3>1. /\ next < Len(a.w.file) /\ next' = next + 1 /\ dev' = dev
            /\ m' = [m EXCEPT !.mem = new] /\ stage' \in {"load", "run"}
        BY <2>2 DEF LoadS1
      <3>2. /\ next \in Nat /\ Len(a.w.file) \in Nat
            /\ Written(a.w, a.image, a.LC_cur)
        BY <2>1, RecordsLoad
      <3>3. IsMemory(new)
        <4>1. IsMemory(m.mem)
          BY DEF Powered, IsMachine
        <4>2. \A x \in DOMAIN a.image : x <= 65535
          BY DEF Low
        <4> QED BY <3>1, <3>2, <4>1, <4>2, StoredKeeps
      <3> HIDE DEF new
      <3>4. IsMachine(m')
        BY <3>1, <3>3 DEF Powered, IsMachine
      <3>5. next' \in 0 .. Len(a.w.file)
        BY <3>1, <3>2
      <3> QED BY <2>1, <3>1, <3>4, <3>5 DEF Powered
    <2>3. CASE LoadS9(a.w.file, a.PC_init)
      <3>1. /\ next' = next /\ dev' = dev /\ stage' = "run"
            /\ m' = IF dbg.INIT_PC = 0 THEN SetReg(m, PC, a.PC_init) ELSE m
        BY <2>3 DEF LoadS9
      <3>2. a.PC_init \in Int
        BY DEF PassInv, IsState, IsGlobals
      <3>3. IsMachine(SetReg(m, PC, a.PC_init))
        BY <3>2, SetRegKeeps, Registers DEF Powered, RegSet
      <3> QED BY <2>1, <3>1, <3>3 DEF Powered
    <2> QED BY <2>1, <2>2, <2>3
  <1>4. CASE Run
    <2>1. IsMachine(m') /\ IsDevices(dev')
      BY <1>4, RunKeeps, AtEndAssumption DEF Run, Powered
    <2>2. a' = a /\ next' = next /\ stage' \in {"run", "poll", "doze", "scan"}
      BY <1>4 DEF Run, asmVars, runNext, Step, Idle, Poll, Break, Resume, Terminate
    <2> QED BY <2>1, <2>2 DEF Powered
  <1>5. CASE UNCHANGED vars
    <2>1. a' = a /\ stage' = stage /\ next' = next /\ m' = m /\ dev' = dev
      BY <1>5 DEF vars, asmVars, emuVars
    <2> QED BY <2>1 DEF Powered
  <1> QED BY <1>1, <1>2, <1>3, <1>4, <1>5 DEF Next

-----------------------------------------------------------------------------
(* The toolchain as a whole. *)

(* The inductive invariant: the two passes, the records, the addresses, the   *)
(* loader and the machine.                                                    *)
ToolchainInv == PassInv /\ Output /\ Low /\ Loading /\ Powered

(* A step of the toolchain is one of the assembler, or leaves the assembler   *)
(* alone.                                                                     *)
LEMMA AssemblerStep == [Next]_vars => [asmNext]_asmVars
  BY DEF Next, vars, Assemble, Start, Load, Run

(* The passes agree, the records stand for the image, and so does memory as   *)
(* far as they are loaded, in every state of the toolchain.                   *)
THEOREM ToolchainInvariance == Spec => []ToolchainInv
  <1>1. Init => ToolchainInv
    <2> SUFFICES ASSUME Init PROVE ToolchainInv
      OBVIOUS
    <2>1. PassInv /\ Output /\ Low
      BY InitPasses, OutputInit, LowInit DEF Init
    <2>2. Loading
      BY DEF Init, emuInit, Loading
    <2>3. Powered
      <3>1. /\ stage = "off" /\ next = 0 /\ m = Reset(<< >>, 0) /\ dev = << >>
            /\ DOMAIN << >> = {}
        BY DEF Init, emuInit
      <3>2. Len(a.w.file) \in Nat
        BY <2>1, FileLength
      <3>3. Attachable(<< >>) /\ IsDevices(dev)
        BY <3>1 DEF Attachable, IsDevices
      <3>4. 0 \in Word20
        BY SMT DEF Word20
      <3>5. IsMachine(Reset(<< >>, 0))
        BY <3>3, <3>4, ResetKeeps
      <3> QED BY <3>1, <3>2, <3>3, <3>5 DEF Powered
    <2> QED BY <2>1, <2>2, <2>3 DEF ToolchainInv
  <1>2. ToolchainInv /\ [Next]_vars => ToolchainInv'
    BY AssemblerStep, PassNext, OutputNext, LowNext, LoadingNext, PoweredNext DEF ToolchainInv
  <1> QED BY <1>1, <1>2, PTL DEF Spec

(* The invariant gives the types, stated in words of 8, 16 and 20 bits. *)
LEMMA ToolchainTypes == ToolchainInv => TypeOK
  <1> SUFFICES ASSUME ToolchainInv PROVE TypeOK
    OBVIOUS
  <1>1. /\ phase \in {"first", "second", "refused", "written"}
        /\ Len(a.w.data) < max_data
    BY DEF ToolchainInv, Output, Open
  <1>2. /\ pos \in 0 .. Len(prog) /\ a.LC_cur \in Nat /\ a.LC_old \in Nat
        /\ \A n \in DOMAIN a.sym_tbl :
              a.sym_tbl[n].type \in {"REG", "LABEL", "IMM", "UNKNOWN"}
    BY DEF ToolchainInv, PassInv, IsState, IsGlobals, Symbols
  <1>3. /\ stage \in {"off", "load", "run", "poll", "doze", "scan"}
        /\ next \in 0 .. Len(a.w.file)
        /\ IsMachine(m)
    BY DEF ToolchainInv, Powered
  <1>4. m.reg \in [reg_file -> 0 .. 2^20 - 1]
    BY <1>3, Interval20 DEF IsMachine
  <1>5. \A x \in DOMAIN m.mem : x \in 0 .. 2^16 - 1 /\ m.mem[x] \in 0 .. 2^8 - 1
    <2>1. \A x \in DOMAIN m.mem : x \in Word16 /\ m.mem[x] \in Word8
      BY <1>3 DEF IsMachine, IsMemory
    <2>2. Word8 = 0 .. 2^8 - 1
      BY Powers, Interval8
    <2> QED BY <2>1, <2>2, Interval16, Zenon
  <1>6. /\ m.src_mode \in DIR .. IMM /\ m.dst_mode \in DIR .. IMM
        /\ m.condition_tbl \in [1 .. 8 -> BOOLEAN]
    BY <1>3 DEF IsMachine
  <1> QED BY <1>1, <1>2, <1>3, <1>4, <1>5, <1>6, Zenon DEF TypeOK

(* For any program, any devices and any options of the debugger: what the     *)
(* decoder, the bus and ALU.c do keeps registers, memory and the tables of    *)
(* decoder.c in their ranges, and the loader stores into the 64K only.        *)
THEOREM ToolchainTypeOK == Spec => []TypeOK
  BY ToolchainInvariance, ToolchainTypes, PTL

(* The two passes agree on the addresses in the whole toolchain too: what the *)
(* emulator does later cannot disturb mainline.c's tables.                    *)
THEOREM ToolchainAgrees == Spec => []PassesAgree
  BY PassAgrees, ToolchainInvariance, PTL DEF ToolchainInv

(* For any source files, any record length and any devices, the emulator      *)
(* starts a program with exactly the bytes that the assembler emitted last in *)
(* its memory: emit_byte's records, cut at ORG, BSS and in the middle of a    *)
(* word, are accepted by load_Srec and overlap in the order of emission.      *)
THEOREM LoaderRestores == Spec => LoadsImage
  <1>1. ToolchainInv /\ [Next]_vars =>
           [stage = "load" /\ stage' = "run" =>
               /\ next' = Len(a.w.file)
               /\ \A x \in DOMAIN m'.mem :
                     IF x \in DOMAIN a.image
                     THEN m'.mem[x] = a.image[x]
                     ELSE x \in DOMAIN init_mem \cup {dev[i].port : i \in DOMAIN dev}
               /\ DOMAIN a.image \subseteq DOMAIN m'.mem]_vars
    <2> SUFFICES ASSUME ToolchainInv, Next, stage = "load", stage' = "run"
                 PROVE  /\ next' = Len(a.w.file)
                        /\ \A x \in DOMAIN m'.mem :
                              IF x \in DOMAIN a.image
                              THEN m'.mem[x] = a.image[x]
                              ELSE x \in DOMAIN init_mem \cup {dev[i].port : i \in DOMAIN dev}
                        /\ DOMAIN a.image \subseteq DOMAIN m'.mem
      OBVIOUS
    <2>1. Output /\ Loading /\ "mem" \in DOMAIN m /\ Loaded(m.mem, a.w.file, next)
      BY DEF ToolchainInv, Loading
    <2>2. /\ Written(a.w, a.image, a.LC_cur) /\ a.w.data = << >>
          /\ next < Len(a.w.file) => Valid(a.w.file[next + 1])
      BY <2>1, RecordsLoad
    <2>3. LoadS9(a.w.file, a.PC_init)
      <3>1. phase = "written"
        BY <2>1 DEF Loading
      <3>2. ~Assemble /\ ~Start /\ ~Run
        BY <3>1 DEF Assemble, asmNext, FirstPass, Rewind, SecondPass, Srec_s9, Start,
             PowerOn, Run, runNext, Step, Idle, Poll, Break, Resume, Terminate
      <3>3. ~LoadS1(a.w.file)
        BY <2>2 DEF LoadS1
      <3> QED BY <3>2, <3>3 DEF Next, Load
    <2>4. next' = next /\ next = Len(a.w.file) /\ m'.mem = m.mem
      BY <2>1, <2>3 DEF LoadS9, SetReg
    <2>5. /\ \A x \in DOMAIN m.mem : IF x \in DOMAIN a.image THEN m.mem[x] = a.image[x] ELSE x \in Base
          /\ DOMAIN a.image \subseteq DOMAIN m.mem
      BY <2>1, <2>2, <2>4, LoadedImage
    <2> QED BY <2>4, <2>5 DEF Base
  <1> QED BY <1>1, ToolchainInvariance, PTL DEF Spec, LoadsImage

-----------------------------------------------------------------------------
(* Interrupts: what RETI goes back to. *)

(* Reg32 of what lies below a stack pointer, if it is an address of memory. *)
LEMMA Downwards ==
    ASSUME NEW p \in Word20, Reg32(p - 2) + 1 <= 65535
    PROVE  p >= 2 /\ p <= 65536 /\ Reg32(p - 2) = p - 2
  BY SMT DEF Word20, Reg32

(* Two bytes written as a word are read as it. *)
LEMMA WordBack ==
    ASSUME NEW v \in Int
    PROVE  LOWBYTE(v) + 256 * HIGHBYTE(v) = LOWWORD(v)
  BY SMT DEF LOWBYTE, HIGHBYTE, LOWWORD

(* From s to t the stack has got the word in register op. *)
Pushed(s, t, op) ==
    /\ IsMachine(t) /\ ~s.wild
    /\ s.reg[SP] >= 2 /\ s.reg[SP] <= 65536 /\ s.reg[SP] \in Nat
    /\ t.reg[SP] = s.reg[SP] - 2
    /\ \A q \in reg_file : q # SP => t.reg[q] = s.reg[q]
    /\ WordAt(t.mem, s.reg[SP] - 2) = LOWWORD(s.reg[op])
    /\ \A y \in Int : y # s.reg[SP] - 2 /\ y # s.reg[SP] - 1 => At(t.mem, y) = At(s.mem, y)

LEMMA PushPuts ==
    ASSUME NEW s, IsMachine(s), NEW op \in reg_file, op # SP, ~Push(s, op).wild
    PROVE  Pushed(s, Push(s, op), op)
  <1> DEFINE p == s.reg[SP]
             v == p - 2
             t == SetReg(s, SP, v)
             x == t.reg[SP]
             w == t.reg[op]
             u == Write(t, x, WordOp, w)
  <1>1. p \in Word20 /\ p \in Nat /\ v \in Int /\ SP \in reg_file
    BY Registers, RegNat
  <1>2. Push(s, op) = u
    BY DEF Push
  <1>3. RegSet(s, t, SP, v)
    BY <1>1, SetRegKeeps
  <1> HIDE DEF t
  <1>4. IsMachine(t) /\ x = Reg32(v) /\ w = s.reg[op] /\ t.mem = s.mem /\ t.wild = s.wild
        /\ \A q \in reg_file : q # SP => t.reg[q] = s.reg[q]
    BY <1>3 DEF RegSet
  <1>5. x \in Nat /\ w \in Nat
    BY <1>1, <1>4, RegNat
  <1> HIDE DEF p, x, w
  <1>6. IsWritten(t, u, x, WordOp, w)
    BY <1>4, <1>5, WriteKeeps, Registers
  <1> HIDE DEF u
  <1>7. ~u.wild
    BY <1>2
  <1>8. ~s.wild /\ x + 1 <= 65535
    <2>1. u.wild = Wild(t, x, WordOp)
      BY <1>6 DEF IsWritten
    <2>2. ~Wild(t, x, WordOp)
      BY <1>7, <2>1
    <2>3. ~t.wild
      BY <2>2 DEF Wild
    <2>4. x + 1 <= 65535
      <3>1. ~(x + 1 - 0 > 65535)
        BY <2>2 DEF Wild, WordOp
      <3> QED BY <1>5, <3>1
    <2> QED BY <1>4, <2>3, <2>4
  <1>9. p >= 2 /\ p <= 65536 /\ x = p - 2
    BY <1>1, <1>4, <1>8, Downwards
  <1>10. /\ IsMachine(u) /\ u.reg = t.reg
         /\ At(u.mem, x) = LOWBYTE(w) /\ At(u.mem, x + 1) = HIGHBYTE(w)
         /\ \A y : y # x /\ y # x + 1 => At(u.mem, y) = At(t.mem, y)
    BY <1>6, <1>7 DEF IsWritten
  <1>11. WordAt(u.mem, x) = LOWWORD(w)
    BY <1>5, <1>10, WordBack DEF WordAt
  <1>12. x + 1 = p - 1
    BY <1>1, <1>9
  <1>13. u.reg[SP] = p - 2
    BY <1>9, <1>10 DEF x
  <1> QED BY <1>1, <1>2, <1>4, <1>8, <1>9, <1>10, <1>11, <1>12, <1>13 DEF Pushed, p

(* An interrupt leaves SR and the PC on the stack, SR below the PC. *)
Interrupted(s, t) ==
    /\ IsMachine(t) /\ ~s.wild
    /\ s.reg[SP] \in Nat /\ s.reg[SP] >= 4 /\ s.reg[SP] <= 65536
    /\ t.reg[SP] = s.reg[SP] - 4
    /\ WordAt(t.mem, s.reg[SP] - 2) = LOWWORD(s.reg[PC])
    /\ WordAt(t.mem, s.reg[SP] - 4) = LOWWORD(s.reg[SR])
    /\ \A y \in Int : y < s.reg[SP] - 4 \/ y >= s.reg[SP] => At(t.mem, y) = At(s.mem, y)

(* Registers that are not the same. *)
LEMMA Distinct ==
    PC # SP /\ SR # SP /\ SR # PC /\ TD1 # SP /\ TD1 # PC /\ TD1 # SR
  BY DEF PC, SP, SR, TD1

LEMMA InterruptSaves ==
    ASSUME NEW s, IsMachine(s), NEW x \in Int, ~Interrupt(s, TD1, x).wild
    PROVE  Interrupted(s, Interrupt(s, TD1, x))
  <1> DEFINE once  == Push(s, PC)
             saved == Push(once, SR)
             named == SetReg(saved, TD1, x)
             read  == Read(named, x, WordOp)
             there == SetReg(read, PC, read.MDR)
             off   == Clear(read.reg[SR], GIE)
             t     == SetReg(there, SR, off)
             p     == s.reg[SP]
  <1>1. Interrupt(s, TD1, x) = t
    BY DEF Interrupt
  <1>2. IsMachine(once) /\ IsMachine(saved)
    BY PushKeeps, Registers DEF Kept
  <1> HIDE DEF saved
  <1>3. RegSet(saved, named, TD1, x)
    BY <1>2, SetRegKeeps, Registers
  <1> HIDE DEF named
  <1>4. IsRead(named, read, x, WordOp)
    BY <1>3, ReadKeeps, Registers DEF RegSet
  <1> HIDE DEF read
  <1>5. IsMachine(read) /\ read.MDR \in Int
    BY <1>4 DEF IsRead
  <1>6. RegSet(read, there, PC, read.MDR)
    BY <1>5, SetRegKeeps, Registers
  <1> HIDE DEF there
  <1>7. off \in Int
    <2>1. read.reg[SR] \in Int
      BY <1>5, Registers, RegNat
    <2>2. GIE \in 0 .. 19
      BY DEF GIE
    <2> QED BY <2>1, <2>2, ClearRange
  <1> HIDE DEF off
  <1>8. RegSet(there, t, SR, off)
    <2>1. IsMachine(there) /\ SR \in reg_file
      BY <1>6, Registers DEF RegSet
    <2> QED BY <1>7, <2>1, SetRegKeeps
  <1> HIDE DEF t
  <1>9. IsMachine(t) /\ t.mem = saved.mem /\ t.reg[SP] = saved.reg[SP]
    BY <1>3, <1>4, <1>6, <1>8, Registers, Distinct DEF RegSet, IsRead
  <1>10. ~saved.wild
    <2>1. ~Wild(named, x, WordOp)
      BY <1>1, <1>4, <1>6, <1>8 DEF RegSet, IsRead
    <2>2. ~named.wild
      BY <2>1 DEF Wild
    <2> QED BY <1>3, <2>2 DEF RegSet
  <1>11. Pushed(once, saved, SR)
    BY <1>2, <1>10, PushPuts, Registers, Distinct DEF saved
  <1>12. Pushed(s, once, PC)
    <2>1. ~once.wild
      BY <1>11 DEF Pushed
    <2> QED BY <2>1, PushPuts, Registers, Distinct
  <1> HIDE DEF once
  <1>13. /\ ~s.wild /\ p \in Nat /\ p >= 2 /\ p <= 65536 /\ once.reg[SP] = p - 2
         /\ once.reg[SR] = s.reg[SR]
         /\ WordAt(once.mem, p - 2) = LOWWORD(s.reg[PC])
         /\ \A y \in Int : y # p - 2 /\ y # p - 1 => At(once.mem, y) = At(s.mem, y)
    BY <1>12, Registers, Distinct DEF Pushed
  <1>14. once.reg[SP] >= 2 /\ saved.reg[SP] = once.reg[SP] - 2
    BY <1>11 DEF Pushed
  <1>15. p >= 4 /\ t.reg[SP] = p - 4
    <2> HIDE DEF p
    <2> QED BY <1>9, <1>13, <1>14
  <1>16. /\ WordAt(saved.mem, p - 4) = LOWWORD(s.reg[SR])
         /\ \A y \in Int : y # p - 4 /\ y # p - 3 => At(saved.mem, y) = At(once.mem, y)
    <2>1. once.reg[SP] - 2 = p - 4 /\ once.reg[SP] - 1 = p - 3
      <3> HIDE DEF p
      <3> QED BY <1>13
    <2> QED BY <1>11, <1>13, <2>1 DEF Pushed
  <1> HIDE DEF p
  <1>17. WordAt(saved.mem, p - 2) = LOWWORD(s.reg[PC])
    <2>1. At(saved.mem, p - 2) = At(once.mem, p - 2) /\ At(saved.mem, p - 2 + 1) = At(once.mem, p - 2 + 1)
      BY <1>13, <1>16
    <2> QED BY <1>13, <2>1 DEF WordAt
  <1>18. \A y \in Int : y < p - 4 \/ y >= p => At(saved.mem, y) = At(s.mem, y)
    <2> SUFFICES ASSUME NEW y \in Int, y < p - 4 \/ y >= p
                 PROVE  At(saved.mem, y) = At(s.mem, y)
      OBVIOUS
    <2>1. y # p - 4 /\ y # p - 3 /\ y # p - 2 /\ y # p - 1
      BY <1>13
    <2> QED BY <1>13, <1>16, <2>1
  <1> QED BY <1>1, <1>9, <1>13, <1>15, <1>16, <1>17, <1>18 DEF Interrupted, p

(* RETI takes what it finds at the stack pointer. *)
LEMMA RETITakes ==
    ASSUME NEW s, IsMachine(s), NEW op, s.reg[SP] <= 65532
    PROVE  /\ RETI(s, op).reg[SR] = WordAt(s.mem, s.reg[SP])
           /\ RETI(s, op).reg[PC] = WordAt(s.mem, s.reg[SP] + 2)
           /\ RETI(s, op).reg[SP] = s.reg[SP] + 4
           /\ RETI(s, op).mem = s.mem
  <1> DEFINE p   == s.reg[SP]
             sr  == Read(s, p, WordOp)
             st  == SetReg(sr, SR, sr.MDR)
             v   == sr.reg[SP] + 2
             sp  == SetReg(st, SP, v)
             q   == sp.reg[SP]
             pc  == Read(sp, q, WordOp)
             at  == SetReg(pc, PC, pc.MDR)
             w   == pc.reg[SP] + 2
             t   == SetReg(at, SP, w)
  <1>1. RETI(s, op) = t
    BY DEF RETI
  <1>2. p \in Nat
    BY Registers, RegNat
  <1>3. IsRead(s, sr, p, WordOp)
    BY ReadKeeps, Registers
  <1> HIDE DEF sr
  <1>4. IsMachine(sr) /\ sr.MDR \in Int /\ sr.MDR \in Word16 /\ sr.MDR = WordAt(s.mem, p)
        /\ sr.reg = s.reg /\ sr.mem = s.mem
    BY <1>3 DEF IsRead
  <1>5. RegSet(sr, st, SR, sr.MDR)
    BY <1>4, SetRegKeeps, Registers
  <1>6. v = p + 2
    BY <1>4
  <1> HIDE DEF st, v, p
  <1>7. RegSet(st, sp, SP, v)
    <2>1. IsMachine(st) /\ v \in Int /\ SP \in reg_file
      BY <1>2, <1>5, <1>6, Registers DEF RegSet
    <2> HIDE DEF sr
    <2> QED BY <2>1, SetRegKeeps
  <1> HIDE DEF sp
  <1>8. IsRead(sp, pc, q, WordOp)
    BY <1>7, ReadKeeps, Registers DEF RegSet
  <1> HIDE DEF pc
  <1>9. IsMachine(pc) /\ pc.MDR \in Int /\ pc.MDR \in Word16 /\ pc.MDR = WordAt(sp.mem, q)
        /\ pc.reg = sp.reg /\ pc.mem = sp.mem
    BY <1>8 DEF IsRead
  <1>10. RegSet(pc, at, PC, pc.MDR)
    BY <1>9, SetRegKeeps, Registers
  <1>11. w = q + 2
    BY <1>9
  <1>12. q = Reg32(v)
    BY <1>7 DEF RegSet
  <1> HIDE DEF at, w, q
  <1>13. q = p + 2 /\ q + 2 \in Word20 /\ p + 2 + 2 = p + 4
    <2>1. p + 2 \in Word20 /\ p + 4 \in Word20
      <3>1. p <= 65532
        BY DEF p
      <3> QED BY <1>2, <3>1, SMT DEF Word20
    <2> QED BY <1>2, <1>6, <1>12, <2>1, Word20Range
  <1>14. w \in Int /\ Reg32(w) = p + 4
    BY <1>2, <1>11, <1>13, Word20Range
  <1>15. RegSet(at, t, SP, w)
    <2>1. IsMachine(at) /\ w \in Int /\ SP \in reg_file
      BY <1>10, <1>14, Registers DEF RegSet
    <2> QED BY <2>1, SetRegKeeps
  <1> HIDE DEF t
  <1>16. t.reg[SP] = p + 4 /\ t.mem = s.mem
    BY <1>4, <1>5, <1>7, <1>9, <1>10, <1>14, <1>15 DEF RegSet
  <1>17. t.reg[PC] = WordAt(s.mem, p + 2)
    <2>1. t.reg[PC] = Reg32(pc.MDR)
      BY <1>10, <1>15, Registers, Distinct DEF RegSet
    <2>2. Reg32(pc.MDR) = pc.MDR
      BY <1>9, Word20Range
    <2>3. sp.mem = s.mem
      BY <1>4, <1>5, <1>7 DEF RegSet
    <2> QED BY <1>9, <1>13, <2>1, <2>2, <2>3
  <1>18. t.reg[SR] = WordAt(s.mem, p)
    <2>1. t.reg[SR] = sp.reg[SR]
      BY <1>9, <1>10, <1>15, Registers, Distinct DEF RegSet
    <2>2. sp.reg[SR] = Reg32(sr.MDR)
      BY <1>5, <1>7, Registers, Distinct DEF RegSet
    <2>3. Reg32(sr.MDR) = sr.MDR
      BY <1>4, Word20Range
    <2> QED BY <1>4, <2>1, <2>2, <2>3
  <1> QED BY <1>1, <1>16, <1>17, <1>18 DEF p

(* RETI without an operand is executed as such, on the memory and with the    *)
(* stack pointer it is fetched with.                                          *)
LEMMA RETIRuns ==
    ASSUME IsMachine(m), IsReti(Fetched), As_mode(Fetched) = 0
    PROVE  \E t : /\ execute(decode(Fetched)) = RETI(t, OP_T1(t))
                  /\ IsMachine(t) /\ t.mem = m.mem /\ t.reg[SP] = m.reg[SP]
  <1> DEFINE f == fetch(m)
             g == [f EXCEPT !.ir = f.MDR]
             t == [g EXCEPT !.dst_mode = DIR]
  <1>1. IsMachine(f) /\ f.mem = m.mem /\ f.reg[SP] = m.reg[SP]
    BY FetchKeeps, Registers, Distinct
  <1>2. Fetched = g
    BY DEF Fetched
  <1> HIDE DEF f
  <1>3. IsMachine(g)
    BY <1>2, FetchedMachine
  <1>4. g.mem = f.mem /\ g.reg = f.reg
    BY <1>1 DEF IsMachine
  <1> HIDE DEF g
  <1>5. INST_TYPE(g) = 0 /\ Bit(g.ir, 12) = 1 /\ INST_T1(g) = 6 /\ As_mode(g) = 0
    BY <1>2 DEF IsReti
  <1>6. decode(g) = t
    <2>1. ADDR_TBL(OP_T1(g), 0) = DIR
      BY DEF ADDR_TBL, DIR
    <2>2. decode(g) = [g EXCEPT !.dst_mode = ADDR_TBL(OP_T1(g), As_mode(g))]
      BY <1>5 DEF decode
    <2> QED BY <1>5, <2>1, <2>2
  <1>7. IsMachine(t) /\ t.ir = g.ir
    BY <1>3, SetModes, Modes
  <1>8. t.mem = g.mem /\ t.reg = g.reg /\ t.dst_mode = DIR
    BY <1>3 DEF IsMachine
  <1> HIDE DEF t
  <1>9. INST_TYPE(t) = 0 /\ INST_T1(t) = 6
    BY <1>5, <1>7 DEF INST_TYPE, INST_T1
  <1>10. t.ir # 0
    <2>1. Bit(0, 12) = 0
      BY Powers, SMT DEF Bit, Field
    <2> QED BY <1>5, <1>7, <2>1
  <1>11. execute(t) = ExecuteT1(t)
    BY <1>9, <1>10 DEF execute
  <1>12. ExecuteT1(t) = RETI(t, OP_T1(t))
    BY <1>8, <1>9 DEF ExecuteT1, Type1
  <1> QED BY <1>1, <1>2, <1>4, <1>6, <1>7, <1>8, <1>11, <1>12

-----------------------------------------------------------------------------
(* The devices d and e have the same ports. *)
SamePorts(d, e) == DOMAIN e = DOMAIN d /\ \A i \in DOMAIN d : e[i].port = d[i].port

(* No device of d has a byte of status at x or above. *)
Under(d, x) == \A i \in DOMAIN d : d[i].port + 1 < x

(* Bytes laid over the memory leave the rest of it. *)
LEMMA OverElsewhere ==
    ASSUME NEW bytes, NEW mem, NEW x, x \notin DOMAIN bytes
    PROVE  At(Over(bytes, mem), x) = At(mem, x)
  BY DEF Over, At

(* The clock gives the devices that are due their status, and changes nothing *)
(* else.                                                                      *)
LEMMA ClockSpares ==
    ASSUME NEW s, IsMachine(s), IsDevices(dev), NEW junk \in Int, inc_clk(s, junk)
    PROVE  /\ m'.reg = s.reg /\ m'.wild = s.wild
           /\ SamePorts(dev, dev')
           /\ \A x \in Int : Under(dev, x) => At(m'.mem, x) = At(s.mem, x)
  <1> DEFINE clock == s.sys_clock + Cycles(s)
             due == Due(clock)
             bytes == Statuses(due, junk)
             new == Over(bytes, s.mem)
  <1>1. m' = [s EXCEPT !.sys_clock = clock, !.mem = new]
    BY DEF inc_clk
  <1>2. dev' = [i \in DOMAIN dev |-> IF i \in due THEN [dev[i] EXCEPT !.rest = Rest(dev[i])] ELSE dev[i]]
    BY DEF inc_clk
  <1>3. due \subseteq DOMAIN dev
    BY DEF Due
  <1>4. DOMAIN bytes = UNION {{dev[i].port, dev[i].port + 1} : i \in due}
    BY DEF Statuses
  <1> HIDE DEF clock, due, bytes
  <1>5. ASSUME NEW x \in Int, Under(dev, x) PROVE At(new, x) = At(s.mem, x)
    <2>1. \A i \in due : x # dev[i].port /\ x # dev[i].port + 1
      <3> SUFFICES ASSUME NEW i \in due PROVE x # dev[i].port /\ x # dev[i].port + 1
        OBVIOUS
      <3> DEFINE p == dev[i].port
      <3>1. i \in DOMAIN dev /\ dev[i] \in Device
        BY <1>3 DEF IsDevices
      <3>2. p \in Nat /\ p + 1 < x
        BY <1>5, <3>1, PortRange DEF Under
      <3> HIDE DEF p
      <3>3. x # p /\ x # p + 1
        BY <3>2
      <3> QED BY <3>3 DEF p
    <2>2. x \notin DOMAIN bytes
      BY <1>4, <2>1
    <2> QED BY <2>2, OverElsewhere
  <1> HIDE DEF new
  <1>6. m'.reg = s.reg /\ m'.wild = s.wild /\ m'.mem = new
    BY <1>1 DEF IsMachine
  <1>7. SamePorts(dev, dev')
    <2> SUFFICES ASSUME NEW i \in DOMAIN dev PROVE dev'[i].port = dev[i].port
      BY <1>2 DEF SamePorts
    <2>1. dev[i] \in Device
      BY DEF IsDevices
    <2>2. [dev[i] EXCEPT !.rest = Rest(dev[i])].port = dev[i].port
      BY <2>1 DEF Device
    <2> QED BY <1>2, <2>2
  <1> QED BY <1>5, <1>6, <1>7

(* An input calls its ISR, an output is only written down; in memory the      *)
(* status of the device has changed and what the interrupt has saved.         *)
LEMMA ServeSpares ==
    ASSUME IsMachine(m), IsDevices(dev), NEW junk \in Int, NEW i \in DOMAIN dev,
           Serve(i, junk)
    PROVE  LET s == IF IsInput(i) THEN Interrupt(m, TD1, VECT_TBL + dev[i].port) ELSE m
           IN  /\ m'.wild = s.wild
               /\ SamePorts(dev, dev')
               /\ \A y \in Int : y # dev[i].port => At(m'.mem, y) = At(s.mem, y)
  <1> DEFINE x     == VECT_TBL + dev[i].port
             isr   == Interrupt(m, TD1, x)
             off   == Clear(isr.reg[SR], C_OFF)
             awake == SetReg(isr, SR, off)
             u     == IF IsInput(i) THEN awake ELSE m
             port  == dev[i].port
             byte  == Clear(At(u.mem, port), 2)
             new   == Store(u.mem, port, byte)
             s     == IF IsInput(i) THEN isr ELSE m
  <1>1. dev[i] \in Device /\ port \in Word16 /\ port \in Nat
    BY PortRange DEF IsDevices
  <1>2. m' = [u EXCEPT !.mem = new]
    BY DEF Serve, ClrDBA
  <1>3. dev' = [dev EXCEPT ![i].ToI = Value(dev[i], junk), ![i].rest = Rest(dev[i])]
    BY DEF Serve
  <1>4. x \in Int
    BY <1>1, SMT DEF VECT_TBL
  <1> HIDE DEF x
  <1>5. Kept(m, isr)
    BY <1>4, Registers, InterruptKeeps
  <1> HIDE DEF isr
  <1>6. off \in Int
    <2>1. isr.reg[SR] \in Int /\ C_OFF \in 0 .. 19
      BY <1>5, Registers, RegNat DEF Kept, C_OFF
    <2> QED BY <2>1, ClearRange
  <1> HIDE DEF off
  <1>7. RegSet(isr, awake, SR, off)
    BY <1>5, <1>6, Registers, SetRegKeeps DEF Kept
  <1> HIDE DEF awake
  <1>8. IsMachine(u) /\ u.mem = s.mem /\ u.wild = s.wild
    BY <1>5, <1>7 DEF Kept, RegSet
  <1> HIDE DEF u, s
  <1>9. \A y : y # port => At(new, y) = At(u.mem, y)
    BY DEF Store, At
  <1> HIDE DEF new, port
  <1>10. m'.mem = new /\ m'.wild = u.wild
    BY <1>2, <1>8 DEF IsMachine
  <1>11. SamePorts(dev, dev')
    <2> SUFFICES ASSUME NEW j \in DOMAIN dev PROVE dev'[j].port = dev[j].port
      BY <1>3 DEF SamePorts
    <2>1. [dev[i] EXCEPT !.ToI = Value(dev[i], junk), !.rest = Rest(dev[i])].port = dev[i].port
      BY <1>1, ValueKeeps, DeviceServed
    <2>2. CASE j = i
      BY <1>3, <2>1, <2>2
    <2>3. CASE j # i
      BY <1>3, <2>3
    <2> QED BY <2>2, <2>3
  <1> QED BY <1>8, <1>9, <1>10, <1>11 DEF s, isr, x, port

(* What a register file holds. *)
RegFile == [reg_file -> Word20]

(* Memory holds what a RETI needs to go back to the registers c, above the    *)
(* devices' status.                                                           *)
Framed(mem, d, c) ==
    /\ c[PC] \in Word16 /\ c[SR] \in Word16
    /\ c[SP] \in Nat /\ c[SP] >= 4 /\ c[SP] <= 65536
    /\ WordAt(mem, c[SP] - 4) = c[SR] /\ WordAt(mem, c[SP] - 2) = c[PC]
    /\ Under(d, c[SP] - 4)

(* Memory and devices that are the same as far as c is concerned. *)
LEMMA FrameStays ==
    ASSUME NEW mem, NEW new, NEW d, NEW e, NEW c, Framed(mem, d, c), SamePorts(d, e),
           \A x \in Int : x >= c[SP] - 4 /\ x < c[SP] => At(new, x) = At(mem, x)
    PROVE  Framed(new, e, c)
  <1> DEFINE p == c[SP]
  <1>1. p \in Nat /\ \A x \in Int : x >= p - 4 /\ x < p => At(new, x) = At(mem, x)
    BY DEF Framed
  <1>2. Under(e, p - 4)
    BY DEF Framed, Under, SamePorts
  <1>3. /\ WordAt(mem, p - 4) = c[SR] /\ WordAt(mem, p - 2) = c[PC]
        /\ c[PC] \in Word16 /\ c[SR] \in Word16 /\ p >= 4 /\ p <= 65536
    BY DEF Framed
  <1> HIDE DEF p
  <1>4. /\ At(new, p - 4) = At(mem, p - 4) /\ At(new, p - 4 + 1) = At(mem, p - 4 + 1)
        /\ At(new, p - 2) = At(mem, p - 2) /\ At(new, p - 2 + 1) = At(mem, p - 2 + 1)
    BY <1>1
  <1>5. WordAt(new, p - 4) = c[SR] /\ WordAt(new, p - 2) = c[PC]
    BY <1>3, <1>4 DEF WordAt
  <1> QED BY <1>1, <1>2, <1>3, <1>5 DEF Framed, p

(* What an input's interrupt saves is a frame of the registers it found. *)
LEMMA FrameLaid ==
    ASSUME IsMachine(m), IsDevices(dev), NEW junk \in Int, NEW i \in DOMAIN dev,
           Serve(i, junk), IsInput(i), ~m'.wild,
           m.reg[PC] < 2^16, m.reg[SR] < 2^16, Under(dev, m.reg[SP] - 4)
    PROVE  /\ Framed(m'.mem, dev', m.reg)
           /\ \A y \in Int : Under(dev, y) /\ y >= m.reg[SP] => At(m'.mem, y) = At(m.mem, y)
  <1> DEFINE x   == VECT_TBL + dev[i].port
             isr == Interrupt(m, TD1, x)
             p   == m.reg[SP]
  <1>1. dev[i] \in Device /\ dev[i].port \in Nat
    BY PortRange DEF IsDevices
  <1>2. x \in Int
    BY <1>1, SMT DEF VECT_TBL
  <1>3. /\ m'.wild = isr.wild /\ SamePorts(dev, dev')
        /\ \A y \in Int : y # dev[i].port => At(m'.mem, y) = At(isr.mem, y)
    BY ServeSpares
  <1> HIDE DEF x
  <1>4. Interrupted(m, isr)
    BY <1>2, <1>3, InterruptSaves
  <1> HIDE DEF isr
  <1>5. /\ p \in Nat /\ p >= 4 /\ p <= 65536
        /\ WordAt(isr.mem, p - 2) = LOWWORD(m.reg[PC])
        /\ WordAt(isr.mem, p - 4) = LOWWORD(m.reg[SR])
        /\ \A y \in Int : y < p - 4 \/ y >= p => At(isr.mem, y) = At(m.mem, y)
    BY <1>4 DEF Interrupted
  <1>6. m.reg[PC] \in Word16 /\ m.reg[SR] \in Word16
    <2>1. m.reg[PC] \in Nat /\ m.reg[SR] \in Nat /\ 2^16 = 65536
      BY Registers, RegNat, Powers
    <2> QED BY <2>1, SMT DEF Word16
  <1>7. LOWWORD(m.reg[PC]) = m.reg[PC] /\ LOWWORD(m.reg[SR]) = m.reg[SR]
    BY <1>6, Word16Range
  <1>8. Framed(isr.mem, dev, m.reg)
    BY <1>5, <1>6, <1>7 DEF Framed
  <1>9. ASSUME NEW y \in Int, Under(dev, y) PROVE At(m'.mem, y) = At(isr.mem, y)
    <2> DEFINE q == dev[i].port
    <2>1. q \in Nat /\ q + 1 < y
      BY <1>1, <1>9 DEF Under
    <2>2. q # y
      <3> HIDE DEF q
      <3> QED BY <2>1
    <2> QED BY <1>3, <2>2
  <1>10. ASSUME NEW y \in Int, y >= p - 4 PROVE Under(dev, y)
    <2> SUFFICES ASSUME NEW j \in DOMAIN dev PROVE dev[j].port + 1 < y
      BY DEF Under
    <2> DEFINE q == dev[j].port
    <2>1. q \in Nat /\ q + 1 < p - 4
      BY PortRange DEF Under, IsDevices
    <2> HIDE DEF q, p
    <2>2. q + 1 < y
      BY <1>5, <1>10, <2>1
    <2> QED BY <2>2 DEF q
  <1>11. Framed(m'.mem, dev', m.reg)
    BY <1>3, <1>8, <1>9, <1>10, FrameStays
  <1> QED BY <1>5, <1>9, <1>11

-----------------------------------------------------------------------------
(* As long as no access goes outside of memory, every ISR that runs has a     *)
(* frame to return to, those it has interrupted have theirs further up.       *)
Stacked ==
    /\ stage \in {"off", "load"} => calls = << >>
    /\ calls \in Seq(RegFile)
    /\ \A j, k \in DOMAIN calls : j <= k => calls[k][SP] <= calls[j][SP]
    /\ ~m.wild => \A k \in DOMAIN calls : Framed(m.mem, dev, calls[k])

(* All the frames stay. *)
LEMMA StackedStays ==
    ASSUME Stacked, ~m.wild, SamePorts(dev, dev'),
           \A k \in DOMAIN calls : \A x \in Int :
              x >= calls[k][SP] - 4 /\ x < calls[k][SP] => At(m'.mem, x) = At(m.mem, x)
    PROVE  \A k \in DOMAIN calls : Framed(m'.mem, dev', calls[k])
  BY FrameStays DEF Stacked

(* An instruction, and what the clock does to the devices. *)
LEMMA StackedStep ==
    ASSUME IsMachine(m), IsDevices(dev), Disciplined, Stacked, Step
    PROVE  /\ \A k \in DOMAIN calls : Framed(m'.mem, dev', calls[k])
           /\ Len(calls') < Len(calls) =>
                 \A r \in {PC, SP, SR} : m'.reg[r] = Last(calls)[r]
  <1> DEFINE s == execute(decode(Fetched))
  <1>1. PICK junk \in AtEnd : inc_clk(s, junk)
    BY DEF Step
  <1>2. /\ m'.reg = s.reg /\ SamePorts(dev, dev')
        /\ \A x \in Int : Under(dev, x) => At(m'.mem, x) = At(s.mem, x)
    BY <1>1, AtEndAssumption, StepMachine, ClockSpares
  <1>3. ~m.wild /\ stage = "run" /\ Running /\ InLoop
    BY DEF Step, Running
  <1>4. calls \in Seq(RegFile) /\ Len(calls) \in Nat /\ DOMAIN calls = 1 .. Len(calls)
    BY LenProperties DEF Stacked
  <1>5. calls # << >> => Len(calls) \in DOMAIN calls
    BY <1>4, EmptySeq
  <1>6. \A k \in DOMAIN calls : Framed(m.mem, dev, calls[k])
    BY <1>3 DEF Stacked
  <1>7. ASSUME NEW k \in DOMAIN calls, NEW x \in Int, x >= calls[k][SP] - 4, x < calls[k][SP]
        PROVE  At(m'.mem, x) = At(m.mem, x)
    <2> DEFINE p == calls[k][SP]
    <2>1. p \in Nat /\ Under(dev, p - 4)
      BY <1>6, <1>7 DEF Framed
    <2>2. Under(dev, x)
      <3> SUFFICES ASSUME NEW j \in DOMAIN dev PROVE dev[j].port + 1 < x
        BY DEF Under
      <3> DEFINE q == dev[j].port
      <3>1. q \in Nat /\ q + 1 < p - 4 /\ x >= p - 4
        BY <1>7, <2>1, PortRange DEF Under, IsDevices
      <3> HIDE DEF q, p
      <3>2. q + 1 < x
        BY <2>1, <3>1
      <3> QED BY <3>2 DEF q
    <2>3. At(s.mem, x) = At(m.mem, x)
      <3>1. calls # << >>
        BY <1>4, <1>7, EmptySeq
      <3>2. CASE IsReti(Fetched)
        <4>1. As_mode(Fetched) = 0
          BY <1>3, <3>1, <3>2 DEF Disciplined
        <4>2. PICK t : s = RETI(t, OP_T1(t)) /\ IsMachine(t) /\ t.mem = m.mem /\ t.reg[SP] = m.reg[SP]
          BY <3>2, <4>1, RETIRuns
        <4>3. m.reg[SP] = Last(calls)[SP] - 4
          BY <1>3, <3>1, <3>2 DEF Disciplined
        <4>4. Last(calls)[SP] \in Nat /\ Last(calls)[SP] <= 65536
          BY <1>5, <1>6, <3>1 DEF Framed, Last
        <4>5. t.reg[SP] <= 65532
          BY <4>2, <4>3, <4>4
        <4>6. s.mem = t.mem
          BY <4>2, <4>5, RETITakes
        <4> QED BY <4>2, <4>6
      <3>3. CASE ~IsReti(Fetched)
        <4>1. x \in p - 4 .. p - 1
          <5> HIDE DEF p
          <5>1. x >= p - 4 /\ x < p
            BY <1>7 DEF p
          <5> QED BY <2>1, <5>1
        <4>2. \A y \in p - 4 .. p - 1 : At(s.mem, y) = At(m.mem, y)
          BY <1>3, <3>1, <3>3, <1>7 DEF Disciplined
        <4> QED BY <4>1, <4>2
      <3> QED BY <3>2, <3>3
    <2> QED BY <1>2, <2>2, <2>3
  <1>8. ASSUME Len(calls') < Len(calls), NEW r \in {PC, SP, SR}
        PROVE  m'.reg[r] = Last(calls)[r]
    <2> DEFINE c == Last(calls)
               p == c[SP]
    <2>1. IsReti(Fetched) /\ calls # << >>
      BY <1>4, <1>8 DEF Step
    <2>2. As_mode(Fetched) = 0 /\ m.reg[SP] = p - 4
      BY <1>3, <2>1 DEF Disciplined
    <2>3. PICK t : s = RETI(t, OP_T1(t)) /\ IsMachine(t) /\ t.mem = m.mem /\ t.reg[SP] = m.reg[SP]
      BY <2>1, <2>2, RETIRuns
    <2>4. Framed(m.mem, dev, c)
      BY <1>5, <1>6, <2>1 DEF Last
    <2>5. /\ p \in Nat /\ p <= 65536
          /\ WordAt(m.mem, p - 4) = c[SR] /\ WordAt(m.mem, p - 2) = c[PC]
      BY <2>4 DEF Framed
    <2> HIDE DEF c, p, s
    <2>6. t.reg[SP] = p - 4 /\ t.reg[SP] <= 65532
      BY <2>2, <2>3, <2>5
    <2>7. /\ s.reg[SR] = WordAt(m.mem, p - 4) /\ s.reg[PC] = WordAt(m.mem, p - 4 + 2)
          /\ s.reg[SP] = p - 4 + 4
      BY <2>3, <2>6, RETITakes
    <2>8. p - 4 + 2 = p - 2 /\ p - 4 + 4 = p
      BY <2>5
    <2>9. s.reg[SR] = c[SR] /\ s.reg[PC] = c[PC] /\ s.reg[SP] = c[SP]
      BY <2>5, <2>7, <2>8 DEF p
    <2> QED BY <1>2, <1>8, <2>9 DEF c
  <1>9. \A k \in DOMAIN calls : Framed(m'.mem, dev', calls[k])
    BY <1>2, <1>3, <1>7, StackedStays
  <1> QED BY <1>8, <1>9

(* A device that is served lays a frame below the others or leaves them be.   *)
LEMMA StackedServe ==
    ASSUME IsMachine(m), IsDevices(dev), Disciplined, Stacked,
           stage \in {"poll", "doze"}, Running,
           NEW junk \in Int, NEW i \in DOMAIN dev, Top(i), Serve(i, junk)
    PROVE  /\ calls' \in Seq(RegFile)
           /\ \A j, k \in DOMAIN calls' : j <= k => calls'[k][SP] <= calls'[j][SP]
           /\ ~m'.wild => \A k \in DOMAIN calls' : Framed(m'.mem, dev', calls'[k])
  <1> DEFINE n == Len(calls)
  <1>1. calls \in Seq(RegFile) /\ n \in Nat /\ DOMAIN calls = 1 .. n
    BY LenProperties DEF Stacked
  <1>2. ~m.wild /\ \A k \in DOMAIN calls : Framed(m.mem, dev, calls[k])
    BY DEF Stacked, Running
  <1>3. SamePorts(dev, dev')
    BY ServeSpares
  <1>4. \A j, k \in DOMAIN calls : j <= k => calls[k][SP] <= calls[j][SP]
    BY DEF Stacked
  <1>5. \A k \in DOMAIN calls : calls[k][SP] \in Nat
    BY <1>2 DEF Framed
  <1>6. CASE ~IsInput(i)
    <2>1. calls' = calls
      BY <1>6 DEF Serve
    <2>2. \A y \in Int : y # dev[i].port => At(m'.mem, y) = At(m.mem, y)
      BY <1>6, ServeSpares
    <2>3. ASSUME NEW k \in DOMAIN calls, NEW x \in Int, x >= calls[k][SP] - 4, x < calls[k][SP]
          PROVE  At(m'.mem, x) = At(m.mem, x)
      <3> DEFINE p == calls[k][SP]
                 q == dev[i].port
      <3>1. p \in Nat /\ q \in Nat /\ q + 1 < p - 4 /\ x >= p - 4
        BY <1>2, <2>3, PortRange DEF Framed, Under, IsDevices
      <3>2. x # q
        <4> HIDE DEF p, q
        <4> QED BY <3>1
      <3> QED BY <2>2, <3>2
    <2>4. \A k \in DOMAIN calls : Framed(m'.mem, dev', calls[k])
      BY <1>2, <1>3, <2>3, StackedStays
    <2> QED BY <1>1, <1>4, <2>1, <2>4
  <1>7. CASE IsInput(i)
    <2> DEFINE p == m.reg[SP]
    <2>1. calls' = Append(calls, m.reg) /\ m.reg \in RegFile
      BY <1>7 DEF Serve, IsMachine, RegFile
    <2>2. /\ calls' \in Seq(RegFile) /\ Len(calls') = n + 1
          /\ \A k \in 1 .. n : calls'[k] = calls[k]
          /\ calls'[n + 1] = m.reg
      BY <1>1, <2>1, AppendProperties
    <2>3. DOMAIN calls' = 1 .. n + 1
      BY <2>2, LenProperties
    <2>4. /\ m.reg[PC] < 2^16 /\ m.reg[SR] < 2^16 /\ Under(dev, p - 4)
          /\ calls # << >> => p <= Last(calls)[SP] - 4
      BY <1>7 DEF Disciplined, Under
    <2>5. p \in Nat
      BY Registers, RegNat
    <2>6. \A k \in DOMAIN calls : p <= calls[k][SP] - 4
      <3> SUFFICES ASSUME NEW k \in DOMAIN calls PROVE p <= calls[k][SP] - 4
        OBVIOUS
      <3>1. calls # << >> /\ n \in DOMAIN calls /\ k <= n
        BY <1>1, EmptySeq
      <3> DEFINE c == calls[k][SP]
                 d == calls[n][SP]
      <3>2. p <= d - 4
        BY <2>4, <3>1 DEF Last
      <3>3. d <= c /\ c \in Nat /\ d \in Nat
        BY <1>4, <1>5, <3>1
      <3> HIDE DEF c, d, p
      <3>4. p <= c - 4
        BY <2>5, <3>2, <3>3
      <3> QED BY <3>4 DEF c
    <2>7. ASSUME NEW j \in DOMAIN calls', NEW k \in DOMAIN calls', j <= k
          PROVE  calls'[k][SP] <= calls'[j][SP]
      <3>1. CASE k \in DOMAIN calls
        <4>1. j \in DOMAIN calls
          BY <1>1, <2>3, <2>7, <3>1
        <4> QED BY <1>1, <1>4, <2>2, <2>7, <3>1, <4>1
      <3>2. CASE k = n + 1 /\ j = n + 1
        BY <2>2, <2>5, <3>2
      <3>3. CASE k = n + 1 /\ j \in DOMAIN calls
        <4> DEFINE c == calls[j][SP]
        <4>1. p <= c - 4 /\ c \in Nat
          BY <1>5, <2>6, <3>3
        <4> HIDE DEF c, p
        <4>2. p <= c
          BY <2>5, <4>1
        <4> QED BY <1>1, <2>2, <3>3, <4>2 DEF c, p
      <3> HIDE DEF n
      <3>4. k \in DOMAIN calls \/ (k = n + 1 /\ (j = n + 1 \/ j \in DOMAIN calls))
        BY <1>1, <2>3, <2>7
      <3> QED BY <3>1, <3>2, <3>3, <3>4
    <2>8. ASSUME ~m'.wild, NEW k \in DOMAIN calls' PROVE Framed(m'.mem, dev', calls'[k])
      <3>1. /\ Framed(m'.mem, dev', m.reg)
            /\ \A y \in Int : Under(dev, y) /\ y >= p => At(m'.mem, y) = At(m.mem, y)
        BY <1>7, <2>4, <2>8, FrameLaid
      <3>2. ASSUME NEW h \in DOMAIN calls, NEW x \in Int, x >= calls[h][SP] - 4, x < calls[h][SP]
            PROVE  At(m'.mem, x) = At(m.mem, x)
        <4> DEFINE c == calls[h][SP]
        <4>1. c \in Nat /\ Under(dev, c - 4) /\ p <= c - 4 /\ x >= c - 4
          BY <1>2, <2>6, <3>2 DEF Framed
        <4>2. Under(dev, x)
          <5> SUFFICES ASSUME NEW j \in DOMAIN dev PROVE dev[j].port + 1 < x
            BY DEF Under
          <5> DEFINE q == dev[j].port
          <5>1. q \in Nat /\ q + 1 < c - 4
            BY <4>1, PortRange DEF Under, IsDevices
          <5> HIDE DEF q, c
          <5>2. q + 1 < x
            BY <4>1, <5>1
          <5> QED BY <5>2 DEF q
        <4>3. x >= p
          <5> HIDE DEF c, p
          <5> QED BY <2>5, <4>1
        <4> QED BY <3>1, <4>2, <4>3
      <3>3. \A h \in DOMAIN calls : Framed(m'.mem, dev', calls[h])
        BY <1>2, <1>3, <3>2, StackedStays
      <3> HIDE DEF n
      <3>4. k = n + 1 \/ (k \in 1 .. n /\ k \in DOMAIN calls)
        BY <1>1, <2>3, <2>8
      <3> QED BY <2>2, <3>1, <3>3, <3>4
    <2> QED BY <2>2, <2>7, <2>8
  <1> QED BY <1>6, <1>7

(* Every step keeps the frames. *)
LEMMA StackedNext ==
    ASSUME Loading, Powered, Disciplined, Stacked, [Next]_vars
    PROVE  Stacked'
  <1>0. IsMachine(m) /\ IsDevices(dev)
    BY DEF Powered
  <1>1. CASE Assemble \/ UNCHANGED vars
    <2>1. stage' = stage /\ m' = m /\ dev' = dev /\ calls' = calls
      BY <1>1 DEF Assemble, asmNext, emuVars, vars
    <2> QED BY <2>1 DEF Stacked
  <1>2. CASE Start \/ Load
    <2>1. calls = << >> /\ calls' = calls
      BY <1>2 DEF Start, PowerOn, Load, LoadS1, LoadS9, Stacked
    <2>2. DOMAIN calls' = {} /\ calls' \in Seq(RegFile)
      BY <2>1 DEF Stacked
    <2> QED BY <2>1, <2>2 DEF Stacked
  <1>3. CASE Step
    <2>1. \A k \in DOMAIN calls : Framed(m'.mem, dev', calls[k])
      BY <1>0, <1>3, StackedStep
    <2>2. stage' \notin {"off", "load"}
      BY <1>3 DEF Step
    <2>3. CASE calls' = calls
      BY <2>1, <2>2, <2>3 DEF Stacked
    <2>4. CASE calls' = Front(calls) /\ calls # << >>
      <3> DEFINE n == Len(calls)
      <3>1. calls \in Seq(RegFile) /\ n \in Nat \ {0} /\ DOMAIN calls = 1 .. n
        BY <2>4, LenProperties, EmptySeq DEF Stacked
      <3>2. n - 1 \in Nat /\ \A k \in 1 .. n - 1 : k \in 1 .. n /\ 1 + k - 1 = k
        BY <3>1
      <3>3. \A k \in 1 .. n - 1 : calls[k] \in RegFile
        BY <3>1, <3>2, ElementOfSeq
      <3>4. /\ calls' \in Seq(RegFile)
            /\ Len(calls') = IF 1 <= n - 1 THEN n - 1 - 1 + 1 ELSE 0
            /\ \A k \in 1 .. n - 1 - 1 + 1 : calls'[k] = calls[1 + k - 1]
        BY <2>4, <3>2, <3>3, SubSeqProperties DEF Front
      <3> HIDE DEF n
      <3>5. Len(calls') = n - 1 /\ \A k \in 1 .. n - 1 : calls'[k] = calls[k]
        BY <3>1, <3>2, <3>4
      <3>6. DOMAIN calls' = 1 .. n - 1
        BY <3>4, <3>5, LenProperties
      <3>7. \A k \in DOMAIN calls' : k \in DOMAIN calls /\ calls'[k] = calls[k]
        BY <3>1, <3>2, <3>5, <3>6
      <3> QED BY <2>1, <2>2, <3>4, <3>7 DEF Stacked
    <2> QED BY <1>3, <2>3, <2>4 DEF Step
  <1>4. CASE Idle
    <2>1. PICK junk \in AtEnd : inc_clk(m, junk)
      BY <1>4 DEF Idle
    <2>2. /\ SamePorts(dev, dev')
          /\ \A x \in Int : Under(dev, x) => At(m'.mem, x) = At(m.mem, x)
      BY <1>0, <2>1, AtEndAssumption, ClockSpares
    <2>3. ~m.wild /\ calls' = calls /\ stage' \notin {"off", "load"}
      BY <1>4 DEF Idle, Running
    <2>4. ASSUME NEW k \in DOMAIN calls, NEW x \in Int, x >= calls[k][SP] - 4, x < calls[k][SP]
          PROVE  At(m'.mem, x) = At(m.mem, x)
      <3> DEFINE p == calls[k][SP]
      <3>1. p \in Nat /\ Under(dev, p - 4) /\ x >= p - 4
        BY <2>3, <2>4 DEF Stacked, Framed
      <3>2. Under(dev, x)
        <4> SUFFICES ASSUME NEW j \in DOMAIN dev PROVE dev[j].port + 1 < x
          BY DEF Under
        <4> DEFINE q == dev[j].port
        <4>1. q \in Nat /\ q + 1 < p - 4
          BY <1>0, <3>1, PortRange DEF Under, IsDevices
        <4> HIDE DEF q, p
        <4>2. q + 1 < x
          BY <3>1, <4>1
        <4> QED BY <4>2 DEF q
      <3> QED BY <2>2, <3>2
    <2>5. \A k \in DOMAIN calls : Framed(m'.mem, dev', calls[k])
      BY <2>2, <2>3, <2>4, StackedStays
    <2> QED BY <2>3, <2>5 DEF Stacked
  <1>5. CASE Poll
    <2>1. PICK junk \in AtEnd : poll_dev(junk)
      BY <1>5 DEF Poll
    <2>2. stage \in {"poll", "doze"} /\ Running /\ stage' \notin {"off", "load"}
      BY <1>5 DEF Poll
    <2>3. CASE Ready = {}
      <3>1. m' = m /\ dev' = dev /\ calls' = calls
        BY <2>1, <2>3 DEF poll_dev
      <3> QED BY <2>2, <3>1 DEF Stacked
    <2>4. CASE Ready # {}
      <3>1. PICK i \in Ready : Top(i) /\ Serve(i, junk)
        BY <2>1, <2>4 DEF poll_dev
      <3>2. i \in DOMAIN dev
        BY DEF Ready
      <3>3. junk \in Int
        BY AtEndAssumption
      <3> QED BY <1>0, <2>2, <3>1, <3>2, <3>3, StackedServe DEF Stacked
    <2> QED BY <2>3, <2>4
  <1>6. CASE Break \/ Resume \/ Terminate
    <2>1. m' = m /\ dev' = dev /\ calls' = calls /\ stage \notin {"off", "load"}
          /\ stage' \notin {"off", "load"}
      BY <1>6 DEF Break, Resume, Terminate
    <2> QED BY <2>1 DEF Stacked
  <1> QED BY <1>1, <1>2, <1>3, <1>4, <1>5, <1>6 DEF Next, Run, runNext

(* For any program that keeps its stack as it must, any devices and any times *)
(* of interrupts: RETI goes back to exactly where the interrupt came, ISRs    *)
(* nested to any depth.                                                       *)
THEOREM InterruptsRestore == Spec /\ []Disciplined => Restores
  <1>1. Init => Stacked
    <2> SUFFICES ASSUME Init PROVE Stacked
      OBVIOUS
    <2>1. calls = << >> /\ DOMAIN << >> = {} /\ << >> \in Seq(RegFile)
      BY DEF Init, emuInit
    <2> QED BY <2>1 DEF Stacked
  <1>2. ToolchainInv /\ Disciplined /\ Stacked /\ [Next]_vars => Stacked'
    BY StackedNext DEF ToolchainInv
  <1>3. ToolchainInv /\ Disciplined /\ Stacked /\ [Next]_vars =>
           [Len(calls') < Len(calls) =>
              \A r \in {PC, SP, SR} : m'.reg[r] = Last(calls)[r]]_vars
    <2> SUFFICES ASSUME ToolchainInv, Disciplined, Stacked, Next, Len(calls') < Len(calls)
                 PROVE  \A r \in {PC, SP, SR} : m'.reg[r] = Last(calls)[r]
      OBVIOUS
    <2>1. calls \in Seq(RegFile) /\ Len(calls) \in Nat
      BY LenProperties DEF Stacked
    <2>2. calls' # calls
      BY <2>1
    <2>3. Step \/ Poll
      BY <2>2 DEF Next, Assemble, emuVars, Start, PowerOn, Load, LoadS1, LoadS9, Run,
           runNext, Idle, Break, Resume, Terminate
    <2>4. ~Poll
      <3> SUFFICES ASSUME Poll PROVE FALSE
        OBVIOUS
      <3>1. calls' = calls \/ calls' = Append(calls, m.reg)
        BY DEF Poll, poll_dev, Serve
      <3>2. m.reg \in RegFile
        BY DEF ToolchainInv, Powered, IsMachine, RegFile
      <3>3. Len(Append(calls, m.reg)) = Len(calls) + 1
        BY <2>1, <3>2, AppendProperties
      <3> QED BY <2>1, <2>2, <3>1, <3>3
    <2> QED BY <2>3, <2>4, StackedStep DEF ToolchainInv, Powered
  <1> QED BY <1>1, <1>2, <1>3, ToolchainInvariance, PTL DEF Spec, Restores
=============================================================================
