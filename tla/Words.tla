------------------------------- MODULE Words --------------------------------
(* Bytes, words and bits (the macros of reg_table.h). A register of the       *)
(* emulator is an unsigned int of which no more than bits 0 to 16 are ever    *)
(* looked at; 20 bits stand for its 32.                                       *)
EXTENDS Integers

LOWBYTE(x)  == x % 256
HIGHBYTE(x) == (x \div 256) % 256
LOWWORD(x)  == x % 65536

Field(x, k, n) == (x \div 2^k) % 2^n
Bit(x, k)      == Field(x, k, 1)

Reg32(x) == x % 2^20

(* The operators &, | and ^ of C on 20 bits. *)
And(x, y) ==
    LET low[k \in 0 .. 20] ==
            IF k = 0 THEN 0 ELSE low[k - 1] + 2^(k - 1) * Bit(x, k - 1) * Bit(y, k - 1)
    IN  low[20]
Or(x, y)  == x + y - And(x, y)
Xor(x, y) == x + y - 2 * And(x, y)

-----------------------------------------------------------------------------
(* Memory: a function from the addresses written so far. *)

Over(bytes, mem) ==
    [x \in DOMAIN bytes \cup DOMAIN mem |->
        IF x \in DOMAIN bytes THEN bytes[x] ELSE mem[x]]

Store(mem, x, byte) ==
    [y \in {x} \cup DOMAIN mem |-> IF y = x THEN byte ELSE mem[y]]
=============================================================================
