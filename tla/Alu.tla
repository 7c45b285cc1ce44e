-------------------------------- MODULE Alu ---------------------------------
(* The instructions of the MSP-430 (ALU.c). *)
EXTENDS Cpu

(* What the jump instructions test, as it follows from a status register:     *)
(* JNE, JEQ, JNC, JC, JN, JGE, JL, JMP. ISNEG is 4 and ISOVF is 256, so the   *)
(* two are equal when both are clear and never when both are set.             *)
Conditions(sr) ==
    LET on(k) == Bit(sr, k) = 1
        less  == on(NEG) \/ on(OVF)
    IN  <<~on(1), on(1), ~on(CARRY), on(CARRY), on(NEG), ~less, less, TRUE>>

(* The flags replace the whole register. NEG_B shifts the sign of a byte into *)
(* the carry's place.                                                         *)
update_SR(m, signs, dst, res) ==
    LET top   == IF BW_mode(m) = WordOp THEN 15 ELSE 7
        carry == IF BW_mode(m) = WordOp
                 THEN Bit(res, 16) + 4 * Bit(res, 15)
                 ELSE IF Bit(res, 8) = 1 \/ Bit(res, 7) = 1 THEN 1 ELSE 0
        ovf   == signs[top] = Bit(dst, top) /\ signs[top] # Bit(res, top)
        sr    == carry + (IF res = 0 THEN 2 ELSE 0) + (IF ovf THEN 256 ELSE 0)
    IN  [m EXCEPT !.reg[SR] = sr, !.condition_tbl = Conditions(sr)]

Signs(x)    == [k \in {7, 15} |-> Bit(x, k)]
NotSigns(x) == [k \in {7, 15} |-> 1 - Bit(x, k)]    \* of ~x

-----------------------------------------------------------------------------
(* One operand. The rotates and SXT pass 0 and 1 to update_SR for operands, so *)
(* OVF is set with the sign of the result. The rotates test the operand's     *)
(* last bit after update_SR.                                                  *)

CarryOut(m, op) ==
    IF m.reg[op] % 2 = 0
    THEN m
    ELSE [m EXCEPT !.reg[SR] = Or(@, 1),
                   !.condition_tbl[3] = FALSE, !.condition_tbl[4] = TRUE]

Rotated(m, op, res) ==
    set_result(CarryOut(update_SR(m, Signs(0), 1, res), op), op, res)

RRC(m, op) ==
    LET into == IF BW_mode(m) = WordOp THEN 16 ELSE 8
    IN  Rotated(m, op, m.reg[op] \div 2 + 2^into * Bit(m.reg[SR], CARRY))

RRA(m, op) ==
    LET top == IF BW_mode(m) = WordOp THEN 15 ELSE 7
        x   == m.reg[op]
    IN  Rotated(m, op, Or(x \div 2, 2^top * Bit(x, top)))

SWPB(m, op) ==
    set_result(m, op, HIGHBYTE(m.reg[op]) + 256 * LOWBYTE(m.reg[op]))

SXT(m, op) ==
    LET x   == m.reg[op]
        res == IF Bit(x, 7) = 1 THEN Or(x, 65280) ELSE LOWBYTE(x)
    IN  set_result(update_SR(m, Signs(0), 1, res), op, res)

PUSH(m, op) == Push(m, op)

CALL(m, op) ==
    LET s == Push(m, PC)
    IN  SetReg(s, PC, IF m.dst_mode \in {IDX, REL, ABS} THEN s.reg[TA] ELSE s.reg[op])

(* The conditions of the jumps stay as they were. *)
RETI(m, op) ==
    LET sr == Read(m, m.reg[SP], WordOp)
        s  == SetReg(SetReg(sr, SR, sr.MDR), SP, sr.reg[SP] + 2)
        pc == Read(s, s.reg[SP], WordOp)
    IN  SetReg(SetReg(pc, PC, pc.MDR), SP, pc.reg[SP] + 2)

Type1(m, op) ==
    CASE INST_T1(m) = 0 -> RRC(m, op)
      [] INST_T1(m) = 1 -> SWPB(m, op)
      [] INST_T1(m) = 2 -> RRA(m, op)
      [] INST_T1(m) = 3 -> SXT(m, op)
      [] INST_T1(m) = 4 -> PUSH(m, op)
      [] INST_T1(m) = 5 -> CALL(m, op)
      [] INST_T1(m) = 6 -> RETI(m, op)

-----------------------------------------------------------------------------
(* A jump adds its signed offset, in words, to the PC. *)

JMP(m) ==
    LET offset == IF Bit(m.ir, 9) = 1 THEN OFFSET_T3(m) - 1024 ELSE OFFSET_T3(m)
        target == m.reg[PC] + 2 * offset
    IN  IF m.condition_tbl[COND_T3(m) + 1]
        THEN SetReg(SetReg(m, TD1, target), PC, target)
        ELSE SetReg(m, TD1, OFFSET_T3(m))

-----------------------------------------------------------------------------
(* Two operands. *)

MOV(m, src, dst) == set_result(m, dst, m.reg[src])

Added(m, src, dst, res) ==
    set_result(update_SR(m, Signs(m.reg[src]), m.reg[dst], res), dst, res)

ADD(m, src, dst)  == Added(m, src, dst, Reg32(m.reg[src] + m.reg[dst]))
ADDC(m, src, dst) ==
    Added(m, src, dst, Reg32(m.reg[src] + m.reg[dst] + Bit(m.reg[SR], CARRY)))

Compared(m, src, dst, res) == update_SR(m, NotSigns(m.reg[src]), m.reg[dst], res)

Difference(m, src, dst) == Reg32(m.reg[dst] - m.reg[src])

SUB(m, src, dst) ==
    LET res == Difference(m, src, dst) IN set_result(Compared(m, src, dst, res), dst, res)

(* Mutant: without the borrow. *)
SubtractNoBorrow(m, src, dst) ==
    LET res == Difference(m, src, dst) IN set_result(Compared(m, src, dst, res), dst, res)

SUBC(m, src, dst) ==
    LET res == Reg32(m.reg[dst] - m.reg[src] - 1 + Bit(m.reg[SR], CARRY))
    IN  set_result(Compared(m, src, dst, res), dst, res)

CMP(m, src, dst) == Compared(m, src, dst, Difference(m, src, dst))

(* Decimal addition through text: the hexadecimal digits of the operands are  *)
(* read as decimal, and the decimal digits of the sum as hexadecimal. An      *)
(* operand with another digit, or a byte operation on more than two digits,   *)
(* is an error. The carry is not added.                                       *)
Nibble(x, i) == Field(x, 4 * i, 4)
Decimal(x)   == Nibble(x, 0) + 10 * Nibble(x, 1) + 100 * Nibble(x, 2) + 1000 * Nibble(x, 3)
Digits(x)    == \A i \in 0 .. 3 : Nibble(x, i) <= 9
AsHex(n)     == (n % 10) + 16 * ((n \div 10) % 10) + 256 * ((n \div 100) % 10)
                + 4096 * ((n \div 1000) % 10) + 65536 * (n \div 10000)

DADD(m, src, dst) ==
    LET s   == LOWWORD(m.reg[src])
        d   == LOWWORD(m.reg[dst])
        ok  == /\ Digits(s) /\ Digits(d)
               /\ BW_mode(m) = ByteOp => Decimal(s) <= 99 /\ Decimal(d) <= 99
    IN  IF ok THEN Added(m, src, dst, AsHex(Decimal(s) + Decimal(d))) ELSE error(m)

BIT(m, src, dst) ==
    update_SR(m, Signs(m.reg[src]), m.reg[dst], And(m.reg[src], m.reg[dst]))

BIC(m, src, dst) == set_result(m, dst, m.reg[dst] - And(m.reg[dst], m.reg[src]))
BIS(m, src, dst) == set_result(m, dst, Or(m.reg[src], m.reg[dst]))
XOR(m, src, dst) == Added(m, src, dst, Xor(m.reg[src], m.reg[dst]))
AND(m, src, dst) == Added(m, src, dst, And(m.reg[src], m.reg[dst]))

Type2(m, src, dst) ==
    CASE INST_T2(m) = 0  -> MOV(m, src, dst)
      [] INST_T2(m) = 1  -> ADD(m, src, dst)
      [] INST_T2(m) = 2  -> ADDC(m, src, dst)
      [] INST_T2(m) = 3  -> SUBC(m, src, dst)
      [] INST_T2(m) = 4  -> SUB(m, src, dst)
      [] INST_T2(m) = 5  -> CMP(m, src, dst)
      [] INST_T2(m) = 6  -> DADD(m, src, dst)
      [] INST_T2(m) = 7  -> BIT(m, src, dst)
      [] INST_T2(m) = 8  -> BIC(m, src, dst)
      [] INST_T2(m) = 9  -> BIS(m, src, dst)
      [] INST_T2(m) = 10 -> XOR(m, src, dst)
      [] INST_T2(m) = 11 -> AND(m, src, dst)
=============================================================================
