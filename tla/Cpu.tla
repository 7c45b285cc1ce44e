-------------------------------- MODULE Cpu ---------------------------------
(* The machine of the MSP-430 emulator as one record m, and what CPU.c does   *)
(* with its registers, bus and memory:                                        *)
(*   reg  reg_tbl, the temporaries TA, TD1 and TD2 included                   *)
(*   mem  the bytes of memory written so far; the others are 0                *)
(*   ir, src_mode, dst_mode, condition_tbl, sys_clock, MDR  as in the code    *)
(*   wild an access went outside mem[]: what follows is not defined           *)
(* A bus cycle takes its address, width and direction as arguments; the code  *)
(* puts them into MAR and CTRL, which nothing else reads.                     *)
EXTENDS Words, Sequences, TLC

PC  == 0
SP  == 1
SR  == 2
TA  == 16
TD1 == 17
TD2 == 18
reg_file == 0 .. 18

WordOp == 0
ByteOp == 1

CARRY == 0    \* bits of the status register
NEG   == 2
GIE   == 3
C_OFF == 4
OVF   == 8

Flag(m, k)     == Bit(m.reg[SR], k) = 1
Clear(x, k)    == x - 2^k * Bit(x, k)
SetReg(m, r, v) == [m EXCEPT !.reg[r] = Reg32(v)]

-----------------------------------------------------------------------------
(* The instruction register. *)

INST_TYPE(m) == m.ir \div 8192            \* 0: one operand, 1: jump
INST_T1(m)   == Field(m.ir, 7, 3)
INST_T2(m)   == Field(m.ir, 12, 4) - 4
COND_T3(m)   == Field(m.ir, 10, 3)
OP_T1(m)     == Field(m.ir, 0, 4)
OFFSET_T3(m) == Field(m.ir, 0, 10)
SRC_T2(m)    == Field(m.ir, 8, 4)
DST_T2(m)    == Field(m.ir, 0, 4)
As_mode(m)   == Field(m.ir, 4, 2)
Ad_mode(m)   == Bit(m.ir, 7)
BW_mode(m)   == Bit(m.ir, 6)

DIR == 0
IDX == 1
REL == 2
ABS == 3
IND == 4
INC == 5
IMM == 6

ADDR_TBL(r, As) ==
    CASE As = 0 -> DIR
      [] As = 1 -> IF r = PC THEN REL ELSE IF r = SR THEN ABS ELSE IDX
      [] As = 2 -> IND
      [] As = 3 -> IF r = PC THEN IMM ELSE INC

-----------------------------------------------------------------------------
(* The bus. *)

At(mem, addr) == IF addr \in DOMAIN mem THEN mem[addr] ELSE 0

(* mem[65535] is the padding behind the array, which init_mem writes too. *)
Wild(m, addr, bw) == m.wild \/ addr + 1 - bw > 65535

Read(m, addr, bw) ==
    [m EXCEPT !.MDR = At(m.mem, addr)
                      + IF bw = WordOp THEN 256 * At(m.mem, addr + 1) ELSE 0,
              !.wild = Wild(m, addr, bw)]

Write(m, addr, bw, v) ==
    LET low  == Store(m.mem, addr, LOWBYTE(v))
        word == Store(low, addr + 1, HIGHBYTE(v))
    IN  [m EXCEPT !.MDR = v,
                  !.mem = IF Wild(m, addr, bw) THEN @
                          ELSE IF bw = WordOp THEN word ELSE low,
                  !.wild = Wild(m, addr, bw)]

fetch(m) ==
    LET r == Read(m, m.reg[PC], WordOp) IN SetReg(r, PC, r.reg[PC] + 2)

(* An operand from memory into TMP; its address stays in TA for set_result,   *)
(* except that INDIRECT, INCREMENT and IMMEDIATE leave TA as it was.          *)
fetch_op(m, TMP, mode, Rn) ==
    LET extended == fetch(m)
        ta   == extended.MDR + IF mode = ABS THEN 0 ELSE extended.reg[Rn]
        at   == IF mode \in {IDX, REL, ABS} THEN SetReg(extended, TA, ta) ELSE m
        from == IF mode \in {IDX, REL, ABS} THEN at.reg[TA] ELSE m.reg[Rn]
        got  == Read(at, from, BW_mode(m))
        step == IF mode = IMM \/ BW_mode(m) = WordOp THEN 2 ELSE 1
        set  == SetReg(got, TMP, got.MDR)
    IN  CASE mode = DIR          -> SetReg(m, TMP, m.reg[Rn])
          [] mode \in {INC, IMM} -> SetReg(set, Rn, set.reg[Rn] + step)
          [] OTHER               -> set

(* The result goes to a register, or to memory at TA when it is in TD2. *)
set_result(m, dst, res) ==
    LET s == SetReg(m, dst, LOWWORD(res))
    IN  IF dst # TD2 THEN s ELSE Write(s, s.reg[TA], BW_mode(m), s.reg[TD2])

Push(m, op) ==
    LET s == SetReg(m, SP, m.reg[SP] - 2) IN Write(s, s.reg[SP], WordOp, s.reg[op])

(* Mutant: interrupts go off before the status register is saved. *)
InterruptEarly(m, TMP, addr) ==
    LET off   == SetReg(m, SR, Clear(m.reg[SR], GIE))
        saved == Push(Push(off, PC), SR)
        read  == Read(SetReg(saved, TMP, addr), addr, WordOp)
    IN  SetReg(read, PC, read.MDR)

(* Calls the ISR named by the word at addr, with interrupts off: the common   *)
(* part of error() and of poll_dev().                                         *)
Interrupt(m, TMP, addr) ==
    LET saved == Push(Push(m, PC), SR)
        read  == Read(SetReg(saved, TMP, addr), addr, WordOp)
    IN  SetReg(SetReg(read, PC, read.MDR), SR, Clear(read.reg[SR], GIE))

error(m) == [Interrupt(m, TA, 65534) EXCEPT !.ir = 0]
=============================================================================
