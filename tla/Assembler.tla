----------------------------- MODULE Assembler ------------------------------
(* The two-pass cross assembler. A source line is a record                    *)
(*   lbls   the tokens before the mnemonic that are neither instruction nor   *)
(*          directive                                                         *)
(*   kind   "instruction", a directive, or "none"                             *)
(*   name   the mnemonic; bw is 1 for its .B form                             *)
(*   src, dst  operands: the form they are written in, the symbol, and the    *)
(*          register of x(Rn)                                                 *)
(*   arg    the directive's argument: a numeral, or the bytes of a string     *)
(*   extra  something is left on the line after all this                      *)
EXTENDS SRecord

CONSTANTS
    Programs,   \* the source files: sequences of lines
    Num         \* numeral -> what it is worth, and what atoi makes of its
                \* digits when they are hexadecimal

Directives == {"ALIGN", "ASCII", "BSS", "BYTE", "END", "EQU", "ORG", "WORD"}

VARIABLES
    prog,    \* the source file
    phase,   \* "first", "second", "refused", "written"
    pos,     \* lines read in this pass
    a        \* the assembler's globals, see Init

asmVars == <<prog, phase, pos, a>>

-----------------------------------------------------------------------------
(* symbol_table.c: name -> value and type. *)

Symbol(v, t) == [value |-> v, type |-> t]

Register ==
    [r \in {"PC", "R0", "SP", "R1", "SR", "R2", "CG1", "R3", "CG2", "R4", "R5", "R6",
            "R7", "R8", "R9", "R10", "R11", "R12", "R13", "R14", "R15"} |->
        CASE r \in {"PC", "R0"} -> 0 [] r \in {"SP", "R1"} -> 1
          [] r \in {"SR", "R2", "CG1"} -> 2 [] r \in {"R3", "CG2"} -> 3
          [] r = "R4"  -> 4  [] r = "R5"  -> 5  [] r = "R6"  -> 6  [] r = "R7"  -> 7
          [] r = "R8"  -> 8  [] r = "R9"  -> 9  [] r = "R10" -> 10 [] r = "R11" -> 11
          [] r = "R12" -> 12 [] r = "R13" -> 13 [] r = "R14" -> 14 [] r = "R15" -> 15]

sym_tbl_init == [r \in DOMAIN Register |-> Symbol(Register[r], "REG")]

add_entry(s, n, v, t) ==
    [s EXCEPT !.sym_tbl = [x \in {n} \cup DOMAIN s.sym_tbl |->
                              IF x = n THEN Symbol(v, t) ELSE s.sym_tbl[x]]]

Known(s, n) == n \in DOMAIN s.sym_tbl
IsReg(s, n) == Known(s, n) /\ s.sym_tbl[n].type = "REG"

(* What an operand does for a symbol no line has mentioned: a numeral stands  *)
(* for itself, a name is a forward reference. 42 is RANDOM_VAL; an immediate  *)
(* operand puts 0, and neither is looked at until a line defines the name.    *)
Mention(s, n) ==
    IF Known(s, n) THEN s
    ELSE IF n \in DOMAIN Num THEN add_entry(s, n, Num[n].val, "IMM")
    ELSE add_entry(s, n, 42, "UNKNOWN")

(* INST_LIST: opcode and type (operands, 3 for a jump). *)
Double == {"MOV", "ADD", "ADDC", "SUBC", "SUB", "CMP", "DADD", "BIT", "BIC", "BIS",
           "XOR", "AND"}
Single == {"RRC", "SWPB", "RRA", "SXT", "PUSH", "CALL"}
Jump   == {"JNE", "JNZ", "JEQ", "JZ", "JNC", "JLO", "JC", "JHS", "JN", "JGE", "JL", "JMP"}

Opcode(n) ==
    CASE n = "MOV"  -> \h4000 [] n = "ADD"  -> \h5000 [] n = "ADDC" -> \h6000
      [] n = "SUBC" -> \h7000 [] n = "SUB"  -> \h8000 [] n = "CMP"  -> \h9000
      [] n = "DADD" -> \hA000 [] n = "BIT"  -> \hB000 [] n = "BIC"  -> \hC000
      [] n = "BIS"  -> \hD000 [] n = "XOR"  -> \hE000 [] n = "AND"  -> \hF000
      [] n = "RRC"  -> \h1000 [] n = "SWPB" -> \h1080 [] n = "RRA"  -> \h1100
      [] n = "SXT"  -> \h1180 [] n = "PUSH" -> \h1200 [] n = "CALL" -> \h1280
      [] n = "RETI" -> \h1300
      [] n \in {"JNE", "JNZ"} -> \h2000 [] n \in {"JEQ", "JZ"} -> \h2400
      [] n \in {"JNC", "JLO"} -> \h2800 [] n \in {"JC", "JHS"} -> \h2C00
      [] n = "JN"   -> \h3000 [] n = "JGE"  -> \h3400 [] n = "JL"   -> \h3800
      [] n = "JMP"  -> \h3C00

INST_LIST ==
    [n \in Double \cup Single \cup Jump \cup {"RETI"} |->
        <<Opcode(n),
          CASE n \in Double -> 2 [] n \in Single -> 1 [] n \in Jump -> 3
            [] OTHER -> 0>>]

opc(line)  == INST_LIST[line.name][1] + 64 * line.bw
Type(line) == INST_LIST[line.name][2]

-----------------------------------------------------------------------------
(* The lines the passes are given: the instructions are those of the table,   *)
(* the directives that take a number are given a numeral, and those that move *)
(* the location counter to a place or over a gap no negative one.             *)
WellFormed(line) ==
    /\ line.lbls \in Seq({line.lbls[l] : l \in DOMAIN line.lbls})
    /\ line.kind \in {"none", "instruction"} \cup Directives
    /\ line.kind = "instruction" => line.name \in DOMAIN INST_LIST /\ line.bw \in {0, 1}
    /\ line.kind = "ASCII" => line.arg \in Seq(0 .. 255)
    /\ line.kind \in {"BSS", "BYTE", "END", "EQU", "ORG", "WORD"}
          => line.arg \in DOMAIN Num
    /\ line.kind \in {"BSS", "ORG"} => Num[line.arg].val \in Nat

ASSUME NumAssumption == \A n \in DOMAIN Num : Num[n].val \in Int /\ Num[n].atoi \in Int

ASSUME ProgramsAssumption ==
    \A p \in Programs : /\ p \in Seq({p[k] : k \in DOMAIN p})
                        /\ \A k \in DOMAIN p : WellFormed(p[k])

-----------------------------------------------------------------------------
(* operand.c: the addressing mode of an operand, by the form it is written in *)

Extended == {"INDEXED", "RELATIVE", "ABSOLUTE", "IMMEDIATE"}

ind_operand(s, op) ==
    IF ~IsReg(s, op.name) THEN "BAD_MODE"
    ELSE IF op.form = "@Rn+" THEN "INDIRECT_INCR" ELSE "INDIRECT"

abs_operand(s, op) ==
    IF op.name \in DOMAIN Num \/ IsReg(s, op.name) THEN "BAD_MODE" ELSE "ABSOLUTE"

alpha_operand(s, op) == IF IsReg(s, op.name) THEN "REGISTER" ELSE "RELATIVE"

indexed_operand(s, op) == IF IsReg(s, op.reg) THEN "INDEXED" ELSE "BAD_MODE"

Mode(s, op) ==
    CASE op.form \in {"@Rn", "@Rn+"} -> ind_operand(s, op)
      [] op.form = "&"     -> abs_operand(s, op)
      [] op.form = "#"     -> "IMMEDIATE"
      [] op.form = "x(Rn)" -> indexed_operand(s, op)
      [] op.form = "alpha" -> alpha_operand(s, op)
      [] OTHER             -> "BAD_MODE"

(* Mutant: a jump's operand is counted as a word. *)
CountsJump(s, op, type) ==
    LET mode    == Mode(s, op)
        enters  == mode # "BAD_MODE" \/ op.form = "x(Rn)"
        entered == IF enters THEN Mention(s, op.name) ELSE s
    IN  IF mode \in Extended THEN [entered EXCEPT !.LC_cur = @ + 2] ELSE entered

(* mode_check: the symbol is entered and the word it will take is counted.    *)
(* A bad x(Rn) has entered x; a jump's operand takes no word.                 *)
mode_check(s, op, type) ==
    LET mode    == Mode(s, op)
        enters  == mode # "BAD_MODE" \/ op.form = "x(Rn)"
        entered == IF enters THEN Mention(s, op.name) ELSE s
        takes   == mode \in Extended /\ ~(mode = "RELATIVE" /\ type = 3)
    IN  IF takes THEN [entered EXCEPT !.LC_cur = @ + 2] ELSE entered

SrcOK(s, op, type) ==
    IF type = 3 THEN Mode(s, op) = "RELATIVE" ELSE Mode(s, op) # "BAD_MODE"

DstOK(s, op) == Mode(s, op) \in {"REGISTER", "INDEXED", "RELATIVE", "ABSOLUTE"}

Fail(s, when) == [s EXCEPT !.error_flag = @ \/ when]

get_operands(s, line) ==
    LET type == Type(line)
        one  == IF type >= 1
                THEN mode_check(Fail(s, ~SrcOK(s, line.src, type)), line.src, type)
                ELSE s
        two  == IF type = 2
                THEN mode_check(Fail(one, ~DstOK(one, line.dst)), line.dst, type)
                ELSE one
    IN  [two EXCEPT !.LC_cur = @ + 2]

-----------------------------------------------------------------------------
(* directive.c. Bytes go to the S-record in the second pass only. *)

Emit(s, byte) ==
    [s EXCEPT !.w = IF s.second_pass THEN emit_byte(@, byte, s.LC_cur) ELSE @,
              !.image = IF s.second_pass THEN Store(@, s.LC_cur, LOWBYTE(byte)) ELSE @,
              !.LC_cur = @ + 1]

EmitW(s, word) == Emit(Emit(s, LOWBYTE(word)), HIGHBYTE(word))

(* Mutant: the record goes on after a gap. *)
NoFlush(s) == s

Flush(s) == IF s.second_pass THEN [s EXCEPT !.w = output_Srec(@)] ELSE s

ALIGN(s) == IF s.LC_cur % 2 = 1 THEN Emit(s, 0) ELSE s

(* The first pass adds the length, the second emits the string char by char. *)
ASCII(s, chars) ==
    LET out[k \in 0 .. Len(chars)] ==
            IF k = 0 THEN s.w ELSE emit_byte(out[k - 1], chars[k], s.LC_cur + k - 1)
        bytes == [x \in s.LC_cur .. s.LC_cur + Len(chars) - 1 |->
                     LOWBYTE(chars[x - s.LC_cur + 1])]
    IN  [s EXCEPT !.w = IF s.second_pass THEN out[Len(chars)] ELSE @,
                  !.image = IF s.second_pass THEN Over(bytes, @) ELSE @,
                  !.LC_cur = @ + Len(chars)]

BSS(s, n) ==
    IF Num[n].val \in 0 .. 65535 - s.LC_cur
    THEN Flush([s EXCEPT !.LC_cur = @ + Num[n].val])
    ELSE Fail(s, TRUE)

(* BYTE and WORD accept a hexadecimal numeral that is too large if atoi reads *)
(* a small number in its digits. The second pass emits what atoi reads for    *)
(* BYTE, and 16 bits of the value for WORD.                                   *)
BYTE(s, n) ==
    IF Num[n].val <= 255 \/ Num[n].atoi <= 255
    THEN Emit(s, Num[n].atoi)
    ELSE Fail(s, TRUE)

WORD(s, n) ==
    IF Num[n].val <= 65535 \/ Num[n].atoi <= 65535
    THEN EmitW(s, LOWWORD(Num[n].val))
    ELSE Fail(s, TRUE)

END(s, n) ==
    [s EXCEPT !.end_flag = TRUE,
              !.PC_init = IF s.second_pass /\ Num[n].val <= 65535 THEN Num[n].val ELSE @]

NoLabel == "no label"

EQU(s, label, n) ==
    IF s.second_pass THEN s
    ELSE IF label = NoLabel THEN Fail(s, TRUE)
    ELSE add_entry(s, label, Num[n].val, "LABEL")

ORG(s, n) == Flush([s EXCEPT !.LC_cur = Num[n].val])

process_dir(s, line, label) ==
    CASE line.kind = "ALIGN" -> ALIGN(s)
      [] line.kind = "ASCII" -> ASCII(s, line.arg)
      [] line.kind = "BSS"   -> BSS(s, line.arg)
      [] line.kind = "BYTE"  -> BYTE(s, line.arg)
      [] line.kind = "END"   -> END(s, line.arg)
      [] line.kind = "EQU"   -> EQU(s, label, line.arg)
      [] line.kind = "ORG"   -> ORG(s, line.arg)
      [] line.kind = "WORD"  -> WORD(s, line.arg)

-----------------------------------------------------------------------------
(* record.c *)

(* A label is defined where it is met for the first time, or where it was     *)
(* only mentioned before.                                                     *)
Defines(s, l) == Known(s, l) => s.sym_tbl[l].type = "UNKNOWN"

(* The token that becomes the record's label, 0 when none does: never in the  *)
(* second pass. A numeral is no label.                                        *)
LabelAt(s, line) ==
    LET defs == {l \in DOMAIN line.lbls :
                    /\ Defines(s, line.lbls[l])
                    /\ \A k \in 1 .. l : line.lbls[k] \notin DOMAIN Num}
    IN  IF s.second_pass \/ defs = {} THEN 0 ELSE Min(defs)

Label(s, line) ==
    IF LabelAt(s, line) = 0 THEN NoLabel ELSE line.lbls[LabelAt(s, line)]

(* A token after the label, or one that starts with a digit, ends the line. *)
Malformed(s, line) ==
    /\ ~s.second_pass
    /\ \E l \in DOMAIN line.lbls :
          \/ line.lbls[l] \in DOMAIN Num
          \/ 0 < LabelAt(s, line) /\ LabelAt(s, line) < l

Labelled(s, line) ==
    LET l == Label(s, line)
        t == IF l = NoLabel THEN s ELSE add_entry(s, l, s.LC_old, "LABEL")
    IN  Fail(t, ~s.second_pass /\ line.lbls # << >> /\ LabelAt(s, line) # 1)

parse_record(s, line) ==
    LET t    == Labelled(s, line)
        more == Fail(t, line.extra /\ line.kind # "END")
    IN  IF Malformed(s, line) THEN Fail(t, TRUE)
        ELSE CASE line.kind = "none"        -> t
               [] line.kind = "instruction" -> get_operands(more, line)
               [] line.kind \in Directives  -> process_dir(more, line, Label(s, line))

As_val ==
    [mode \in {"REGISTER", "INDIRECT", "INDIRECT_INCR"} \cup Extended |->
        CASE mode = "REGISTER" -> 0
          [] mode \in {"INDEXED", "RELATIVE", "ABSOLUTE"} -> 1
          [] mode = "INDIRECT" -> 2
          [] mode \in {"INDIRECT_INCR", "IMMEDIATE"} -> 3]

RegOf(s, op) ==
    LET mode == Mode(s, op)
    IN  CASE mode = "INDEXED"                   -> s.sym_tbl[op.reg].value
          [] mode \in {"IMMEDIATE", "RELATIVE"} -> Register["PC"]
          [] mode = "ABSOLUTE"                  -> Register["SR"]
          [] OTHER                              -> s.sym_tbl[op.name].value

JumpDist(s, op) == s.sym_tbl[op.name].value - s.LC_old - 2
JumpOK(d)       == d \in -1024 .. 1022 /\ d % 2 = 0

(* The opcode with its fields set. A jump that is too far keeps offset 0: the *)
(* error it raises comes after the test that would stop the second pass.      *)
set_address(s, line) ==
    LET d == JumpDist(s, line.src)
    IN  CASE Type(line) = 0 -> opc(line)
          [] Type(line) = 1 -> opc(line) + 16 * As_val[Mode(s, line.src)]
                               + RegOf(s, line.src)
          [] Type(line) = 2 -> opc(line) + 16 * As_val[Mode(s, line.src)]
                               + 256 * RegOf(s, line.src)
                               + 128 * As_val[Mode(s, line.dst)]
                               + RegOf(s, line.dst)
          [] OTHER -> opc(line) + IF JumpOK(d) THEN (d \div 2) % 1024 ELSE 0

(* Mutant: relative to the word itself, not to what follows it. *)
ExtensionFromHere(s, op) ==
    LET value == s.sym_tbl[op.name].value
        mode  == Mode(s, op)
    IN  IF mode \notin Extended THEN s
        ELSE EmitW(s, LOWWORD(IF mode = "RELATIVE" THEN value - s.LC_cur ELSE value))

(* The word that follows for an operand: main() of mainline.c. *)
Extension(s, op) ==
    LET value == s.sym_tbl[op.name].value
        mode  == Mode(s, op)
    IN  IF mode \notin Extended THEN s
        ELSE EmitW(s, LOWWORD(IF mode = "RELATIVE" THEN value - (s.LC_cur + 2)
                              ELSE value))

(* emit_word is called with LC_old, which runs ahead from the line's address  *)
(* while LC_cur is already behind the instruction; the two meet at its end.   *)
EmitInstruction(s, line) ==
    LET at   == [s EXCEPT !.LC_cur = s.LC_old]
        code == EmitW(at, set_address(s, line))
        src  == IF Type(line) \in {1, 2} THEN Extension(code, line.src) ELSE code
        dst  == IF Type(line) = 2 THEN Extension(src, line.dst) ELSE src
    IN  [dst EXCEPT !.LC_old = dst.LC_cur, !.LC_cur = s.LC_cur]

-----------------------------------------------------------------------------
(* main() of mainline.c *)

asmInit ==
    /\ prog \in Programs
    /\ phase = "first"
    /\ pos = 0
    /\ a = [LC_cur      |-> 0,
            LC_old      |-> 0,
            second_pass |-> FALSE,
            error_flag  |-> FALSE,
            end_flag    |-> FALSE,
            PC_init     |-> 0,
            sym_tbl     |-> sym_tbl_init,
            w           |-> Srec_init,
            LCs         |-> << >>,      \* history: LC_old of the lines of pass 1
            image       |-> << >>]      \* history: address -> byte, as emitted

TooHigh(s) == s.LC_cur > 65535

More == pos < Len(prog) /\ ~a.end_flag

FirstPass ==
    /\ phase = "first"
    /\ More /\ ~TooHigh(a)
    /\ pos' = pos + 1
    /\ LET s == parse_record([a EXCEPT !.LC_old = a.LC_cur], prog[pos + 1])
       IN  a' = [Fail(s, TooHigh(s)) EXCEPT !.LCs = Append(@, a.LC_cur)]
    /\ UNCHANGED <<prog, phase>>

(* check_sym_tbl: whatever was mentioned has to be defined by now. *)
check_sym_tbl == \A n \in DOMAIN a.sym_tbl : a.sym_tbl[n].type # "UNKNOWN"

Rewind ==
    /\ phase = "first"
    /\ ~More \/ TooHigh(a)
    /\ IF check_sym_tbl /\ ~a.error_flag
       THEN /\ phase' = "second"
            /\ pos' = 0
            /\ a' = [a EXCEPT !.LC_cur = 0, !.second_pass = TRUE, !.end_flag = FALSE]
       ELSE /\ phase' = "refused"
            /\ UNCHANGED <<pos, a>>
    /\ UNCHANGED prog

SecondPass ==
    /\ phase = "second"
    /\ More
    /\ pos' = pos + 1
    /\ LET line == prog[pos + 1]
           s    == parse_record([a EXCEPT !.LC_old = a.LC_cur], line)
       IN  a' = IF line.kind = "instruction" THEN EmitInstruction(s, line) ELSE s
    /\ UNCHANGED <<prog, phase>>

Srec_s9 ==
    /\ phase = "second"
    /\ ~More
    /\ phase' = "written"
    /\ a' = [a EXCEPT !.w = output_Srec(@)]
    /\ UNCHANGED <<prog, pos>>

asmNext == FirstPass \/ Rewind \/ SecondPass \/ Srec_s9

asmSpec == asmInit /\ [][asmNext]_asmVars

-----------------------------------------------------------------------------
(* The second pass meets every line with the location counter the first pass  *)
(* gave it, and the code of an instruction ends where the counter says: the   *)
(* labels of the first pass name the addresses of the second.                 *)
PassesAgree ==
    phase = "second" =>
        /\ pos < Len(a.LCs) => a.LC_cur = a.LCs[pos + 1]
        /\ pos > 0 /\ prog[pos].kind = "instruction" => a.LC_old = a.LC_cur
=============================================================================
