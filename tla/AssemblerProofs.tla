--------------------------- MODULE AssemblerProofs ----------------------------
(* The two passes of the assembler give every line the same address, and      *)
(* their records stand for the bytes they emit, all of them in the 64K: for   *)
(* any source files and any numerals.                                         *)
EXTENDS Assembler, Arithmetic

(* The types of the globals that the location counter depends on.             *)
IsGlobals(s) ==
    s \in [LC_cur : Nat, LC_old : Nat, second_pass : BOOLEAN, error_flag : BOOLEAN,
           end_flag : BOOLEAN, PC_init : Int, sym_tbl : {s.sym_tbl},
           w : {s.w}, LCs : Seq(Nat), image : {s.image}]

(* The registers' names are registers, and no other name ever is.             *)
RegistersOnly(tbl) ==
    /\ DOMAIN Register \subseteq DOMAIN tbl
    /\ \A n \in DOMAIN tbl : tbl[n].type = "REG" <=> n \in DOMAIN Register

(* A symbol stands for a number. *)
Symbols(tbl) ==
    \A n \in DOMAIN tbl : /\ tbl[n].value \in Int
                          /\ tbl[n].type \in {"REG", "LABEL", "IMM", "UNKNOWN"}

(* The globals and the symbol table. *)
IsState(s) == IsGlobals(s) /\ RegistersOnly(s.sym_tbl) /\ Symbols(s.sym_tbl)

(* Nothing has been emitted. *)
Quiet(s, t) == t.w = s.w /\ t.image = s.image

(* What every operator of the assembler leaves alone of the globals.          *)
Carries(s, t) ==
    /\ IsState(t)
    /\ t.second_pass = s.second_pass
    /\ t.LC_old = s.LC_old
    /\ t.LCs = s.LCs
    /\ s.error_flag => t.error_flag
    /\ DOMAIN s.sym_tbl \subseteq DOMAIN t.sym_tbl
    /\ ~s.second_pass => Quiet(s, t)

(* One that raises no error and does not end the program. *)
Moves(s, t, lc) ==
    /\ Carries(s, t)
    /\ t.error_flag = s.error_flag
    /\ t.LC_cur = lc
    /\ t.end_flag = s.end_flag

(* The mode of an operand, by the registers alone. *)
RegsAlone == [sym_tbl |-> sym_tbl_init]

ModeOf(op) == Mode(RegsAlone, op)

(* The words a line takes after its opcode, and where the next one starts.    *)
Taken(op, type) ==
    IF ModeOf(op) \in Extended /\ ~(ModeOf(op) = "RELATIVE" /\ type = 3) THEN 2 ELSE 0

Size(line) ==
    2 + (IF Type(line) >= 1 THEN Taken(line.src, Type(line)) ELSE 0)
      + (IF Type(line) = 2 THEN Taken(line.dst, 2) ELSE 0)

Accepted(line, lc) ==
    /\ line.kind = "instruction" =>
          /\ Type(line) = 3 => ModeOf(line.src) = "RELATIVE"
          /\ Type(line) >= 1 => ModeOf(line.src) # "BAD_MODE"
          /\ Type(line) = 2 => ModeOf(line.dst) \in {"REGISTER", "INDEXED", "RELATIVE", "ABSOLUTE"}
    /\ line.kind = "BSS" => Num[line.arg].val \in 0 .. 65535 - lc
    /\ line.kind = "BYTE" => Num[line.arg].val <= 255 \/ Num[line.arg].atoi <= 255
    /\ line.kind = "WORD" => Num[line.arg].val <= 65535 \/ Num[line.arg].atoi <= 65535

After(line, lc) ==
    CASE line.kind = "instruction" -> lc + Size(line)
      [] line.kind = "ALIGN"       -> lc + (lc % 2)
      [] line.kind = "ASCII"       -> lc + Len(line.arg)
      [] line.kind = "BSS"         -> lc + Num[line.arg].val
      [] line.kind = "BYTE"        -> lc + 1
      [] line.kind = "WORD"        -> lc + 2
      [] line.kind = "ORG"         -> Num[line.arg].val
      [] OTHER                     -> lc

(* What a line does: without an error, it has been accepted; accepted, it     *)
(* leaves LC_cur where the next one starts.                                   *)
Reads(s, t, line) ==
    /\ Carries(s, t)
    /\ ~t.error_flag => ~s.error_flag /\ Accepted(line, s.LC_cur)
    /\ Accepted(line, s.LC_cur) => t.LC_cur = After(line, s.LC_cur)
    /\ t.end_flag = (s.end_flag \/ line.kind = "END")

(* What the first pass has found out of the lines it has read, if it has met  *)
(* no error: each is acceptable where it is, the next one starts where it     *)
(* ends, and none but the last ends the program.                              *)
Located(n) ==
    /\ 0 < n => a.LCs[1] = 0
    /\ \A k \in 1 .. n :
          /\ Accepted(prog[k], a.LCs[k])
          /\ k < n => /\ a.LCs[k + 1] = After(prog[k], a.LCs[k])
                      /\ prog[k].kind # "END"

AtLine(n, lc) ==
    IF n = 0 THEN lc = 0 ELSE lc = After(prog[n], a.LCs[n])

Ended(n) == n > 0 /\ prog[n].kind = "END"

FirstInv ==
    phase = "first" =>
        /\ ~a.second_pass
        /\ pos = Len(a.LCs)
        /\ ~a.error_flag => /\ ~TooHigh(a)
                            /\ Located(pos)
                            /\ AtLine(pos, a.LC_cur)
                            /\ a.end_flag <=> Ended(pos)

SecondInv ==
    phase = "second" =>
        /\ a.second_pass
        /\ pos <= Len(a.LCs)
        /\ Len(a.LCs) = Len(prog) \/ Ended(Len(a.LCs))
        /\ Located(Len(a.LCs))
        /\ AtLine(pos, a.LC_cur)
        /\ a.end_flag <=> Ended(pos)
        /\ pos > 0 /\ prog[pos].kind = "instruction" => a.LC_old = a.LC_cur

PassInv ==
    /\ prog \in Programs
    /\ pos \in 0 .. Len(prog)
    /\ IsState(a)
    /\ Len(a.LCs) <= Len(prog)
    /\ FirstInv
    /\ SecondInv

-----------------------------------------------------------------------------
(* The operators of the assembler, one by one. *)

(* Raising the error flag changes nothing else. *)
LEMMA FailCarries ==
    ASSUME NEW s, IsState(s), NEW when \in BOOLEAN
    PROVE  /\ Carries(s, Fail(s, when))
           /\ Fail(s, when).error_flag = (s.error_flag \/ when)
           /\ Fail(s, when).LC_cur = s.LC_cur
           /\ Fail(s, when).end_flag = s.end_flag
           /\ Fail(s, when).sym_tbl = s.sym_tbl
           /\ Quiet(s, Fail(s, when))
  BY DEF IsState, IsGlobals, Carries, Fail, Quiet

(* A name that is no register's is entered as something else than a register. *)
LEMMA EntryMoves ==
    ASSUME NEW s, IsState(s), NEW n, n \notin DOMAIN Register,
           NEW v \in Int, NEW t \in {"LABEL", "IMM", "UNKNOWN"}
    PROVE  /\ Moves(s, add_entry(s, n, v, t), s.LC_cur)
           /\ Quiet(s, add_entry(s, n, v, t))
           /\ n \in DOMAIN add_entry(s, n, v, t).sym_tbl
  <1> DEFINE tbl == [x \in {n} \cup DOMAIN s.sym_tbl |->
                       IF x = n THEN Symbol(v, t) ELSE s.sym_tbl[x]]
             e == [s EXCEPT !.sym_tbl = tbl]
  <1>1. /\ DOMAIN tbl = {n} \cup DOMAIN s.sym_tbl
        /\ \A x \in DOMAIN tbl : /\ tbl[x].type = IF x = n THEN t ELSE s.sym_tbl[x].type
                               /\ tbl[x].value = IF x = n THEN v ELSE s.sym_tbl[x].value
    BY DEF Symbol
  <1>2. RegistersOnly(tbl) /\ Symbols(tbl)
    <2> HIDE DEF tbl
    <2> QED BY <1>1 DEF RegistersOnly, Symbols, IsState
  <1>3. add_entry(s, n, v, t) = e
    BY DEF add_entry
  <1> HIDE DEF tbl
  <1>4. IsState(e)
    BY <1>2 DEF IsState, IsGlobals
  <1>5. /\ e.error_flag = s.error_flag /\ e.LC_cur = s.LC_cur /\ e.end_flag = s.end_flag
        /\ e.second_pass = s.second_pass /\ e.LC_old = s.LC_old /\ e.LCs = s.LCs
        /\ e.w = s.w /\ e.image = s.image /\ e.sym_tbl = tbl
    BY DEF IsState, IsGlobals
  <1> HIDE DEF e
  <1> QED BY <1>1, <1>3, <1>4, <1>5 DEF Carries, Moves, Quiet

(* The registers alone decide the mode of an operand. *)
LEMMA ModeByRegisters ==
    ASSUME NEW s, IsState(s), NEW op
    PROVE  Mode(s, op) = ModeOf(op)
  <1>1. \A n : IsReg(s, n) <=> n \in DOMAIN Register
    BY DEF IsReg, Known, IsState, RegistersOnly
  <1>2. \A n : IsReg(RegsAlone, n) <=> n \in DOMAIN Register
    BY DEF IsReg, Known, RegsAlone, sym_tbl_init, Symbol
  <1>3. \A n : IsReg(s, n) <=> IsReg(RegsAlone, n)
    BY <1>1, <1>2
  <1> QED
    BY <1>3 DEF ModeOf, Mode, ind_operand, abs_operand, alpha_operand, indexed_operand

WithOutput(s, nw, ni, lc) == [s EXCEPT !.w = nw, !.image = ni, !.LC_cur = lc]

(* The output may change, and LC_cur move: nothing else is touched. *)
LEMMA OutputMoves ==
    ASSUME NEW s, IsState(s), NEW lc \in Nat, NEW nw, NEW ni, NEW t,
           t = WithOutput(s, nw, ni, lc),
           ~s.second_pass => nw = s.w /\ ni = s.image
    PROVE  Moves(s, t, lc) /\ t.sym_tbl = s.sym_tbl /\ t.w = nw /\ t.image = ni
  <1>1. /\ t.error_flag = s.error_flag /\ t.LC_cur = lc /\ t.end_flag = s.end_flag
        /\ t.sym_tbl = s.sym_tbl /\ t.second_pass = s.second_pass
        /\ t.LC_old = s.LC_old /\ t.LCs = s.LCs /\ t.w = nw /\ t.image = ni
    BY DEF IsState, IsGlobals, WithOutput
  <1>2. IsGlobals(t)
    BY DEF IsState, IsGlobals, WithOutput
  <1> QED BY <1>1, <1>2 DEF IsState, Carries, Moves, Quiet

(* So may LC_cur alone. *)
LEMMA CounterMoves ==
    ASSUME NEW s, IsState(s), NEW lc \in Nat, NEW t, t = [s EXCEPT !.LC_cur = lc]
    PROVE  Moves(s, t, lc) /\ t.sym_tbl = s.sym_tbl /\ Quiet(s, t)
  <1>1. /\ t.error_flag = s.error_flag /\ t.LC_cur = lc /\ t.end_flag = s.end_flag
        /\ t.sym_tbl = s.sym_tbl /\ t.second_pass = s.second_pass
        /\ t.LC_old = s.LC_old /\ t.LCs = s.LCs /\ t.w = s.w /\ t.image = s.image
    BY DEF IsState, IsGlobals
  <1>2. IsGlobals(t)
    BY DEF IsState, IsGlobals
  <1> QED BY <1>1, <1>2 DEF IsState, Carries, Moves, Quiet

(* What two operators leave alone one after the other. *)
LEMMA CarriesOn ==
    ASSUME NEW s, NEW t, NEW u, Carries(s, t), Carries(t, u)
    PROVE  Carries(s, u)
  BY DEF Carries, Quiet

(* Two moves, one after the other. *)
LEMMA MovesOn ==
    ASSUME NEW s, NEW t, NEW u, NEW lc, NEW ld, Moves(s, t, lc), Moves(t, u, ld)
    PROVE  Moves(s, u, ld)
  BY DEF Moves, Carries, Quiet

(* The globals have their types, and what does nothing moves nothing. *)
LEMMA CounterIsNat ==
    ASSUME NEW s, IsState(s)
    PROVE  /\ s.LC_cur \in Nat /\ s.error_flag \in BOOLEAN
           /\ s.end_flag \in BOOLEAN /\ s.second_pass \in BOOLEAN
           /\ Moves(s, s, s.LC_cur) /\ Quiet(s, s)
  BY DEF IsState, IsGlobals, Moves, Carries, Quiet

-----------------------------------------------------------------------------
(* operand.c *)

(* Mentioning a symbol enters no register. *)
LEMMA MentionMoves ==
    ASSUME NEW s, IsState(s), NEW n
    PROVE  /\ Moves(s, Mention(s, n), s.LC_cur) /\ Quiet(s, Mention(s, n))
           /\ n \in DOMAIN Mention(s, n).sym_tbl
  <1>1. CASE n \in DOMAIN s.sym_tbl
    <2>1. Mention(s, n) = s
      BY <1>1 DEF Mention, Known
    <2> QED BY <1>1, <2>1, CounterIsNat
  <1>2. CASE n \notin DOMAIN s.sym_tbl
    <2>1. n \notin DOMAIN Register
      BY <1>2 DEF IsState, RegistersOnly
    <2>2. \/ n \in DOMAIN Num /\ Mention(s, n) = add_entry(s, n, Num[n].val, "IMM")
          \/ Mention(s, n) = add_entry(s, n, 42, "UNKNOWN")
      BY <1>2 DEF Mention, Known
    <2>3. n \in DOMAIN Num => Num[n].val \in Int
      BY NumAssumption
    <2> QED BY <2>1, <2>2, <2>3, EntryMoves
  <1> QED BY <1>1, <1>2

(* An operand enters no register, and moves LC_cur by the word it takes.      *)
LEMMA OperandMoves ==
    ASSUME NEW s, IsState(s), NEW op, NEW type
    PROVE  /\ Moves(s, mode_check(s, op, type), s.LC_cur + Taken(op, type))
           /\ Quiet(s, mode_check(s, op, type))
           /\ ModeOf(op) # "BAD_MODE" => op.name \in DOMAIN mode_check(s, op, type).sym_tbl
  <1> DEFINE e == IF Mode(s, op) # "BAD_MODE" \/ op.form = "x(Rn)"
                  THEN Mention(s, op.name) ELSE s
             r == mode_check(s, op, type)
  <1>1. /\ Moves(s, e, s.LC_cur) /\ Quiet(s, e)
        /\ ModeOf(op) # "BAD_MODE" => op.name \in DOMAIN e.sym_tbl
    BY MentionMoves, CounterIsNat, ModeByRegisters
  <1>2. r = IF Taken(op, type) = 2 THEN [e EXCEPT !.LC_cur = e.LC_cur + 2] ELSE e
    BY ModeByRegisters DEF mode_check, Taken
  <1> HIDE DEF e, r
  <1>3. IsState(e) /\ e.LC_cur = s.LC_cur /\ s.LC_cur \in Nat
    BY <1>1, CounterIsNat DEF Moves, Carries
  <1>4. CASE Taken(op, type) = 2
    <2>1. Moves(e, r, e.LC_cur + 2) /\ r.sym_tbl = e.sym_tbl /\ Quiet(e, r)
      BY <1>2, <1>3, <1>4, CounterMoves
    <2> QED BY <1>1, <1>3, <1>4, <2>1, MovesOn DEF r, Quiet
  <1>5. CASE Taken(op, type) # 2
    <2>1. Taken(op, type) = 0 /\ r = e
      BY <1>2, <1>5 DEF Taken
    <2> QED BY <1>1, <1>3, <2>1 DEF r
  <1> QED BY <1>4, <1>5

(* No instruction has more than two operands; a jump is the third kind. *)
LEMMA TypeRange ==
    ASSUME NEW line, line.name \in DOMAIN INST_LIST
    PROVE  Type(line) \in 0 .. 3
  BY DEF Type, INST_LIST

(* An instruction's operands move LC_cur by its size, none may be malformed,  *)
(* and their symbols are in the table from then on. *)
LEMMA InstructionReads ==
    ASSUME NEW s, IsState(s), NEW line, line.kind = "instruction",
           line.name \in DOMAIN INST_LIST
    PROVE  LET t == get_operands(s, line)
           IN  /\ Reads(s, t, line) /\ Quiet(s, t)
               /\ Accepted(line, s.LC_cur) =>
                     /\ Type(line) >= 1 => line.src.name \in DOMAIN t.sym_tbl
                     /\ Type(line) = 2 => line.dst.name \in DOMAIN t.sym_tbl
  <1> DEFINE type == Type(line)
             bad == ~SrcOK(s, line.src, type)
             fs  == Fail(s, bad)
             one == IF type >= 1 THEN mode_check(fs, line.src, type) ELSE s
             worse == ~DstOK(one, line.dst)
             fd  == Fail(one, worse)
             two == IF type = 2 THEN mode_check(fd, line.dst, type) ELSE one
             done == [two EXCEPT !.LC_cur = two.LC_cur + 2]
             ss == IF type >= 1 THEN Taken(line.src, type) ELSE 0
             ds == IF type = 2 THEN Taken(line.dst, type) ELSE 0
             good == Accepted(line, s.LC_cur)
  <1>1. type \in 0 .. 3
    BY TypeRange
  <1>2. ss \in Nat /\ ds \in Nat
    BY DEF Taken
  <1>4. bad \in BOOLEAN /\ worse \in BOOLEAN
    OBVIOUS
  <1>5. get_operands(s, line) = done
    BY DEF get_operands
  <1>6. /\ Size(line) = 2 + ss + ds
        /\ After(line, s.LC_cur) = s.LC_cur + Size(line)
    BY DEF Size, After
  <1>3. /\ type = 3 => (bad <=> ModeOf(line.src) # "RELATIVE")
        /\ type # 3 => (bad <=> ModeOf(line.src) = "BAD_MODE")
    BY ModeByRegisters DEF SrcOK
  <1>7. /\ Carries(s, fs) /\ fs.error_flag = (s.error_flag \/ bad)
        /\ fs.LC_cur = s.LC_cur /\ fs.end_flag = s.end_flag /\ Quiet(s, fs)
    BY <1>4, FailCarries
  <1>8. /\ Moves(fs, mode_check(fs, line.src, type), s.LC_cur + Taken(line.src, type))
        /\ Quiet(fs, mode_check(fs, line.src, type))
        /\ ModeOf(line.src) # "BAD_MODE"
              => line.src.name \in DOMAIN mode_check(fs, line.src, type).sym_tbl
    BY <1>7, OperandMoves DEF Carries
  <1>9. Moves(s, s, s.LC_cur) /\ Quiet(s, s)
    BY CounterIsNat
  <1>10. s.LC_cur \in Nat /\ s.error_flag \in BOOLEAN /\ s.end_flag \in BOOLEAN
    BY CounterIsNat
  <1> HIDE DEF type, bad, fs
  <1>11. /\ Carries(s, one) /\ one.LC_cur = s.LC_cur + ss /\ one.end_flag = s.end_flag
         /\ one.error_flag = (s.error_flag \/ (type >= 1 /\ bad))
         /\ Quiet(s, one)
         /\ type >= 1 /\ ModeOf(line.src) # "BAD_MODE" => line.src.name \in DOMAIN one.sym_tbl
    <2>1. CASE type >= 1
      <3>1. one = mode_check(fs, line.src, type) /\ ss = Taken(line.src, type)
        BY <2>1
      <3> HIDE DEF one
      <3>2. Carries(s, one) /\ Quiet(s, one)
        BY <1>7, <1>8, <3>1, CarriesOn DEF Moves, Quiet
      <3> QED BY <1>4, <1>7, <1>8, <2>1, <3>1, <3>2 DEF Moves
    <2>2. CASE type < 1
      <3>1. one = s /\ ss = 0 /\ ~(type >= 1)
        BY <1>1, <2>2
      <3> QED BY <1>9, <1>10, <2>2, <3>1 DEF Moves
    <2> QED BY <1>1, <2>1, <2>2
  <1>19. type = 2 => (worse <=> ModeOf(line.dst) \notin {"REGISTER", "INDEXED", "RELATIVE", "ABSOLUTE"})
    <2>1. Mode(one, line.dst) = ModeOf(line.dst)
      <3>1. IsState(one)
        BY <1>11 DEF Carries
      <3> HIDE DEF one
      <3> QED BY <3>1, ModeByRegisters
    <2> HIDE DEF one
    <2> QED BY <2>1 DEF DstOK
  <1> HIDE DEF one, worse, ss
  <1>12. /\ Carries(one, fd) /\ fd.error_flag = (one.error_flag \/ worse)
         /\ fd.LC_cur = one.LC_cur /\ fd.end_flag = one.end_flag
         /\ Quiet(one, fd)
    BY <1>4, <1>11, FailCarries DEF Carries
  <1>13. /\ Moves(fd, mode_check(fd, line.dst, type), one.LC_cur + Taken(line.dst, type))
         /\ Quiet(fd, mode_check(fd, line.dst, type))
         /\ ModeOf(line.dst) # "BAD_MODE"
              => line.dst.name \in DOMAIN mode_check(fd, line.dst, type).sym_tbl
    BY <1>12, OperandMoves DEF Carries
  <1> HIDE DEF fd
  <1>14. /\ Carries(one, two) /\ two.LC_cur = s.LC_cur + ss + ds /\ two.end_flag = s.end_flag
         /\ two.error_flag = (one.error_flag \/ (type = 2 /\ worse))
         /\ Quiet(one, two)
         /\ type = 2 /\ ModeOf(line.dst) # "BAD_MODE" => line.dst.name \in DOMAIN two.sym_tbl
    <2>1. CASE type = 2
      <3>1. two = mode_check(fd, line.dst, type) /\ ds = Taken(line.dst, type)
        BY <2>1
      <3> HIDE DEF two, ds
      <3>2. Carries(one, two) /\ Quiet(one, two)
        BY <1>12, <1>13, <3>1, CarriesOn DEF Moves, Quiet
      <3> QED BY <1>4, <1>11, <1>12, <1>13, <2>1, <3>1, <3>2 DEF Moves
    <2>2. CASE type # 2
      <3>1. two = one /\ ds = 0
        BY <2>2
      <3>2. one.LC_cur = s.LC_cur + ss + ds
        BY <1>2, <1>10, <1>11, <3>1
      <3>3. one.error_flag \in BOOLEAN /\ Carries(one, one) /\ Quiet(one, one)
        BY <1>11, CounterIsNat DEF Carries, Moves
      <3> QED BY <1>11, <2>2, <3>1, <3>2, <3>3
    <2> QED BY <2>1, <2>2
  <1> HIDE DEF two, ds
  <1>15. /\ Moves(two, done, s.LC_cur + Size(line)) /\ Quiet(two, done)
         /\ done.sym_tbl = two.sym_tbl
    <2>1. two.LC_cur + 2 \in Nat /\ two.LC_cur + 2 = s.LC_cur + Size(line)
      BY <1>2, <1>6, <1>10, <1>14
    <2>2. IsState(two)
      BY <1>14 DEF Carries
    <2> QED BY <2>1, <2>2, CounterMoves
  <1> HIDE DEF done
  <1>16. /\ Carries(s, done) /\ done.end_flag = s.end_flag
         /\ done.LC_cur = s.LC_cur + Size(line) /\ Quiet(s, done)
    BY <1>11, <1>14, <1>15, CarriesOn DEF Moves, Quiet
  <1>17. ~done.error_flag => ~s.error_flag /\ ~(type >= 1 /\ bad) /\ ~(type = 2 /\ worse)
    BY <1>11, <1>14, <1>15 DEF Moves
  <1>18. good <=> ~(type >= 1 /\ bad) /\ ~(type = 2 /\ worse)
    <2>1. good <=> /\ type = 3 => ModeOf(line.src) = "RELATIVE"
                   /\ type >= 1 => ModeOf(line.src) # "BAD_MODE"
                   /\ type = 2 => ModeOf(line.dst) \in {"REGISTER", "INDEXED", "RELATIVE", "ABSOLUTE"}
      BY DEF Accepted, type
    <2> HIDE DEF good
    <2> QED BY <1>1, <1>3, <1>19, <2>1
  <1>20. good => /\ type >= 1 => line.src.name \in DOMAIN done.sym_tbl
                 /\ type = 2 => line.dst.name \in DOMAIN done.sym_tbl
    <2>1. good => /\ type >= 1 => ModeOf(line.src) # "BAD_MODE"
                  /\ type = 2 => ModeOf(line.dst) # "BAD_MODE"
      BY DEF Accepted, type
    <2>2. DOMAIN one.sym_tbl \subseteq DOMAIN two.sym_tbl
      BY <1>14 DEF Carries
    <2> QED BY <1>11, <1>14, <1>15, <2>1, <2>2
  <1>21. done.end_flag = (s.end_flag \/ line.kind = "END")
    BY <1>10, <1>16
  <1> HIDE DEF good
  <1>22. Reads(s, done, line)
    BY <1>6, <1>16, <1>17, <1>18, <1>21 DEF Reads, good
  <1> QED BY <1>5, <1>16, <1>20, <1>22 DEF type, good

-----------------------------------------------------------------------------
(* directive.c *)

(* What is emitted moves LC_cur by a byte or by a word, in both passes.       *)
LEMMA EmitMoves ==
    ASSUME NEW s, IsState(s), NEW byte
    PROVE  LET t == Emit(s, byte)
           IN  /\ Moves(s, t, s.LC_cur + 1) /\ t.sym_tbl = s.sym_tbl
               /\ s.second_pass => /\ t.w = emit_byte(s.w, byte, s.LC_cur)
                                  /\ t.image = Store(s.image, s.LC_cur, LOWBYTE(byte))
  <1> DEFINE nw == IF s.second_pass THEN emit_byte(s.w, byte, s.LC_cur) ELSE s.w
             ni == IF s.second_pass THEN Store(s.image, s.LC_cur, LOWBYTE(byte)) ELSE s.image
  <1>1. Emit(s, byte) = WithOutput(s, nw, ni, s.LC_cur + 1)
    BY DEF Emit, WithOutput
  <1>2. s.LC_cur + 1 \in Nat /\ (~s.second_pass => nw = s.w /\ ni = s.image)
    BY CounterIsNat
  <1> HIDE DEF nw, ni
  <1> QED BY <1>1, <1>2, OutputMoves DEF nw, ni

(* A word is two bytes. *)
LEMMA EmitWordMoves ==
    ASSUME NEW s, IsState(s), NEW word
    PROVE  Moves(s, EmitW(s, word), s.LC_cur + 2) /\ EmitW(s, word).sym_tbl = s.sym_tbl
  <1> DEFINE e == Emit(s, LOWBYTE(word))
             f == Emit(e, HIGHBYTE(word))
  <1>1. Moves(s, e, s.LC_cur + 1) /\ e.sym_tbl = s.sym_tbl
    BY EmitMoves
  <1>2. Moves(e, f, e.LC_cur + 1) /\ f.sym_tbl = e.sym_tbl
    BY <1>1, EmitMoves DEF Moves, Carries
  <1>3. EmitW(s, word) = f
    BY DEF EmitW
  <1> HIDE DEF e, f
  <1>4. e.LC_cur + 1 = s.LC_cur + 2
    BY <1>1, CounterIsNat DEF Moves
  <1> QED BY <1>1, <1>2, <1>3, <1>4, MovesOn

(* Moving LC_cur to lc and writing the record out: BSS and ORG. *)
LEMMA GapMoves ==
    ASSUME NEW s, IsState(s), NEW lc \in Nat
    PROVE  LET t == Flush([s EXCEPT !.LC_cur = lc])
           IN  /\ Moves(s, t, lc)
               /\ s.second_pass => t.w = output_Srec(s.w) /\ t.image = s.image
  <1> DEFINE u == [s EXCEPT !.LC_cur = lc]
             t == Flush(u)
  <1>1. Moves(s, u, lc) /\ Quiet(s, u)
    BY CounterMoves
  <1> HIDE DEF u
  <1>2. IsState(u) /\ u.LC_cur = lc /\ u.second_pass = s.second_pass
    BY <1>1 DEF Moves, Carries
  <1>3. CASE u.second_pass
    <2>1. t = WithOutput(u, output_Srec(u.w), u.image, lc)
      BY <1>2, <1>3 DEF Flush, IsState, IsGlobals, WithOutput
    <2> HIDE DEF t
    <2>2. Moves(u, t, lc) /\ t.w = output_Srec(u.w) /\ t.image = u.image
      BY <1>2, <1>3, <2>1, OutputMoves
    <2>3. Moves(s, t, lc)
      BY <1>1, <2>2, MovesOn
    <2> QED BY <1>1, <1>2, <2>2, <2>3 DEF u, t, Quiet
  <1>4. CASE ~u.second_pass
    <2>1. t = u
      BY <1>4 DEF Flush
    <2> QED BY <1>1, <1>2, <1>4, <2>1 DEF u, t
  <1> QED BY <1>3, <1>4

(* A directive that is accepted leaves LC_cur where the next line starts.     *)
LEMMA DirectiveReads ==
    ASSUME NEW s, IsState(s), NEW line, WellFormed(line), line.kind \in Directives,
           NEW label, label # NoLabel => label \notin DOMAIN Register
    PROVE  Reads(s, process_dir(s, line, label), line)
  <1> DEFINE t == process_dir(s, line, label)
             lc == s.LC_cur
  <1>1. lc \in Nat /\ s.error_flag \in BOOLEAN /\ s.end_flag \in BOOLEAN
    BY CounterIsNat
  <1>2. \A u : line.kind # "END" /\ Accepted(line, lc) /\ Moves(s, u, After(line, lc))
                  => Reads(s, u, line)
    BY <1>1 DEF Moves, Reads
  <1>3. ~Accepted(line, lc) /\ line.kind # "END" => Reads(s, Fail(s, TRUE), line)
    BY <1>1, FailCarries DEF Reads
  <1>4. CASE line.kind = "ALIGN"
    <2>1. t = IF lc % 2 = 1 THEN Emit(s, 0) ELSE s
      BY <1>4 DEF process_dir, ALIGN
    <2>2. Accepted(line, lc) /\ After(line, lc) = lc + (lc % 2)
      BY <1>4 DEF Accepted, After
    <2>3. lc % 2 \in {0, 1}
      BY <1>1
    <2>4. Moves(s, Emit(s, 0), lc + 1) /\ Moves(s, s, lc)
      BY EmitMoves, CounterIsNat
    <2>5. lc % 2 = 0 => After(line, lc) = lc
      BY <1>1, <2>2
    <2> HIDE DEF lc
    <2> QED BY <1>2, <1>4, <2>1, <2>2, <2>3, <2>4, <2>5 DEF t
  <1>5. CASE line.kind = "ASCII"
    <2>1. line.arg \in Seq(0 .. 255)
      BY <1>5 DEF WellFormed
    <2>2. lc + Len(line.arg) \in Nat
      BY <1>1, <2>1, LenProperties
    <2> DEFINE nw == ASCII(s, line.arg).w
               ni == ASCII(s, line.arg).image
    <2>3. t = WithOutput(s, nw, ni, lc + Len(line.arg))
      BY <1>5 DEF process_dir, ASCII, WithOutput, IsState, IsGlobals
    <2>6. ~s.second_pass => nw = s.w /\ ni = s.image
      BY DEF ASCII, IsState, IsGlobals
    <2>4. Accepted(line, lc) /\ After(line, lc) = lc + Len(line.arg)
      BY <1>5 DEF Accepted, After
    <2> HIDE DEF t, nw, ni
    <2>5. Moves(s, t, lc + Len(line.arg))
      BY <2>2, <2>3, <2>6, OutputMoves
    <2> QED BY <1>2, <1>5, <2>4, <2>5 DEF t
  <1>6. CASE line.kind = "BSS"
    <2> DEFINE n == Num[line.arg].val
               gap == Flush([s EXCEPT !.LC_cur = lc + n])
               fits == n \in 0 .. 65535 - lc
    <2>1. n \in Nat
      BY <1>6 DEF WellFormed
    <2>2. Accepted(line, lc) <=> fits
      BY <1>6 DEF Accepted
    <2>3. After(line, lc) = lc + n
      BY <1>6 DEF After
    <2>4. t = IF fits THEN gap ELSE Fail(s, TRUE)
      BY <1>6 DEF process_dir, BSS
    <2>5. Moves(s, gap, lc + n)
      BY <1>1, <2>1, GapMoves
    <2> HIDE DEF n, gap, fits
    <2> QED BY <1>2, <1>3, <1>6, <2>2, <2>3, <2>4, <2>5
  <1>7. CASE line.kind = "BYTE"
    <2> DEFINE fits == Num[line.arg].val <= 255 \/ Num[line.arg].atoi <= 255
    <2>1. Accepted(line, lc) <=> fits
      BY <1>7 DEF Accepted
    <2>2. After(line, lc) = lc + 1
      BY <1>7 DEF After
    <2>3. t = IF fits THEN Emit(s, Num[line.arg].atoi) ELSE Fail(s, TRUE)
      BY <1>7 DEF process_dir, BYTE
    <2>4. Moves(s, Emit(s, Num[line.arg].atoi), lc + 1)
      BY EmitMoves
    <2> HIDE DEF fits
    <2> QED BY <1>2, <1>3, <1>7, <2>1, <2>2, <2>3, <2>4
  <1>8. CASE line.kind = "END"
    <2> DEFINE pc == IF s.second_pass /\ Num[line.arg].val <= 65535
                     THEN Num[line.arg].val ELSE s.PC_init
    <2>1. t = [s EXCEPT !.end_flag = TRUE, !.PC_init = pc]
      BY <1>8 DEF process_dir, END
    <2>2. Accepted(line, lc) /\ After(line, lc) = lc
      BY <1>8 DEF Accepted, After
    <2>6. pc \in Int
      BY <1>8, NumAssumption DEF WellFormed, IsState, IsGlobals
    <2> HIDE DEF t, pc
    <2>3. /\ t.error_flag = s.error_flag /\ t.LC_cur = lc /\ t.end_flag = TRUE
          /\ t.sym_tbl = s.sym_tbl /\ t.second_pass = s.second_pass
          /\ t.LC_old = s.LC_old /\ t.LCs = s.LCs /\ t.w = s.w /\ t.image = s.image
      BY <2>1 DEF IsState, IsGlobals
    <2>4. IsGlobals(t)
      BY <2>1, <2>6 DEF IsState, IsGlobals
    <2>5. Carries(s, t)
      BY <2>3, <2>4 DEF IsState, Carries, Quiet
    <2> QED BY <1>8, <2>2, <2>3, <2>5 DEF Reads, t
  <1>9. CASE line.kind = "EQU"
    <2>1. t = IF s.second_pass THEN s
              ELSE IF label = NoLabel THEN Fail(s, TRUE)
              ELSE add_entry(s, label, Num[line.arg].val, "LABEL")
      BY <1>9 DEF process_dir, EQU
    <2>2. Accepted(line, lc) /\ After(line, lc) = lc
      BY <1>9 DEF Accepted, After
    <2>3. Moves(s, s, lc)
      BY CounterIsNat
    <2>6. Num[line.arg].val \in Int
      BY <1>9, NumAssumption DEF WellFormed
    <2>4. label # NoLabel => Moves(s, add_entry(s, label, Num[line.arg].val, "LABEL"), lc)
      BY <2>6, EntryMoves
    <2>5. Reads(s, Fail(s, TRUE), line)
      BY <1>1, <1>9, <2>2, FailCarries DEF Reads
    <2> QED BY <1>2, <1>9, <2>1, <2>2, <2>3, <2>4, <2>5
  <1>10. CASE line.kind = "ORG"
    <2>1. Num[line.arg].val \in Nat
      BY <1>10 DEF WellFormed
    <2>2. Accepted(line, lc) /\ After(line, lc) = Num[line.arg].val
      BY <1>10 DEF Accepted, After
    <2>3. t = Flush([s EXCEPT !.LC_cur = Num[line.arg].val])
      BY <1>10 DEF process_dir, ORG
    <2>4. Moves(s, Flush([s EXCEPT !.LC_cur = Num[line.arg].val]), Num[line.arg].val)
      BY <2>1, GapMoves
    <2> QED BY <1>2, <1>10, <2>2, <2>3, <2>4
  <1>11. CASE line.kind = "WORD"
    <2> DEFINE fits == Num[line.arg].val <= 65535 \/ Num[line.arg].atoi <= 65535
    <2>1. Accepted(line, lc) <=> fits
      BY <1>11 DEF Accepted
    <2>2. After(line, lc) = lc + 2
      BY <1>11 DEF After
    <2>3. t = IF fits THEN EmitW(s, LOWWORD(Num[line.arg].val)) ELSE Fail(s, TRUE)
      BY <1>11 DEF process_dir, WORD
    <2>4. Moves(s, EmitW(s, LOWWORD(Num[line.arg].val)), lc + 2)
      BY EmitWordMoves
    <2> HIDE DEF fits
    <2> QED BY <1>2, <1>3, <1>11, <2>1, <2>2, <2>3, <2>4
  <1> HIDE DEF t
  <1>12. Reads(s, t, line)
    BY <1>4, <1>5, <1>6, <1>7, <1>8, <1>9, <1>10, <1>11 DEF Directives, t
  <1> QED BY <1>12 DEF t
-----------------------------------------------------------------------------
(* record.c *)

(* No register's name is ever taken for a label. *)
LEMMA LabelIsNoRegister ==
    ASSUME NEW s, IsState(s), NEW line, WellFormed(line)
    PROVE  Label(s, line) # NoLabel => Label(s, line) \notin DOMAIN Register
  <1> DEFINE ok(l) == /\ Defines(s, line.lbls[l])
                      /\ \A k \in 1 .. l : line.lbls[k] \notin DOMAIN Num
             defs == {l \in DOMAIN line.lbls : ok(l)}
             at == LabelAt(s, line)
  <1>1. at = IF s.second_pass \/ defs = {} THEN 0 ELSE Min(defs)
    BY DEF LabelAt
  <1>2. CASE at # 0
    <2>1. defs # {} /\ at = Min(defs)
      BY <1>1, <1>2
    <2>2. DOMAIN line.lbls \subseteq Nat
      BY DEF WellFormed
    <2>3. defs \in SUBSET Nat
      BY <2>2
    <2>4. \A l \in defs : Defines(s, line.lbls[l])
      OBVIOUS
    <2> HIDE DEF defs
    <2>5. \E l \in defs : \A k \in defs : l <= k
      BY <2>1, <2>3, LeastNat
    <2>6. Min(defs) \in defs
      BY <2>5 DEF Min
    <2>7. Defines(s, Label(s, line))
      BY <1>2, <2>1, <2>4, <2>6 DEF Label
    <2> QED BY <2>7 DEF Defines, Known, IsState, RegistersOnly
  <1>3. CASE at = 0
    BY <1>3 DEF Label
  <1> QED BY <1>2, <1>3

(* A label moves nothing. *)
LEMMA LabelledCarries ==
    ASSUME NEW s, IsState(s), NEW line, WellFormed(line)
    PROVE  LET t == Labelled(s, line)
           IN  /\ Carries(s, t)
               /\ t.LC_cur = s.LC_cur /\ t.end_flag = s.end_flag
               /\ s.second_pass => t = s
  <1> DEFINE l == Label(s, line)
             t == IF l = NoLabel THEN s ELSE add_entry(s, l, s.LC_old, "LABEL")
             bad == ~s.second_pass /\ line.lbls # << >> /\ LabelAt(s, line) # 1
             u == Fail(t, bad)
  <1>1. Moves(s, t, s.LC_cur)
    <2>1. CASE l = NoLabel
      BY <2>1, CounterIsNat
    <2>2. CASE l # NoLabel
      <3>1. s.LC_old \in Int
        BY DEF IsState, IsGlobals
      <3> QED BY <2>2, <3>1, LabelIsNoRegister, EntryMoves
    <2> QED BY <2>1, <2>2
  <1>2. bad \in BOOLEAN
    BY CounterIsNat
  <1>3. s.second_pass => t = s /\ ~bad
    BY DEF Label, LabelAt
  <1>4. Labelled(s, line) = u
    BY DEF Labelled
  <1> HIDE DEF t, bad
  <1>5. /\ Carries(t, u) /\ u.LC_cur = t.LC_cur /\ u.end_flag = t.end_flag
        /\ u.error_flag = (t.error_flag \/ bad)
    BY <1>1, <1>2, FailCarries DEF Moves, Carries
  <1>6. s.second_pass => u = s
    <2>1. s.error_flag \in BOOLEAN
      BY CounterIsNat
    <2>2. s.second_pass => u = [s EXCEPT !.error_flag = s.error_flag]
      BY <1>3, <2>1 DEF Fail
    <2> QED BY <2>2 DEF IsState, IsGlobals
  <1> HIDE DEF u
  <1>7. Carries(s, u) /\ u.LC_cur = s.LC_cur /\ u.end_flag = s.end_flag
    BY <1>1, <1>5, CarriesOn DEF Moves
  <1> QED BY <1>4, <1>6, <1>7

(* A line that is read without an error has been accepted; one that has been  *)
(* accepted is in both passes followed by the same address.                   *)
LEMMA LineReads ==
    ASSUME NEW s, IsState(s), NEW line, WellFormed(line)
    PROVE  LET t == parse_record(s, line)
           IN  /\ Carries(s, t)
               /\ ~t.error_flag => ~s.error_flag /\ Accepted(line, s.LC_cur)
               /\ s.second_pass \/ ~t.error_flag => Reads(s, t, line)
  <1> DEFINE u == Labelled(s, line)
             more == Fail(u, line.extra /\ line.kind # "END")
             t == parse_record(s, line)
             bad == line.extra /\ line.kind # "END"
  <1>1. /\ Carries(s, u) /\ u.LC_cur = s.LC_cur /\ u.end_flag = s.end_flag
        /\ s.second_pass => u = s
    BY LabelledCarries
  <1> HIDE DEF u
  <1>2. IsState(u)
    BY <1>1 DEF Carries
  <1>3. bad \in BOOLEAN
    OBVIOUS
  <1>4. /\ Carries(u, more) /\ more.LC_cur = u.LC_cur /\ more.end_flag = u.end_flag
        /\ more.error_flag = (u.error_flag \/ bad)
    BY <1>2, <1>3, FailCarries
  <1>5. Carries(s, more) /\ more.LC_cur = s.LC_cur /\ more.end_flag = s.end_flag
    BY <1>1, <1>4, CarriesOn
  <1> HIDE DEF more
  <1>6. ASSUME NEW r, Reads(more, r, line) PROVE Reads(s, r, line)
    <2>1. Carries(s, r)
      BY <1>5, <1>6, CarriesOn DEF Reads
    <2>2. s.error_flag => more.error_flag
      BY <1>5 DEF Carries
    <2> QED BY <1>5, <1>6, <2>1, <2>2 DEF Reads
  <1>7. CASE Malformed(s, line)
    <2>1. t = Fail(u, TRUE)
      BY <1>7 DEF parse_record, u
    <2>2. Carries(u, Fail(u, TRUE)) /\ Fail(u, TRUE).error_flag = (u.error_flag \/ TRUE)
      BY <1>2, FailCarries
    <2>3. ~s.second_pass
      BY <1>7 DEF Malformed
    <2> HIDE DEF t
    <2>4. Carries(s, t)
      BY <1>1, <2>1, <2>2, CarriesOn
    <2>5. t.error_flag
      BY <2>1, <2>2
    <2> QED BY <2>3, <2>4, <2>5 DEF t
  <1>8. CASE ~Malformed(s, line)
    <2>1. Reads(s, t, line)
      <3>1. CASE line.kind = "none"
        <4>1. t = u
          BY <1>8, <3>1 DEF parse_record, Directives, u
        <4>2. Accepted(line, s.LC_cur) /\ After(line, s.LC_cur) = s.LC_cur
          BY <3>1 DEF Accepted, After
        <4>3. u.end_flag = (s.end_flag \/ line.kind = "END")
          BY <1>1, <3>1, CounterIsNat
        <4>4. ~u.error_flag => ~s.error_flag
          BY <1>1 DEF Carries
        <4> HIDE DEF t
        <4>5. Reads(s, u, line)
          BY <1>1, <4>2, <4>3, <4>4 DEF Reads
        <4> QED BY <4>1, <4>5
      <3>2. CASE line.kind = "instruction"
        <4>1. t = get_operands(more, line)
          BY <1>8, <3>2 DEF parse_record, Directives, u, more
        <4>2. IsState(more) /\ line.name \in DOMAIN INST_LIST
          BY <1>5, <3>2 DEF Carries, WellFormed
        <4> HIDE DEF t
        <4> QED BY <1>6, <3>2, <4>1, <4>2, InstructionReads
      <3>3. CASE line.kind \in Directives
        <4>1. line.kind # "none" /\ line.kind # "instruction"
          BY <3>3 DEF Directives
        <4>2. t = process_dir(more, line, Label(s, line))
          BY <1>8, <3>3, <4>1 DEF parse_record, u, more
        <4>3. IsState(more)
          BY <1>5 DEF Carries
        <4> HIDE DEF t
        <4> QED BY <1>6, <3>3, <4>2, <4>3, LabelIsNoRegister, DirectiveReads
      <3> QED BY <3>1, <3>2, <3>3 DEF WellFormed
    <2> HIDE DEF t
    <2> QED BY <2>1 DEF Reads, t
  <1> QED BY <1>7, <1>8
-----------------------------------------------------------------------------
(* mainline.c: the code of an instruction *)

(* The extension word of an operand moves LC_cur by what the operand takes. *)
LEMMA ExtensionMoves ==
    ASSUME NEW s, IsState(s), NEW op
    PROVE  Moves(s, Extension(s, op),
                 s.LC_cur + IF ModeOf(op) \in Extended THEN 2 ELSE 0)
  <1>1. Mode(s, op) = ModeOf(op)
    BY ModeByRegisters
  <1>2. CASE ModeOf(op) \in Extended
    <2> DEFINE word == LOWWORD(IF Mode(s, op) = "RELATIVE"
                               THEN s.sym_tbl[op.name].value - (s.LC_cur + 2)
                               ELSE s.sym_tbl[op.name].value)
    <2>1. Extension(s, op) = EmitW(s, word)
      BY <1>1, <1>2 DEF Extension
    <2> HIDE DEF word
    <2> QED BY <1>2, <2>1, EmitWordMoves
  <1>3. CASE ModeOf(op) \notin Extended
    <2>1. Extension(s, op) = s
      BY <1>1, <1>3 DEF Extension
    <2>2. s.LC_cur + 0 = s.LC_cur
      BY CounterIsNat
    <2> QED BY <1>3, <2>1, <2>2, CounterIsNat
  <1> QED BY <1>2, <1>3

(* The code fills exactly the line: LC_old meets LC_cur at its end.           *)
LEMMA InstructionFills ==
    ASSUME NEW s, IsState(s), NEW line, line.name \in DOMAIN INST_LIST,
           Type(line) = 3 => ModeOf(line.src) = "RELATIVE",
           s.LC_cur = s.LC_old + Size(line)
    PROVE  LET t == EmitInstruction(s, line)
           IN  /\ IsState(t) /\ t.LC_cur = s.LC_cur /\ t.LC_old = s.LC_cur
               /\ t.LCs = s.LCs /\ t.end_flag = s.end_flag
               /\ t.second_pass = s.second_pass
  <1> DEFINE at   == [s EXCEPT !.LC_cur = s.LC_old]
             code == EmitW(at, set_address(s, line))
             src  == IF Type(line) \in {1, 2} THEN Extension(code, line.src) ELSE code
             dst  == IF Type(line) = 2 THEN Extension(src, line.dst) ELSE src
             t    == [dst EXCEPT !.LC_old = dst.LC_cur, !.LC_cur = s.LC_cur]
             Word(op) == IF ModeOf(op) \in Extended THEN 2 ELSE 0
             ss == IF Type(line) \in {1, 2} THEN Word(line.src) ELSE 0
             ds == IF Type(line) = 2 THEN Word(line.dst) ELSE 0
             lc == s.LC_old
  <1>1. lc \in Nat
    BY DEF IsState, IsGlobals
  <1>2. Moves(s, at, lc)
    BY <1>1, CounterMoves
  <1>3. EmitInstruction(s, line) = t
    BY DEF EmitInstruction
  <1>4. ss \in Nat /\ ds \in Nat /\ Size(line) = 2 + ss + ds
    BY TypeRange DEF Size, Taken, Extended
  <1> HIDE DEF at
  <1>5. Moves(at, code, lc + 2)
    BY <1>2, EmitWordMoves DEF Moves, Carries
  <1>6. Moves(s, code, lc + 2)
    BY <1>2, <1>5, MovesOn
  <1> HIDE DEF code
  <1>7. IsState(code) /\ code.LC_cur = lc + 2
    BY <1>6 DEF Moves, Carries
  <1>8. Moves(s, src, lc + 2 + ss)
    <2>1. CASE Type(line) \in {1, 2}
      <3>1. Moves(code, Extension(code, line.src), code.LC_cur + Word(line.src))
        BY <1>7, ExtensionMoves
      <3>2. Moves(code, src, lc + 2 + ss)
        BY <1>7, <2>1, <3>1
      <3> HIDE DEF src
      <3> QED BY <1>6, <3>2, MovesOn
    <2>2. CASE Type(line) \notin {1, 2}
      <3>1. src = code /\ lc + 2 = lc + 2 + ss
        BY <1>1, <2>2
      <3> QED BY <1>6, <3>1
    <2> QED BY <2>1, <2>2
  <1> HIDE DEF src
  <1>9. IsState(src) /\ src.LC_cur = lc + 2 + ss
    BY <1>8 DEF Moves, Carries
  <1>10. Moves(s, dst, lc + 2 + ss + ds)
    <2>1. CASE Type(line) = 2
      <3>1. Moves(src, Extension(src, line.dst), src.LC_cur + Word(line.dst))
        BY <1>9, ExtensionMoves
      <3>2. Moves(src, dst, lc + 2 + ss + ds)
        BY <1>9, <2>1, <3>1
      <3> HIDE DEF dst
      <3> QED BY <1>8, <3>2, MovesOn
    <2>2. CASE Type(line) # 2
      <3>1. dst = src /\ ds = 0
        BY <2>2
      <3>2. lc + 2 + ss = lc + 2 + ss + ds
        BY <1>1, <1>4, <3>1
      <3> QED BY <1>8, <3>1, <3>2
    <2> QED BY <2>1, <2>2
  <1> HIDE DEF dst, ss, ds
  <1>11. IsState(dst) /\ dst.LC_cur = s.LC_cur /\ s.LC_cur \in Nat
    BY <1>1, <1>4, <1>10, CounterIsNat DEF Moves, Carries
  <1>12. IsGlobals(t)
    BY <1>11 DEF IsState, IsGlobals
  <1>13. /\ t.LC_old = s.LC_cur /\ t.LC_cur = s.LC_cur /\ t.LCs = dst.LCs
         /\ t.end_flag = dst.end_flag /\ t.second_pass = dst.second_pass
         /\ t.sym_tbl = dst.sym_tbl
    BY <1>11 DEF IsState, IsGlobals
  <1> HIDE DEF t
  <1>14. IsState(t)
    BY <1>11, <1>12, <1>13 DEF IsState
  <1> QED BY <1>3, <1>10, <1>13, <1>14 DEF Moves, Carries

-----------------------------------------------------------------------------
(* main(): the two passes *)

(* Before the first line, every claim about lines is about none. *)
LEMMA InitPasses == asmInit => PassInv
  <1> SUFFICES ASSUME asmInit PROVE PassInv
    OBVIOUS
  <1>1. a.LC_cur = 0 /\ a.LCs = << >> /\ ~a.second_pass /\ a.end_flag = FALSE
    BY DEF asmInit
  <1>2. IsGlobals(a)
    BY DEF asmInit, IsGlobals
  <1>3. RegistersOnly(a.sym_tbl)
    BY DEF asmInit, RegistersOnly, sym_tbl_init, Symbol
  <1>8. Symbols(a.sym_tbl)
    <2>1. \A r \in DOMAIN Register : Register[r] \in 0 .. 15
      BY DEF Register
    <2>2. a.sym_tbl = [r \in DOMAIN Register |-> Symbol(Register[r], "REG")]
      BY DEF asmInit, sym_tbl_init
    <2> QED BY <2>1, <2>2 DEF Symbols, Symbol
  <1>4. prog \in Programs /\ pos = 0 /\ phase = "first"
    BY DEF asmInit
  <1>5. Len(prog) \in Nat
    BY <1>4, ProgramsAssumption, LenProperties
  <1>6. FirstInv
    BY <1>1, <1>4 DEF FirstInv, Located, AtLine, Ended, TooHigh
  <1>7. SecondInv
    BY <1>4 DEF SecondInv
  <1> QED BY <1>1, <1>2, <1>3, <1>4, <1>5, <1>6, <1>7, <1>8 DEF PassInv, IsState

(* The line that is read next. *)
LEMMA NextLine ==
    ASSUME PassInv, More
    PROVE  /\ Len(prog) \in Nat /\ pos + 1 \in 1 .. Len(prog)
           /\ WellFormed(prog[pos + 1])
           /\ LET s == [a EXCEPT !.LC_old = a.LC_cur]
              IN  /\ IsState(s) /\ s.LC_cur = a.LC_cur /\ s.LC_old = a.LC_cur
                  /\ s.LCs = a.LCs /\ s.second_pass = a.second_pass
                  /\ s.error_flag = a.error_flag /\ s.end_flag = a.end_flag
  <1> DEFINE s == [a EXCEPT !.LC_old = a.LC_cur]
  <1>1. Len(prog) \in Nat /\ DOMAIN prog = 1 .. Len(prog)
    BY ProgramsAssumption, LenProperties DEF PassInv
  <1>2. pos + 1 \in 1 .. Len(prog)
    BY <1>1 DEF PassInv, More
  <1>3. WellFormed(prog[pos + 1])
    BY <1>1, <1>2, ProgramsAssumption DEF PassInv
  <1>4. IsState(a)
    BY DEF PassInv
  <1>5. IsGlobals(s)
    BY <1>4 DEF IsState, IsGlobals
  <1>6. /\ s.LC_cur = a.LC_cur /\ s.LC_old = a.LC_cur /\ s.LCs = a.LCs
        /\ s.second_pass = a.second_pass /\ s.error_flag = a.error_flag
        /\ s.end_flag = a.end_flag /\ s.sym_tbl = a.sym_tbl
    BY <1>4 DEF IsState, IsGlobals
  <1> HIDE DEF s
  <1> QED BY <1>1, <1>2, <1>3, <1>4, <1>5, <1>6 DEF IsState, s

(* A line of the first pass: its address is on record, and what it leaves     *)
(* behind is where the next one starts.                                       *)
LEMMA FirstPassKeeps ==
    ASSUME PassInv, FirstPass
    PROVE  PassInv'
  <1> DEFINE n == pos + 1
             line == prog[n]
             s == [a EXCEPT !.LC_old = a.LC_cur]
             t == parse_record(s, line)
             u == Fail(t, TooHigh(t))
             lc == a.LC_cur
  <1>1. /\ phase = "first" /\ More /\ pos' = n /\ prog' = prog /\ phase' = phase
        /\ a' = [u EXCEPT !.LCs = Append(u.LCs, lc)]
    BY DEF FirstPass
  <1>2. /\ Len(prog) \in Nat /\ n \in 1 .. Len(prog) /\ WellFormed(line)
        /\ IsState(s) /\ s.LC_cur = lc /\ s.LCs = a.LCs /\ s.second_pass = a.second_pass
        /\ s.error_flag = a.error_flag /\ s.end_flag = a.end_flag
    BY <1>1, NextLine
  <1>3. /\ ~a.second_pass /\ pos = Len(a.LCs) /\ ~a.end_flag
        /\ ~a.error_flag => Located(pos) /\ AtLine(pos, lc) /\ ~Ended(pos)
    BY <1>1 DEF PassInv, FirstInv, More
  <1>4. lc \in Nat /\ a.LCs \in Seq(Nat) /\ pos \in Nat
    BY <1>3, LenProperties DEF PassInv, IsState, IsGlobals
  <1> HIDE DEF s, line
  <1>5. /\ Carries(s, t)
        /\ ~t.error_flag => /\ ~s.error_flag /\ Accepted(line, lc)
                            /\ t.LC_cur = After(line, lc)
                            /\ t.end_flag = (s.end_flag \/ line.kind = "END")
    BY <1>2, LineReads DEF Reads
  <1> HIDE DEF t
  <1>6. TooHigh(t) \in BOOLEAN
    BY DEF TooHigh
  <1>7. /\ Carries(t, u) /\ u.error_flag = (t.error_flag \/ TooHigh(t))
        /\ u.LC_cur = t.LC_cur /\ u.end_flag = t.end_flag
    BY <1>5, <1>6, FailCarries DEF Carries
  <1> HIDE DEF u
  <1>8. /\ IsState(u) /\ u.LCs = a.LCs /\ ~u.second_pass
    BY <1>2, <1>3, <1>5, <1>7 DEF Carries
  <1>9. /\ a'.LC_cur = u.LC_cur /\ a'.second_pass = u.second_pass
        /\ a'.error_flag = u.error_flag /\ a'.end_flag = u.end_flag
        /\ a'.sym_tbl = u.sym_tbl /\ a'.LCs = Append(a.LCs, lc)
    BY <1>1, <1>8 DEF IsState, IsGlobals
  <1>10. Append(a.LCs, lc) \in Seq(Nat)
    BY <1>4, AppendProperties
  <1>11. IsState(a)'
    <2>1. IsGlobals(a')
      BY <1>1, <1>8, <1>10 DEF IsState, IsGlobals
    <2> QED BY <1>8, <1>9, <2>1 DEF IsState
  <1>12. /\ Len(a'.LCs) = n /\ a'.LCs[n] = lc
         /\ \A k \in 1 .. pos : a'.LCs[k] = a.LCs[k]
    BY <1>3, <1>4, <1>9, AppendProperties, LenProperties
  <1>13. FirstInv'
    <2>1. ASSUME ~a'.error_flag
          PROVE  /\ ~TooHigh(a)' /\ Located(pos)' /\ AtLine(pos, a.LC_cur)'
                 /\ a'.end_flag <=> Ended(pos)'
      <3>1. /\ ~t.error_flag /\ ~TooHigh(t) /\ ~a.error_flag
            /\ a'.LC_cur = After(line, lc) /\ a'.end_flag = (line.kind = "END")
        BY <1>2, <1>3, <1>5, <1>6, <1>7, <1>9, <2>1
      <3>2. ~TooHigh(a')
        BY <1>7, <1>9, <3>1 DEF TooHigh
      <3>3. Located(pos) /\ AtLine(pos, lc) /\ ~Ended(pos)
        BY <1>3, <3>1
      <3>4. a'.LCs[1] = 0
        BY <1>4, <1>12, <3>3 DEF Located, AtLine
      <3>5. ASSUME NEW k \in 1 .. n
            PROVE  /\ Accepted(prog[k], a'.LCs[k])
                   /\ k < n => /\ a'.LCs[k + 1] = After(prog[k], a'.LCs[k])
                               /\ prog[k].kind # "END"
        <4>1. CASE k = n
          BY <1>4, <1>5, <1>12, <3>1, <4>1 DEF line
        <4>2. CASE k = pos
          BY <1>4, <1>12, <3>3, <4>2 DEF Located, AtLine, Ended
        <4>3. CASE k < pos
          <5>1. k \in 1 .. pos /\ k + 1 \in 1 .. pos
            BY <1>4, <4>3
          <5> QED BY <1>12, <3>3, <4>3, <5>1 DEF Located
        <4> QED BY <1>4, <4>1, <4>2, <4>3
      <3>6. Located(pos)'
        BY <1>1, <3>4, <3>5 DEF Located
      <3>7. AtLine(pos, a.LC_cur)'
        BY <1>1, <1>4, <1>12, <3>1 DEF AtLine, line
      <3>8. a'.end_flag <=> Ended(pos)'
        <4>1. Ended(pos)' <=> line.kind = "END"
          BY <1>1, <1>4 DEF Ended, line
        <4> QED BY <3>1, <4>1
      <3> QED BY <3>2, <3>6, <3>7, <3>8 DEF TooHigh
    <2> QED BY <1>1, <1>8, <1>9, <1>12, <2>1 DEF FirstInv
  <1>14. SecondInv'
    BY <1>1 DEF SecondInv
  <1> QED BY <1>1, <1>2, <1>11, <1>12, <1>13, <1>14 DEF PassInv

(* The second pass begins where the first one began. *)
LEMMA RewindKeeps ==
    ASSUME PassInv, Rewind
    PROVE  PassInv'
  <1>1. IsState(a) /\ prog' = prog
    BY DEF PassInv, Rewind
  <1>2. CASE check_sym_tbl /\ ~a.error_flag
    <2>1. /\ phase = "first" /\ phase' = "second" /\ pos' = 0
          /\ ~More \/ TooHigh(a)
          /\ a' = [a EXCEPT !.LC_cur = 0, !.second_pass = TRUE, !.end_flag = FALSE]
      BY <1>2 DEF Rewind
    <2>2. /\ pos = Len(a.LCs) /\ ~TooHigh(a) /\ Located(pos)
          /\ a.end_flag <=> Ended(pos)
      BY <1>2, <2>1 DEF PassInv, FirstInv
    <2>3. /\ a'.LC_cur = 0 /\ a'.second_pass /\ a'.end_flag = FALSE
          /\ a'.LCs = a.LCs /\ a'.sym_tbl = a.sym_tbl
      BY <1>1, <2>1 DEF IsState, IsGlobals
    <2>4. IsGlobals(a')
      BY <1>1, <2>1 DEF IsState, IsGlobals
    <2>5. IsState(a)'
      BY <1>1, <2>3, <2>4 DEF IsState
    <2>6. Len(prog) \in Nat /\ Len(a.LCs) \in Nat /\ pos \in 0 .. Len(prog)
      BY <1>1, ProgramsAssumption, LenProperties DEF PassInv, IsState, IsGlobals
    <2>7. Len(a.LCs) = Len(prog) \/ Ended(Len(a.LCs))
      BY <2>1, <2>2, <2>6 DEF More
    <2>8. (Len(a.LCs) = Len(prog) \/ Ended(Len(a.LCs)))'
      BY <1>1, <2>3, <2>7 DEF Ended
    <2>9. Located(Len(a.LCs))'
      BY <1>1, <2>2, <2>3 DEF Located
    <2>10. SecondInv'
      BY <2>1, <2>3, <2>6, <2>8, <2>9 DEF SecondInv, AtLine, Ended
    <2>11. FirstInv'
      BY <2>1 DEF FirstInv
    <2> QED BY <1>1, <2>1, <2>3, <2>5, <2>6, <2>10, <2>11 DEF PassInv
  <1>3. CASE ~(check_sym_tbl /\ ~a.error_flag)
    <2>1. phase' = "refused" /\ pos' = pos /\ a' = a
      BY <1>3 DEF Rewind
    <2>2. FirstInv' /\ SecondInv'
      BY <2>1 DEF FirstInv, SecondInv
    <2> QED BY <1>1, <2>1, <2>2 DEF PassInv
  <1> QED BY <1>2, <1>3

(* A line of the second pass: it is one the first pass has read, and LC_cur   *)
(* is where the first pass found it.                                          *)
LEMMA SecondPassAt ==
    ASSUME PassInv, phase = "second", More
    PROVE  /\ pos + 1 <= Len(a.LCs)
           /\ a.LC_cur = a.LCs[pos + 1]
           /\ Accepted(prog[pos + 1], a.LC_cur)
  <1>1. /\ pos <= Len(a.LCs)
        /\ Len(a.LCs) = Len(prog) \/ Ended(Len(a.LCs))
        /\ Located(Len(a.LCs)) /\ AtLine(pos, a.LC_cur)
        /\ a.end_flag <=> Ended(pos)
    BY DEF PassInv, SecondInv
  <1>2. Len(prog) \in Nat /\ Len(a.LCs) \in Nat /\ pos \in 0 .. Len(prog)
    BY ProgramsAssumption, LenProperties DEF PassInv, IsState, IsGlobals
  <1>3. pos < Len(prog) /\ ~Ended(pos)
    BY <1>1 DEF More
  <1>4. pos < Len(a.LCs)
    <2>1. CASE pos = Len(a.LCs)
      <3>1. ~Ended(Len(a.LCs))
        BY <1>3, <2>1
      <3> QED BY <1>1, <1>3, <2>1, <3>1
    <2>2. CASE pos # Len(a.LCs)
      <3>1. pos <= Len(a.LCs)
        BY <1>1
      <3> QED BY <1>2, <2>2, <3>1
    <2> QED BY <2>1, <2>2
  <1>5. a.LC_cur = a.LCs[pos + 1]
    <2>1. CASE pos = 0
      BY <1>1, <1>2, <1>4, <2>1 DEF Located, AtLine
    <2>2. CASE pos # 0
      <3>1. pos \in 1 .. Len(a.LCs)
        BY <1>2, <1>4, <2>2
      <3> QED BY <1>1, <1>4, <2>2, <3>1 DEF Located, AtLine
    <2> QED BY <2>1, <2>2
  <1>6. pos + 1 \in 1 .. Len(a.LCs)
    BY <1>2, <1>4
  <1> QED BY <1>1, <1>2, <1>4, <1>5, <1>6 DEF Located

(* So the line is accepted again, and leaves LC_cur where the next one was.   *)
LEMMA SecondPassKeeps ==
    ASSUME PassInv, SecondPass
    PROVE  PassInv'
  <1> DEFINE n == pos + 1
             line == prog[n]
             s == [a EXCEPT !.LC_old = a.LC_cur]
             t == parse_record(s, line)
             u == IF line.kind = "instruction" THEN EmitInstruction(t, line) ELSE t
             lc == a.LC_cur
  <1>1. /\ phase = "second" /\ More /\ pos' = n /\ prog' = prog /\ phase' = phase
        /\ a' = u
    BY DEF SecondPass
  <1>2. /\ Len(prog) \in Nat /\ n \in 1 .. Len(prog) /\ WellFormed(line)
        /\ IsState(s) /\ s.LC_cur = lc /\ s.LC_old = lc /\ s.LCs = a.LCs
        /\ s.second_pass = a.second_pass /\ s.end_flag = a.end_flag
    BY <1>1, NextLine
  <1>3. n <= Len(a.LCs) /\ lc = a.LCs[n] /\ Accepted(line, lc)
    BY <1>1, SecondPassAt
  <1>4. /\ a.second_pass /\ Located(Len(a.LCs)) /\ a.end_flag = FALSE
        /\ Len(a.LCs) = Len(prog) \/ Ended(Len(a.LCs))
    BY <1>1 DEF PassInv, SecondInv, More, IsState, IsGlobals
  <1> HIDE DEF s, line
  <1>5. Reads(s, t, line)
    BY <1>2, <1>4, LineReads
  <1> HIDE DEF t
  <1>6. /\ IsState(t) /\ t.second_pass /\ t.LC_old = lc /\ t.LCs = a.LCs
        /\ t.LC_cur = After(line, lc)
        /\ t.end_flag = (line.kind = "END")
    BY <1>2, <1>3, <1>4, <1>5 DEF Reads, Carries
  <1>7. /\ IsState(u) /\ u.LC_cur = t.LC_cur /\ u.LCs = a.LCs /\ u.second_pass
        /\ u.end_flag = t.end_flag
        /\ line.kind = "instruction" => u.LC_old = u.LC_cur
    <2>1. CASE line.kind = "instruction"
      <3>1. line.name \in DOMAIN INST_LIST
        BY <1>2, <2>1 DEF WellFormed
      <3>2. Type(line) = 3 => ModeOf(line.src) = "RELATIVE"
        BY <1>3, <2>1 DEF Accepted
      <3>3. t.LC_cur = t.LC_old + Size(line)
        BY <1>6, <2>1 DEF After
      <3> DEFINE v == EmitInstruction(t, line)
      <3>4. /\ IsState(v) /\ v.LC_cur = t.LC_cur /\ v.LC_old = t.LC_cur
            /\ v.LCs = t.LCs /\ v.end_flag = t.end_flag
            /\ v.second_pass = t.second_pass
        BY <1>6, <3>1, <3>2, <3>3, InstructionFills
      <3>5. u = v
        BY <2>1
      <3> HIDE DEF v, u
      <3> QED BY <1>6, <3>4, <3>5
    <2>2. CASE line.kind # "instruction"
      <3>1. u = t
        BY <2>2
      <3> HIDE DEF u
      <3> QED BY <1>6, <2>2, <3>1
    <2> QED BY <2>1, <2>2
  <1> HIDE DEF u
  <1>8. Len(a.LCs) \in Nat /\ pos \in Nat
    BY LenProperties, <1>2 DEF PassInv, IsState, IsGlobals
  <1>9. SecondInv'
    <2>1. AtLine(pos, a.LC_cur)'
      BY <1>1, <1>3, <1>6, <1>7, <1>8 DEF AtLine, line
    <2>2. a'.end_flag <=> Ended(pos)'
      <3>1. Ended(pos)' <=> line.kind = "END"
        BY <1>1, <1>8 DEF Ended, line
      <3> QED BY <1>1, <1>6, <1>7, <3>1
    <2>3. (Len(a.LCs) = Len(prog) \/ Ended(Len(a.LCs)))'
      BY <1>1, <1>4, <1>7 DEF Ended
    <2>4. Located(Len(a.LCs))'
      BY <1>1, <1>4, <1>7 DEF Located
    <2>5. pos' > 0 /\ prog'[pos'].kind = "instruction" => a'.LC_old = a'.LC_cur
      BY <1>1, <1>7 DEF line
    <2> QED BY <1>1, <1>3, <1>7, <2>1, <2>2, <2>3, <2>4, <2>5 DEF SecondInv
  <1>10. FirstInv'
    BY <1>1 DEF FirstInv
  <1> QED BY <1>1, <1>2, <1>7, <1>9, <1>10 DEF PassInv

(* The S9 record changes the output alone. *)
LEMMA WrittenKeeps ==
    ASSUME PassInv, Srec_s9
    PROVE  PassInv'
  <1> DEFINE nw == output_Srec(a.w)
  <1>1. /\ phase' = "written" /\ prog' = prog /\ pos' = pos
        /\ a' = [a EXCEPT !.w = nw]
    BY DEF Srec_s9
  <1>2. IsState(a)
    BY DEF PassInv
  <1> HIDE DEF nw
  <1>3. IsGlobals(a') /\ a'.sym_tbl = a.sym_tbl /\ a'.LCs = a.LCs
    BY <1>1, <1>2 DEF IsState, IsGlobals
  <1>4. FirstInv' /\ SecondInv'
    BY <1>1 DEF FirstInv, SecondInv
  <1> QED BY <1>1, <1>2, <1>3, <1>4 DEF PassInv, IsState

(* Every step of the assembler keeps what the two passes have in common. *)
LEMMA PassNext == PassInv /\ [asmNext]_asmVars => PassInv'
  <1> SUFFICES ASSUME PassInv, [asmNext]_asmVars PROVE PassInv'
    OBVIOUS
  <1>1. CASE FirstPass
    BY <1>1, FirstPassKeeps
  <1>2. CASE Rewind
    BY <1>2, RewindKeeps
  <1>3. CASE SecondPass
    BY <1>3, SecondPassKeeps
  <1>4. CASE Srec_s9
    BY <1>4, WrittenKeeps
  <1>5. CASE UNCHANGED asmVars
    <2>1. prog' = prog /\ phase' = phase /\ pos' = pos /\ a' = a
      BY <1>5 DEF asmVars
    <2>2. FirstInv'
      BY <2>1 DEF PassInv, FirstInv, TooHigh, Located, AtLine, Ended
    <2>3. SecondInv'
      BY <2>1 DEF PassInv, SecondInv, Located, AtLine, Ended
    <2> QED BY <2>1, <2>2, <2>3 DEF PassInv
  <1> QED BY <1>1, <1>2, <1>3, <1>4, <1>5 DEF asmNext

(* The inductive invariant holds in every state of the assembler. *)
THEOREM Invariance == asmSpec => []PassInv
  BY InitPasses, PassNext, PTL DEF asmSpec

(* The invariant gives the agreement. *)
LEMMA PassAgrees == PassInv => PassesAgree
  <1> SUFFICES ASSUME PassInv, phase = "second"
               PROVE  /\ pos < Len(a.LCs) => a.LC_cur = a.LCs[pos + 1]
                      /\ pos > 0 /\ prog[pos].kind = "instruction" => a.LC_old = a.LC_cur
    BY DEF PassesAgree
  <1>1. /\ Located(Len(a.LCs)) /\ AtLine(pos, a.LC_cur)
        /\ pos > 0 /\ prog[pos].kind = "instruction" => a.LC_old = a.LC_cur
    BY DEF PassInv, SecondInv
  <1>2. Len(prog) \in Nat /\ Len(a.LCs) \in Nat /\ pos \in 0 .. Len(prog)
    BY ProgramsAssumption, LenProperties DEF PassInv, IsState, IsGlobals
  <1>3. ASSUME pos < Len(a.LCs) PROVE a.LC_cur = a.LCs[pos + 1]
    <2>1. CASE pos = 0
      BY <1>1, <1>2, <1>3, <2>1 DEF Located, AtLine
    <2>2. CASE pos # 0
      <3>1. pos \in 1 .. Len(a.LCs)
        BY <1>2, <1>3, <2>2
      <3> QED BY <1>1, <1>3, <2>2, <3>1 DEF Located, AtLine
    <2> QED BY <2>1, <2>2
  <1> QED BY <1>1, <1>3

(* For any source files and numerals, the second pass of mainline.c meets     *)
(* each line at the address its label was given in the first, and the code it *)
(* emits for an instruction ends where the operands' count says.              *)
THEOREM SameAddresses == asmSpec => []PassesAgree
  BY PassAgrees, Invariance, PTL

-----------------------------------------------------------------------------
(* The sum of a record's bytes. *)

(* It is the last value of a running sum. *)
LEMMA SumRuns ==
    ASSUME NEW d \in Seq(Int)
    PROVE  \E g \in [0 .. Len(d) -> Int] :
              /\ g[0] = 0
              /\ \A k \in 1 .. Len(d) : g[k] = g[k - 1] + d[k]
              /\ Sum(d) = g[Len(d)]
  <1> DEFINE n == Len(d)
             f == [k \in 1 .. n |-> [v \in Int |-> v + d[k]]]
             Runs(h) == h = [k \in 0 .. n |-> IF k = 0 THEN 0 ELSE h[k - 1] + d[k]]
             sum == CHOOSE h : Runs(h)
  <1>1. n \in Nat /\ \A k \in 1 .. n : d[k] \in Int
    BY LenProperties, ElementOfSeq
  <1>2. f \in [1 .. n -> [Int -> Int]] /\ 0 \in Int
    BY <1>1
  <1>3. \A k \in 1 .. n : \A v \in Int : f[k][v] = v + d[k]
    OBVIOUS
  <1> HIDE DEF f, n
  <1>4. PICK g \in [0 .. n -> Int] : g[0] = 0 /\ \A k \in 1 .. n : g[k] = f[k][g[k - 1]]
    <2>1. Iterated(n, Int, 0, f)
      BY <1>1, <1>2, Iterates
    <2> QED BY <2>1 DEF Iterated
  <1>5. ASSUME NEW k \in 1 .. n PROVE k - 1 \in 0 .. n /\ g[k] = g[k - 1] + d[k]
    <2>1. k - 1 \in 0 .. n
      BY <1>1
    <2>2. g[k - 1] \in Int
      BY <2>1
    <2> QED BY <1>3, <1>4, <2>1, <2>2
  <1>6. Runs(g)
    <2> DEFINE e == [k \in 0 .. n |-> IF k = 0 THEN 0 ELSE g[k - 1] + d[k]]
    <2>1. \A k \in 0 .. n : g[k] = e[k]
      BY <1>1, <1>4, <1>5
    <2> QED BY <1>4, <2>1
  <1>7. Runs(sum)
    BY <1>6
  <1>8. Sum(d) = sum[n]
    BY DEF Sum, n
  <1> HIDE DEF sum
  <1>9. \A k \in 0 .. n : sum[k] = g[k]
    <2> DEFINE T == {k \in 0 .. n : sum[k] # g[k]}
    <2>1. SUFFICES ASSUME T # {} PROVE FALSE
      OBVIOUS
    <2>2. T \in SUBSET Nat
      BY <1>1
    <2>3. PICK k \in T : \A j \in T : k <= j
      BY <2>1, <2>2, LeastNat
    <2>4. sum[0] = 0 /\ g[0] = 0
      BY <1>1, <1>4, <1>7
    <2>5. k \in 1 .. n /\ k - 1 \in 0 .. n /\ ~(k <= k - 1)
      BY <1>1, <2>4
    <2>6. sum[k - 1] = g[k - 1]
      BY <2>3, <2>5
    <2>7. sum[k] = sum[k - 1] + d[k]
      BY <1>1, <1>7, <2>5
    <2> QED BY <1>5, <2>5, <2>6, <2>7
  <1>10. Sum(d) = g[n]
    BY <1>1, <1>8, <1>9
  <1> QED BY <1>4, <1>5, <1>10 DEF n

(* Any running sum ends with it. *)
LEMMA SumOfRun ==
    ASSUME NEW d \in Seq(Int), NEW h \in [0 .. Len(d) -> Int], h[0] = 0,
           \A k \in 1 .. Len(d) : h[k] = h[k - 1] + d[k]
    PROVE  Sum(d) = h[Len(d)]
  <1> DEFINE n == Len(d)
  <1>1. PICK g \in [0 .. n -> Int] :
           g[0] = 0 /\ (\A k \in 1 .. n : g[k] = g[k - 1] + d[k]) /\ Sum(d) = g[n]
    BY SumRuns
  <1>2. n \in Nat
    BY LenProperties
  <1> DEFINE T == {k \in 0 .. n : h[k] # g[k]}
  <1>3. SUFFICES ASSUME T # {} PROVE FALSE
    <2>1. n \notin T /\ n \in 0 .. n
      BY <1>2, <1>3
    <2> QED BY <1>1, <2>1
  <1>4. T \in SUBSET Nat
    BY <1>2
  <1>5. PICK k \in T : \A j \in T : k <= j
    BY <1>3, <1>4, LeastNat
  <1>6. k \in 1 .. n /\ k - 1 \in 0 .. n /\ ~(k <= k - 1)
    BY <1>1, <1>2
  <1>7. h[k - 1] = g[k - 1]
    BY <1>5, <1>6
  <1> QED BY <1>1, <1>6, <1>7

(* The sum of no bytes, and of one more. *)
LEMMA SumOfNone == Sum(<< >>) = 0
  <1>1. << >> \in Seq(Int) /\ Len(<< >>) = 0
    OBVIOUS
  <1>2. \E g \in [0 .. 0 -> Int] : g[0] = 0 /\ Sum(<< >>) = g[0]
    BY <1>1, SumRuns
  <1> QED BY <1>2

(* A byte that is appended is added to the sum. *)
LEMMA SumOfAppend ==
    ASSUME NEW d \in Seq(Int), NEW b \in Int
    PROVE  Sum(Append(d, b)) = Sum(d) + b /\ Sum(d) \in Int
  <1> DEFINE n == Len(d)
             e == Append(d, b)
  <1>1. PICK g \in [0 .. n -> Int] :
           g[0] = 0 /\ (\A k \in 1 .. n : g[k] = g[k - 1] + d[k]) /\ Sum(d) = g[n]
    BY SumRuns
  <1>2. /\ n \in Nat /\ e \in Seq(Int) /\ Len(e) = n + 1 /\ e[n + 1] = b
        /\ \A k \in 1 .. n : e[k] = d[k]
    BY LenProperties, AppendProperties
  <1> HIDE DEF e, n
  <1> DEFINE h == [k \in 0 .. n + 1 |-> IF k = n + 1 THEN g[n] + b ELSE g[k]]
  <1>3. /\ h \in [0 .. n + 1 -> Int] /\ h[0] = 0 /\ h[n + 1] = g[n] + b
        /\ \A k \in 0 .. n : h[k] = g[k]
    BY <1>1, <1>2
  <1> HIDE DEF h
  <1>4. ASSUME NEW k \in 1 .. n + 1 PROVE h[k] = h[k - 1] + e[k]
    <2>1. CASE k = n + 1
      <3>1. k - 1 = n /\ n \in 0 .. n
        BY <1>2, <2>1
      <3> QED BY <1>2, <1>3, <2>1, <3>1
    <2>2. CASE k # n + 1
      <3>1. k \in 1 .. n /\ k \in 0 .. n /\ k - 1 \in 0 .. n
        BY <1>2, <2>2
      <3> QED BY <1>1, <1>2, <1>3, <3>1
    <2> QED BY <2>1, <2>2
  <1>5. Sum(e) = h[n + 1]
    BY <1>2, <1>3, <1>4, SumOfRun
  <1>6. Sum(d) \in Int
    BY <1>1, <1>2
  <1> QED BY <1>1, <1>3, <1>5, <1>6 DEF e

-----------------------------------------------------------------------------
(* What records say of memory. A piece is the address and the bytes of a      *)
(* record, the last one being the record that is not written out yet.         *)

Bytes   == 0 .. 255
Records == [addr : Nat, data : Seq(Bytes), check : Int]
Writers == [Srec_addr : Nat, data : Seq(Bytes), check_sum : Int, file : Seq(Records)]

Pieces(w) ==
    [k \in 1 .. Len(w.file) + 1 |->
        IF k = Len(w.file) + 1
        THEN [addr |-> w.Srec_addr, data |-> w.data]
        ELSE [addr |-> w.file[k].addr, data |-> w.file[k].data]]

Covers(r, x) == x - r.addr + 1 \in DOMAIN r.data

ByteAt(r, x) == r.data[x - r.addr + 1]

(* The k-th of the first n pieces is the last to say what x holds: b. *)
Says(p, n, k, x, b) ==
    /\ Covers(p[k], x) /\ ByteAt(p[k], x) = b
    /\ \A j \in k + 1 .. n : ~Covers(p[j], x)

Replays(p, n, image) ==
    /\ DOMAIN image \subseteq Nat
    /\ \A x \in DOMAIN image : \E k \in 1 .. n : Says(p, n, k, x, image[x])
    /\ \A x \in Int : \A k \in 1 .. n : Covers(p[k], x) => x \in DOMAIN image

(* A last piece that says one byte more. *)
LEMMA ReplaysByte ==
    ASSUME NEW n \in Nat \ {0}, NEW p, NEW q, NEW image, NEW lc \in Nat, NEW b,
           Replays(p, n, image),
           \A k \in 1 .. n - 1 : q[k] = p[k],
           \A x \in Int : Covers(q[n], x) <=> Covers(p[n], x) \/ x = lc,
           \A x \in Int : Covers(p[n], x) /\ x # lc => ByteAt(q[n], x) = ByteAt(p[n], x),
           ByteAt(q[n], lc) = b
    PROVE  Replays(q, n, Store(image, lc, b))
  <1> DEFINE new == Store(image, lc, b)
  <1>1. /\ DOMAIN new = {lc} \cup DOMAIN image
        /\ \A x \in DOMAIN new : new[x] = IF x = lc THEN b ELSE image[x]
    BY DEF Store
  <1> HIDE DEF new
  <1>2. n \in 1 .. n /\ DOMAIN image \subseteq Nat
    BY DEF Replays
  <1>3. ASSUME NEW x \in DOMAIN new PROVE \E k \in 1 .. n : Says(q, n, k, x, new[x])
    <2>1. CASE x = lc
      <3>1. Says(q, n, n, x, new[x])
        <4>1. Covers(q[n], lc) /\ new[x] = b
          BY <1>1, <2>1
        <4> QED BY <2>1, <4>1 DEF Says
      <3> QED BY <1>2, <3>1
    <2>2. CASE x # lc
      <3>1. x \in DOMAIN image /\ new[x] = image[x] /\ x \in Int
        BY <1>1, <1>2, <2>2
      <3>2. PICK k \in 1 .. n : Says(p, n, k, x, image[x])
        BY <3>1 DEF Replays
      <3>3. Covers(q[k], x) /\ ByteAt(q[k], x) = image[x]
        <4>1. CASE k = n
          BY <2>2, <3>1, <3>2, <4>1 DEF Says
        <4>2. CASE k # n
          <5>1. q[k] = p[k]
            BY <4>2
          <5> QED BY <3>2, <5>1 DEF Says
        <4> QED BY <4>1, <4>2
      <3>4. ASSUME NEW j \in k + 1 .. n PROVE ~Covers(q[j], x)
        <4>1. ~Covers(p[j], x)
          BY <3>2 DEF Says
        <4>2. CASE j = n
          BY <2>2, <3>1, <4>1, <4>2
        <4>3. CASE j # n
          <5>1. q[j] = p[j]
            BY <4>3
          <5> QED BY <4>1, <5>1
        <4> QED BY <4>2, <4>3
      <3> QED BY <3>1, <3>3, <3>4 DEF Says
    <2> QED BY <2>1, <2>2
  <1>4. ASSUME NEW x \in Int, NEW k \in 1 .. n, Covers(q[k], x) PROVE x \in DOMAIN new
    <2>1. CASE k = n
      BY <1>1, <1>2, <1>4, <2>1 DEF Replays
    <2>2. CASE k # n
      <3>1. q[k] = p[k]
        BY <2>2
      <3> QED BY <1>1, <1>4, <3>1 DEF Replays
    <2> QED BY <2>1, <2>2
  <1>5. DOMAIN new \subseteq Nat
    BY <1>1, <1>2
  <1> QED BY <1>3, <1>4, <1>5 DEF Replays, new

(* One more piece that says nothing. *)
LEMMA ReplaysNothing ==
    ASSUME NEW n \in Nat, NEW p, NEW q, NEW image, Replays(p, n, image),
           \A k \in 1 .. n : q[k] = p[k],
           \A x \in Int : ~Covers(q[n + 1], x)
    PROVE  Replays(q, n + 1, image)
  <1>1. ASSUME NEW x \in DOMAIN image PROVE \E k \in 1 .. n + 1 : Says(q, n + 1, k, x, image[x])
    <2>1. PICK k \in 1 .. n : Says(p, n, k, x, image[x])
      BY DEF Replays
    <2>2. x \in Int
      BY DEF Replays
    <2>3. ASSUME NEW j \in k + 1 .. n + 1 PROVE ~Covers(q[j], x)
      <3>1. CASE j = n + 1
        BY <2>2, <3>1
      <3>2. CASE j # n + 1
        <4>1. j \in k + 1 .. n /\ q[j] = p[j]
          BY <3>2
        <4> QED BY <2>1, <4>1 DEF Says
      <3> QED BY <3>1, <3>2
    <2>4. Says(q, n + 1, k, x, image[x])
      BY <2>1, <2>3 DEF Says
    <2> QED BY <2>4
  <1>2. ASSUME NEW x \in Int, NEW k \in 1 .. n + 1, Covers(q[k], x) PROVE x \in DOMAIN image
    <2>1. k # n + 1
      BY <1>2
    <2>2. k \in 1 .. n /\ q[k] = p[k]
      BY <2>1
    <2> QED BY <1>2, <2>2 DEF Replays
  <1> QED BY <1>1, <1>2 DEF Replays

-----------------------------------------------------------------------------
(* S_rec.c *)

(* What the writer has written and has still to write is what was emitted,    *)
(* and the next byte of the record that is open is for lc.                    *)
Written(w, image, lc) ==
    /\ w \in Writers /\ lc \in Nat
    /\ w.data # << >> =>
          /\ w.Srec_addr + Len(w.data) = lc
          /\ w.check_sum = LOWBYTE(w.Srec_addr) + HIGHBYTE(w.Srec_addr) + Sum(w.data)
    /\ \A k \in DOMAIN w.file : Valid(w.file[k])
    /\ Replays(Pieces(w), Len(w.file) + 1, image)

(* LOWBYTE and HIGHBYTE of reg_table.h give bytes. *)
LEMMA BytesOf ==
    \A x \in Int : LOWBYTE(x) \in Bytes /\ HIGHBYTE(x) \in Bytes
  BY DEF LOWBYTE, HIGHBYTE, Bytes

(* The complement that output_Srec writes makes the loader's sum come out. *)
LEMMA Complement ==
    ASSUME NEW x \in Int
    PROVE  LOWBYTE(x + (255 - LOWBYTE(x))) = 255
  <1> DEFINE q == x \div 256
             l == x % 256
  <1>1. q \in Int /\ l \in 0 .. 255 /\ x = 256 * q + l
    OBVIOUS
  <1> HIDE DEF q
  <1>2. x + (255 - l) = 256 * q + 255
    BY <1>1
  <1>3. (256 * q + 255) % 256 = 255
    BY <1>1
  <1> QED BY <1>2, <1>3 DEF LOWBYTE

(* Sequences of bytes are sequences of integers with an integer sum. *)
LEMMA SumOfBytes ==
    ASSUME NEW d \in Seq(Bytes)
    PROVE  /\ Sum(d) \in Int
           /\ \A b \in Bytes : Sum(Append(d, b)) = Sum(d) + b
  <1>1. Bytes \subseteq Int
    BY DEF Bytes
  <1>2. d \in Seq(Int)
    BY <1>1, SeqMonotonic
  <1> QED BY <1>1, <1>2, SumOfAppend

(* A record that is written out is one the loader takes for valid, and the    *)
(* next one may begin anywhere.                                               *)
LEMMA OutputWrites ==
    ASSUME NEW w, NEW image, NEW lc, Written(w, image, lc), NEW ld \in Nat
    PROVE  LET v == output_Srec(w)
           IN  Written(v, image, ld) /\ v.data = << >>
  <1> DEFINE v == output_Srec(w)
             n == Len(w.file)
             rec == [addr |-> w.Srec_addr, data |-> w.data,
                     check |-> 255 - LOWBYTE(w.check_sum + Len(w.data) + 3)]
  <1>1. /\ w \in Writers /\ w.file \in Seq(Records) /\ w.data \in Seq(Bytes)
        /\ w.Srec_addr \in Nat /\ w.check_sum \in Int
        /\ n \in Nat /\ Len(w.data) \in Nat
    BY LenProperties DEF Written, Writers
  <1>2. CASE w.data = << >>
    <2>1. v = w
      BY <1>2 DEF output_Srec
    <2> QED BY <1>2, <2>1 DEF Written
  <1>3. CASE w.data # << >>
    <2>1. rec \in Records
      BY <1>1 DEF Records, LOWBYTE
    <2>2. v = [w EXCEPT !.data = << >>, !.file = Append(w.file, rec)]
      BY <1>3 DEF output_Srec
    <2>3. Valid(rec)
      <3> DEFINE x == Len(w.data) + 3 + LOWBYTE(w.Srec_addr) + HIGHBYTE(w.Srec_addr)
                      + Sum(w.data)
      <3>1. LOWBYTE(w.Srec_addr) \in Int /\ HIGHBYTE(w.Srec_addr) \in Int /\ Sum(w.data) \in Int
        BY <1>1, SumOfBytes DEF LOWBYTE, HIGHBYTE
      <3>5. w.check_sum = LOWBYTE(w.Srec_addr) + HIGHBYTE(w.Srec_addr) + Sum(w.data)
        BY <1>3 DEF Written
      <3>2. x \in Int /\ w.check_sum + Len(w.data) + 3 = x
        BY SMTT(30), <1>1, <3>1, <3>5
      <3>3. rec.check = 255 - LOWBYTE(x) /\ rec.addr = w.Srec_addr /\ rec.data = w.data
        BY <3>2
      <3>4. LOWBYTE(x + (255 - LOWBYTE(x))) = 255
        BY <3>2, Complement
      <3> HIDE DEF rec
      <3> QED BY <3>3, <3>4 DEF Valid
    <2> HIDE DEF rec, v
    <2>4. /\ v \in Writers /\ v.data = << >> /\ v.file = Append(w.file, rec)
          /\ v.Srec_addr = w.Srec_addr /\ v.check_sum = w.check_sum
      <3>1. Append(w.file, rec) \in Seq(Records) /\ << >> \in Seq(Bytes)
        BY <1>1, <2>1, AppendProperties
      <3> QED BY <1>1, <2>2, <3>1 DEF Writers
    <2>5. /\ Len(v.file) = n + 1 /\ v.file[n + 1] = rec
          /\ \A k \in 1 .. n : v.file[k] = w.file[k]
      BY <1>1, <2>1, <2>4, AppendProperties
    <2>6. \A k \in DOMAIN v.file : Valid(v.file[k])
      <3>1. DOMAIN v.file = 1 .. n + 1 /\ DOMAIN w.file = 1 .. n
        BY <1>1, <2>4, <2>5, LenProperties DEF Writers
      <3> QED BY <1>1, <2>3, <2>5, <3>1 DEF Written
    <2>7. /\ \A k \in 1 .. n + 1 : Pieces(v)[k] = Pieces(w)[k]
          /\ Pieces(v)[n + 1 + 1].data = << >>
      <3>1. rec.addr = w.Srec_addr /\ rec.data = w.data
        BY DEF rec
      <3> QED BY <1>1, <2>4, <2>5, <3>1 DEF Pieces
    <2>8. \A x \in Int : ~Covers(Pieces(v)[n + 1 + 1], x)
      BY <2>7 DEF Covers
    <2>9. Replays(Pieces(v), n + 1 + 1, image)
      <3>1. n + 1 \in Nat /\ Replays(Pieces(w), n + 1, image)
        BY <1>1 DEF Written
      <3> QED BY <2>7, <2>8, <3>1, ReplaysNothing
    <2> QED BY <2>4, <2>5, <2>6, <2>9 DEF Written, v
  <1> QED BY <1>2, <1>3

(* A byte that is put into the open record, or into a new one, is for lc. *)
Putting(w, val, lc) ==
    [w EXCEPT !.Srec_addr = IF w.data = << >> THEN lc ELSE @,
              !.data = Append(@, LOWBYTE(val)),
              !.check_sum = (IF w.data = << >> THEN LOWBYTE(lc) + HIGHBYTE(lc) ELSE @)
                            + LOWBYTE(val)]

(* A byte put into the open record is written: the image with that byte at    *)
(* the location counter.                                                      *)
LEMMA PutWrites ==
    ASSUME NEW w, NEW image, NEW lc, Written(w, image, lc), NEW val \in Int
    PROVE  LET v == Putting(w, val, lc)
           IN  /\ Written(v, Store(image, lc, LOWBYTE(val)), lc + 1)
               /\ Len(v.data) = Len(w.data) + 1 /\ Len(w.data) \in Nat
  <1> DEFINE v == Putting(w, val, lc)
             n == Len(w.file)
             b == LOWBYTE(val)
             c == Len(w.data)
             ad == IF w.data = << >> THEN lc ELSE w.Srec_addr
  <1>1. /\ w \in Writers /\ w.file \in Seq(Records) /\ w.data \in Seq(Bytes)
        /\ w.Srec_addr \in Nat /\ w.check_sum \in Int
        /\ n \in Nat /\ c \in Nat /\ lc \in Nat /\ b \in Bytes
    BY LenProperties, BytesOf DEF Written, Writers
  <1>2. ad \in Nat /\ ad + c = lc
    <2>1. CASE w.data = << >>
      <3>1. c = 0
        BY <2>1, EmptySeq
      <3> QED BY <1>1, <2>1, <3>1
    <2>2. CASE w.data # << >>
      BY <1>1, <2>2 DEF Written
    <2> QED BY <2>1, <2>2
  <1>3. /\ v.Srec_addr = ad /\ v.data = Append(w.data, b) /\ v.file = w.file
        /\ v.check_sum = LOWBYTE(ad) + HIGHBYTE(ad) + Sum(w.data) + b
        /\ v \in Writers
    <2>1. /\ v.Srec_addr = ad /\ v.data = Append(w.data, b) /\ v.file = w.file
          /\ v.check_sum = (IF w.data = << >> THEN LOWBYTE(lc) + HIGHBYTE(lc) ELSE w.check_sum) + b
      BY <1>1 DEF Putting, Writers
    <2>2. v.check_sum = LOWBYTE(ad) + HIGHBYTE(ad) + Sum(w.data) + b
      <3>1. CASE w.data = << >>
        <4>1. Sum(w.data) = 0 /\ ad = lc
          BY <3>1, SumOfNone
        <4>2. LOWBYTE(lc) \in Int /\ HIGHBYTE(lc) \in Int
          BY <1>1 DEF LOWBYTE, HIGHBYTE
        <4> QED BY <2>1, <3>1, <4>1, <4>2
      <3>2. CASE w.data # << >>
        BY <2>1, <3>2 DEF Written
      <3> QED BY <3>1, <3>2
    <2>3. v.check_sum \in Int /\ v.data \in Seq(Bytes)
      <3>1. LOWBYTE(lc) \in Int /\ HIGHBYTE(lc) \in Int /\ b \in Int
        BY <1>1 DEF LOWBYTE, HIGHBYTE, Bytes
      <3> QED BY <1>1, <2>1, <3>1, AppendProperties
    <2>4. v \in Writers
      <3> DEFINE sum == (IF w.data = << >> THEN LOWBYTE(lc) + HIGHBYTE(lc) ELSE w.check_sum) + b
      <3>1. v = [w EXCEPT !.Srec_addr = ad, !.data = v.data, !.check_sum = v.check_sum]
        BY <1>1, <2>1 DEF Putting, Writers
      <3> HIDE DEF v, ad
      <3> QED BY <1>1, <1>2, <2>3, <3>1 DEF Writers
    <2> QED BY <2>1, <2>2, <2>4
  <1> HIDE DEF v, ad, b, c, n
  <1>4. /\ Len(v.data) = c + 1 /\ v.data[c + 1] = b /\ v.data # << >>
        /\ \A i \in 1 .. c : v.data[i] = w.data[i]
        /\ DOMAIN v.data = 1 .. c + 1 /\ DOMAIN w.data = 1 .. c
    <2>1. /\ Len(v.data) = c + 1 /\ v.data[c + 1] = b /\ v.data \in Seq(Bytes)
          /\ \A i \in 1 .. c : v.data[i] = w.data[i]
      BY <1>1, <1>3, AppendProperties DEF c
    <2>2. DOMAIN v.data = 1 .. c + 1 /\ DOMAIN w.data = 1 .. c
      BY <1>1, <2>1, LenProperties DEF c
    <2> QED BY <1>1, <2>1, <2>2, EmptySeq
  <1>5. /\ v.Srec_addr + Len(v.data) = lc + 1
        /\ v.check_sum = LOWBYTE(v.Srec_addr) + HIGHBYTE(v.Srec_addr) + Sum(v.data)
    <2>1. Sum(v.data) = Sum(w.data) + b /\ Sum(w.data) \in Int
      BY <1>1, <1>3, SumOfBytes
    <2>2. LOWBYTE(ad) \in Int /\ HIGHBYTE(ad) \in Int /\ b \in Int
      BY <1>1, <1>2 DEF LOWBYTE, HIGHBYTE, Bytes
    <2> QED BY <1>1, <1>2, <1>3, <1>4, <2>1, <2>2
  <1> DEFINE p == Pieces(w)
             q == Pieces(v)
  <1>6. /\ q[n + 1] = [addr |-> ad, data |-> v.data]
        /\ p[n + 1] = [addr |-> w.Srec_addr, data |-> w.data]
        /\ \A k \in 1 .. n + 1 - 1 : q[k] = p[k]
    BY <1>1, <1>3 DEF Pieces, n
  <1> HIDE DEF p, q
  <1> DEFINE k == n + 1
  <1>10. k \in Nat \ {0} /\ Replays(p, k, image) /\ lc \in Nat
         /\ \A i \in 1 .. k - 1 : q[i] = p[i]
    BY <1>1, <1>6 DEF Written, n, p
  <1>11. /\ q[k].addr = ad /\ q[k].data = v.data
         /\ p[k].addr = w.Srec_addr /\ p[k].data = w.data
    BY <1>6
  <1> HIDE DEF k
  <1>7. ASSUME NEW x \in Int
        PROVE  /\ Covers(p[k], x) <=> x - ad + 1 \in 1 .. c
               /\ Covers(q[k], x) <=> x - ad + 1 \in 1 .. c + 1
               /\ c # 0 => ByteAt(p[k], x) = w.data[x - ad + 1]
               /\ ByteAt(q[k], x) = v.data[x - ad + 1]
    <2>1. c # 0 => w.Srec_addr = ad
      BY EmptySeq DEF ad, c
    <2>2. Covers(q[k], x) <=> x - ad + 1 \in 1 .. c + 1
      BY <1>4, <1>11 DEF Covers
    <2>3. Covers(p[k], x) <=> x - w.Srec_addr + 1 \in 1 .. c
      BY <1>4, <1>11 DEF Covers
    <2>4. c = 0 => 1 .. c = {}
      OBVIOUS
    <2> QED BY <1>11, <2>1, <2>2, <2>3, <2>4 DEF ByteAt
  <1>8. Replays(q, k, Store(image, lc, b))
    <2>1. ASSUME NEW x \in Int
          PROVE  /\ x - ad + 1 \in 1 .. c + 1 <=> x - ad + 1 \in 1 .. c \/ x = lc
                 /\ lc - ad + 1 = c + 1 /\ lc \in Int
      BY <1>1, <1>2
    <2>2. \A x \in Int : Covers(q[k], x) <=> Covers(p[k], x) \/ x = lc
      BY <1>7, <2>1
    <2>3. ASSUME NEW x \in Int, Covers(p[k], x) PROVE ByteAt(q[k], x) = ByteAt(p[k], x)
      <3>1. x - ad + 1 \in 1 .. c
        BY <1>7, <2>3
      <3>2. c # 0
        BY <1>1, <3>1
      <3> QED BY <1>4, <1>7, <3>1, <3>2
    <2>4. ByteAt(q[k], lc) = b
      <3>1. lc \in Int /\ lc - ad + 1 = c + 1
        BY <1>10, <2>1
      <3> QED BY <1>4, <1>7, <3>1
    <2> QED BY <1>10, <2>2, <2>3, <2>4, ReplaysByte
  <1>9. lc + 1 \in Nat /\ v.file = w.file /\ \A j \in DOMAIN w.file : Valid(w.file[j])
    BY <1>1, <1>3 DEF Written
  <1> QED BY <1>1, <1>3, <1>4, <1>5, <1>8, <1>9 DEF Written, v, n, b, c, q, k

(* Less than a full record is open. *)
Open(w) == Len(w.data) < max_data

(* One byte emitted. *)
LEMMA ByteWrites ==
    ASSUME NEW w, NEW image, NEW lc, Written(w, image, lc), Open(w), NEW val \in Int
    PROVE  LET v == emit_byte(w, val, lc)
           IN  Written(v, Store(image, lc, LOWBYTE(val)), lc + 1) /\ Open(v)
  <1> DEFINE u == Putting(w, val, lc)
             v == emit_byte(w, val, lc)
             im == Store(image, lc, LOWBYTE(val))
  <1>1. Written(u, im, lc + 1) /\ Len(u.data) \in Nat /\ lc + 1 \in Nat
    <2>1. Written(u, im, lc + 1) /\ Len(u.data) = Len(w.data) + 1 /\ Len(w.data) \in Nat
      BY PutWrites
    <2> HIDE DEF u, im
    <2> QED BY <2>1 DEF Written
  <1>2. v = IF Len(u.data) >= max_data THEN output_Srec(u) ELSE u
    <2>1. w \in Writers
      BY DEF Written
    <2> QED BY <2>1 DEF emit_byte, Putting, Writers
  <1> HIDE DEF u, v, im
  <1>3. Written(output_Srec(u), im, lc + 1) /\ output_Srec(u).data = << >>
    BY <1>1, OutputWrites
  <1>4. max_data \in Nat \ {0} /\ Len(<< >>) = 0
    BY max_dataAssumption
  <1> QED BY <1>1, <1>2, <1>3, <1>4 DEF Open, v, im

-----------------------------------------------------------------------------
(* directive.c in the second pass *)

(* All that was emitted is in the records, and the next byte is for LC_cur.   *)
Out(s) == Written(s.w, s.image, s.LC_cur) /\ Open(s.w)

(* emit_byte, as the assembler calls it, keeps what is written in step with   *)
(* the image.                                                                 *)
LEMMA EmitWrites ==
    ASSUME NEW s, IsState(s), s.second_pass, Out(s), NEW byte \in Int
    PROVE  Out(Emit(s, byte))
  <1> DEFINE t == Emit(s, byte)
  <1>1. /\ t.w = emit_byte(s.w, byte, s.LC_cur) /\ t.LC_cur = s.LC_cur + 1
        /\ t.image = Store(s.image, s.LC_cur, LOWBYTE(byte))
    BY EmitMoves DEF Moves
  <1> HIDE DEF t
  <1>2. /\ Written(emit_byte(s.w, byte, s.LC_cur),
                   Store(s.image, s.LC_cur, LOWBYTE(byte)), s.LC_cur + 1)
        /\ Open(emit_byte(s.w, byte, s.LC_cur))
    BY ByteWrites DEF Out
  <1>3. Out(t)
    BY <1>1, <1>2 DEF Out
  <1> QED BY <1>3 DEF t

(* So does emit_word, which may end a record between its two bytes. *)
LEMMA WordWrites ==
    ASSUME NEW s, IsState(s), s.second_pass, Out(s), NEW word \in Int
    PROVE  Out(EmitW(s, word))
  <1> DEFINE t == Emit(s, LOWBYTE(word))
  <1>1. LOWBYTE(word) \in Int /\ HIGHBYTE(word) \in Int
    BY DEF LOWBYTE, HIGHBYTE
  <1>2. Out(t)
    BY <1>1, EmitWrites
  <1>3. IsState(t) /\ t.second_pass
    BY EmitMoves DEF Moves, Carries
  <1>4. EmitW(s, word) = Emit(t, HIGHBYTE(word))
    BY DEF EmitW
  <1> HIDE DEF t
  <1> QED BY <1>1, <1>2, <1>3, <1>4, EmitWrites

(* The record is written out wherever LC_cur goes on. *)
LEMMA GapWrites ==
    ASSUME NEW s, IsState(s), s.second_pass, Out(s), NEW lc \in Nat
    PROVE  Out(Flush([s EXCEPT !.LC_cur = lc]))
  <1> DEFINE t == Flush([s EXCEPT !.LC_cur = lc])
  <1>1. t.w = output_Srec(s.w) /\ t.image = s.image /\ t.LC_cur = lc
    BY GapMoves DEF Moves
  <1> HIDE DEF t
  <1>2. Written(output_Srec(s.w), s.image, lc) /\ output_Srec(s.w).data = << >>
    BY OutputWrites DEF Out
  <1>3. max_data \in Nat \ {0} /\ Len(<< >>) = 0
    BY max_dataAssumption
  <1>4. Out(t)
    BY <1>1, <1>2, <1>3 DEF Out, Open
  <1> QED BY <1>4 DEF t

(* A writer stays one. *)
LEMMA ByteTypes ==
    ASSUME NEW w \in Writers, NEW val \in Int, NEW lc \in Nat
    PROVE  emit_byte(w, val, lc) \in Writers
  <1> DEFINE u == Putting(w, val, lc)
             rec == [addr |-> u.Srec_addr, data |-> u.data,
                     check |-> 255 - LOWBYTE(u.check_sum + Len(u.data) + 3)]
  <1>1. u \in Writers
    <2> DEFINE ad == IF w.data = << >> THEN lc ELSE w.Srec_addr
               d == Append(w.data, LOWBYTE(val))
               sum == (IF w.data = << >> THEN LOWBYTE(lc) + HIGHBYTE(lc) ELSE w.check_sum)
                      + LOWBYTE(val)
    <2>1. LOWBYTE(val) \in Bytes /\ LOWBYTE(lc) \in Bytes /\ HIGHBYTE(lc) \in Bytes
      BY BytesOf
    <2>2. ad \in Nat
      BY DEF Writers
    <2>3. d \in Seq(Bytes)
      BY <2>1, AppendProperties DEF Writers
    <2>4. sum \in Int
      <3>1. w.check_sum \in Int
        BY DEF Writers
      <3>2. \A b \in Bytes : b \in Int
        BY DEF Bytes
      <3>3. LOWBYTE(val) \in Int /\ LOWBYTE(lc) \in Int /\ HIGHBYTE(lc) \in Int
        BY <2>1, <3>2
      <3>4. CASE w.data = << >>
        BY <3>3, <3>4
      <3>5. CASE w.data # << >>
        BY <3>1, <3>3, <3>5
      <3> QED BY <3>4, <3>5
    <2>5. u = [w EXCEPT !.Srec_addr = ad, !.data = d, !.check_sum = sum]
      BY DEF Putting, Writers
    <2> HIDE DEF ad, d, sum, u
    <2> QED BY <2>2, <2>3, <2>4, <2>5 DEF Writers
  <1>2. emit_byte(w, val, lc) = IF Len(u.data) >= max_data THEN output_Srec(u) ELSE u
    BY DEF emit_byte, Putting, Writers
  <1> HIDE DEF u
  <1>3. output_Srec(u) = IF u.data = << >> THEN u
                         ELSE [u EXCEPT !.data = << >>, !.file = Append(u.file, rec)]
    BY DEF output_Srec
  <1>4. rec \in Records
    <2>1. Len(u.data) \in Nat /\ u.check_sum \in Int
      BY <1>1, LenProperties DEF Writers
    <2>2. LOWBYTE(u.check_sum + Len(u.data) + 3) \in Int
      BY <2>1 DEF LOWBYTE
    <2> QED BY <1>1, <2>2 DEF Records, Writers
  <1> HIDE DEF rec
  <1>5. Append(u.file, rec) \in Seq(Records) /\ << >> \in Seq(Bytes)
    BY <1>1, <1>4, AppendProperties DEF Writers
  <1>6. output_Srec(u) \in Writers
    BY <1>1, <1>3, <1>5 DEF Writers
  <1> QED BY <1>1, <1>2, <1>6

(* Two images of the same bytes are written alike. *)
LEMMA SameImage ==
    ASSUME NEW w, NEW image, NEW lc, Written(w, image, lc), NEW im,
           DOMAIN im = DOMAIN image, \A x \in DOMAIN image : im[x] = image[x]
    PROVE  Written(w, im, lc)
  BY DEF Written, Replays

(* A string is emitted char by char. *)
LEMMA TextWrites ==
    ASSUME NEW s, IsState(s), s.second_pass, Out(s), NEW chars \in Seq(Bytes)
    PROVE  Out(ASCII(s, chars))
  <1> DEFINE n == Len(chars)
             lc == s.LC_cur
             f == [k \in 1 .. n |-> [v \in Writers |-> emit_byte(v, chars[k], lc + k - 1)]]
             Runs(h) == h = [k \in 0 .. n |->
                               IF k = 0 THEN s.w ELSE emit_byte(h[k - 1], chars[k], lc + k - 1)]
             out == CHOOSE h : Runs(h)
             bytes(k) == [x \in lc .. lc + k - 1 |-> LOWBYTE(chars[x - lc + 1])]
             im(k) == Over(bytes(k), s.image)
             t == ASCII(s, chars)
  <1>1. /\ n \in Nat /\ lc \in Nat /\ s.w \in Writers
        /\ \A k \in 1 .. n : chars[k] \in Int /\ lc + k - 1 \in Nat
    <2>1. n \in Nat /\ lc \in Nat /\ s.w \in Writers
      BY LenProperties DEF Out, Written
    <2>2. ASSUME NEW k \in 1 .. n PROVE chars[k] \in Int
      <3>1. chars[k] \in Bytes
        BY ElementOfSeq
      <3>2. \A b \in Bytes : b \in Int
        BY DEF Bytes
      <3> QED BY <3>1, <3>2
    <2> QED BY <2>1, <2>2
  <1>2. /\ t.w = out[n] /\ t.LC_cur = lc + n
        /\ t.image = Over([x \in lc .. lc + n - 1 |-> LOWBYTE(chars[x - lc + 1])], s.image)
    BY DEF ASCII, IsState, IsGlobals
  <1>3. f \in [1 .. n -> [Writers -> Writers]]
    BY <1>1, ByteTypes
  <1>4. \A k \in 1 .. n : \A v \in Writers : f[k][v] = emit_byte(v, chars[k], lc + k - 1)
    OBVIOUS
  <1> HIDE DEF f, n, lc, t
  <1>5. PICK g \in [0 .. n -> Writers] : g[0] = s.w /\ \A k \in 1 .. n : g[k] = f[k][g[k - 1]]
    <2>1. Iterated(n, Writers, s.w, f)
      BY <1>1, <1>3, Iterates
    <2> QED BY <2>1 DEF Iterated
  <1>6. Runs(out)
    <2> DEFINE e == [k \in 0 .. n |->
                       IF k = 0 THEN s.w ELSE emit_byte(g[k - 1], chars[k], lc + k - 1)]
    <2>1. ASSUME NEW k \in 0 .. n PROVE g[k] = e[k]
      <3>1. CASE k = 0
        BY <1>5, <3>1
      <3>2. CASE k # 0
        <4>1. k \in 1 .. n /\ k - 1 \in 0 .. n
          BY <1>1, <3>2
        <4> QED BY <1>4, <1>5, <3>2, <4>1
      <3> QED BY <3>1, <3>2
    <2>2. Runs(g)
      BY <1>5, <2>1
    <2> QED BY <2>2
  <1> HIDE DEF out
  <1>7. out[0] = s.w
    BY <1>1, <1>6
  <1>8. ASSUME NEW k \in 1 .. n PROVE out[k] = emit_byte(out[k - 1], chars[k], lc + k - 1)
    BY <1>1, <1>6
  <1> DEFINE Good(k) == Written(out[k], im(k), lc + k) /\ Open(out[k])
             T == {k \in 0 .. n : ~Good(k)}
  <1>9. Good(0)
    <2>1. DOMAIN im(0) = DOMAIN s.image /\ \A x \in DOMAIN s.image : im(0)[x] = s.image[x]
      <3>1. DOMAIN bytes(0) = {}
        BY <1>1
      <3> HIDE DEF bytes
      <3> QED BY <3>1 DEF Over
    <2> HIDE DEF im
    <2>2. Written(s.w, s.image, lc) /\ Open(s.w)
      BY DEF Out, lc
    <2>3. Written(s.w, im(0), lc)
      BY <2>1, <2>2, SameImage
    <2> QED BY <1>1, <1>7, <2>2, <2>3
  <1>10. ASSUME NEW k \in 1 .. n, Good(k - 1) PROVE Good(k)
    <2> DEFINE new == Store(im(k - 1), lc + k - 1, LOWBYTE(chars[k]))
    <2>1. Written(out[k], new, lc + k - 1 + 1) /\ Open(out[k])
      <3>1. Written(out[k - 1], im(k - 1), lc + k - 1) /\ Open(out[k - 1])
        BY <1>1, <1>10
      <3> HIDE DEF im
      <3> QED BY <1>1, <1>8, <3>1, ByteWrites
    <2>2. DOMAIN im(k) = DOMAIN new /\ \A x \in DOMAIN new : im(k)[x] = new[x]
      <3>1. lc .. lc + k - 1 = {lc + k - 1} \cup (lc .. lc + k - 1 - 1)
        BY <1>1
      <3>2. lc + k - 1 - lc + 1 = k
        BY <1>1
      <3>3. /\ DOMAIN im(k) = (lc .. lc + k - 1) \cup DOMAIN s.image
            /\ DOMAIN im(k - 1) = (lc .. lc + k - 1 - 1) \cup DOMAIN s.image
            /\ DOMAIN new = {lc + k - 1} \cup DOMAIN im(k - 1)
        BY DEF Over, Store
      <3>4. ASSUME NEW x \in DOMAIN new PROVE im(k)[x] = new[x]
        <4>1. x \in DOMAIN im(k)
          BY <3>1, <3>3
        <4>2. im(k)[x] = IF x \in lc .. lc + k - 1 THEN LOWBYTE(chars[x - lc + 1]) ELSE s.image[x]
          BY <4>1 DEF Over
        <4>3. new[x] = IF x = lc + k - 1 THEN LOWBYTE(chars[k]) ELSE im(k - 1)[x]
          BY DEF Store
        <4>4. x \in DOMAIN im(k - 1) =>
                 im(k - 1)[x] = IF x \in lc .. lc + k - 1 - 1
                                THEN LOWBYTE(chars[x - lc + 1]) ELSE s.image[x]
          BY DEF Over
        <4> HIDE DEF im, new
        <4>5. CASE x = lc + k - 1
          <5>1. x \in lc .. lc + k - 1
            BY <3>1, <4>5
          <5>2. x - lc + 1 = k
            BY <1>1, <4>5
          <5> QED BY <4>2, <4>3, <4>5, <5>1, <5>2
        <4>6. CASE x # lc + k - 1
          <5>1. x \in DOMAIN im(k - 1)
            BY <3>3, <4>6
          <5>2. x \in lc .. lc + k - 1 <=> x \in lc .. lc + k - 1 - 1
            BY <3>1, <4>6
          <5> QED BY <4>2, <4>3, <4>4, <4>6, <5>1, <5>2
        <4> QED BY <4>5, <4>6
      <3> QED BY <3>1, <3>3, <3>4
    <2> HIDE DEF im, new
    <2>3. Written(out[k], im(k), lc + k - 1 + 1)
      BY <2>1, <2>2, SameImage
    <2>4. lc + k - 1 + 1 = lc + k
      BY <1>1
    <2> QED BY <2>1, <2>3, <2>4
  <1> HIDE DEF Good
  <1>11. T = {}
    <2> SUFFICES ASSUME T # {} PROVE FALSE
      OBVIOUS
    <2>1. T \in SUBSET Nat
      BY <1>1
    <2>2. PICK k \in T : \A j \in T : k <= j
      BY <2>1, LeastNat
    <2>3. k \in 1 .. n /\ k - 1 \in 0 .. n /\ ~(k <= k - 1)
      BY <1>1, <1>9
    <2>4. Good(k - 1)
      BY <2>2, <2>3
    <2> QED BY <1>10, <2>3, <2>4
  <1>12. Good(n)
    BY <1>1, <1>11
  <1>13. Out(t)
    BY <1>2, <1>12 DEF Out, Good
  <1> QED BY <1>13 DEF t

(* An accepted directive. *)
LEMMA DirectiveWrites ==
    ASSUME NEW s, IsState(s), s.second_pass, Out(s), NEW line, WellFormed(line),
           line.kind \in Directives, Accepted(line, s.LC_cur), NEW label
    PROVE  Out(process_dir(s, line, label))
  <1> DEFINE t == process_dir(s, line, label)
             lc == s.LC_cur
             v == Num[line.arg].val
  <1>1. lc \in Nat
    BY CounterIsNat
  <1>2. line.kind \in {"BYTE", "END", "EQU", "WORD"} => v \in Int /\ Num[line.arg].atoi \in Int
    BY NumAssumption DEF WellFormed
  <1>3. line.kind \in {"BSS", "ORG"} => v \in Nat
    BY DEF WellFormed
  <1>4. CASE line.kind = "ALIGN"
    <2>1. t = IF lc % 2 = 1 THEN Emit(s, 0) ELSE s
      BY <1>4 DEF process_dir, ALIGN
    <2>2. Out(Emit(s, 0))
      BY EmitWrites
    <2> QED BY <2>1, <2>2
  <1>5. CASE line.kind = "ASCII"
    <2>1. line.arg \in Seq(Bytes)
      BY <1>5 DEF WellFormed, Bytes
    <2>2. t = ASCII(s, line.arg)
      BY <1>5 DEF process_dir
    <2> QED BY <2>1, <2>2, TextWrites
  <1>6. CASE line.kind = "BSS"
    <2>1. v \in 0 .. 65535 - lc
      BY <1>6 DEF Accepted
    <2>2. t = Flush([s EXCEPT !.LC_cur = lc + v])
      BY <1>6, <2>1 DEF process_dir, BSS
    <2>3. lc + v \in Nat
      BY <1>1, <1>3, <1>6
    <2> HIDE DEF v
    <2> QED BY <2>2, <2>3, GapWrites
  <1>7. CASE line.kind = "BYTE"
    <2>2. Num[line.arg].val <= 255 \/ Num[line.arg].atoi <= 255
      BY <1>7 DEF Accepted
    <2>1. t = Emit(s, Num[line.arg].atoi)
      BY <1>7, <2>2 DEF process_dir, BYTE
    <2> QED BY <1>2, <1>7, <2>1, EmitWrites
  <1>8. CASE line.kind = "END"
    <2> DEFINE pc == IF s.second_pass /\ v <= 65535 THEN v ELSE s.PC_init
    <2>2. t = [s EXCEPT !.end_flag = TRUE, !.PC_init = pc]
      BY <1>8 DEF process_dir, END
    <2> HIDE DEF t, pc
    <2>1. t.w = s.w /\ t.image = s.image /\ t.LC_cur = lc
      BY <2>2 DEF IsState, IsGlobals
    <2>3. Out(t)
      BY <2>1 DEF Out
    <2> QED BY <2>3 DEF t
  <1>9. CASE line.kind = "EQU"
    BY <1>9 DEF process_dir, EQU
  <1>10. CASE line.kind = "ORG"
    <2>1. t = Flush([s EXCEPT !.LC_cur = v])
      BY <1>10 DEF process_dir, ORG
    <2> HIDE DEF v
    <2> QED BY <1>3, <1>10, <2>1, GapWrites
  <1>11. CASE line.kind = "WORD"
    <2> DEFINE fits == Num[line.arg].val <= 65535 \/ Num[line.arg].atoi <= 65535
    <2>3. fits
      BY <1>11 DEF Accepted
    <2>4. t = IF fits THEN EmitW(s, LOWWORD(Num[line.arg].val)) ELSE Fail(s, TRUE)
      BY <1>11 DEF process_dir, WORD
    <2> HIDE DEF fits
    <2>1. t = EmitW(s, LOWWORD(v))
      BY <2>3, <2>4
    <2>2. LOWWORD(v) \in Int
      BY <1>2, <1>11 DEF LOWWORD
    <2> QED BY <2>1, <2>2, WordWrites
  <1> HIDE DEF t
  <1> QED
    BY <1>4, <1>5, <1>6, <1>7, <1>8, <1>9, <1>10, <1>11 DEF Directives, t

-----------------------------------------------------------------------------
(* The code of an instruction in the second pass *)

(* An opcode of the table is a number. *)
LEMMA OpcodeRange ==
    ASSUME NEW n \in Double \cup Single \cup Jump \cup {"RETI"}
    PROVE  Opcode(n) \in Int
  <1>1. CASE n \in Double
    BY <1>1 DEF Opcode, Double
  <1>2. CASE n \in Single
    BY <1>2 DEF Opcode, Single
  <1>3. CASE n \in Jump
    BY <1>3 DEF Opcode, Jump
  <1>4. CASE n = "RETI"
    BY <1>4 DEF Opcode
  <1> QED BY <1>1, <1>2, <1>3, <1>4

(* The code word before the operands are filled in is a number. *)
LEMMA OpcodeIsInt ==
    ASSUME NEW line, line.name \in DOMAIN INST_LIST, line.bw \in {0, 1}
    PROVE  opc(line) \in Int
  <1>1. line.name \in Double \cup Single \cup Jump \cup {"RETI"}
    BY DEF INST_LIST
  <1>2. INST_LIST[line.name][1] = Opcode(line.name)
    BY <1>1 DEF INST_LIST
  <1>3. INST_LIST[line.name][1] \in Int
    BY <1>1, <1>2, OpcodeRange
  <1> QED BY <1>3 DEF opc

(* What a register or the table says of an operand is a number. *)
LEMMA OperandIsInt ==
    ASSUME NEW s, IsState(s), NEW op, ModeOf(op) # "BAD_MODE",
           op.name \in DOMAIN s.sym_tbl
    PROVE  /\ s.sym_tbl[op.name].value \in Int
           /\ RegOf(s, op) \in Int /\ As_val[Mode(s, op)] \in Int
  <1>1. Mode(s, op) = ModeOf(op)
    BY ModeByRegisters
  <1>2. Symbols(s.sym_tbl)
    BY DEF IsState
  <1>3. Mode(s, op) \in {"REGISTER", "INDIRECT", "INDIRECT_INCR"} \cup Extended
    BY <1>1 DEF Mode, ind_operand, abs_operand, alpha_operand, indexed_operand, Extended
  <1>4. As_val[Mode(s, op)] \in Int
    BY <1>3 DEF As_val, Extended
  <1>5. s.sym_tbl[op.name].value \in Int
    BY <1>2 DEF Symbols
  <1>6. Mode(s, op) = "INDEXED" => s.sym_tbl[op.reg].value \in Int
    <2>1. Mode(s, op) = "INDEXED" => IsReg(s, op.reg)
      BY DEF Mode, ind_operand, abs_operand, alpha_operand, indexed_operand
    <2> QED BY <1>2, <2>1 DEF IsReg, Known, Symbols
  <1>7. Register["PC"] \in Int /\ Register["SR"] \in Int
    BY DEF Register
  <1>8. RegOf(s, op) \in Int
    BY <1>5, <1>6, <1>7 DEF RegOf
  <1> QED BY <1>4, <1>5, <1>8

(* So is the opcode with its fields set. *)
LEMMA WordIsInt ==
    ASSUME NEW s, IsState(s), NEW line, WellFormed(line), line.kind = "instruction",
           NEW lc, Accepted(line, lc),
           Type(line) >= 1 => line.src.name \in DOMAIN s.sym_tbl,
           Type(line) = 2 => line.dst.name \in DOMAIN s.sym_tbl
    PROVE  set_address(s, line) \in Int
  <1>1. Type(line) \in 0 .. 3 /\ opc(line) \in Int
    BY TypeRange, OpcodeIsInt DEF WellFormed
  <1>2. /\ Type(line) >= 1 => ModeOf(line.src) # "BAD_MODE"
        /\ Type(line) = 2 => ModeOf(line.dst) # "BAD_MODE"
    BY DEF Accepted
  <1>3. Type(line) >= 1 => /\ s.sym_tbl[line.src.name].value \in Int
                           /\ RegOf(s, line.src) \in Int
                           /\ As_val[Mode(s, line.src)] \in Int
    BY <1>2, OperandIsInt
  <1>4. Type(line) = 2 => RegOf(s, line.dst) \in Int /\ As_val[Mode(s, line.dst)] \in Int
    BY <1>2, OperandIsInt
  <1>5. CASE Type(line) = 0
    BY <1>1, <1>5 DEF set_address
  <1>6. CASE Type(line) = 1
    BY <1>1, <1>3, <1>6 DEF set_address
  <1>7. CASE Type(line) = 2
    <2>1. set_address(s, line) = opc(line) + 16 * As_val[Mode(s, line.src)]
                                 + 256 * RegOf(s, line.src)
                                 + 128 * As_val[Mode(s, line.dst)] + RegOf(s, line.dst)
      BY <1>7 DEF set_address
    <2> QED BY <1>1, <1>3, <1>4, <1>7, <2>1
  <1>8. CASE Type(line) = 3
    <2> DEFINE d == JumpDist(s, line.src)
    <2>1. set_address(s, line) = opc(line) + IF JumpOK(d) THEN (d \div 2) % 1024 ELSE 0
      BY <1>8 DEF set_address
    <2>2. d \in Int
      <3>1. s.LC_old \in Int
        BY DEF IsState, IsGlobals
      <3> QED BY <1>3, <1>8, <3>1 DEF JumpDist
    <2> HIDE DEF d
    <2> QED BY <1>1, <2>1, <2>2
  <1> QED BY <1>1, <1>5, <1>6, <1>7, <1>8

(* An extension word. *)
LEMMA ExtensionWrites ==
    ASSUME NEW s, IsState(s), s.second_pass, Out(s), NEW op, ModeOf(op) # "BAD_MODE",
           op.name \in DOMAIN s.sym_tbl
    PROVE  LET t == Extension(s, op)
           IN  Out(t) /\ IsState(t) /\ t.second_pass /\ t.sym_tbl = s.sym_tbl
  <1> DEFINE value == s.sym_tbl[op.name].value
             word == LOWWORD(IF Mode(s, op) = "RELATIVE" THEN value - (s.LC_cur + 2) ELSE value)
  <1>1. value \in Int /\ s.LC_cur \in Int
    BY OperandIsInt, CounterIsNat
  <1>2. word \in Int
    <2> HIDE DEF value
    <2> QED BY <1>1 DEF LOWWORD
  <1>3. Extension(s, op) = IF Mode(s, op) \notin Extended THEN s ELSE EmitW(s, word)
    BY DEF Extension
  <1> HIDE DEF word
  <1>4. Out(EmitW(s, word))
    BY <1>2, WordWrites
  <1>5. /\ IsState(EmitW(s, word)) /\ EmitW(s, word).second_pass
        /\ EmitW(s, word).sym_tbl = s.sym_tbl
    BY EmitWordMoves DEF Moves, Carries
  <1> QED BY <1>3, <1>4, <1>5

(* The code of an instruction begins where the line did. *)
LEMMA InstructionWrites ==
    ASSUME NEW s, IsState(s), s.second_pass, NEW line, WellFormed(line),
           line.kind = "instruction", Accepted(line, s.LC_old),
           s.LC_cur = s.LC_old + Size(line),
           Written(s.w, s.image, s.LC_old), Open(s.w),
           Type(line) >= 1 => line.src.name \in DOMAIN s.sym_tbl,
           Type(line) = 2 => line.dst.name \in DOMAIN s.sym_tbl
    PROVE  Out(EmitInstruction(s, line))
  <1> DEFINE at   == [s EXCEPT !.LC_cur = s.LC_old]
             word == set_address(s, line)
             code == EmitW(at, word)
             src  == IF Type(line) \in {1, 2} THEN Extension(code, line.src) ELSE code
             dst  == IF Type(line) = 2 THEN Extension(src, line.dst) ELSE src
             t    == [dst EXCEPT !.LC_old = dst.LC_cur, !.LC_cur = s.LC_cur]
  <1>1. Type(line) \in 0 .. 3 /\ word \in Int
    BY TypeRange, WordIsInt DEF WellFormed
  <1>2. /\ Type(line) >= 1 => ModeOf(line.src) # "BAD_MODE"
        /\ Type(line) = 2 => ModeOf(line.dst) # "BAD_MODE"
    BY DEF Accepted
  <1>3. EmitInstruction(s, line) = t
    BY DEF EmitInstruction
  <1>4. IsState(at) /\ at.second_pass /\ Out(at) /\ at.sym_tbl = s.sym_tbl
    <2>1. s.LC_old \in Nat
      BY DEF IsState, IsGlobals
    <2>2. Moves(s, at, s.LC_old) /\ at.sym_tbl = s.sym_tbl /\ Quiet(s, at)
      BY <2>1, CounterMoves
    <2> HIDE DEF at
    <2> QED BY <2>2 DEF Moves, Carries, Quiet, Out
  <1> HIDE DEF at, word
  <1>5. IsState(code) /\ code.second_pass /\ Out(code) /\ code.sym_tbl = s.sym_tbl
    <2>1. Out(code)
      BY <1>1, <1>4, WordWrites
    <2>2. Moves(at, code, at.LC_cur + 2) /\ code.sym_tbl = at.sym_tbl
      BY <1>4, EmitWordMoves
    <2> HIDE DEF code
    <2> QED BY <1>4, <2>1, <2>2 DEF Moves, Carries
  <1> HIDE DEF code
  <1>6. IsState(src) /\ src.second_pass /\ Out(src) /\ src.sym_tbl = s.sym_tbl
    <2>1. CASE Type(line) \in {1, 2}
      <3>1. line.src.name \in DOMAIN code.sym_tbl /\ ModeOf(line.src) # "BAD_MODE"
        BY <1>2, <1>5, <2>1
      <3> QED BY <1>5, <2>1, <3>1, ExtensionWrites
    <2>2. CASE Type(line) \notin {1, 2}
      BY <1>5, <2>2
    <2> QED BY <2>1, <2>2
  <1> HIDE DEF src
  <1>7. IsState(dst) /\ Out(dst)
    <2>1. CASE Type(line) = 2
      <3>1. line.dst.name \in DOMAIN src.sym_tbl /\ ModeOf(line.dst) # "BAD_MODE"
        BY <1>2, <1>6, <2>1
      <3> QED BY <1>6, <2>1, <3>1, ExtensionWrites
    <2>2. CASE Type(line) # 2
      BY <1>6, <2>2
    <2> QED BY <2>1, <2>2
  <1> HIDE DEF dst
  <1>8. t.w = dst.w /\ t.image = dst.image /\ t.LC_cur = s.LC_cur
    BY <1>7 DEF IsState, IsGlobals
  <1>9. dst.LC_cur = s.LC_cur
    <2>1. t.LC_old = dst.LC_cur
      BY <1>7 DEF IsState, IsGlobals
    <2>2. t.LC_old = s.LC_cur
      <3>1. Type(line) = 3 => ModeOf(line.src) = "RELATIVE"
        BY DEF Accepted
      <3>2. line.name \in DOMAIN INST_LIST
        BY DEF WellFormed
      <3> HIDE DEF t
      <3> QED BY <1>3, <3>1, <3>2, InstructionFills
    <2> QED BY <2>1, <2>2
  <1> HIDE DEF t
  <1>10. Out(t)
    BY <1>7, <1>8, <1>9 DEF Out
  <1> QED BY <1>3, <1>10

-----------------------------------------------------------------------------
(* mainline.c: the output of the two passes *)

(* Nothing is emitted before the second pass, and what it emits is in the     *)
(* records: all of them are written out at its end.                           *)
Output ==
    /\ phase \in {"first", "second", "refused", "written"}
    /\ Open(a.w)
    /\ phase \in {"first", "refused"} => a.w = Srec_init /\ a.image = << >>
    /\ phase = "second" => Out(a)
    /\ phase = "written" => Out(a) /\ a.w.data = << >>

(* Srec_init starts with nothing written of an image with nothing in it. *)
LEMMA NothingWritten ==
    Written(Srec_init, << >>, 0) /\ Open(Srec_init)
  <1>1. Srec_init.data = << >> /\ Srec_init.file = << >> /\ Srec_init.Srec_addr = 0
    BY DEF Srec_init
  <1>2. Srec_init \in Writers
    <2>1. << >> \in Seq(Bytes) /\ << >> \in Seq(Records)
      OBVIOUS
    <2> QED BY <2>1 DEF Srec_init, Writers
  <1>3. Len(<< >>) = 0 /\ max_data \in Nat \ {0} /\ DOMAIN << >> = {}
    BY max_dataAssumption
  <1>4. Replays(Pieces(Srec_init), 1, << >>)
    <2>1. Pieces(Srec_init)[1].data = << >>
      BY <1>1, <1>3 DEF Pieces
    <2>2. \A x \in Int : ~Covers(Pieces(Srec_init)[1], x)
      BY <1>3, <2>1 DEF Covers
    <2> QED BY <1>3, <2>2 DEF Replays
  <1> QED BY <1>1, <1>2, <1>3, <1>4 DEF Written, Open

(* A line of the second pass. *)
LEMMA LineWrites ==
    ASSUME PassInv, Output, SecondPass
    PROVE  Out(a')
  <1> DEFINE line == prog[pos + 1]
             s == [a EXCEPT !.LC_old = a.LC_cur]
             bad == line.extra /\ line.kind # "END"
             more == Fail(s, bad)
             t == parse_record(s, line)
  <1>1. /\ phase = "second" /\ More
        /\ a' = IF line.kind = "instruction" THEN EmitInstruction(t, line) ELSE t
    BY DEF SecondPass
  <1>2. /\ WellFormed(line) /\ IsState(s) /\ s.LC_cur = a.LC_cur /\ s.LC_old = a.LC_cur
        /\ s.second_pass
    BY <1>1, NextLine DEF PassInv, SecondInv
  <1>3. Accepted(line, s.LC_cur)
    BY <1>1, <1>2, SecondPassAt
  <1>4. Out(s)
    <2>1. s.w = a.w /\ s.image = a.image
      BY DEF PassInv, IsState, IsGlobals
    <2> HIDE DEF s
    <2> QED BY <1>1, <1>2, <2>1 DEF Output, Out
  <1> HIDE DEF s, line
  <1>5. ~Malformed(s, line) /\ Labelled(s, line) = s
    BY <1>2, LabelledCarries DEF Malformed
  <1>6. /\ IsState(more) /\ more.second_pass /\ more.LC_cur = s.LC_cur
        /\ more.LC_old = s.LC_old /\ Out(more)
    <2>1. bad \in BOOLEAN
      OBVIOUS
    <2>2. Carries(s, more) /\ more.LC_cur = s.LC_cur /\ Quiet(s, more)
      BY <1>2, <2>1, FailCarries
    <2> HIDE DEF more
    <2> QED BY <1>2, <1>4, <2>2 DEF Carries, Quiet, Out
  <1> HIDE DEF more
  <1>7. CASE line.kind = "none"
    <2>1. t = s
      BY <1>5, <1>7 DEF parse_record, Directives
    <2> HIDE DEF t
    <2> QED BY <1>1, <1>4, <1>7, <2>1
  <1>8. CASE line.kind \in Directives
    <2>1. line.kind # "none" /\ line.kind # "instruction"
      BY <1>8 DEF Directives
    <2>2. t = process_dir(more, line, Label(s, line))
      BY <1>5, <1>8, <2>1 DEF parse_record, more
    <2> HIDE DEF t
    <2>3. Out(t)
      BY <1>2, <1>3, <1>6, <1>8, <2>2, DirectiveWrites
    <2> QED BY <1>1, <2>1, <2>3
  <1>9. CASE line.kind = "instruction"
    <2>1. t = get_operands(more, line)
      BY <1>5, <1>9 DEF parse_record, Directives, more
    <2>2. line.name \in DOMAIN INST_LIST
      BY <1>2, <1>9 DEF WellFormed
    <2> HIDE DEF t
    <2>3. /\ Reads(more, t, line) /\ Quiet(more, t)
          /\ Type(line) >= 1 => line.src.name \in DOMAIN t.sym_tbl
          /\ Type(line) = 2 => line.dst.name \in DOMAIN t.sym_tbl
      BY <1>3, <1>6, <1>9, <2>1, <2>2, InstructionReads
    <2>4. /\ IsState(t) /\ t.second_pass /\ t.LC_old = s.LC_cur
          /\ t.LC_cur = t.LC_old + Size(line)
      BY <1>2, <1>3, <1>6, <1>9, <2>3 DEF Reads, Carries, After
    <2>5. Written(t.w, t.image, t.LC_old) /\ Open(t.w)
      BY <1>6, <2>3, <2>4 DEF Quiet, Out
    <2>6. Out(EmitInstruction(t, line))
      BY <1>2, <1>3, <1>9, <2>3, <2>4, <2>5, InstructionWrites
    <2> QED BY <1>1, <1>9, <2>6
  <1> QED BY <1>2, <1>7, <1>8, <1>9 DEF WellFormed

(* The assembler starts with nothing written. *)
LEMMA OutputInit == asmInit => Output
  <1> SUFFICES ASSUME asmInit PROVE Output
    OBVIOUS
  <1>1. phase = "first" /\ a.w = Srec_init /\ a.image = << >>
    BY DEF asmInit
  <1> QED BY <1>1, NothingWritten DEF Output

(* No step of the assembler loses the agreement between its records and its   *)
(* image.                                                                     *)
LEMMA OutputNext ==
    ASSUME PassInv, Output, [asmNext]_asmVars
    PROVE  Output'
  <1>1. CASE FirstPass
    <2> DEFINE s == [a EXCEPT !.LC_old = a.LC_cur]
               t == parse_record(s, prog[pos + 1])
               u == Fail(t, TooHigh(t))
    <2>1. /\ phase = "first" /\ More /\ phase' = phase
          /\ a' = [u EXCEPT !.LCs = Append(u.LCs, a.LC_cur)]
      BY <1>1 DEF FirstPass
    <2>2. IsState(s) /\ WellFormed(prog[pos + 1]) /\ ~s.second_pass
      BY <2>1, NextLine DEF PassInv, FirstInv
    <2>3. s.w = a.w /\ s.image = a.image
      BY DEF PassInv, IsState, IsGlobals
    <2> HIDE DEF s
    <2>4. Carries(s, t)
      BY <2>2, LineReads
    <2> HIDE DEF t
    <2>5. TooHigh(t) \in BOOLEAN /\ IsState(t) /\ Quiet(s, t)
      BY <2>2, <2>4 DEF TooHigh, Carries
    <2>6. Carries(t, u) /\ Quiet(t, u)
      BY <2>5, FailCarries
    <2> HIDE DEF u
    <2>7. a'.w = u.w /\ a'.image = u.image
      BY <2>1, <2>6 DEF Carries, IsState, IsGlobals
    <2>8. a'.w = Srec_init /\ a'.image = << >>
      BY <2>1, <2>3, <2>5, <2>6, <2>7 DEF Quiet, Output
    <2> QED BY <2>1, <2>8, NothingWritten DEF Output
  <1>2. CASE Rewind
    <2>1. phase = "first" /\ a.w = Srec_init /\ a.image = << >>
      BY <1>2 DEF Rewind, Output
    <2>2. CASE check_sym_tbl /\ ~a.error_flag
      <3>1. phase' = "second" /\ a' = [a EXCEPT !.LC_cur = 0, !.second_pass = TRUE, !.end_flag = FALSE]
        BY <1>2, <2>2 DEF Rewind
      <3>2. a'.w = a.w /\ a'.image = a.image /\ a'.LC_cur = 0
        BY <3>1 DEF PassInv, IsState, IsGlobals
      <3>3. Out(a')
        BY <2>1, <3>2, NothingWritten DEF Out
      <3> QED BY <3>1, <3>3 DEF Output, Out
    <2>3. CASE ~(check_sym_tbl /\ ~a.error_flag)
      <3>1. phase' = "refused" /\ a' = a
        BY <1>2, <2>3 DEF Rewind
      <3> QED BY <2>1, <3>1 DEF Output
    <2> QED BY <2>2, <2>3
  <1>3. CASE SecondPass
    <2>1. Out(a') /\ phase' = "second"
      BY <1>3, LineWrites DEF SecondPass
    <2> QED BY <2>1 DEF Output, Out
  <1>4. CASE Srec_s9
    <2> DEFINE v == output_Srec(a.w)
    <2>1. phase = "second" /\ phase' = "written" /\ a' = [a EXCEPT !.w = v]
      BY <1>4 DEF Srec_s9
    <2>2. a'.w = v /\ a'.image = a.image /\ a'.LC_cur = a.LC_cur
      BY <2>1 DEF PassInv, IsState, IsGlobals
    <2>3. Written(a.w, a.image, a.LC_cur) /\ a.LC_cur \in Nat
      BY <2>1 DEF Output, Out, Written
    <2>4. Written(v, a.image, a.LC_cur) /\ v.data = << >>
      BY <2>3, OutputWrites
    <2>5. Len(<< >>) = 0 /\ max_data \in Nat \ {0}
      BY max_dataAssumption
    <2> HIDE DEF v
    <2> QED BY <2>1, <2>2, <2>4, <2>5 DEF Output, Out, Open
  <1>5. CASE UNCHANGED asmVars
    BY <1>5 DEF asmVars, Output, Out, Open
  <1> QED BY <1>1, <1>2, <1>3, <1>4, <1>5 DEF asmNext

-----------------------------------------------------------------------------
(* The addresses of what is emitted *)

(* From s to t bytes are emitted below the new LC_cur only. *)
Grows(s, t) ==
    /\ s.LC_cur <= t.LC_cur /\ s.LC_cur \in Nat /\ t.LC_cur \in Nat
    /\ \A x \in DOMAIN t.image : x \in DOMAIN s.image \/ x < t.LC_cur

(* The same of the image alone. *)
EmitsBelow(s, t) == \A x \in DOMAIN t.image : x \in DOMAIN s.image \/ x < t.LC_cur

(* One after the other. *)
LEMMA GrowsOn ==
    ASSUME NEW s, NEW t, NEW u, DOMAIN s.image \subseteq Nat, DOMAIN t.image \subseteq Nat,
           DOMAIN u.image \subseteq Nat, Grows(s, t), Grows(t, u)
    PROVE  Grows(s, u)
  BY DEF Grows

(* The image's addresses are natural numbers. *)
LEMMA ImageNat ==
    ASSUME NEW s, Out(s)
    PROVE  DOMAIN s.image \subseteq Nat
  BY DEF Out, Written, Replays

(* A byte is emitted at LC_cur, which moves on. *)
LEMMA EmitGrows ==
    ASSUME NEW s, IsState(s), s.second_pass, NEW byte
    PROVE  Grows(s, Emit(s, byte))
  <1> DEFINE t == Emit(s, byte)
  <1>1. t.LC_cur = s.LC_cur + 1 /\ t.image = Store(s.image, s.LC_cur, LOWBYTE(byte))
    BY EmitMoves DEF Moves
  <1>2. s.LC_cur \in Nat
    BY CounterIsNat
  <1> HIDE DEF t
  <1>3. Grows(s, t)
    BY <1>1, <1>2 DEF Grows, Store
  <1> QED BY <1>3 DEF t

(* So are the two of a word. *)
LEMMA WordGrows ==
    ASSUME NEW s, IsState(s), s.second_pass, Out(s), NEW word \in Int
    PROVE  Grows(s, EmitW(s, word))
  <1> DEFINE t == Emit(s, LOWBYTE(word))
             u == Emit(t, HIGHBYTE(word))
  <1>1. LOWBYTE(word) \in Int /\ HIGHBYTE(word) \in Int
    BY DEF LOWBYTE, HIGHBYTE
  <1>2. Out(t) /\ Grows(s, t)
    BY <1>1, EmitWrites, EmitGrows
  <1>3. IsState(t) /\ t.second_pass
    BY EmitMoves DEF Moves, Carries
  <1>4. EmitW(s, word) = u
    BY DEF EmitW
  <1> HIDE DEF t
  <1>5. Out(u) /\ Grows(t, u)
    BY <1>1, <1>2, <1>3, EmitWrites, EmitGrows
  <1> HIDE DEF u
  <1> QED BY <1>2, <1>4, <1>5, ImageNat, GrowsOn

(* A directive: ORG moves LC_cur back at will, and emits nothing.             *)
LEMMA DirectiveGrows ==
    ASSUME NEW s, IsState(s), s.second_pass, Out(s), NEW line, WellFormed(line),
           line.kind \in Directives, Accepted(line, s.LC_cur), NEW label
    PROVE  EmitsBelow(s, process_dir(s, line, label))
  <1> DEFINE t == process_dir(s, line, label)
             lc == s.LC_cur
             v == Num[line.arg].val
  <1>1. lc \in Nat
    BY CounterIsNat
  <1>2. line.kind \in {"BYTE", "END", "EQU", "WORD"} => v \in Int
    BY NumAssumption DEF WellFormed
  <1>3. line.kind \in {"BSS", "ORG"} => v \in Nat
    BY DEF WellFormed
  <1>4. ASSUME line.kind = "ALIGN" PROVE EmitsBelow(s, t)
    <2>1. t = IF lc % 2 = 1 THEN Emit(s, 0) ELSE s
      BY <1>4 DEF process_dir, ALIGN
    <2>2. Grows(s, Emit(s, 0))
      BY EmitGrows
    <2> HIDE DEF t
    <2> QED BY <2>1, <2>2 DEF Grows, EmitsBelow
  <1>5. ASSUME line.kind = "ASCII" PROVE EmitsBelow(s, t)
    <2> DEFINE n == Len(line.arg)
               bytes == [x \in lc .. lc + n - 1 |-> LOWBYTE(line.arg[x - lc + 1])]
    <2>1. t = ASCII(s, line.arg)
      BY <1>5 DEF process_dir
    <2>2. t.image = Over(bytes, s.image) /\ t.LC_cur = lc + n
      BY <2>1 DEF ASCII, IsState, IsGlobals
    <2>3. n \in Nat
      <3>1. line.arg \in Seq(0 .. 255)
        BY <1>5 DEF WellFormed
      <3> QED BY <3>1, LenProperties
    <2>4. DOMAIN bytes = lc .. lc + n - 1
      OBVIOUS
    <2> HIDE DEF t, n, bytes, lc
    <2>5. DOMAIN t.image = DOMAIN bytes \cup DOMAIN s.image
      BY <2>2 DEF Over
    <2> QED BY <1>1, <2>2, <2>3, <2>4, <2>5 DEF EmitsBelow, lc
  <1>6. ASSUME line.kind = "BSS" PROVE EmitsBelow(s, t)
    <2>1. v \in 0 .. 65535 - lc
      BY <1>6 DEF Accepted
    <2>2. t = Flush([s EXCEPT !.LC_cur = lc + v])
      BY <1>6, <2>1 DEF process_dir, BSS
    <2>3. lc + v \in Nat
      BY <1>1, <1>3, <1>6
    <2> HIDE DEF v, t
    <2>4. t.image = s.image
      BY <2>2, <2>3, GapMoves
    <2> QED BY <2>4 DEF EmitsBelow
  <1>7. ASSUME line.kind = "BYTE" PROVE EmitsBelow(s, t)
    <2>1. Num[line.arg].val <= 255 \/ Num[line.arg].atoi <= 255
      BY <1>7 DEF Accepted
    <2>2. t = Emit(s, Num[line.arg].atoi)
      BY <1>7, <2>1 DEF process_dir, BYTE
    <2>3. Grows(s, Emit(s, Num[line.arg].atoi))
      BY EmitGrows
    <2> HIDE DEF t
    <2> QED BY <2>2, <2>3 DEF Grows, EmitsBelow
  <1>8. ASSUME line.kind = "END" PROVE EmitsBelow(s, t)
    <2> DEFINE pc == IF s.second_pass /\ v <= 65535 THEN v ELSE s.PC_init
    <2>1. t = [s EXCEPT !.end_flag = TRUE, !.PC_init = pc]
      BY <1>8 DEF process_dir, END
    <2> HIDE DEF t, pc
    <2>2. t.image = s.image
      BY <2>1 DEF IsState, IsGlobals
    <2> QED BY <2>2 DEF EmitsBelow
  <1>9. ASSUME line.kind = "EQU" PROVE EmitsBelow(s, t)
    <2>1. t = s
      BY <1>9 DEF process_dir, EQU
    <2> HIDE DEF t
    <2> QED BY <2>1 DEF EmitsBelow
  <1>10. ASSUME line.kind = "ORG" PROVE EmitsBelow(s, t)
    <2>1. t = Flush([s EXCEPT !.LC_cur = v])
      BY <1>10 DEF process_dir, ORG
    <2> HIDE DEF v, t
    <2>2. t.image = s.image
      BY <1>3, <1>10, <2>1, GapMoves
    <2> QED BY <2>2 DEF EmitsBelow
  <1>11. ASSUME line.kind = "WORD" PROVE EmitsBelow(s, t)
    <2> DEFINE fits == Num[line.arg].val <= 65535 \/ Num[line.arg].atoi <= 65535
               word == LOWWORD(v)
    <2>1. fits
      BY <1>11 DEF Accepted
    <2>2. t = IF fits THEN EmitW(s, word) ELSE Fail(s, TRUE)
      BY <1>11 DEF process_dir, WORD
    <2>3. word \in Int
      BY <1>2, <1>11 DEF LOWWORD
    <2> HIDE DEF fits, word, t
    <2>4. Grows(s, EmitW(s, word))
      BY <2>3, WordGrows
    <2> QED BY <2>1, <2>2, <2>4 DEF Grows, EmitsBelow
  <1> HIDE DEF t
  <1>12. EmitsBelow(s, t)
    BY <1>4, <1>5, <1>6, <1>7, <1>8, <1>9, <1>10, <1>11 DEF Directives
  <1> QED BY <1>12 DEF t

(* The word that follows for an operand. *)
LEMMA ExtensionGrows ==
    ASSUME NEW s, IsState(s), s.second_pass, Out(s), NEW op, ModeOf(op) # "BAD_MODE",
           op.name \in DOMAIN s.sym_tbl
    PROVE  Grows(s, Extension(s, op))
  <1> DEFINE value == s.sym_tbl[op.name].value
             word == LOWWORD(IF Mode(s, op) = "RELATIVE" THEN value - (s.LC_cur + 2) ELSE value)
  <1>1. value \in Int /\ s.LC_cur \in Nat
    BY OperandIsInt, CounterIsNat
  <1>2. word \in Int
    <2> HIDE DEF value
    <2> QED BY <1>1 DEF LOWWORD
  <1>3. Extension(s, op) = IF Mode(s, op) \notin Extended THEN s ELSE EmitW(s, word)
    BY DEF Extension
  <1> HIDE DEF word, value
  <1>4. Grows(s, EmitW(s, word))
    BY <1>2, WordGrows
  <1>5. Grows(s, s)
    BY <1>1 DEF Grows
  <1> QED BY <1>3, <1>4, <1>5

(* An instruction emits from LC_old up to LC_cur, where it ends. *)
LEMMA InstructionGrows ==
    ASSUME NEW s, IsState(s), s.second_pass, NEW line, WellFormed(line),
           line.kind = "instruction", Accepted(line, s.LC_old),
           s.LC_cur = s.LC_old + Size(line),
           Written(s.w, s.image, s.LC_old), Open(s.w),
           Type(line) >= 1 => line.src.name \in DOMAIN s.sym_tbl,
           Type(line) = 2 => line.dst.name \in DOMAIN s.sym_tbl
    PROVE  EmitsBelow(s, EmitInstruction(s, line))
  <1> DEFINE at   == [s EXCEPT !.LC_cur = s.LC_old]
             word == set_address(s, line)
             code == EmitW(at, word)
             src  == IF Type(line) \in {1, 2} THEN Extension(code, line.src) ELSE code
             dst  == IF Type(line) = 2 THEN Extension(src, line.dst) ELSE src
             t    == [dst EXCEPT !.LC_old = dst.LC_cur, !.LC_cur = s.LC_cur]
  <1>1. Type(line) \in 0 .. 3 /\ word \in Int
    BY TypeRange, WordIsInt DEF WellFormed
  <1>2. /\ Type(line) >= 1 => ModeOf(line.src) # "BAD_MODE"
        /\ Type(line) = 2 => ModeOf(line.dst) # "BAD_MODE"
    BY DEF Accepted
  <1>3. EmitInstruction(s, line) = t
    BY DEF EmitInstruction
  <1>4. /\ IsState(at) /\ at.second_pass /\ Out(at) /\ at.sym_tbl = s.sym_tbl
        /\ at.image = s.image
    <2>1. s.LC_old \in Nat
      BY DEF IsState, IsGlobals
    <2>2. Moves(s, at, s.LC_old) /\ at.sym_tbl = s.sym_tbl /\ Quiet(s, at)
      BY <2>1, CounterMoves
    <2> HIDE DEF at
    <2> QED BY <2>2 DEF Moves, Carries, Quiet, Out
  <1> HIDE DEF at, word
  <1>5. /\ IsState(code) /\ code.second_pass /\ Out(code) /\ code.sym_tbl = s.sym_tbl
        /\ Grows(at, code)
    <2>1. Out(code) /\ Grows(at, code)
      BY <1>1, <1>4, WordWrites, WordGrows
    <2>2. Moves(at, code, at.LC_cur + 2) /\ code.sym_tbl = at.sym_tbl
      BY <1>4, EmitWordMoves
    <2> HIDE DEF code
    <2> QED BY <1>4, <2>1, <2>2 DEF Moves, Carries
  <1> HIDE DEF code
  <1>6. Grows(code, code)
    BY <1>5, CounterIsNat DEF Grows
  <1>7. /\ IsState(src) /\ src.second_pass /\ Out(src) /\ src.sym_tbl = s.sym_tbl
        /\ Grows(code, src)
    <2>1. CASE Type(line) \in {1, 2}
      <3>1. line.src.name \in DOMAIN code.sym_tbl /\ ModeOf(line.src) # "BAD_MODE"
        BY <1>2, <1>5, <2>1
      <3> QED BY <1>5, <2>1, <3>1, ExtensionWrites, ExtensionGrows
    <2>2. CASE Type(line) \notin {1, 2}
      BY <1>5, <1>6, <2>2
    <2> QED BY <2>1, <2>2
  <1> HIDE DEF src
  <1>8. Grows(src, src)
    BY <1>7, CounterIsNat DEF Grows
  <1>9. IsState(dst) /\ Out(dst) /\ Grows(src, dst)
    <2>1. CASE Type(line) = 2
      <3>1. line.dst.name \in DOMAIN src.sym_tbl /\ ModeOf(line.dst) # "BAD_MODE"
        BY <1>2, <1>7, <2>1
      <3> QED BY <1>7, <2>1, <3>1, ExtensionWrites, ExtensionGrows
    <2>2. CASE Type(line) # 2
      BY <1>7, <1>8, <2>2
    <2> QED BY <2>1, <2>2
  <1> HIDE DEF dst
  <1>10. Grows(at, dst)
    BY <1>4, <1>5, <1>7, <1>9, ImageNat, GrowsOn
  <1>11. t.image = dst.image /\ t.LC_old = dst.LC_cur /\ t.LC_cur = s.LC_cur
    BY <1>9 DEF IsState, IsGlobals
  <1>12. t.LC_old = s.LC_cur
    <2>1. Type(line) = 3 => ModeOf(line.src) = "RELATIVE"
      BY DEF Accepted
    <2>2. line.name \in DOMAIN INST_LIST
      BY DEF WellFormed
    <2> HIDE DEF t
    <2> QED BY <1>3, <2>1, <2>2, InstructionFills
  <1> HIDE DEF t
  <1> QED BY <1>3, <1>4, <1>10, <1>11, <1>12 DEF Grows, EmitsBelow

(* Every line starts in the 16-bit address space and, once the first pass has *)
(* met no error, the last one ends in it: so does every byte emitted.         *)
Low ==
    /\ \A k \in 1 .. Len(a.LCs) : a.LCs[k] <= 65535
    /\ phase = "second" => \A lc : AtLine(Len(a.LCs), lc) => lc <= 65535
    /\ \A x \in DOMAIN a.image : x <= 65535

(* Nothing is emitted by the first pass, and it stops at the first line that  *)
(* ends too high.                                                             *)
LEMMA FirstPassLow ==
    ASSUME PassInv, Output, Low, FirstPass
    PROVE  Low'
  <1> DEFINE s == [a EXCEPT !.LC_old = a.LC_cur]
             t == parse_record(s, prog[pos + 1])
             u == Fail(t, TooHigh(t))
  <1>1. /\ phase = "first" /\ More /\ phase' = phase /\ a.LC_cur <= 65535
        /\ a' = [u EXCEPT !.LCs = Append(u.LCs, a.LC_cur)]
    BY CounterIsNat DEF FirstPass, TooHigh, PassInv
  <1>2. IsState(s) /\ WellFormed(prog[pos + 1]) /\ s.LCs = a.LCs
    BY <1>1, NextLine
  <1> HIDE DEF s
  <1>3. Carries(s, t)
    BY <1>2, LineReads
  <1> HIDE DEF t
  <1>4. TooHigh(t) \in BOOLEAN /\ IsState(t) /\ t.LCs = a.LCs
    BY <1>2, <1>3 DEF TooHigh, Carries
  <1>5. Carries(t, u)
    BY <1>4, FailCarries
  <1> HIDE DEF u
  <1>6. u.LCs = a.LCs /\ a'.LCs = Append(a.LCs, a.LC_cur)
    BY <1>1, <1>4, <1>5 DEF Carries, IsState, IsGlobals
  <1>7. a.LCs \in Seq(Nat) /\ a.LC_cur \in Nat
    BY DEF PassInv, IsState, IsGlobals
  <1>8. Len(a'.LCs) = Len(a.LCs) + 1 /\ Len(a.LCs) \in Nat
    BY <1>6, <1>7, AppendProperties, LenProperties
  <1>9. ASSUME NEW k \in 1 .. Len(a'.LCs) PROVE a'.LCs[k] <= 65535
    <2>1. CASE k = Len(a.LCs) + 1
      <3>1. a'.LCs[k] = a.LC_cur
        BY <1>6, <1>7, <2>1, AppendProperties
      <3> QED BY <1>1, <3>1
    <2>2. CASE k # Len(a.LCs) + 1
      <3>1. k \in 1 .. Len(a.LCs)
        BY <1>8, <2>2
      <3>2. a'.LCs[k] = a.LCs[k]
        BY <1>6, <1>7, <3>1, AppendProperties
      <3> QED BY <3>1, <3>2 DEF Low
    <2> QED BY <2>1, <2>2
  <1>10. a'.image = << >> /\ DOMAIN << >> = {}
    <2>1. Output'
      BY OutputNext DEF asmNext
    <2> QED BY <1>1, <2>1 DEF Output
  <1> QED BY <1>1, <1>9, <1>10 DEF Low

(* The second pass begins when the first has accepted every line. *)
LEMMA RewindLow ==
    ASSUME PassInv, Output, Low, Rewind
    PROVE  Low'
  <1>1. /\ phase = "first" /\ prog' = prog /\ IsState(a)
        /\ a.image = << >> /\ DOMAIN << >> = {}
    BY DEF Rewind, Output, PassInv
  <1>2. CASE check_sym_tbl /\ ~a.error_flag
    <2>1. a' = [a EXCEPT !.LC_cur = 0, !.second_pass = TRUE, !.end_flag = FALSE]
      BY <1>2 DEF Rewind
    <2>2. a'.LCs = a.LCs /\ a'.image = a.image
      BY <1>1, <2>1 DEF IsState, IsGlobals
    <2>3. a.LC_cur <= 65535 /\ AtLine(Len(a.LCs), a.LC_cur)
      BY <1>1, <1>2, CounterIsNat DEF PassInv, FirstInv, TooHigh
    <2>4. ASSUME NEW lc, AtLine(Len(a.LCs), lc)' PROVE lc <= 65535
      BY <1>1, <2>2, <2>3, <2>4 DEF AtLine
    <2> QED BY <1>1, <2>2, <2>4 DEF Low
  <1>3. CASE ~(check_sym_tbl /\ ~a.error_flag)
    <2>1. phase' = "refused" /\ a' = a
      BY <1>3 DEF Rewind
    <2> QED BY <2>1 DEF Low
  <1> QED BY <1>2, <1>3

(* A line of the second pass emits below its end. *)
LEMMA LineGrows ==
    ASSUME PassInv, Output, SecondPass
    PROVE  EmitsBelow(a, a') /\ a'.LCs = a.LCs
  <1> DEFINE line == prog[pos + 1]
             s == [a EXCEPT !.LC_old = a.LC_cur]
             bad == line.extra /\ line.kind # "END"
             more == Fail(s, bad)
             t == parse_record(s, line)
  <1>1. /\ phase = "second" /\ More
        /\ a' = IF line.kind = "instruction" THEN EmitInstruction(t, line) ELSE t
    BY DEF SecondPass
  <1>2. /\ WellFormed(line) /\ IsState(s) /\ s.LC_cur = a.LC_cur /\ s.LC_old = a.LC_cur
        /\ s.second_pass /\ s.LCs = a.LCs
    BY <1>1, NextLine DEF PassInv, SecondInv
  <1>3. Accepted(line, s.LC_cur)
    BY <1>1, <1>2, SecondPassAt
  <1>4. Out(s) /\ s.image = a.image
    <2>1. s.w = a.w /\ s.image = a.image
      BY DEF PassInv, IsState, IsGlobals
    <2> HIDE DEF s
    <2> QED BY <1>1, <1>2, <2>1 DEF Output, Out
  <1> HIDE DEF s, line
  <1>5. ~Malformed(s, line) /\ Labelled(s, line) = s
    BY <1>2, LabelledCarries DEF Malformed
  <1>6. /\ IsState(more) /\ more.second_pass /\ more.LC_cur = s.LC_cur
        /\ more.LC_old = s.LC_old /\ Out(more) /\ more.image = s.image
    <2>1. bad \in BOOLEAN
      OBVIOUS
    <2>2. Carries(s, more) /\ more.LC_cur = s.LC_cur /\ Quiet(s, more)
      BY <1>2, <2>1, FailCarries
    <2> HIDE DEF more
    <2> QED BY <1>2, <1>4, <2>2 DEF Carries, Quiet, Out
  <1> HIDE DEF more
  <1>7. Carries(s, t)
    BY <1>2, LineReads DEF Reads
  <1>8. t.LCs = a.LCs
    BY <1>2, <1>7 DEF Carries
  <1>9. CASE line.kind = "none"
    <2>1. t = s
      BY <1>5, <1>9 DEF parse_record, Directives
    <2> HIDE DEF t
    <2> QED BY <1>1, <1>4, <1>8, <1>9, <2>1 DEF EmitsBelow
  <1>10. CASE line.kind \in Directives
    <2>1. line.kind # "none" /\ line.kind # "instruction"
      BY <1>10 DEF Directives
    <2>2. t = process_dir(more, line, Label(s, line))
      BY <1>5, <1>10, <2>1 DEF parse_record, more
    <2> HIDE DEF t
    <2>3. EmitsBelow(more, t)
      BY <1>2, <1>3, <1>6, <1>10, <2>2, DirectiveGrows
    <2> QED BY <1>1, <1>4, <1>6, <1>8, <2>1, <2>3 DEF EmitsBelow
  <1>11. CASE line.kind = "instruction"
    <2>1. t = get_operands(more, line)
      BY <1>5, <1>11 DEF parse_record, Directives, more
    <2>2. line.name \in DOMAIN INST_LIST
      BY <1>2, <1>11 DEF WellFormed
    <2> HIDE DEF t
    <2>3. /\ Reads(more, t, line) /\ Quiet(more, t)
          /\ Type(line) >= 1 => line.src.name \in DOMAIN t.sym_tbl
          /\ Type(line) = 2 => line.dst.name \in DOMAIN t.sym_tbl
      BY <1>3, <1>6, <1>11, <2>1, <2>2, InstructionReads
    <2>4. /\ IsState(t) /\ t.second_pass /\ t.LC_old = s.LC_cur
          /\ t.LC_cur = t.LC_old + Size(line)
      BY <1>2, <1>3, <1>6, <1>11, <2>3 DEF Reads, Carries, After
    <2>5. Written(t.w, t.image, t.LC_old) /\ Open(t.w)
      BY <1>6, <2>3, <2>4 DEF Quiet, Out
    <2>6. EmitsBelow(t, EmitInstruction(t, line))
      BY <1>2, <1>3, <1>11, <2>3, <2>4, <2>5, InstructionGrows
    <2>7. Type(line) = 3 => ModeOf(line.src) = "RELATIVE"
      BY <1>3, <1>11 DEF Accepted
    <2>8. EmitInstruction(t, line).LCs = t.LCs
      BY <2>2, <2>4, <2>7, InstructionFills
    <2> QED BY <1>1, <1>4, <1>6, <1>8, <1>11, <2>3, <2>6, <2>8 DEF EmitsBelow, Quiet
  <1> QED BY <1>2, <1>9, <1>10, <1>11 DEF WellFormed

(* And its end is where the next line starts. *)
LEMMA SecondPassLow ==
    ASSUME PassInv, Output, Low, SecondPass
    PROVE  Low'
  <1>1. phase = "second" /\ phase' = "second" /\ prog' = prog
    BY DEF SecondPass
  <1>2. EmitsBelow(a, a') /\ a'.LCs = a.LCs
    BY LineGrows
  <1>3. PassInv' /\ Out(a')
    BY SecondPassKeeps, LineWrites
  <1>4. PassesAgree' /\ SecondInv'
    <2>1. PassInv' => PassesAgree'
      BY PassAgrees, PTL
    <2> QED BY <1>3, <2>1 DEF PassInv
  <1>5. pos' <= Len(a'.LCs) /\ pos' \in Nat /\ Len(a'.LCs) \in Nat /\ a'.LC_cur \in Nat
    BY <1>1, <1>3, <1>4, ProgramsAssumption, LenProperties
       DEF PassInv, SecondInv, IsState, IsGlobals
  <1>6. ASSUME NEW lc, AtLine(Len(a.LCs), lc)' PROVE lc <= 65535
    BY <1>1, <1>2, <1>6 DEF Low, AtLine
  <1>7. ASSUME NEW k \in 1 .. Len(a'.LCs) PROVE a'.LCs[k] <= 65535
    BY <1>2, <1>7 DEF Low
  <1>8. a'.LC_cur <= 65535
    <2>1. CASE pos' < Len(a'.LCs)
      <3>1. a'.LC_cur = a'.LCs[pos' + 1]
        BY <1>1, <1>4, <2>1 DEF PassesAgree
      <3>2. pos' + 1 \in 1 .. Len(a'.LCs)
        <4> DEFINE p == pos'
                   n == Len(a'.LCs)
        <4>1. p \in Nat /\ n \in Nat /\ p < n
          BY <1>5, <2>1
        <4> HIDE DEF p, n
        <4>2. p + 1 \in 1 .. n
          BY <4>1
        <4> QED BY <4>2 DEF p, n
      <3> QED BY <1>7, <3>1, <3>2
    <2>2. CASE pos' = Len(a'.LCs)
      <3>1. AtLine(Len(a.LCs), a.LC_cur)'
        BY <1>1, <1>4, <2>2 DEF SecondInv, AtLine
      <3> QED BY <1>6, <3>1
    <2> QED BY <1>5, <2>1, <2>2
  <1>9. ASSUME NEW x \in DOMAIN a'.image PROVE x <= 65535
    <2>1. x \in Nat
      BY <1>3, ImageNat
    <2>2. x \in DOMAIN a.image \/ x < a'.LC_cur
      BY <1>2 DEF EmitsBelow
    <2> QED BY <1>5, <1>8, <2>1, <2>2 DEF Low
  <1> QED BY <1>6, <1>7, <1>9 DEF Low

(* The assembler starts with nothing emitted. *)
LEMMA LowInit == asmInit => Low
  <1> SUFFICES ASSUME asmInit PROVE Low
    OBVIOUS
  <1>1. phase = "first" /\ a.LCs = << >> /\ a.image = << >> /\ Len(<< >>) = 0 /\ DOMAIN << >> = {}
    BY DEF asmInit
  <1> QED BY <1>1 DEF Low

(* No step of the assembler emits or starts a line past the 64K. *)
LEMMA LowNext ==
    ASSUME PassInv, Output, Low, [asmNext]_asmVars
    PROVE  Low'
  <1>1. CASE Srec_s9
    <2>1. phase' = "written" /\ a' = [a EXCEPT !.w = output_Srec(a.w)]
      BY <1>1 DEF Srec_s9
    <2>2. a'.LCs = a.LCs /\ a'.image = a.image
      BY <2>1 DEF PassInv, IsState, IsGlobals
    <2> QED BY <2>1, <2>2 DEF Low
  <1>2. CASE UNCHANGED asmVars
    BY <1>2 DEF asmVars, Low, AtLine
  <1> QED BY <1>1, <1>2, FirstPassLow, RewindLow, SecondPassLow DEF asmNext
=============================================================================
