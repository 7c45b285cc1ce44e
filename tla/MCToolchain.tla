----------------------------- MODULE MCToolchain ----------------------------
(* Instances of the toolchain: every three-line program over a small set of   *)
(* lines, the test programs of the repository, and programs that devices      *)
(* interrupt at every point.                                                  *)
EXTENDS Toolchain

D(n)       == [val |-> n, atoi |-> n]        \* a decimal numeral
H(n, read) == [val |-> n, atoi |-> read]     \* a hexadecimal one

MCNum ==
    "0" :> D(0) @@ "1" :> D(1) @@ "2" :> D(2) @@ "3" :> D(3) @@ "4" :> D(4)
    @@ "5" :> D(5) @@ "6" :> D(6) @@ "8" :> D(8) @@ "16" :> D(16) @@ "24" :> D(24)
    @@ "32" :> D(32)
    @@ "$0" :> H(0, 0) @@ "$2" :> H(2, 2) @@ "$30" :> H(48, 30)
    @@ "$40" :> H(64, 40) @@ "$90" :> H(144, 90) @@ "$C0" :> H(192, 0)
    @@ "$CA" :> H(202, 0) @@ "$100" :> H(256, 100) @@ "$200" :> H(512, 200)
    @@ "$300" :> H(768, 300) @@ "$400" :> H(1024, 400) @@ "$1300" :> H(4864, 1300)
    @@ "$1234" :> H(4660, 1234) @@ "$2000" :> H(8192, 2000)
    @@ "$9999" :> H(39321, 9999) @@ "$FE00" :> H(65024, 0) @@ "$FFFF" :> H(65535, 0)
    @@ "$FFBA" :> H(65466, 0) @@ "$FFBE" :> H(65470, 0) @@ "$FFC0" :> H(65472, 0) @@ "$FFFE" :> H(65534, 0)
    @@ "$FF" :> H(255, 0) @@ "$1F" :> H(31, 1)

Op(form, name, reg) == [form |-> form, name |-> name, reg |-> reg]
R(n)    == Op("alpha", n, "")      \* a register, or a label
Imm(n)  == Op("#", n, "")
Abs(n)  == Op("&", n, "")
Ind(n)  == Op("@Rn", n, "")
Inc(n)  == Op("@Rn+", n, "")
X(n, r) == Op("x(Rn)", n, r)
None    == Op("", "", "")

Line(kind, name, src, dst, arg) ==
    [lbls |-> << >>, kind |-> kind, name |-> name, bw |-> 0, src |-> src,
     dst |-> dst, arg |-> arg, extra |-> FALSE]

I2(name, src, dst) == Line("instruction", name, src, dst, "")
I1(name, op)       == Line("instruction", name, op, None, "")
Dir(dir, arg)      == Line(dir, "", None, None, arg)
B(line)            == [line EXCEPT !.bw = 1]
L(label, line)     == [line EXCEPT !.lbls = Append(@, label)]
Nothing            == Line("none", "", None, None, "")

-----------------------------------------------------------------------------
(* Three lines, in every order: forward references, symbols defined twice or  *)
(* never, records that fill in the middle of a word, odd addresses.           *)
ShortLines ==
    {L("A", I2("MOV", Imm("B"), Abs("A"))),
     L("B", I2("ADD", R("A"), R("R5"))),
     I2("BIS", Inc("R5"), X("B", "R7")),
     I1("JMP", R("A")),
     Dir("BYTE", "3"),
     Dir("ALIGN", ""),
     Dir("BSS", "$2"),
     L("A", Dir("EQU", "32")),
     Dir("ORG", "$30"),
     Dir("WORD", "$1300"),
     Dir("ASCII", <<97, 98, 99>>),
     L("B", Nothing),
     L("B", L("A", Nothing))}

Short == {Append(lines, Dir("END", "$0")) : lines \in [1 .. 3 -> ShortLines]}

-----------------------------------------------------------------------------
(* Interrupts are on from the fourth instruction to BIC #8,SR: clock 8 to 50, *)
(* and 7 more for an ISR. No instruction in between sets the flags.           *)
Vectors == <<Dir("ORG", "$FFC0"), Dir("WORD", "$C0"), Dir("WORD", "$CA")>>

Isr0 == <<Dir("ORG", "$C0"), I2("ADD", Imm("1"), R("R11")), I1("RETI", None)>>
Isr1 == <<Dir("ORG", "$CA"), I2("ADD", Imm("1"), R("R12")), I1("RETI", None)>>

Halt == I2("BIS", Imm("16"), R("SR"))

Window ==
    <<Dir("ORG", "$40"),
      I2("MOV", Imm("$FFBE"), R("SP")),
      I2("MOV", Imm("5"), R("R4")),
      I2("MOV", Imm("6"), R("R5")),
      I2("BIS", Imm("8"), R("SR")),
      I2("MOV", R("R4"), R("R6")),
      I1("PUSH", R("R5")),
      I1("CALL", Imm("SUBR")),
      I2("MOV", Inc("SP"), R("R7")),
      I2("MOV", Abs("V"), R("R8")),
      I2("MOV", R("V"), R("R9")),
      I1("SWPB", R("R9")),
      I2("MOV", R("R9"), Abs("V")),
      I1("JMP", R("ON")),
      I2("BIS", Imm("$FFFF"), R("R10")),
      L("ON", I2("BIC", Imm("2"), R("R9"))),
      B(I2("MOV", R("V"), R("R13"))),
      I2("MOV", Imm("V"), R("R14")),
      I1("PUSH", Ind("R14")),
      I2("MOV", Inc("SP"), R("R15")),
      I2("BIC", Imm("8"), R("SR")),
      I2("ADD", R("R6"), R("R7")),
      Halt,
      L("SUBR", I2("MOV", R("R5"), R("R10"))),
      I2("MOV", Inc("SP"), R("PC")),
      L("V", Dir("WORD", "$1234"))>>
    \o Isr0 \o Isr1 \o Vectors \o <<Dir("END", "$40")>>

WindowRegs ==
    SP :> 65470 @@ 6 :> 5 @@ 7 :> 11 @@ 8 :> 4660 @@ 9 :> 13328 @@ 10 :> 6
    @@ 11 :> 1 @@ 12 :> 1 @@ 13 :> 18 @@ 15 :> 13330

(* ISR0 lets ISR1 interrupt it, between its clocks 2 and 8. *)
Nested ==
    <<Dir("ORG", "$40"),
      I2("MOV", Imm("$FFBE"), R("SP")),
      I2("BIS", Imm("8"), R("SR")),
      I2("MOV", R("SP"), R("R4")),
      I1("SWPB", R("R4")),
      I2("MOV", R("SP"), R("R5")),
      I2("BIC", Imm("8"), R("SR")),
      Halt>>
    \o <<Dir("ORG", "$90"),
         I2("BIS", Imm("8"), R("SR")),
         I2("MOV", R("SP"), R("R13")),
         I1("PUSH", R("R13")),
         I2("MOV", Inc("SP"), R("R11")),
         I2("BIC", Imm("8"), R("SR")),
         I1("RETI", None)>>
    \o Isr1
    \o <<Dir("ORG", "$FFC0"), Dir("WORD", "$90"), Dir("WORD", "$CA"), Dir("END", "$40")>>

(* The processor sleeps; the second device's ISR ends the program. *)
Sleeper ==
    <<Dir("ORG", "$40"),
      I2("MOV", Imm("$FFBE"), R("SP")),
      I2("BIS", Imm("24"), R("SR"))>>
    \o Isr0
    \o <<Dir("ORG", "$CA"), I2("ADD", Imm("1"), R("R12")), Halt>>
    \o Vectors \o <<Dir("END", "$40")>>

-----------------------------------------------------------------------------
(* test_multiply.txt, test_general.txt, test_DADD.txt and a part of           *)
(* test_jump.txt, with the registers their outputs show.                      *)

Prologue(start, sp) ==
    <<Dir("ORG", start),
      I2("MOV", Imm("SP_INIT"), R("SP")),
      I1("JMP", R("START")),
      L("SP_INIT", Dir("EQU", sp))>>

test_multiply ==
    Prologue("$30", "$FFBA") \o
    <<Dir("ORG", "$100"),
      L("START", Nothing),
      I2("MOV", Imm("2"), R("R6")),
      I2("MOV", Imm("4"), R("R7")),
      I2("MOV", Imm("$2000"), R("R8")),
      I1("CALL", Abs("MULT")),
      Halt,
      L("MULT", I2("CMP", Imm("0"), R("R6"))),
      I1("JZ", R("MULT_DONE")),
      I2("SUB", Imm("1"), R("R6")),
      I2("ADDC", R("R7"), X("0", "R8")),
      I1("JMP", R("MULT")),
      L("MULT_DONE", I2("MOV", Inc("SP"), R("PC"))),
      Dir("END", "$30")>>

test_general ==
    Prologue("$30", "$FFBE") \o
    <<L("ARRAY", Dir("EQU", "$2000")),
      Dir("ORG", "$100"),
      L("START", Nothing),
      I2("BIS", Imm("2"), R("R4")),
      I1("RRA", R("R4")),
      I2("MOV", Imm("$FE00"), R("R5")),
      I1("SWPB", R("R5")),
      I2("XOR", R("R4"), R("R5")),
      I2("ADD", R("R5"), R("R4")),
      I2("MOV", Imm("2"), R("R7")),
      I2("ADD", X("ARRAY", "R7"), R("R5")),
      I2("ADD", Imm("2"), R("R7")),
      I2("ADD", X("ARRAY", "R7"), R("R5")),
      I2("ADD", Imm("2"), R("R7")),
      I2("SUB", X("ARRAY", "R7"), R("R5")),
      Halt,
      Dir("ORG", "$2000"),
      Dir("WORD", "$100"), Dir("WORD", "$200"), Dir("WORD", "$300"), Dir("WORD", "$400"),
      Dir("END", "$30")>>

DADD_from(sp) ==
    Prologue("$30", sp) \o
    <<Dir("ORG", "$100"),
      L("START", I2("MOV", Imm("$9999"), R("R6"))),
      I2("MOV", Imm("$FFFF"), R("R7")),
      I2("DADD", R("R6"), R("R6")),
      I2("DADD", R("R6"), R("R7")),
      Dir("END", "$30")>>

test_jump ==
    <<Dir("ORG", "$40"),
      I2("MOV", Imm("6"), R("R6")),
      I2("MOV", Imm("8"), R("R7")),
      I2("ADD", Imm("1"), R("R10")),
      I2("CMP", R("R6"), R("R6")),
      I1("JNE", R("FIN")),
      I2("ADD", Imm("1"), R("R10")),
      I2("CMP", R("R7"), R("R6")),
      I1("JGE", R("FIN")),
      I1("JL", R("LESS")),
      I1("JMP", R("FIN")),
      L("LESS", I2("MOV", Imm("1"), R("R9"))),
      I2("ADD", Imm("$FFFF"), R("R9")),
      I1("JNC", R("FIN")),
      I1("JC", R("ON")),
      I1("JMP", R("FIN")),
      L("ON", I2("ADD", Imm("1"), R("R10"))),
      I2("MOV", Imm("1"), R("R12")),
      I2("SUB", Imm("5"), R("R12")),
      I1("JN", R("NEG")),
      I1("JMP", R("FIN")),
      L("NEG", I2("ADD", Imm("1"), R("R10"))),
      L("FIN", Halt),
      Dir("END", "$40")>>

(* With its stack below the error handler, and where the test puts it. *)
below_handler == DADD_from("$FFBA")
test_DADD     == DADD_from("$FFBE")

(* Every instruction and every kind of operand once, bytes and words. *)
Operands ==
    Prologue("$30", "$FFBE") \o
    <<Dir("ORG", "$100"),
      L("START", I2("MOV", Imm("D"), R("R4"))),
      I2("SUBC", Ind("R4"), R("R5")),
      B(I2("ADD", Inc("R4"), R("R5"))),
      I2("AND", R("D"), Abs("D")),
      I2("BIT", Abs("D"), R("R5")),
      B(I2("SUB", R("R5"), X("1", "R4"))),
      I1("RRC", X("1", "R4")),
      B(I1("RRA", R("R5"))),
      B(I1("RRC", Ind("R4"))),
      I1("SXT", R("R5")),
      I1("PUSH", Inc("R4")),
      I2("BIC", Inc("SP"), R("D")),
      B(I2("DADD", Imm("24"), R("R9"))),
      I2("XOR", Imm("$FF"), X("2", "SP")),
      Halt,
      L("D", Dir("WORD", "$1234")), Dir("BYTE", "5"), Dir("BYTE", "$1F"),
      Dir("END", "$30")>>

(* test_dev.txt. *)
test_dev ==
    <<Dir("ORG", "$40"),
      I2("MOV", Imm("$FFBE"), R("SP")),
      I2("BIS", Imm("8"), R("SR")),
      I2("BIS", Imm("16"), R("SR"))>>
    \o Isr0 \o Isr1 \o Vectors \o <<Dir("END", "$40")>>

-----------------------------------------------------------------------------
(* Devices: two inputs, and an output. After its events a device has a time   *)
(* that does not come.                                                        *)
Never == 9999

Device0(t)  == [port |-> 0, status |-> 3, rest |-> <<t, 7, Never>>]
Device1(t)  == [port |-> 2, status |-> 3, rest |-> <<t, 263, Never>>]
Twice0(t, u) == [port |-> 0, status |-> 3, rest |-> <<t, 7, u, 519, Never>>]
Output(t)   == [port |-> 4, status |-> 1, rest |-> <<t, 5, Never>>]

DEV0 == [port |-> 0, status |-> 3, rest |-> <<28, 65287, 34, 7>>]
DEV1 == [port |-> 2, status |-> 1, rest |-> <<7, 5, 14, 261, 28, 517, 36, 773>>]

Debugger(n, brkpt, later) ==
    [NoDebugger EXCEPT !.on = TRUE, !.inst_cnt = n, !.i = n, !.brkpt = brkpt, !.B = later]

Plain == NoDebugger
Use(files, debugger) == [files |-> files, dbg |-> debugger]

OnlyTestDADD == {test_DADD}
OnlyTestDev  == {test_dev}

MCPrograms == {Window, Nested, Sleeper, test_multiply, test_general, below_handler,
               test_jump, Operands} \cup Short

MCSetups ==
    Window :>
        {Use(<<Device0(t[1]), Device1(t[2])>>, Plain) :
            t \in {t \in (7 .. 55) \X (7 .. 55) : t[1] - t[2] \in {-20, -13, 12, 21}}}
        \cup {Use(<<Device0(t), Device1(t + 12)>>, Debugger(n, 80, <<100, NoDebugger.brkpt>>)) :
                t \in {7, 23, 43}, n \in {-1, 1, 3}}
    @@ Sleeper :>
        {Use(<<Twice0(t, t + 12), Device1(t + 30), Output(t + 6)>>, debugger) :
            t \in 5 .. 12, debugger \in {Plain, Debugger(-1, NoDebugger.brkpt, << >>)}}
    @@ Nested :> {Use(<<Device0(4), Device1(u)>>, Plain) : u \in 6 .. 11}
    @@ test_dev :> {Use(<<DEV0, DEV1>>, Plain)}
    @@ test_multiply :> {Use(<< >>, Debugger(n, 264, <<NoDebugger.brkpt>>)) : n \in {-1, 1, 2}}

MCExpected ==
    Window :> WindowRegs
    @@ Sleeper :> (11 :> 2 @@ 12 :> 1)
    @@ Nested :> (SP :> 65470 @@ 4 :> 48895 @@ 5 :> 65470 @@ 11 :> 65466 @@ 12 :> 1 @@ 13 :> 65466)
    @@ test_multiply :> (SP :> 65466 @@ SR :> 18 @@ 6 :> 0 @@ 7 :> 4 @@ 8 :> 8192)
    @@ test_general :> (PC :> 300 @@ SP :> 65470 @@ SR :> 16 @@ 4 :> 256 @@ 5 :> 511 @@ 7 :> 6)
    @@ below_handler :> (SP :> 65462 @@ 6 :> 39320 @@ 7 :> 65535)
    @@ test_jump :> (6 :> 6 @@ 7 :> 8 @@ 9 :> 0 @@ 10 :> 4 @@ 12 :> 65532)
    @@ Operands :> (SR :> 16 @@ 4 :> 311 @@ 5 :> 65535 @@ 9 :> 24)
===========================================================================
