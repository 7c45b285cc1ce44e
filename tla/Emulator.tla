------------------------------ MODULE Emulator ------------------------------
(* The MSP-430 emulator: loader, decoder, execution, clock, devices and the   *)
(* main loop. The devices' behaviour is in their files: a port, an initial    *)
(* status, and then a time and a status in turn.                              *)
EXTENDS Alu, SRecord

CONSTANTS
    AtEnd,        \* what a read past the end of a device's file may yield:
                  \* the buffer it leaves alone was never set
    MaxClock      \* bound: no run goes on after this clock

ASSUME AtEndAssumption == AtEnd \subseteq Int

VARIABLES
    stage,    \* "off", "load", "run", "poll", "doze" (the poll of a processor
              \* that sleeps) or "scan" (the debugger has control)
    next,     \* S-records loaded
    m,        \* the machine, see Cpu
    dev,      \* dev_port, dev_ToI and the values still to be read
    dbg,      \* the debugger, see NoDebugger
    calls     \* history: what the ISRs that run have interrupted

emuVars == <<stage, next, m, dev, dbg, calls>>

ISR_HCF  == 65468    \* 0xFFBC
ERR_VECT == 65534
VECT_TBL == 65472    \* 0xFFC0

-----------------------------------------------------------------------------
(* init_mem: the error vector leads to BIS #16,SR, which stops the clock. *)
init_mem ==
    [x \in (ISR_HCF .. ISR_HCF + 3) \cup {ERR_VECT, ERR_VECT + 1} |->
        CASE x = ERR_VECT     -> LOWBYTE(ISR_HCF)
          [] x = ERR_VECT + 1 -> HIGHBYTE(ISR_HCF)
          [] OTHER            -> <<50, 208, 16, 0>>[x - ISR_HCF + 1]]

(* init_dev_SR reads the port, the initial status, whose second byte is lost, *)
(* and the time of the first interrupt.                                       *)
Attached(f) == [port |-> f.port, ToI |-> Head(f.rest), rest |-> Tail(f.rest)]

StatusAt(files) ==
    [p \in {files[i].port : i \in DOMAIN files} |->
        LOWBYTE((CHOOSE f \in Range(files) : f.port = p).status)]

(* Without a debugger, or an option that says otherwise, brkpt and inst_cnt   *)
(* are -1; brkpt is compared as an unsigned number.                           *)
NoDebugger == [on       |-> FALSE,
               brkpt    |-> Reg32(-1),
               inst_cnt |-> -1,
               i        |-> -1,         \* counts inst_cnt down
               INIT_PC  |-> 0,          \* the PC of option I, 0 when it is not given
               B        |-> << >>,      \* the breakpoints the user will set
               TERM     |-> FALSE]

(* What the machine is when its devices have been attached. *)
Reset(files, PC_init) ==
    [reg           |-> [r \in reg_file |-> IF r = PC THEN PC_init ELSE 0],
     mem           |-> Over(StatusAt(files), init_mem),
     MDR           |-> 0,
     ir            |-> 0,
     src_mode      |-> DIR,
     dst_mode      |-> DIR,
     condition_tbl |-> Conditions(0),
     sys_clock     |-> 0,
     wild          |-> FALSE]

emuInit ==
    /\ stage = "off"
    /\ next = 0
    /\ m = Reset(<< >>, 0)
    /\ dev = << >>
    /\ dbg = NoDebugger
    /\ calls = << >>

(* The user starts the emulator with devices and debugger options. *)
PowerOn(setups) ==
    /\ stage = "off"
    /\ stage' = "load"
    /\ \E u \in setups :
          /\ m' = Reset(u.files, u.dbg.INIT_PC)
          /\ dev' = [i \in DOMAIN u.files |-> Attached(u.files[i])]
          /\ dbg' = u.dbg
    /\ UNCHANGED <<next, calls>>

-----------------------------------------------------------------------------
(* The loader stops at the first record whose checksum is wrong; the program  *)
(* is run whatever came of it.                                                *)

LoadS1(file) ==
    /\ stage = "load"
    /\ next < Len(file)
    /\ next' = next + 1
    /\ m' = [m EXCEPT !.mem = Stored(@, file[next + 1])]
    /\ stage' = IF Valid(file[next + 1]) THEN "load" ELSE "run"
    /\ UNCHANGED <<dev, dbg, calls>>

LoadS9(file, PC_init) ==
    /\ stage = "load"
    /\ next = Len(file)
    /\ m' = IF dbg.INIT_PC = 0 THEN SetReg(m, PC, PC_init) ELSE m
    /\ stage' = "run"
    /\ UNCHANGED <<next, dev, dbg, calls>>

-----------------------------------------------------------------------------
(* Bits 10 and 11 of a one-operand instruction are not looked at. *)
decode(s) ==
    CASE INST_TYPE(s) = 0 ->
            IF Bit(s.ir, 12) = 1 /\ INST_T1(s) # 7
            THEN [s EXCEPT !.dst_mode = ADDR_TBL(OP_T1(s), As_mode(s))]
            ELSE error(s)
      [] INST_TYPE(s) = 1 -> s
      [] OTHER -> [s EXCEPT !.src_mode = ADDR_TBL(SRC_T2(s), As_mode(s)),
                            !.dst_mode = ADDR_TBL(DST_T2(s), Ad_mode(s))]

ExecuteT1(s) ==
    IF s.dst_mode = DIR
    THEN Type1(s, OP_T1(s))
    ELSE Type1(fetch_op(s, TD2, s.dst_mode, OP_T1(s)), TD2)

ExecuteT2(s) ==
    LET src == fetch_op(s, TD1, s.src_mode, SRC_T2(s))
    IN  IF s.dst_mode = DIR
        THEN Type2(src, TD1, DST_T2(s))
        ELSE Type2(fetch_op(src, TD2, s.dst_mode, DST_T2(s)), TD1, TD2)

execute(s) ==
    CASE s.ir = 0                        -> s
      [] s.ir # 0 /\ INST_TYPE(s) = 0    -> ExecuteT1(s)
      [] INST_TYPE(s) = 1                -> JMP(s)
      [] INST_TYPE(s) \notin {0, 1}      -> ExecuteT2(s)

clk_cyclesT1 ==
    [i \in 0 .. 3 |-> <<1, 4, 4, 4, 3, 3, 0>>] @@ 4 :> <<3, 5, 5, 5, 4, 5, 4>>
    @@ 5 :> <<4, 5, 5, 5, 4, 5, 5>> @@ 6 :> <<5, 5, 5, 5, 5, 5, 5>>

clk_cyclesT2 ==
    DIR :> <<1, 3, 3, 3, 2, 2, 2>> @@ [i \in IDX .. ABS |-> <<4, 6, 6, 6, 5, 5, 5>>]
    @@ 4 :> <<2, 3, 3, 3, 2, 2, 3>>

Cycles(s) ==
    LET row == IF DST_T2(s) = PC /\ s.dst_mode = DIR THEN 4 ELSE s.dst_mode
    IN  CASE INST_TYPE(s) = 0 -> clk_cyclesT1[INST_T1(s)][s.dst_mode + 1]
          [] INST_TYPE(s) = 1 -> 2
          [] OTHER            -> clk_cyclesT2[row][s.src_mode + 1]

-----------------------------------------------------------------------------
(* The devices. A device whose time has come is given the next value of its   *)
(* file as its status at EVERY call, until it is served and has a new time.   *)

Value(d, junk) == IF d.rest = << >> THEN junk ELSE Head(d.rest)
Rest(d)        == IF d.rest = << >> THEN d.rest ELSE Tail(d.rest)

Due(clock) == {i \in DOMAIN dev : dev[i].ToI <= clock}

Statuses(due, junk) ==
    [p \in UNION {{dev[i].port, dev[i].port + 1} : i \in due} |->
        LET i == CHOOSE i \in due : p \in {dev[i].port, dev[i].port + 1}
            v == Value(dev[i], junk)
        IN  IF p = dev[i].port THEN LOWBYTE(v) ELSE HIGHBYTE(v)]

(* The machine s after the clock has moved on. *)
inc_clk(s, junk) ==
    LET clock == s.sys_clock + Cycles(s)
        due   == Due(clock)
    IN  /\ m' = [s EXCEPT !.sys_clock = clock,
                          !.mem = Over(Statuses(due, junk), @)]
        /\ dev' = [i \in DOMAIN dev |->
                      IF i \in due THEN [dev[i] EXCEPT !.rest = Rest(dev[i])] ELSE dev[i]]

IsIE(i)    == Bit(At(m.mem, dev[i].port), 0) = 1
IsInput(i) == Bit(At(m.mem, dev[i].port), 1) = 1
IsDBA(i)   == Bit(At(m.mem, dev[i].port), 2) = 1

Ready == {i \in DOMAIN dev : IsIE(i) /\ IsDBA(i) /\ dev[i].port < 32}

Top(i) == i \in Ready /\ \A j \in Ready : dev[i].port <= dev[j].port

ClrDBA(s, port) == [s EXCEPT !.mem = Store(@, port, Clear(At(@, port), 2))]

(* The device of the lowest port is served: an input interrupts the program   *)
(* and wakes the processor, an output is only written down.                   *)
Serve(i, junk) ==
    LET isr   == Interrupt(m, TD1, VECT_TBL + dev[i].port)
        awake == SetReg(isr, SR, Clear(isr.reg[SR], C_OFF))
    IN  /\ m' = ClrDBA(IF IsInput(i) THEN awake ELSE m, dev[i].port)
        /\ calls' = IF IsInput(i) THEN Append(calls, m.reg) ELSE calls
        /\ dev' = [dev EXCEPT ![i].ToI = Value(dev[i], junk), ![i].rest = Rest(dev[i])]

poll_dev(junk) ==
    IF Ready = {}
    THEN UNCHANGED <<m, dev, calls>>
    ELSE \E i \in Ready : Top(i) /\ Serve(i, junk)

-----------------------------------------------------------------------------
(* The main loop, and the debugger's: there the inner loop also ends after    *)
(* inst_cnt instructions and at the breakpoint, a processor that sleeps gets  *)
(* one tick of the clock, and then the user has a say.                        *)

IsReti(s) == INST_TYPE(s) = 0 /\ Bit(s.ir, 12) = 1 /\ INST_T1(s) = 6

Fetched == LET f == fetch(m) IN [f EXCEPT !.ir = f.MDR]

Running == ~m.wild /\ m.sys_clock < MaxClock /\ ~dbg.TERM

InLoop ==
    /\ ~Flag(m, C_OFF)
    /\ dbg.on => dbg.i # 0 /\ m.reg[PC] < dbg.brkpt

Asleep == Flag(m, C_OFF) /\ Flag(m, GIE)

Step ==
    /\ stage = "run" /\ Running
    /\ InLoop
    /\ \E junk \in AtEnd : inc_clk(execute(decode(Fetched)), junk)
    /\ calls' = IF IsReti(Fetched) /\ calls # << >> THEN Front(calls) ELSE calls
    /\ stage' = IF Flag(m', GIE) THEN "poll" ELSE "run"
    /\ dbg' = [dbg EXCEPT !.i = @ - 1]
    /\ UNCHANGED next

(* Mutant: the clock of a processor that sleeps stands still. *)
IdleStill ==
    /\ stage = "run" /\ Running
    /\ ~InLoop /\ Asleep
    /\ stage' = IF dbg.on THEN "doze" ELSE "poll"
    /\ dbg' = [dbg EXCEPT !.i = dbg.inst_cnt]
    /\ UNCHANGED <<next, m, dev, calls>>

Idle ==
    /\ stage = "run" /\ Running
    /\ ~InLoop /\ Asleep
    /\ \E junk \in AtEnd : inc_clk(m, junk)
    /\ stage' = IF dbg.on THEN "doze" ELSE "poll"
    /\ dbg' = [dbg EXCEPT !.i = dbg.inst_cnt]
    /\ UNCHANGED <<next, calls>>

Poll ==
    /\ stage \in {"poll", "doze"} /\ Running
    /\ \E junk \in AtEnd : poll_dev(junk)
    /\ stage' = IF stage = "doze" THEN "scan" ELSE "run"
    /\ UNCHANGED <<next, dbg>>

Break ==
    /\ stage = "run" /\ Running /\ dbg.on
    /\ ~InLoop /\ ~Asleep
    /\ stage' = "scan"
    /\ dbg' = [dbg EXCEPT !.i = dbg.inst_cnt]
    /\ UNCHANGED <<next, m, dev, calls>>

(* ENTER, after the next breakpoint the user has in mind. *)
Resume ==
    /\ stage = "scan" /\ Running
    /\ stage' = "run"
    /\ dbg' = IF dbg.B = << >>
              THEN dbg
              ELSE [dbg EXCEPT !.brkpt = Head(dbg.B), !.B = Tail(dbg.B)]
    /\ UNCHANGED <<next, m, dev, calls>>

Terminate ==
    /\ stage = "scan" /\ Running
    /\ dbg' = [dbg EXCEPT !.TERM = TRUE]
    /\ UNCHANGED <<stage, next, m, dev, calls>>

Halted == stage # "load" /\ Flag(m, C_OFF) /\ ~Flag(m, GIE)

runNext == Step \/ Idle \/ Poll \/ Break \/ Resume \/ Terminate
=============================================================================
