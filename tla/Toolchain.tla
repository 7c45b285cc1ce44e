----------------------------- MODULE Toolchain ------------------------------
(* From an assembly source to the program running in the emulator: the cross  *)
(* assembler, its S-records, the loader and the machine.                      *)
EXTENDS Assembler, Emulator

CONSTANTS
    Setups,     \* program -> how it is run: device files and debugger options
    Expected    \* program -> the registers it should end with

(* A device's two bytes of status lie in memory, its file has the time of its *)
(* first interrupt, and option I of the debugger takes an unsigned number.    *)
ASSUME SetupsAssumption ==
    \A p \in DOMAIN Setups : \A u \in Setups[p] :
        /\ u.dbg.INIT_PC \in Nat /\ u.dbg.INIT_PC < 2^20
        /\ \A i \in DOMAIN u.files :
              /\ u.files[i].port \in Nat /\ u.files[i].port < 65535
              /\ u.files[i].status \in Int
              /\ u.files[i].rest \in Seq(Int) /\ u.files[i].rest # << >>

vars == <<asmVars, emuVars>>

TypeOK ==
    /\ phase \in {"first", "second", "refused", "written"}
    /\ pos \in 0 .. Len(prog)
    /\ a.LC_cur \in Nat /\ a.LC_old \in Nat
    /\ \A n \in DOMAIN a.sym_tbl : a.sym_tbl[n].type \in {"REG", "LABEL", "IMM", "UNKNOWN"}
    /\ Len(a.w.data) < max_data
    /\ stage \in {"off", "load", "run", "poll", "doze", "scan"}
    /\ next \in 0 .. Len(a.w.file)
    /\ m.reg \in [reg_file -> 0 .. 2^20 - 1]
    /\ \A x \in DOMAIN m.mem : x \in 0 .. 2^16 - 1 /\ m.mem[x] \in 0 .. 2^8 - 1
    /\ m.src_mode \in DIR .. IMM /\ m.dst_mode \in DIR .. IMM
    /\ m.condition_tbl \in [1 .. 8 -> BOOLEAN]

Init == asmInit /\ emuInit

Assemble == asmNext /\ UNCHANGED emuVars

Start ==
    /\ phase = "written"
    /\ PowerOn(IF prog \in DOMAIN Setups
               THEN Setups[prog]
               ELSE {[files |-> << >>, dbg |-> NoDebugger]})
    /\ UNCHANGED asmVars

Load == (LoadS1(a.w.file) \/ LoadS9(a.w.file, a.PC_init)) /\ UNCHANGED asmVars

Run == runNext /\ UNCHANGED asmVars

Next == Assemble \/ Start \/ Load \/ Run

Spec == Init /\ [][Next]_vars

(* The processor runs on, and at the debugger's prompt the user goes on:      *)
(* WF_vars(Advance), with ENABLED Advance written out as CanAdvance.          *)
Advance == Start \/ Load \/ Run

CanAdvance ==
    \/ phase = "written" /\ stage \in {"off", "load"}
    \/ stage = "run" /\ Running /\ (InLoop \/ Asleep \/ dbg.on)
    \/ stage \in {"poll", "doze", "scan"} /\ Running

FairSpec == Spec /\ (<>[]CanAdvance => []<><<Advance>>_vars)

-----------------------------------------------------------------------------
(* When the program starts, memory holds the byte the assembler emitted last  *)
(* for each address, no record was refused, and nothing else was written: so  *)
(* records begin and end right at ORG, BSS, and in the middle of a word.      *)
LoadsImage ==
    [][stage = "load" /\ stage' = "run" =>
          /\ next' = Len(a.w.file)
          /\ \A x \in DOMAIN m'.mem :
                IF x \in DOMAIN a.image
                THEN m'.mem[x] = a.image[x]
                ELSE x \in DOMAIN init_mem \cup {dev[i].port : i \in DOMAIN dev}
          /\ DOMAIN a.image \subseteq DOMAIN m'.mem]_vars

(* The instruction line at the PC, if its code is still as it was assembled. *)
Current ==
    {prog[l] : l \in {l \in DOMAIN a.LCs :
        /\ a.LCs[l] = m.reg[PC] /\ prog[l].kind = "instruction"
        /\ \A x \in m.reg[PC] .. m.reg[PC] + 5 :
              x \in DOMAIN a.image => At(m.mem, x) = a.image[x]}}

(* The operand that leaves its address in TA. *)
Addressed(line) ==
    {op \in {line.src, line.dst} :
        /\ Mode(a, op) \in {"RELATIVE", "ABSOLUTE"}
        /\ op = line.dst \/ Type(line) = 1 \/ Mode(a, line.dst) = "REGISTER"}

Target(op) == LOWWORD(a.sym_tbl[op.name].value)

(* A relative operand before the instruction is not reached: the word in the  *)
(* code is the distance modulo 2^16, and the sum in TA is not reduced.        *)
Backward(op) == Mode(a, op) = "RELATIVE" /\ Target(op) < m.reg[PC] + 6

Reached(line) ==
    IF Type(line) = 3
    THEN LET d == a.sym_tbl[line.src.name].value - m.reg[PC] - 2
         IN  JumpOK(d) /\ m.condition_tbl[COND_T3(Fetched) + 1]
                => m'.reg[PC] = m.reg[PC] + 2 + d
    ELSE \A op \in Addressed(line) : Backward(op) \/ m'.reg[TA] = Target(op)

(* An operand that names a label is taken from the label's address and a jump *)
(* that is taken goes to its label, through the two passes, the S-records and *)
(* the decoder: for a label not before the instruction.                       *)
Reaches ==
    [][stage = "run" /\ m' # m /\ ~Flag(m, C_OFF) /\ m'.ir # 0 =>
          \A line \in Current : Reached(line)]_vars

(* RETI resumes exactly what the interrupt had interrupted: the program       *)
(* counter, the status register and the stack pointer, with interrupts nested *)
(* and wherever in the program they come.                                     *)
Restores ==
    [][Len(calls') < Len(calls) =>
          \A r \in {PC, SP, SR} : m'.reg[r] = Last(calls)[r]]_vars

(* What a program must keep to for that. An interrupt comes when the PC and   *)
(* SR fit their words and the stack has room for them, above the devices and  *)
(* below what the ISR that runs has to return to. No instruction but RETI     *)
(* touches what an ISR has to return to, and RETI, which has no operand,      *)
(* comes with the stack pointer back where the interrupt left it.             *)
Disciplined ==
    /\ \A i \in DOMAIN dev : stage \in {"poll", "doze"} /\ Running /\ Top(i) /\ IsInput(i) =>
          /\ m.reg[PC] < 2^16 /\ m.reg[SR] < 2^16
          /\ \A j \in DOMAIN dev : dev[j].port + 1 < m.reg[SP] - 4
          /\ calls # << >> => m.reg[SP] <= Last(calls)[SP] - 4
    /\ stage = "run" /\ Running /\ InLoop /\ calls # << >> =>
          IF IsReti(Fetched)
          THEN As_mode(Fetched) = 0 /\ m.reg[SP] = Last(calls)[SP] - 4
          ELSE \A k \in DOMAIN calls : \A x \in calls[k][SP] - 4 .. calls[k][SP] - 1 :
                  At(execute(decode(Fetched)).mem, x) = At(m.mem, x)

(* An event of a device that waits to be served is not replaced by the next   *)
(* value of the device's file (DEV_FORMAT.txt: "to ensure the device's        *)
(* interrupt is handled the DBA bit must be set here").                       *)
Keeps(i) ==
    LET port == dev[i].port
    IN  /\ At(m'.mem, port) \in {At(m.mem, port), Clear(At(m.mem, port), 2)}
        /\ At(m'.mem, port + 1) = At(m.mem, port + 1)

NoneLost ==
    [][\A i \in DOMAIN dev : stage # "load" /\ i \in Ready => Keeps(i)]_vars

(* A program ends with the results it was written for, whenever the devices   *)
(* interrupt it.                                                              *)
Computes ==
    Halted /\ prog \in DOMAIN Expected =>
        \A r \in DOMAIN Expected[prog] : m.reg[r] = Expected[prog][r]

(* Once assembled, such a program is loaded and run to its end, unless the    *)
(* user of the debugger terminates it: a processor that sleeps is woken.      *)
Terminates ==
    phase = "written" /\ prog \in DOMAIN Expected ~> Halted \/ dbg.TERM

(* CPU.c on error(): "by defualt this function will set the C-off bit in the  *)
(* Status Register". The instruction after an error, when the program has set *)
(* no vector of its own, stops the clock.                                     *)
FaultStops ==
    [][stage = "run" /\ m' # m /\ m.ir = 0 /\ m.reg[PC] = ISR_HCF => Flag(m', C_OFF)]_vars
=============================================================================
