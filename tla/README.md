# Academics in TLA+

TLA+ models, TLC configurations and machine-checked proofs for the three
programs of the *Academics* repository:

| Program | Directory | What it is |
|---|---|---|
| Train-OS | `src/Train-OS/Train_Controller` | a pre-emptive message-passing kernel for a Cortex-M4, and an application on it that drives two model trains over one track |
| Cross Assembler | `src/Cross Assembler` | a two-pass MSP-430 assembler that writes Motorola S-records |
| MSP-430 emulator | `src/MSP-430/emulator` | loads those S-records and executes them, with devices and interrupts |

The names of definitions are the source's where TLA+ allows it; `PROJECT.json`
gives the source lines of each. Below, `TC/` is `src/Train-OS/Train_Controller/`.

## 1. Inventory

### Train-OS

Interaction in one picture (arrows are messages on sockets unless named):

```
 train ──magnets──> Atmel ──GPIO F irq──> HAL_SOCKET ──> hal_server ──> CONDUCTOR
                      ^                                                  |   ^
          SPI (10-byte packets)                    TRIGGERED_HS/FULL_PATH|   |NEW_TR_HS,
                      |                                                  v   |FULL_PATH, COLLISION
               spi_controller <── SPI_SOCKET ── express_controller, local_controller
                                                      |
                                              DISPLAY_SOCKET ──> display_controller ──print──> UART ring ──irq──> terminal
```

* **Processes and scheduling** (`kernel.c`, `kernelcalls.c`, `intr_handlers.c`).
  State: `wtr[MAX_NUM_PRI]`, heads of circular doubly linked lists of PCBs;
  `running`; `cur_priority`; each PCB's priority, stack and bound socket; the
  pending bit of PendSV; `ToD`. Operations: `create_proc`, `get_new_proc`,
  `nice`, `terminate`, `getid`, the SysTick, SVC and PendSV handlers.
  Hard: every exception and every call edits the same rings; `dequeue_pcb`
  never moves `wtr`; a process that blocks runs on until PendSV. Correct when
  each list is one ring of exactly the processes of its queue, the highest
  ready priority runs, equals take turns, and no process is ever lost.
* **Sockets** (`msg_queue.c`). State: `socket_list`, per socket the owner, a
  spin flag and a circular array with two indices. Operations: `bind`, `send`,
  `recv` (one or two SVCs), `k_send_message` from the GPIO handler. Hard: test
  and sleep against a send from an interrupt, the second SVC of `recv` whose
  result is not tested, an array with no test for full. Correct when packets
  arrive once, in order, at the owner, and a waiting owner is always woken.
* **Train control** (`train_control.c`). State: each controller's current, next
  and previous path, its place in the route and in the path; the conductor's
  view of both trains, the sensors it expects and `blocked_train`. Operations:
  one per message kind and process. Hard: two trains' reports interleave
  through three queues, every decision is made on another process's old state,
  one train is released by the other's message. Correct when the trains are
  never in one collision area, sensors are attributed to the train that set
  them off, switches are turned in time, and a stopped train goes on again.
* **SPI link** (`spi.c`, `GPIOPortF_IntHandler`, `hal_server`). State: the copy of
  the last train packet, `XMIT_SOCKET`, the wake-ups in `HAL_SOCKET`, the Atmel's two
  request pins. Operations: queue a command, exchange a packet, wait 16 ticks,
  re-send after an error, ask for a sensor, report it, acknowledge it. Hard: one
  copy for two trains, an error message that names no packet and queues with the
  others, a wake-up that says only that some sensor waits, a response read after
  its frame is gone. Correct when every sensor is reported once and in order, a
  re-send takes no train back, and the last command gets through; and, whatever
  comes together, when no sensor is given up before it was reported.
* **UART output** (`UART.c`, `Kprint`, `UART0_IntHandler`). State: a ring of 1024
  characters, `xmit_busy`. Hard: the writer and the transmit interrupt share
  the flag and the indices; no test for a full ring.
* **Heap** (`mem_manager.c`). State: `heap[248]`, five classes of block sizes.
  Operations: `allocate`, `deallocate`. Hard: the search bound at the end of a
  class and of the table. Correct when live blocks are disjoint.
* **Semaphores** (`Semaphore.c`): `kwait`, `kpost`; in no kernel-call table.
* **SysTick and `delay`**, **display**, **command line and debugger**,
  **start-up**: a tick counter, an output formatter, an input server that the
  process table does not start, and register set-up.

### Cross Assembler

State: the location counters `LC_cur` and `LC_old`, the symbol table, the error,
end and pass flags, the S-record being filled. First pass: one line at a time into
a record, with a location counter that each instruction, operand and directive
advances, and symbols that may be mentioned before they are defined. Second pass:
the words of each instruction and directive into S-records of bounded length with
a checksum. Correct when the two passes agree on every address, every label used
is defined, and memory ends up holding what was emitted. Sequential; the hazards
are boundaries (a record that fills up inside a word, `ORG` and `BSS` that cut one
off, distances with a sign) and two pieces of code that must count alike.

### MSP-430 emulator

State: the register table with three temporaries, `mem[]`, the instruction
register, the table of jump conditions, the clock, per device a port, a time and a
file, the debugger's breakpoint and count. Operations: load a record, fetch,
decode, execute, move the clock (which gives devices their status), poll the
devices, interrupt and return. Correct when what the assembler writes is what the
loader reads, results and flags are those of the instruction, an interrupt resumes
exactly what it interrupted, no event is lost and a sleeping processor is woken.
Hard: arithmetic at two widths, devices that are ready together or during another's
ISR, the error vector, a status register cached in two places.

The complete list of components, with what is and is not modelled of each, is
`components` in `PROJECT.json`; `hazards` lists what is hard to test in them,
each at its line, with the property that covers it or the reason none does.

## 2. Modules

| Module | Models | Kind |
|---|---|---|
| `ReadyQueue` | the waiting-to-run rings: `enqueue_pcb`, `dequeue_pcb`, the scan and rotation of `get_new_proc` | operators |
| `MsgQueue` | one entry of `socket_list`: the circular array of packets | operators |
| `Kernel` | boot, scheduling, exceptions, sockets; all of it interleaved | specification |
| `Scheduler` | what scheduling promises: strict priorities, round robin | abstract specification |
| `Mailbox` | what the sockets promise: FIFO, exactly once, one owner | abstract specification |
| `TrainControl` | controllers, conductor, hall-sensor server, switches, and the trains | specification |
| `Uart` | the print call, the ring of characters, the transmit interrupt, the UART | specification |
| `Stream` | what printing promises | abstract specification |
| `Heap` | `init_mem`, `allocate`, `deallocate` | specification |
| `SpiLink` | `spi_controller`, `hal_server`, the commands, the interrupt, the Atmel | specification |
| `SRecord` | the S-record writer and the loader's record | operators |
| `Assembler` | symbols, operands, directives, records and both passes | specification part |
| `Words`, `Cpu`, `Alu` | words and bits; registers, bus and operands; the instructions | operators |
| `Emulator` | loader, decoder, execution, clock, devices, main loop, debugger | specification part |
| `Toolchain` | assembler, loader and machine composed | specification |
| `MCKernel`, `MCUart`, `MCHeap`, `MCToolchain` | process tables, strings, block tables, programs and device files for TLC | instances |
| `Arithmetic` | least elements, circular arrays, functions applied in turn | lemmas |
| `KernelProofs` | inductive invariant, safety; that the kernel implements `Mailbox` and `Scheduler` | proofs |
| `TrainProofs` | what the train processes know of the trains, how full their sockets get | proofs |
| `UartProofs`, `HeapProofs`, `SpiLinkProofs`, `AssemblerProofs` | inductive invariants, safety | proofs |
| `ToolchainProofs` | that the loader restores what the assembler emitted, the machine keeps its ranges, and RETI goes back to where the interrupt came | proofs |

`Kernel` EXTENDS `ReadyQueue` and `MsgQueue` and instantiates `Scheduler` and
`Mailbox` under refinement mappings; `Uart` instantiates `Stream`.
`TrainControl` and `SpiLink` use the sockets at the level of `Mailbox`: unbounded
queues. `TrainControl` never has more than four packets in one of them
(`MailboxesStayShort`), far from the 30 slots of `MSG_QUEUE_SIZE`. It takes the link
to the Atmel as reliable; what the link does when it is not is `SpiLink`.
`Toolchain` EXTENDS `Assembler` and `Emulator`, which meet in `SRecord`; `Emulator`
EXTENDS `Alu`, that `Cpu`, that `Words`.

### Kernel

`rq` is `wtr[]` and every PCB's `next`/`prev` as the pointer structure the code
has, with one auxiliary part, `order`: the queue each list is meant to be. No
guard reads `order`; `RingsMatch` says that the pointers represent it. `sock` is
`socket_list`, `pcb` the fields of the PCBs, `pendsv` the PENDSVSET bit,
`booted` the progress of `Kinit`, and `thread` where each process is inside
`recv()`, whose frame (`recv_packet`) survives between its two SVCs.

*Granularity.* SVC, SysTick and GPIO F keep their reset priority 0
(`intr_handlers.c`, `Kernel_Initialization` sets only PendSV's, to the lowest),
so none pre-empts another: a handler, and everything it calls, is one action.
PendSV runs after all other handlers and before any instruction of a thread, so
a thread's action needs `~pendsv`. Everything a process does between two SVCs
touches only its own stack and is not a step, except the copy at the end of
`recv` (`recv_return`), which is where a packet that was never written would
reach the caller.

*Abstractions.* A packet is a model value (size, source and bytes are copied
together); a slot of the array that has not been written holds `NoMsg`.
`getid`, a `bind` that fails, and `print` change nothing modelled. Stacks and
register contents are left out, and a process that ends is not created again.
`dequeue_pcb` on the only process of a queue stores through the `NULL` it has
just written; address 0 is flash on this part and the store has no effect.
`k_send_message` puts back the receiver with its PCB's priority, and
`k_recv_message` takes it out of that same queue, while `Knice` changes only
`cur_priority`: modelled as written.

### TrainControl

`ctl`, `con` are the locals of `express_controller`, `local_controller` and
`TheFatController`; `mail` the unread messages of the three sockets; `todo` what
a controller still has to send the conductor before its next `recv()`, so that
sends of two processes interleave; `told` what the commands so far make the
Atmel do (speed of each train, position of each switch); `atmel` the sensors
waiting to be read. `pos` is the environment: which leg of its route a train is
on and how many of its three sensor events it has passed.

The trains are not code. What is assumed about them is in the model as named
constants and guards:

* a train passes the sensors of its path table in order, head and tail magnet;
* only a train with power moves;
* the messages about a train's last sensor are handled before it passes its
  next one, and meanwhile the other train passes at most `ExpressLag` /
  `LocalLag` sensors (1);
* one train passes at most `MaxGap` (4) sensors between two of the other, if
  that one can move (their relative speed);
* outside the collision areas, where the code leaves it to the timetable, they
  keep a section apart;
* `ExpressWaits`: an express that slows down to SPEED3 passes no sensor before
  it is released. The run takes it for granted (`TRUE`), because the code loses count
  otherwise (section 5). The theorems are about both values: each says which part
  holds in any case (the local's) and which needs that no such step was taken (`Slips`).

The limits are not slack. With `LocalLag = 2` the expected sensor, which the
conductor does not clear when it forwards a report, is old enough for the other
train to be taken for the local (`Attributed`, `Tracked` fail). With
`ExpressLag = 2` a release is sent before the block it should release, and both
trains can end up waiting (`OneBlocked` fails). With `MaxGap = 6` the express
catches up while the conductor still has the wrong initial path
(`NoCollision` fails). Messages to the display and `train_control_init` are
left out.

### Uart

`out_queue`, `out_head`, `out_tail`, `xmit_busy` are the code's. `string` is what
`Kprint` has still to place, `handling` whether `UART0_IntHandler` is between
clearing the interrupt and writing the next character. `DR`, `shifting` and
`TXMIS` are the UART without FIFOs as `UART0_Init` sets it up (external): the
data register holds one character, and the interrupt is raised when it moves on
to the line. `Kprint` and the handler have the same priority and exclude each
other; the UART moves between any two of their steps, which is why the handler
is two actions and one turn of `Kprint`'s loop is one. A thread prints only when
no interrupt is pending. Only transmission is modelled: the receive half of the
handler does nothing.

`Stream` says what comes out, including the overrun: there is no test for a full
ring, and a character that finds `UART_QUEUE_SZ - 1` waiting makes the ring look
empty. The program avoids it by waiting 16 ticks in `print()`, which no code
checks to be enough.

### Heap

`heap` is the table, `i` and `mem_loc` the variables of `init_mem`, one turn of
whose loops is one action; `allocate` and `deallocate` are called inside SVCs
and are one action each. `held` is what the callers were given. `Junk` stands
for two results the source does not determine: what lies at `heap[248]`, which
the search reads when every block is taken, and the variable `allocate` returns
unset for more than 2048 bytes. The run `Heap` and the theorems take what is
not computed for the answer `-1`; the run `HeapPast` does not.

### SpiLink

`xmit` and `wakeups` are the unread messages of `XMIT_SOCKET` and `HAL_SOCKET`,
`train_ctrl_pkt` and `delaying` the locals and the place of `spi_controller`, `hal`
those of `hal_server`. A packet is exchanged inside one SVC, with interrupts held
off, and is one step: the ten bytes, and the polling for each, are inside it. A
command is the number of the command its train was given, so that old and new can
be told apart; `sent` counts them.

The Atmel is external: `waiting` are the sensors it keeps until they are
acknowledged (pin 0 is up while there is one), `pin1` the error pin, `handling` the
command it is passing to a train, `told` the last one each train received. What is
assumed of it, and taken from how `spi.c` and `hal_server` use it: it answers a
request with the first sensor, drops it at its acknowledgement and raises pin 0
again for the next, and is done with a command within `delay(16)`. Threads run only
when no interrupt is pending; the Atmel moves between any two steps, also between
the clearing of the edges and the reading of the pins in `GPIOPortF_IntHandler`.

The model has two things in it that the program relies on not to happen, and cannot
see to. `Junk` is what a handler may leave where the response was before `hal_server`
has read it (`kxmit_spi` returns a pointer into its own frame); `Intact` says that
nothing of it was read so far. And a command may fail while a sensor waits, or a sensor come
while the error pin is up, when the handler clears both pins' edges and serves one;
the history `apart` says that this has not happened so far. No guard reads either: the
run `Spi` and the theorems are about everything, and each property says what it needs.

| Needs | Property |
|---|---|
| nothing | `NoneDropped`; that no sensor is reported before an earlier one (`InTurn`, half of `InOrder`); `NeverReverts` |
| `Intact` | `Reports`: a sensor kept because its number was overwritten leaves pin 0 up, and no new edge comes for it |
| `apart` | `Settles`: the handler drops the failed command |
| both | that each sensor is reported once and nothing else is (the other half of `InOrder`): the second edge wakes `hal_server` twice for one sensor |

`NoneDropped` and `InTurn` do without because the acknowledgement names the sensor and
the Atmel drops no other.
Each member of `Sensor` is set off once, so a sensor that a train passes again
stands for another member; an acknowledgement so late that it meets the
next passage of the same sensor is not in the model.

### Assembler, SRecord

A source line is a record of what its tokens are (labels, mnemonic or directive,
operands with the form they are written in, what is left over); splitting text into
tokens is left out, and with it that some spellings of a numeral are refused in some
forms (`indexed_operand` takes `0(Rn)` and not `$0(Rn)`): programs are given in
spellings that are accepted. What a numeral is worth is a constant table that also has what
`atoi` makes of its digits, because `BYTE` and `WORD` test one and emit the other.
`a` is the assembler's globals; `LCs` and `image` are histories, the location
counter of each line of the first pass and the byte emitted last for each address,
which no guard reads.

One line is one action: `FirstPass`, `SecondPass`, with `parse_record` and all it
calls inside. `mode_check` is the part of the operand functions that enters symbols
and counts words, `set_address` and `Extension` what `main()` emits for an
instruction. Errors set `error_flag` and leave what had already been changed.
`SRecord` has the writer's `emit_byte`, which closes the record at `max_data` bytes
also between the halves of a word, and the loader's store and checksum.

### Words, Cpu, Alu, Emulator, Toolchain

`m` is the machine: registers with `TA`, `TD1` and `TD2`, the bytes of memory
written so far, the instruction register, the condition table, the clock.
`fetch`, `decode`, `execute` and each instruction are operators from a machine to a
machine with the source's names; `Step` is one turn of the inner loop up to the
clock, `Poll` is `poll_dev`, `Idle` and `Break` the rest of the two main loops,
`Resume` and `Terminate` what the user does at the prompt. `reg_tbl` has unsigned
ints; no more than bits 0 to 16 are ever looked at, and `Reg32` keeps 20.

`dev` has each device's port, next time and the values still in its file;
`inc_clk` gives every device whose time has come the next value as its status, as
the code does, again and again until it is served. A read past the end of a file
leaves a buffer that was never set: any value of `AtEnd`. `calls` is a history of
what the running ISRs interrupted.

An access past `mem[65535]` is undefined in C: the model sets `wild` and goes no
further. In `Toolchain` the assembler's file is what the loader loads, so that the
machine executes what the two passes and the S-records made of the source.
The model was also compared with the compiled sources: `Operands` ends with the same
registers, status and clock in both. The registers `Expected` of the repository's test
programs are those that the programs' own files record.

## 3. Runs

| Run | Question | Bounds | Result |
|---|---|---|---|
| `Kernel` | do rings, scheduling, wake-ups and bindings stay consistent under every interleaving? | 4 processes over 3 priorities (two share one), 2 receivers, one process that uses every `nice` command, 2 sockets, one of them the GPIO handler's, arrays of 3 slots, at most 2 unread packets in a bound socket, a quantum of one tick | holds |
| `KernelLive` | is a ready process run, a woken one served; is the kernel a round-robin scheduler and its sockets mailboxes? | 2 receivers of the top priority over idle, 1 socket, 2 packets, quantum of 2 ticks, `Burst = 3` so that the array does overflow | holds under `FairSpec` |
| `Train` | are the trains safe, known and released? | the real route tables, lags 1, gap 4 | holds under `FairSpec` |
| `TrainStart` | does the conductor know both trains from the start? | as `Train` | **violated** (finding 2) |
| `Spi` | is no sensor lost or overtaken, and each reported, no train taken back, the last command received, and what is left of that when failures and sensors come together and responses are overwritten? | 2 trains, 2 sensors, 2 commands each, 1 failure, 1 junk value, a process adds a packet while fewer than 2 wait | holds under `FairSpec` |
| `SpiPair` | is a command that fails always repaired? | as `Spi`, without sensors | **violated** (finding 3) |
| `Uart` | does what is printed come out, in order, with no character stuck or overwritten? | a ring of 4 slots, 2 characters, strings of 1, 2 and 5 (the last overruns the ring) | holds under `FairSpec` |
| `Heap` | is memory disjoint and accounted for? | classes of 2, 1 and 2 blocks of 2, 4 and 8 bytes, 6 owners for 5 blocks, requests at and around every class's size, zero and too large | holds |
| `HeapPast` | is what is handed out a block of the table? | as `Heap`, 3 owners of the last class, something past the table | **violated** (finding 1) |
| `Toolchain` | do the passes agree, is what is emitted what is loaded, are labels reached, interrupts invisible, results right, sleepers woken? | every program of 3 lines out of 13 (2197), 8 longer ones, devices at every clock of the window in which interrupts are on, records of 4 bytes | holds under `FairSpec` |
| `Fault` | does the clock stop after an error, as `error()` says? | `test_DADD.txt` | **violated** (finding 4) |
| `Devices` | is every event of a device served? | `test_dev.txt` with `DEV0.txt` and `DEV1.txt` | **violated** (finding 5) |

*Why the bounds are enough.* The kernel's interesting cases are a queue of one,
of two and of none, a receiver alone and not alone in its queue, a wake-up of a
higher, an equal and a lower priority, an array that wraps and one that
overruns: all occur with the numbers above, and the theorems of section 4 hold
for every number. `Burst` bounds only how many packets a bound socket holds;
arrays still wrap because packets are read. The route and path tables of
`TrainControl` are the program's own.

`Spi`: two trains, so that the copy can be of the other one; two commands, so that
there is an old one to go back to; two sensors, so that a second can come while the
first is read, is acknowledged, or waits in the queue, and be taken for the first; one
failure is one edge too many, and one junk value an acknowledgement that names no
sensor. With two failures (1.5 million states) the run passes as well. `SpiPair` has
no sensors, so that a failed command can be lost to the other train's only.

`Toolchain`: `max_data = 4` instead of 32, so that records fill up at every
alignment within a few lines. The thirteen lines have every kind of label
(defined, forward, twice, never), the directives that move the counter by one,
by two or end a record, and instructions of one, two and three words; three of them
in every order put each on each side of each other. Of the longer programs
`test_multiply`, `test_general`, `test_jump` (in part) and `below_handler`
(`test_DADD.txt` with its stack moved) are the repository's; `Operands` has every
instruction and form of operand that those do not, at both widths; `Window`,
`Nested` and `Sleeper` are interrupted before each of their instructions, by one
device, by a second during the first one's ISR, and asleep. Their devices come at
times at which each event can be served at once, or by the end of the other's ISR
and before its own next time; what happens to an event that has to wait longer is the
question of `Devices`. `MaxClock = 200` stops the short programs
that run into themselves; those with expected results halt before it, which
`Terminates` checks.

*Deadlock* is checked in every run except `Toolchain`, `Fault` and `Devices`: an
assembler that refuses its source, a processor whose clock is off with interrupts
off, and a debugger that was told to terminate have no next step.

*Fairness.* `FairSpec` of `Kernel`: the hardware delivers ticks and a pending
PendSV, and boot runs to its end (weak). Inside `recv()` a process that is given
the processor again and again executes its next SVC (strong: it can be pre-empted
between). Nothing is assumed of application code. `FairSpec` of `TrainControl`:
weak fairness of the next-state relation, that is, not everything stops at once;
the lags and the gap do the rest. `FairSpec` of `Uart`: what the kernel has begun goes
on, a pending interrupt is taken, the UART transmits; processes need not print.
`FairSpec` of `SpiLink`: weak fairness of each step of the two processes, of the
interrupt, and of the Atmel getting done with a command, by success or failure;
nobody has to give commands or pass a sensor. `FairSpec` of `Toolchain`: weak
fairness of the emulator's steps, the user at the debugger's prompt included; it is
written out with `CanAdvance` for `ENABLED Advance`, which TLC would compute by
executing every instruction a second time.

### Findings

1. `mem_manager.c:91` says all of memory has been looked through; the search
   goes one entry past the table (`HeapPast`).
2. `train_control.c:400` says the conductor knows where both trains are; on
   each train's first path it has it one path ahead (`TrainStart`).
3. `spi.c:130` retains a copy of a train packet "in case of failure". There is one
   copy, and the error message queues behind other packets: when the other
   train's command is transmitted before it, that one is sent again and the one
   that failed never (`SpiPair`).
4. `CPU.c:235` says `error()` sets the clock-off bit by default. The default handler
   lies just below the vectors, where the test programs put their stack
   (`SP_INIT EQU $FFBE`): `error()`'s own pushes overwrite the handler's first word,
   and `test_DADD.txt` does not stop (`Fault`).
5. `DEV_FORMAT.txt:20` says an event whose DBA bit is set is handled. A device that
   has to wait is given the next value of its file, its own next time, as its
   status; with the default device files an event of `DEV1` is lost (`Devices`).

## 4. Proofs

| Theorem | States, for every value of the constants |
|---|---|
| `KernelProofs!EnqueueKeepsWellFormed`, `DequeueKeepsWellFormed`, `SelectKeepsWellFormed` | the three pointer operations keep the lists rings and change the queue as meant |
| `KernelProofs!Invariance` | `Spec => []IInv` |
| `KernelProofs!Types`, `Rings`, `LastOfItsQueue`, `Priorities`, `Wakeup`, `Bindings`, `Processes` | `TypeOK`, `RingsMatch`, `RunningIsTail`, `HighestRuns`, `NoLostWakeup`, `BindingsAgree`, `NoLostProcess` |
| `KernelProofs!Delivery` | `Delivers`: the sockets implement `Mailbox` |
| `KernelProofs!Scheduling` | the kernel implements `Scheduler!Safety` |
| `KernelProofs!Receives` | `RecvDelivers`, if no array is overrun |
| `UartProofs!Types`, `NeverStalls`, `NeverOverwrites` (from `Invariance`) | `TypeOK`, `NoStall`, `NoOverwrite` |
| `UartProofs!ComesOutInOrder` | the output path implements `Stream!Safety` |
| `HeapProofs!Types`, `NoOverlap`, `Account`, `Table` (from `Invariance`) | `TypeOK`, `Disjoint`, `Accounted`, `FromTheTable` |
| `SpiLinkProofs!Types`, `Forward` (from `Invariance`) | `TypeOK`, `NeverReverts` |
| `SpiLinkProofs!NothingDropped` | `NoneDropped` |
| `SpiLinkProofs!SensorsInOrder` | `InOrder`, if no junk is the number of a sensor |
| `TrainProofs!LocalTracked`, `LocalKnown`, `SwitchesTurned` (from `LocalInvariance`) | the local's half of `Tracked` and of `KnowsLater`, and `SwitchesSet`, if `Attributed` |
| `TrainProofs!TypesHold`, `TrainsTracked`, `ConductorKnows` (from `Invariance`) | `TypeOK`, `Tracked`, `KnowsLater`, if `Attributed` and no step has been a `Slips` |
| `TrainProofs!MailboxesStayShort` | at most four unread messages for the conductor, one for a train, if the same |
| `AssemblerProofs!SameAddresses` (from `Invariance`), `ToolchainProofs!ToolchainAgrees` | `PassesAgree`, of the assembler and of the whole toolchain |
| `ToolchainProofs!LoaderRestores` (from `ToolchainInvariance`) | `LoadsImage` |
| `ToolchainProofs!ToolchainTypeOK` (from `ToolchainInvariance`, `StepMachine`, `AssemblerProofs!LowNext`) | `TypeOK` of the whole toolchain: every instruction, device and address of any program |
| `ToolchainProofs!InterruptsRestore` (from `StackedNext`, `InterruptSaves`, `RETITakes`) | `Restores`, if `Disciplined` |
| `AssemblerProofs!PutWrites`, `ToolchainProofs!StoredLoads` | what one byte does to the records, and one record to memory |
| `Arithmetic!RingPut`, `RingTake` | what a store and a read do to a circular array |

*Assumptions.* `KernelAssumption`, `ReadyQueueAssumption`, `MsgQueueAssumption`,
`UartAssumption`, `HeapAssumption`, `SpiLinkAssumption`, `ProgramsAssumption`,
`NumAssumption`, `max_dataAssumption`, `AtEndAssumption` and `SetupsAssumption` (TLC
evaluates them on every run that uses them). Of the kernel: the boot table names
every process once, the last priority is the idle process's alone, sockets and
null values are what they should be. Of the assembler: mnemonics are those of its
table, `ORG` and `BSS` are given numbers that are not negative, a numeral is worth an
integer, and a record holds at least one byte. Of the emulator: what a read past the end of
a device's file leaves is some integer; the two bytes of a device's status are at an
address of memory (`DEV_FORMAT.txt` allows ports up to `0x001E` only), its file has the
time of the first interrupt, as `init_dev_SR` reads it in any case, and the address given to option I
(`debugger.c:98`) fits the 20 bits of a modelled register. The kernel's
theorems have one premise,
`NicersDoNotReceive`: no process both changes its priority and receives. Without it
the rings break (section 5); in this program it is met, as only
`train_control_init` calls `nice()`. `Delivery` does without it: what a socket
holds does not depend on the rings.

The theorems of `TrainProofs` are for every `ExpressLag`, `LocalLag`, `MaxGap` and
`ExpressWaits`. Their premises are about the behaviour, and stand in the theorems:

* `[]Attributed`: no controller is ever given a sensor of the other train. That is the
  one thing the lags decide here: the `Train` run finds it true with lags of one, and
  it is false with `LocalLag = 2`, where a sensor of the express's comes while the
  conductor still expects the local at one of the same number. What the theorems add
  is that nothing else can go wrong with larger lags: whatever order the messages
  arrive in, the properties are lost only with the attribution of a sensor;
* `[][~Slips]_vars`: the express passes no sensor while it waits for the local. Where
  it does it loses count (section 5), and `Tracked` with it, so that the theorems
  about both trains have to say so; `NeverSlips` shows that `ExpressWaits`, with which
  `Train` runs, is enough. The theorems about the local and the switches do
  without: what the express loses is its own.

*Argument for the kernel.* The properties are not inductive by themselves, and
each needs the others:

* unlinking keeps a ring a ring only if the process is not the head of a longer
  list, because `dequeue_pcb` does not move `wtr`. Every caller unlinks the
  running process, and that one stands last in its queue (`RunningIsTail`):
  `get_new_proc` has rotated it there, and whatever is put behind it since was
  put there together with a PendSV, before which no thread executes a call;
* `k_recv_message` unlinks from the queue of `pcb->priority`, which is the queue
  the process stands in only if it never changed its priority (`PlaceInv`);
* `k_send_message` puts the waiting owner into a queue, which is sound only if
  it is in none (`NoLostWakeup`), and that needs that it waits on no second
  socket (`BindingsAgree`, `OwnerInv`);
* a list is never empty when `get_new_proc` scans, because the idle process is
  created first and never leaves (`CreatedInv`, `OwnerInv`).

`IInv` is the conjunction of the types, the rings, the place of every process,
ownership, bindings, wake-ups, what has been created and the two scheduling
properties.

`KernelProofs` first shows of the three pointer operations that they keep the
lists well formed and do to `order` what they should; then it has one lemma per
action for `IInv`, and the theorems follow.

*Argument for the refinements of the kernel.* `Mailbox` sees of a socket the packets
between its two indices, oldest first, and of a process the packet in `recv()`'s frame.
A store appends to them and a read takes the first (`RingPut`, `RingTake`): these are
facts about indices modulo the size, for `UART_QUEUE_SZ` the same as for
`MSG_QUEUE_SIZE`. A store that finds one slot free makes the indices meet, and all is
gone, which is `Send`'s second case. `BoxInv` adds that a process
holds a packet only while `recv()` copies it, and that a second SVC is for a socket the
first one found. `Scheduler` sees `order`, the running
process and the pending PendSV. Every call that edits the rings maps to one of its steps
because what is unlinked is the last of the highest queue (`RunningIsTail`,
`HighestRuns`), which is where `IInv` is needed.

`Receives`: a woken process is queued for its second SVC only by a send into its empty
socket, and nobody else reads that socket (`PacketInv`). What could take the packet away
is an overrun, and `NoOverrun` (`Burst < MSG_QUEUE_SIZE`) excludes that one case, in
which the property is false.

*Argument for train control.* The messages about one train follow each other, since a
train passes no sensor while there are any. So a train of `S` (`Inv(S)`: the local
alone, or both as long as the express has not slipped) is always in one of seven
phases (`Phase`), each of which says where the messages are, what they are, and how
the controller's locals and the conductor's relate to the position of the train:
nothing under way (`Idle`), a sensor on its way to the conductor (`Passed`), its
report in the controller's mailbox (`Reported`), the next sensor to expect
(`Asks`), that behind the path the train enters (`Enters`), the notice of a
collision (`Stops`), a path of the other train that ends the wait (`Released`). The
messages are found in `todo` and the mailbox as `Lone` or as a `Pair` among those about
the other train. `Frame` says that what is not about a train leaves it in its phase, so
each of the six actions is argued for one train; the only message of one that touches
the other is the release, and it finds the other blocked, which is to say idle and
waiting (`Held`). When the conductor forwards a sensor, `Attributed` makes the train it
picks the one that passed it. That leaves the train one sensor ahead of the controller
(`Behind`) until it has read the report, and `Advances` turns `hs_indx` and `dst_indx`
with the route. `SwitchesSet` needs that the express has no switches on its paths
(`NoSwitch`), else its `switch_track(..., STRAIGHT)` could undo the local's.
`MailboxesStayShort` follows: no phase has more than two messages about a train in the
conductor's mailbox.

*Argument for the UART.* `xmit_busy` holds exactly while a character is in the
data register, its interrupt is pending, or the handler is at work (`BusyInv`);
`NoStall` and `NoOverwrite` follow. That the handler, finding the ring not empty,
takes a character and not the zero of a slot never written (which would leave
`xmit_busy` set for ever) needs `Filled`: slots are written in order before they
are read, also after an overrun. `Stream` sees the characters in the data register, in
the handler and in the ring as one text, which grows at its end, is read at its
beginning, and is cut off where the ring begins when that overruns.

*Argument for the heap.* `init_mem` puts every block behind the end of the
last (`LaidOut`), so an address names one block; owners hold different blocks, at
least as large as what they asked for (`HeldInv`, `SearchFits`). Premise:
`NothingUncomputed`, that `Junk` contains no address (finding 1 is why).
Instances with the program's own numbers (248 blocks, classes at 0, 128, 192,
224, 240 of 128 to 2048 bytes) satisfy `HeapAssumption`.

*Argument for the link.* `NeverReverts`: of the train packets in the queue, those of
one train are in the order they were given, each is newer than what its train was
told and than the copy, and the Atmel never handles another train packet than the
copy (`QueueInOrder`, `QueueIsNew`, `CopyIsNew`). The last needs that
`spi_controller` waits while a command is under way. It holds for any trains and
bounds, whether or not errors and sensors coincide.

`NoneDropped`: what waits is the rest of what was set off (`WaitingIsRest`), what no longer
waits was reported (`GoneAreReported`), and so was whatever an acknowledgement names,
in the queue or about to be sent (`AcksAreReported`): the Atmel drops its first sensor only
for an acknowledgement of that one. `InTurn` adds that what has been read is never further on
than the first that waits (`ReadInTurn`). Neither needs to know how many wake-ups or
acknowledgements are under way, which is what failures and sensors together make uncertain.

The other half of `InOrder` does (`HInv`). As long as sensors wait, exactly one thing
stands for the first of them: the edge or its handler, the wake-up, `hal_server`, or the
acknowledgement in the queue (`OneAtATime`); with it, what was reported is the beginning
of what was set off (`ReportedSoFar`). A step keeps this if `apart` and `Intact` hold
behind it, and once either has become false it stays so (`Monotone`): `SensorsInOrder` proves
that it holds until then.

*Argument for the assembler.* `asmSpec` is the assembler alone, from its globals'
initial values; in `Toolchain` every step changes `asmVars` by an `asmNext` step or not at all.
The passes agree because each line takes the same room in both (`After`), and that
because the mode of an operand depends on which names are registers and on nothing
else of the symbol table. So the invariant says that the registers' names, and no
others, are of type `REG` in every state (`RegistersOnly`): a label that is a register's
name is refused, and `EQU` reaches no entry but the label's. The first pass keeps, until
the first error, that the lines' addresses are each other's successors (`Located`);
the second that it is at one of them (`SecondInv`). The lemmas say of each operator,
up to `parse_record` and the code of an instruction, how far it moves `LC_cur` and that
it touches nothing else (`Moves`), where `a.w` and `a.image` are left to the next proof.

*Argument for the loader.* The records in the file, with the one still open behind
them, are pieces that are stored one after the other, later ones over earlier ones;
replayed they give the image (`Replays`). `Written` says that of the assembler at a
location counter, with one thing more: an open record ends where the counter stands,
so that the next byte may be appended to it (`PutWrites`). Every move of the counter
that is not an emitted byte therefore has to find no record open, and this is where
`Flush` in `ORG` and `BSS` is needed. Closing a record changes no piece and gives it the
complement of its sum (`OutputWrites`, `Complement`, `SumOfAppend`), which the loader
accepts whatever `max_data` is. One lemma per operator lifts this to `emit_word`, to the
directives, to the words of an instruction and to a line of the second pass
(`LineWrites`), with `PassInv` for what that line finds. The loader's half is `Loaded`:
after `next` records memory is the replay of the first `next` pieces, and everything else
in it was put there by `init_mem` or is a device's status (`StoredLoads`, `LoadingNext`). At
the S9 record all pieces are loaded, none is open, and that is `LoadsImage`. Sums of bytes
and the bit operations are bounded recursive functions; that they have values at all is
`Iterates`.

*Argument for the machine.* `ToolchainInv` has two more parts. `Powered` is the machine as
a record of registers of 20 bits, bytes at 16-bit addresses, modes and eight
conditions, with devices whose status lies in memory. Every operator of `Cpu` and `Alu` has a
lemma that it keeps such a machine one, and that it leaves the instruction register and
the modes to `decode` (`Kept`): so that a step of `execute` may rely on what `decode` has found
(`StepMachine`). The decimal sum of `DADD`, the masks of `And` and the fields of an instruction are
bounded with the powers of two one at a time. `Low` is what memory needs of the assembler: no line
starts past `$FFFF` and no byte is emitted there. The first pass stops where `TooHigh`
does; the second could only go further if a line took more room in it than in the first, and
`PassInv` excludes that. The bytes of a record are in the image (`Replays`), the image is below
65536, and so is what the loader stores (`StoredKeeps`).

*Argument for interrupts.* `Interrupt` pushes the PC and SR, and `RETI` takes them from where
the stack pointer is; that the second gives back what the first took is decided by what happens to four
bytes in between. `Stacked` says of every ISR that runs that memory still holds the two words
it has to return to, above the devices' status and below the words of the ISRs it has
interrupted. Instructions are one danger to them, and that they keep clear of these bytes is a
premise about the program, `Disciplined`: room for the stack, above the devices and below
the last ISR's words, when an interrupt comes; no write to such words; a `RETI` without operand, with
the stack pointer back in its place; PC and SR that fit their words. (The emulator checks none of this: a
program that breaks it is not resumed where it was interrupted.) The rest is proved: the clock, which writes
every device that is due its status again and again, sleeping, serving an output, and a second interrupt
during the first one's ISR leave the words alone (`ClockSpares`, `ServeSpares`, `FrameLaid`),
and `RETI` of an ISR at any depth finds its own. `Disciplined` holds in every state of the
`Toolchain` run, among them those of `Nested`, `Sleeper` and `Window` inside their ISRs: it is a state
predicate, and adding it to the INVARIANTS of `Toolchain.cfg` shows that.

*Only model-checked:*

* liveness (`TopPriorityRuns`, `WokenReceives`, `Resumes`, `Reports`, `Settles`,
  `Terminates`, and the fairness in `Schedules` and `Prints`): it is beyond the prover;
* of `TrainControl`, `NoCollision`, `OneBlocked` and `Attributed`: they depend on how
  fast the trains are, and fail beyond the bounds of the run (section 2). A proof for
  these bounds would have to put the lags and the gap, which count sensors, in
  relation to the messages under way and to where on the routes both trains are;
* of `Toolchain`, `Computes` and `Reaches`, which are about the programs and the
  devices of the run. Each fails for some program: `Computes` names the results of particular
  ones; `Reaches` fails where `ORG` puts a second line at the address of another, which
  it takes for assembled there still.

## 5. What reading the code showed beyond the runs

Facts that no run is needed for, or that a run excludes by an assumption:

* `msg_queue.c:86` announces checks that are not made: the send that fills the last
  slot loses all unread packets. `Mailbox` says exactly this, and `Delivers` that it
  is nothing worse. When it happens between the two SVCs of a woken `recv()`, the second
  finds nothing and `recv()` returns a packet that was never written: `RecvDelivers` holds
  where arrays are not overrun (`Kernel`, `Burst = 2`), and `WokenReceives` names the case
  (`KernelLive`, `Burst = 3`).
* `msg_queue.c:54` takes a waiting process out of the queue of `pcb->priority`, which
  `nice` does not change: a process alone in the queue `nice` moved it to stays its
  head while it waits. `Nicers` and `Receivers` are kept apart in the runs, and
  `NicersDoNotReceive` in the theorems.
* `intr_handlers.c:173` clears the edges of both pins and looks at the error pin only if
  no sensor waits: a command that fails meanwhile is never sent again, although
  `spi.c:130` has kept it, and the sensor is reported twice (`Settles` and half of `InOrder`
  are violated without `apart`).
* `kernelcalls.c:171` returns a pointer to a local: where a handler runs over it before
  `hal_server` has read it, the sensor stays unacknowledged, its pin up, and no edge
  comes again (`Reports` is violated without `Intact`).
* `train_control.c:105` counts the sensors that a slowed express passes while it waits,
  from reports that the conductor does not forward: `COLLISION` sets `exp_hs` to 0. An
  express that passes one before it is released goes on one sensor behind
  (`ExpressWaits`, `Slips`).
* `hal_server` sends its request itself, without `spi_controller`'s wait of 16 ticks.
* A relative operand before its instruction is a negative distance modulo 2^16, and
  the sum is not reduced: the access is outside `mem[]` (`Backward`).
* `condition_tbl` is refreshed by `update_SR` only: after `RETI`, and after `BIS` or
  `BIC` to `SR`, jumps test old flags. `update_SR` replaces the whole register, so
  that arithmetic switches interrupts off.
* `ALU.c:78` compares `ISNEG` (4) with `ISOVF` (256): `JGE` and `JL` take two set flags
  for different.
* A jump that is too far is found in the second pass only and assembled with
  offset 0. `BYTE $1F` emits what `atoi` reads, 1. A `WORD` at `$FFFE` takes the location
  counter to 65536 and is refused, although `CPU.c:235-243` tells the programmer to put
  the address of an error handler there.
* `DADD` writes the sum's digits into five characters, one too few when it carries.
* The S9 record's checksum counts the address as zero; the loader's result for it is
  not looked at again.
* `PC < brkpt` ends the debugger's loop at every address at or above the breakpoint:
  ENTER there executes nothing.

## 6. Not modelled

* Of the kernel: stack and register switching, what a stack holds while an
  interrupt uses it, memory running out in `create_proc`, freed PCBs, `time`.
* Of train control: `train_control_init`, what is displayed, `delay`, whose tick
  counter wraps. Of the link: the ten bytes of a packet and their polling, the
  set-up of SSI and of the pins.
* Of the UART: reception, `print_string`'s escape sequences. Of the heap: the
  contents of memory after it is returned.
* Semaphores (no call reaches them), the display's formatting, the command line
  (its process is not started), the kernel's debugger, register set-up: they keep no
  state that another modelled part reads.
* Of the assembler: splitting a line into tokens, the listing, the wording of errors.
* Of the emulator: what follows an access outside `mem[]`, the `L S1` option, record
  types other than S1 and S9, the dumps and `print_inst`, the prompt that `poll_dev`
  gives for an output device under option `W`.

## 7. Plan

Done: the kernel with its sockets, the train control, the link to the Atmel, the
output path, the heap, the assembler, the S-records, the emulator, and the last
three composed. What would add most next:

1. An inductive invariant for `TrainControl` with lags of one: `Attributed`, `OneBlocked`.
2. The process table of `Kinit` on `Kernel`'s rules: six switch states are sent to the
   display before it binds its socket.
3. `TrainControl` on `SpiLink` instead of a reliable link: what a command that is lost
   to the other train's does to `NoCollision`.
4. `Reaches` for programs whose lines do not overlap: that what `Extension` emits is what
   `fetch_op` reads back, by a lemma for each mode of an operand.
