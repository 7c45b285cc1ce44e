------------------------------ MODULE SpiLink -------------------------------
(* The link to the Atmel: spi_controller, hal_server, and the interrupt of    *)
(* the Atmel's two pins.  Pin 0 says that a hall sensor waits to be read,     *)
(* pin 1 that a command did not reach its train.                              *)
(*                                                                            *)
(* A packet is exchanged inside one SVC, so that it is one step.  Threads run *)
(* only when no interrupt is pending; the Atmel moves between any two steps,  *)
(* also between the two of GPIOPortF_IntHandler.                              *)
EXTENDS Naturals, SequencesExt

CONSTANTS
    Train, Sensor,
    EMPTY_ARG,
    Junk,          \* what handlers may leave where the response was
    MaxCommands,   \* commands given to a train
    MaxUnread,     \* packets in XMIT_SOCKET when a process adds one
    MaxErrors      \* commands that do not reach their train

ASSUME SpiLinkAssumption ==
    /\ MaxCommands \in Nat /\ MaxUnread \in Nat /\ MaxErrors \in Nat
    /\ EMPTY_ARG \notin Train \cup Sensor

VARIABLES
    xmit,             \* unread messages of XMIT_SOCKET
    wakeups,          \* unread messages of HAL_SOCKET
    train_ctrl_pkt,   \* spi_controller: the last train packet
    delaying,         \* spi_controller is in delay(16)
    hal,              \* hal_server: where it is, and hs_recv or hs_num
    sent,             \* how many commands each train was given
    reported,         \* the sensors the conductor was sent
    handler,          \* GPIOPortF_IntHandler has cleared the interrupts
    handling,         \* Atmel: the train packet it is passing on
    told,             \* Atmel: the last command each train has received
    waiting,          \* Atmel: sensors not acknowledged; pin 0 is up
    pin1, irq,        \* the error pin; an edge has been latched
    triggered, errors,\* the sensors set off and the commands lost so far
    apart             \* no command has failed while a sensor waited, nor the
                      \* reverse: a history that no guard reads

software == <<xmit, wakeups, train_ctrl_pkt, delaying, hal, sent, reported>>
atmel    == <<handling, told, waiting, pin1, triggered, errors, apart>>
vars     == <<software, atmel, handler, irq>>

TR_CTRL(t, n) == [cmd |-> "TR_CTRL", arg1 |-> t, arg2 |-> n]
SW_CTRL       == [cmd |-> "SW_CTRL", arg1 |-> EMPTY_ARG, arg2 |-> 0]
HS_ACK(s)     == [cmd |-> "HS_ACK", arg1 |-> s, arg2 |-> 0]
TX_ERR        == [cmd |-> "TX_ERR", arg1 |-> EMPTY_ARG, arg2 |-> 0]

Nothing == [cmd |-> "none", arg1 |-> EMPTY_ARG, arg2 |-> 0]

Number  == Sensor \cup {EMPTY_ARG} \cup Junk   \* what can be read as a sensor
Command == {TR_CTRL(t, n) : t \in Train, n \in 1 .. MaxCommands}
Message == Command \cup {SW_CTRL, TX_ERR} \cup {HS_ACK(s) : s \in Number}

TypeOK ==
    /\ xmit \in Seq(Message)
    /\ wakeups \in Nat
    /\ train_ctrl_pkt \in Command \cup {Nothing}
    /\ delaying \in BOOLEAN
    /\ hal \in [at : {"recv", "read", "ack"}, hs_num : Number]
    /\ sent \in [Train -> 0 .. MaxCommands]
    /\ reported \in Seq(Number)
    /\ handler \in BOOLEAN
    /\ handling \in Command \cup {Nothing}
    /\ told \in [Train -> 0 .. MaxCommands]
    /\ waiting \in Seq(Sensor)
    /\ pin1 \in BOOLEAN /\ irq \in BOOLEAN
    /\ triggered \in Seq(Sensor)
    /\ errors \in 0 .. MaxErrors
    /\ apart \in BOOLEAN

Init ==
    /\ xmit = << >> /\ wakeups = 0
    /\ train_ctrl_pkt = Nothing /\ delaying = FALSE
    /\ hal = [at |-> "recv", hs_num |-> EMPTY_ARG]
    /\ sent = [t \in Train |-> 0] /\ reported = << >>
    /\ handler = FALSE /\ handling = Nothing
    /\ told = [t \in Train |-> 0]
    /\ waiting = << >> /\ pin1 = FALSE /\ irq = FALSE
    /\ triggered = << >> /\ errors = 0 /\ apart = TRUE

-----------------------------------------------------------------------------
(* The threads.                                                               *)

Threads == ~irq /\ ~handler

xmit_spi(pkt) ==
    /\ Threads
    /\ xmit' = Append(xmit, pkt)

(* A train controller gives its train the next command. *)
CommandTrain(t) ==
    /\ sent[t] < MaxCommands /\ Len(xmit) < MaxUnread
    /\ xmit_spi(TR_CTRL(t, sent[t] + 1))
    /\ sent' = [sent EXCEPT ![t] = @ + 1]
    /\ UNCHANGED <<wakeups, train_ctrl_pkt, delaying, hal, reported, atmel,
                   handler, irq>>

switch_track ==
    /\ Len(xmit) < MaxUnread
    /\ xmit_spi(SW_CTRL)
    /\ UNCHANGED <<wakeups, train_ctrl_pkt, delaying, hal, sent, reported,
                   atmel, handler, irq>>

(* The Atmel takes a packet: it passes a command on in its own time, drops    *)
(* the sensor that is acknowledged, and raises pin 0 again for the next.      *)
Takes(pkt) ==
    LET acked == pkt.cmd = "HS_ACK" /\ waiting # << >> /\ Head(waiting) = pkt.arg1
    IN  /\ handling' = IF pkt.cmd = "TR_CTRL" THEN pkt ELSE handling
        /\ waiting' = IF acked THEN Tail(waiting) ELSE waiting
        /\ irq' = (irq \/ (acked /\ Len(waiting) > 1))

(* Mutant: the copy is not replaced by the next train packet. *)
KeepsFirstCopy ==
    /\ Threads /\ ~delaying /\ xmit # << >>
    /\ LET pkt == IF Head(xmit) = TX_ERR THEN train_ctrl_pkt ELSE Head(xmit)
       IN  /\ Takes(pkt)
           /\ train_ctrl_pkt' = IF pkt.cmd = "TR_CTRL" /\ train_ctrl_pkt = Nothing
                                  THEN pkt ELSE train_ctrl_pkt
    /\ xmit' = Tail(xmit)
    /\ delaying' = TRUE
    /\ UNCHANGED <<wakeups, hal, sent, reported, told, pin1, triggered, errors,
                   apart, handler>>

(* One turn of spi_controller up to its delay. *)
spi_controller ==
    /\ Threads /\ ~delaying /\ xmit # << >>
    /\ LET pkt == IF Head(xmit) = TX_ERR THEN train_ctrl_pkt ELSE Head(xmit)
       IN  /\ Takes(pkt)
           /\ train_ctrl_pkt' = IF pkt.cmd = "TR_CTRL" THEN pkt
                                                       ELSE train_ctrl_pkt
    /\ xmit' = Tail(xmit)
    /\ delaying' = TRUE
    /\ UNCHANGED <<wakeups, hal, sent, reported, told, pin1, triggered, errors,
                   apart, handler>>

(* delay(16) returns; it is long enough for the Atmel. *)
Delayed ==
    /\ Threads /\ delaying /\ handling = Nothing
    /\ delaying' = FALSE
    /\ UNCHANGED <<xmit, wakeups, train_ctrl_pkt, hal, sent, reported, atmel,
                   handler, irq>>

(* Mutant: recv() returns without a message. *)
PollUnasked ==
    /\ Threads /\ hal.at = "recv"
    /\ wakeups' = wakeups - 1
    /\ hal' = [at |-> "read",
               hs_num |-> IF waiting = << >> THEN EMPTY_ARG ELSE Head(waiting)]
    /\ UNCHANGED <<xmit, train_ctrl_pkt, delaying, sent, reported, atmel,
                   handler, irq>>

(* hal_server: woken, it asks for the sensor in a packet of its own. *)
PollSensor ==
    /\ Threads /\ hal.at = "recv" /\ wakeups > 0
    /\ wakeups' = wakeups - 1
    /\ hal' = [at |-> "read",
               hs_num |-> IF waiting = << >> THEN EMPTY_ARG ELSE Head(waiting)]
    /\ UNCHANGED <<xmit, train_ctrl_pkt, delaying, sent, reported, atmel,
                   handler, irq>>

(* Mutant: the sensor is not acknowledged. *)
ReportOnly ==
    /\ Threads /\ hal.at = "read"
    /\ hal' = [at |-> "recv", hs_num |-> EMPTY_ARG]
    /\ reported' = Append(reported, hal.hs_num)
    /\ UNCHANGED <<xmit, wakeups, train_ctrl_pkt, delaying, sent, atmel,
                   handler, irq>>

(* It reads the response, which kxmit_spi left in its freed frame, or what a  *)
(* handler has left there since, and sends it to the conductor.               *)
ReportSensor ==
    /\ Threads /\ hal.at = "read"
    /\ \E hs_num \in {hal.hs_num} \cup Junk :
          /\ hal' = [at |-> "ack", hs_num |-> hs_num]
          /\ reported' = Append(reported, hs_num)
    /\ UNCHANGED <<xmit, wakeups, train_ctrl_pkt, delaying, sent, atmel,
                   handler, irq>>

(* Mutant: what is acknowledged is the sensor that waits now, not the one     *)
(* that was read.                                                             *)
AckWaiting ==
    /\ hal.at = "ack"
    /\ xmit_spi(HS_ACK(IF waiting = << >> THEN EMPTY_ARG ELSE Head(waiting)))
    /\ hal' = [at |-> "recv", hs_num |-> EMPTY_ARG]
    /\ UNCHANGED <<wakeups, train_ctrl_pkt, delaying, sent, reported, atmel,
                   handler, irq>>

AckSensor ==
    /\ hal.at = "ack"
    /\ xmit_spi(HS_ACK(hal.hs_num))
    /\ hal' = [at |-> "recv", hs_num |-> EMPTY_ARG]
    /\ UNCHANGED <<wakeups, train_ctrl_pkt, delaying, sent, reported, atmel,
                   handler, irq>>

-----------------------------------------------------------------------------
(* The interrupt: both edges are cleared, then the pins are looked at.        *)

ClearEdges ==
    /\ irq /\ ~handler
    /\ irq' = FALSE
    /\ handler' = TRUE
    /\ UNCHANGED <<software, atmel>>

(* Mutant: hal_server is woken for either pin. *)
WakesForEither ==
    /\ handler
    /\ handler' = FALSE
    /\ wakeups' = wakeups + 1
    /\ pin1' = FALSE
    /\ UNCHANGED <<xmit, train_ctrl_pkt, delaying, hal, sent, reported, handling,
                   told, waiting, triggered, errors, apart, irq>>

(* Mutant: nothing is sent for pin 1. *)
IgnoresErrors ==
    /\ handler
    /\ handler' = FALSE
    /\ wakeups' = IF waiting # << >> THEN wakeups + 1 ELSE wakeups
    /\ pin1' = FALSE
    /\ UNCHANGED <<xmit, train_ctrl_pkt, delaying, hal, sent, reported, handling,
                   told, waiting, triggered, errors, apart, irq>>

GPIOPortF_IntHandler ==
    /\ handler
    /\ handler' = FALSE
    /\ IF waiting # << >>
         THEN wakeups' = wakeups + 1 /\ UNCHANGED xmit
         ELSE /\ xmit' = IF pin1 THEN Append(xmit, TX_ERR) ELSE xmit
              /\ UNCHANGED wakeups
    /\ pin1' = FALSE
    /\ UNCHANGED <<train_ctrl_pkt, delaying, hal, sent, reported, handling,
                   told, waiting, triggered, errors, apart, irq>>

-----------------------------------------------------------------------------
(* The Atmel.                                                                 *)

Pass ==
    /\ handling # Nothing
    /\ told' = [told EXCEPT ![handling.arg1] = handling.arg2]
    /\ handling' = Nothing
    /\ UNCHANGED <<software, waiting, pin1, triggered, errors, apart, handler,
                   irq>>

Fail ==
    /\ handling # Nothing /\ errors < MaxErrors
    /\ handling' = Nothing
    /\ pin1' = TRUE /\ irq' = TRUE
    /\ errors' = errors + 1
    /\ apart' = (apart /\ waiting = << >>)
    /\ UNCHANGED <<software, told, waiting, triggered, handler>>

Trigger(s) ==
    /\ s \notin ToSet(triggered)
    /\ triggered' = Append(triggered, s)
    /\ waiting' = Append(waiting, s)
    /\ irq' = (irq \/ waiting = << >>)
    /\ apart' = (apart /\ ~pin1)
    /\ UNCHANGED <<software, handling, told, pin1, errors, handler>>

Next ==
    \/ \E t \in Train : CommandTrain(t)
    \/ switch_track \/ spi_controller \/ Delayed
    \/ PollSensor \/ ReportSensor \/ AckSensor
    \/ ClearEdges \/ GPIOPortF_IntHandler
    \/ Pass \/ Fail
    \/ \E s \in Sensor : Trigger(s)

Spec == Init /\ [][Next]_vars

(* The processes are scheduled, the interrupt is taken, and the Atmel gets    *)
(* done with a command one way or the other.  Nobody has to give commands or  *)
(* to pass a sensor.                                                          *)
FairSpec ==
    /\ Spec
    /\ WF_vars(spi_controller) /\ WF_vars(Delayed)
    /\ WF_vars(PollSensor) /\ WF_vars(ReportSensor) /\ WF_vars(AckSensor)
    /\ WF_vars(ClearEdges) /\ WF_vars(GPIOPortF_IntHandler)
    /\ WF_vars(Pass \/ Fail)

-----------------------------------------------------------------------------
(* No response has been run over before hal_server read it.                   *)
Intact == ToSet(reported) \cap Junk = {}

(* Whatever a handler leaves in the frame the response is read from, and also *)
(* when one handler clears both edges: a sensor that nobody was told of still *)
(* waits at the Atmel.                                                        *)
NoneDropped == ToSet(triggered) \subseteq ToSet(waiting) \cup ToSet(reported)

(* The conductor hears of the sensors in the order they were set off, although*)
(* a wake-up says only that some sensor waits, and the packet that            *)
(* acknowledges one queues behind those of other processes: of each once as   *)
(* long as failures and sensors stay apart and responses intact; and never    *)
(* of one before an earlier one, also when they do not.                       *)
InTurn ==
    \A i, j \in DOMAIN triggered :
        i < j /\ triggered[j] \in ToSet(reported) => triggered[i] \in ToSet(reported)

InOrder == InTurn /\ (apart /\ Intact => IsPrefix(reported, triggered))

(* A packet that is sent again never takes a train back to a command that a   *)
(* newer one has replaced, wherever the error message queued.                 *)
NeverReverts == [][\A t \in Train : told'[t] >= told[t]]_vars

(* Every sensor that is set off is reported in the end, if responses are      *)
(* intact: also when its edge is cleared together with that of a failure.     *)
Reports ==
    []Intact => \A s \in Sensor : s \in ToSet(triggered) ~> s \in ToSet(reported)

(* When commands stop and stop failing, the one transmitted last is the last  *)
(* its train was given, and the train has received it, if failures and        *)
(* sensors stay apart.                                                        *)
Settles ==
    []apart => <>[](train_ctrl_pkt # Nothing =>
                       LET t == train_ctrl_pkt.arg1
                       IN  train_ctrl_pkt.arg2 = sent[t] /\ told[t] = sent[t])

(* "packet was sent to a train. retain a copy in case of failure" (spi.c): a  *)
(* command that fails is repaired, also with two trains under way.            *)
Repaired == \A t \in Train : <>[](told[t] = sent[t])
=============================================================================
