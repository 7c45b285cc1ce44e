--------------------------- MODULE SpiLinkProofs ----------------------------
(* A packet that is sent again never takes a train back to an older command,  *)
(* for any trains and sensors and any number of commands and of failures,     *)
(* also when failures and sensors coincide and responses are overwritten.     *)
(* Nor is a sensor given up unread, or read before its turn, in any of these. *)
(* That none is reported twice needs that failures and sensors stay apart.    *)
EXTENDS SpiLink, SequenceTheorems, TLAPS

(* A train packet is newer than what its train was told, than those before it *)
(* and than the copy; the copy is at least as new as what its train was told; *)
(* and the Atmel never has another train packet than the copy in hand.        *)
IsTrain(p) == p.cmd = "TR_CTRL"

QueueInOrder ==
    \A i, j \in 1 .. Len(xmit) :
        /\ i < j /\ IsTrain(xmit[i]) /\ IsTrain(xmit[j]) /\ xmit[i].arg1 = xmit[j].arg1
               => xmit[i].arg2 < xmit[j].arg2

QueueIsNew ==
    \A i \in 1 .. Len(xmit) : IsTrain(xmit[i]) =>
        /\ told[xmit[i].arg1] < xmit[i].arg2
        /\ xmit[i].arg2 <= sent[xmit[i].arg1]
        /\ train_ctrl_pkt.arg1 = xmit[i].arg1 => train_ctrl_pkt.arg2 < xmit[i].arg2

CopyIsNew ==
    /\ handling # Nothing => handling = train_ctrl_pkt /\ delaying
    /\ train_ctrl_pkt # Nothing =>
          /\ told[train_ctrl_pkt.arg1] <= train_ctrl_pkt.arg2
          /\ train_ctrl_pkt.arg2 <= sent[train_ctrl_pkt.arg1]

ToldSent == \A t \in Train : told[t] <= sent[t]

IInv == TypeOK /\ QueueInOrder /\ QueueIsNew /\ CopyIsNew /\ ToldSent

(* The fields of the packets.                                                 *)
LEMMA CommandFields ==
    /\ \A p \in Command : /\ p.cmd = "TR_CTRL" /\ p.arg1 \in Train
                          /\ p.arg2 \in 1 .. MaxCommands /\ p.arg2 \in Nat /\ p # Nothing
    /\ \A p \in Message : IsTrain(p) => p \in Command
    /\ ~IsTrain(Nothing) /\ ~IsTrain(TX_ERR) /\ ~IsTrain(SW_CTRL)
    /\ \A s \in Number : ~IsTrain(HS_ACK(s))
    /\ Nothing.arg1 \notin Train
  BY SpiLinkAssumption
     DEF Command, Message, IsTrain, TR_CTRL, Nothing, TX_ERR, SW_CTRL, HS_ACK

(* The link starts in the invariant. *)
LEMMA InitIInv == Init => IInv
  <1> SUFFICES ASSUME Init PROVE IInv
    OBVIOUS
  <1> USE SpiLinkAssumption DEF Init
  <1>1. TypeOK
    <2>1. hal \in [at : {"recv", "read", "ack"}, hs_num : Number]
      BY DEF Number
    <2>2. << >> \in Seq(Message) /\ << >> \in Seq(Number) /\ << >> \in Seq(Sensor)
      OBVIOUS
    <2>3. /\ [t \in Train |-> 0] \in [Train -> 0 .. MaxCommands]
          /\ 0 \in 0 .. MaxErrors
      OBVIOUS
    <2> QED BY <2>1, <2>2, <2>3 DEF TypeOK
  <1>2. QueueInOrder /\ QueueIsNew
    BY DEF QueueInOrder, QueueIsNew
  <1>3. CopyIsNew /\ ToldSent
    BY DEF CopyIsNew, ToldSent
  <1> QED BY <1>1, <1>2, <1>3 DEF IInv

(* The packet that one turn of spi_controller transmits.                      *)
Packet == IF Head(xmit) = TX_ERR THEN train_ctrl_pkt ELSE Head(xmit)

(* What spi_controller takes from its queue, and what it leaves there. *)
LEMMA PacketType ==
    ASSUME TypeOK, xmit # << >>
    PROVE  /\ Tail(xmit) \in Seq(Message)
           /\ Head(xmit) = xmit[1] /\ Len(xmit) \in Nat /\ Len(xmit) >= 1
           /\ Len(Tail(xmit)) = Len(xmit) - 1
           /\ \A i \in 1 .. Len(xmit) - 1 : Tail(xmit)[i] = xmit[i + 1]
           /\ Packet \in Message \cup {Nothing}
           /\ Packet.cmd = "TR_CTRL" => Packet \in Command
  <1>1. xmit \in Seq(Message) /\ train_ctrl_pkt \in Command \cup {Nothing}
    BY DEF TypeOK
  <1>2. /\ Tail(xmit) \in Seq(Message) /\ Len(Tail(xmit)) = Len(xmit) - 1
        /\ \A i \in 1 .. Len(Tail(xmit)) : Tail(xmit)[i] = xmit[i + 1]
        /\ Head(xmit) = xmit[1] /\ Head(xmit) \in Message
        /\ Len(xmit) \in Nat /\ Len(xmit) >= 1
    BY <1>1, HeadTailProperties, SMT
  <1>3. Packet \in Message \cup {Nothing}
    BY <1>1, <1>2 DEF Packet, Message
  <1>4. Packet.cmd = "TR_CTRL" => Packet \in Command
    BY <1>3, CommandFields DEF IsTrain
  <1> QED BY <1>2, <1>3, <1>4

(* Each step keeps the types. *)
LEMMA TypeStep == IInv /\ [Next]_vars => TypeOK'
  <1> SUFFICES ASSUME IInv, [Next]_vars PROVE TypeOK'
    OBVIOUS
  <1> USE SpiLinkAssumption DEF IInv, TypeOK, software, atmel
  <1>1. ASSUME NEW t \in Train, CommandTrain(t) PROVE TypeOK'
    <2>1. sent[t] \in Nat /\ sent[t] + 1 \in 1 .. MaxCommands
      BY <1>1 DEF CommandTrain
    <2>2. TR_CTRL(t, sent[t] + 1) \in Message
      BY <2>1 DEF Message, Command
    <2> QED BY <1>1, <2>1, <2>2 DEF CommandTrain, xmit_spi
  <1>2. CASE switch_track
    BY <1>2 DEF switch_track, xmit_spi, Message
  <1>3. CASE spi_controller
    <2>1. xmit # << >> /\ Takes(Packet)
      BY <1>3 DEF spi_controller, Packet
    <2>2. train_ctrl_pkt' \in Command \cup {Nothing}
      BY <1>3, <2>1, PacketType DEF spi_controller, Packet
    <2>3. handling' \in Command \cup {Nothing} /\ waiting' \in Seq(Sensor) /\ irq' \in BOOLEAN
      BY <2>1, PacketType, HeadTailProperties DEF Takes
    <2> QED BY <1>3, <2>1, <2>2, <2>3, PacketType DEF spi_controller
  <1>4. CASE Delayed
    BY <1>4 DEF Delayed
  <1>5. CASE PollSensor
    <2>1. hal' \in [at : {"recv", "read", "ack"}, hs_num : Number]
      BY <1>5, HeadTailProperties DEF PollSensor, Number
    <2> QED BY <1>5, <2>1 DEF PollSensor
  <1>6. CASE ReportSensor
    <2>1. PICK hs_num \in {hal.hs_num} \cup Junk :
              /\ hal' = [at |-> "ack", hs_num |-> hs_num]
              /\ reported' = Append(reported, hs_num)
      BY <1>6 DEF ReportSensor
    <2>2. hs_num \in Number
      BY DEF Number
    <2> QED BY <1>6, <2>1, <2>2 DEF ReportSensor
  <1>7. CASE AckSensor
    <2>1. HS_ACK(hal.hs_num) \in Message
      BY DEF Message
    <2>2. EMPTY_ARG \in Number
      BY DEF Number
    <2> QED BY <1>7, <2>1, <2>2 DEF AckSensor, xmit_spi
  <1>8. CASE ClearEdges
    BY <1>8 DEF ClearEdges
  <1>9. CASE GPIOPortF_IntHandler
    <2>1. TX_ERR \in Message
      BY DEF Message
    <2>2. Append(xmit, TX_ERR) \in Seq(Message)
      BY <2>1
    <2>3. xmit' \in Seq(Message) /\ wakeups' \in Nat
      <3>1. CASE waiting # << >>
        BY <1>9, <3>1 DEF GPIOPortF_IntHandler
      <3>2. CASE waiting = << >> /\ pin1
        BY <1>9, <2>2, <3>2 DEF GPIOPortF_IntHandler
      <3>3. CASE waiting = << >> /\ ~pin1
        BY <1>9, <3>3 DEF GPIOPortF_IntHandler
      <3> QED BY <3>1, <3>2, <3>3
    <2> QED BY <1>9, <2>3 DEF GPIOPortF_IntHandler
  <1>10. CASE Pass
    BY <1>10, CommandFields DEF Pass
  <1>11. CASE Fail
    BY <1>11 DEF Fail
  <1>12. ASSUME NEW s \in Sensor, Trigger(s) PROVE TypeOK'
    <2>1. Append(triggered, s) \in Seq(Sensor) /\ Append(waiting, s) \in Seq(Sensor)
      OBVIOUS
    <2>2. irq' \in BOOLEAN
      BY <1>12 DEF Trigger
    <2> QED BY <1>12, <2>1, <2>2 DEF Trigger
  <1>13. CASE UNCHANGED vars
    BY <1>13 DEF vars
  <1> QED BY <1>1, <1>2, <1>3, <1>4, <1>5, <1>6, <1>7, <1>8, <1>9, <1>10, <1>11,
             <1>12, <1>13 DEF Next

Queues == <<xmit, sent, told, train_ctrl_pkt, handling>>

(* Steps that touch none of the queue, the copy and what the Atmel was told.  *)
LEMMA Untouched ==
    ASSUME IInv, UNCHANGED Queues, handling # Nothing => delaying' = delaying
    PROVE  QueueInOrder' /\ QueueIsNew' /\ CopyIsNew' /\ ToldSent'
  BY DEF IInv, Queues, QueueInOrder, QueueIsNew, CopyIsNew, ToldSent

(* A packet for no train is added to the queue.                               *)
LEMMA OtherAdded ==
    ASSUME IInv, NEW p \in Message, ~IsTrain(p), xmit' = Append(xmit, p),
           UNCHANGED <<sent, told, train_ctrl_pkt, handling, delaying>>
    PROVE  QueueInOrder' /\ QueueIsNew' /\ CopyIsNew' /\ ToldSent'
  <1>1. xmit \in Seq(Message)
    BY DEF IInv, TypeOK
  <1>2. /\ Len(xmit') = Len(xmit) + 1 /\ Len(xmit) \in Nat
        /\ \A i \in 1 .. Len(xmit) : xmit'[i] = xmit[i]
        /\ xmit'[Len(xmit) + 1] = p
    BY <1>1, AppendProperties
  <1>3. \A i \in 1 .. Len(xmit') : IsTrain(xmit'[i]) => i \in 1 .. Len(xmit) /\ xmit'[i] = xmit[i]
    BY <1>2
  <1>4. QueueInOrder'
    BY <1>3 DEF IInv, QueueInOrder
  <1>5. QueueIsNew'
    BY <1>3 DEF IInv, QueueIsNew
  <1>6. CopyIsNew' /\ ToldSent'
    BY DEF IInv, CopyIsNew, ToldSent
  <1> QED BY <1>4, <1>5, <1>6

(* A train gets its next command.                                             *)
LEMMA CommandAdded ==
    ASSUME IInv, NEW t \in Train, CommandTrain(t)
    PROVE  QueueInOrder' /\ QueueIsNew' /\ CopyIsNew' /\ ToldSent'
  <1> DEFINE p == TR_CTRL(t, sent[t] + 1)
  <1>1. /\ xmit \in Seq(Message) /\ sent \in [Train -> 0 .. MaxCommands]
        /\ told \in [Train -> 0 .. MaxCommands]
        /\ train_ctrl_pkt \in Command \cup {Nothing}
    BY DEF IInv, TypeOK
  <1>2. /\ sent[t] \in Nat /\ sent[t] + 1 \in 1 .. MaxCommands
        /\ sent' = [sent EXCEPT ![t] = sent[t] + 1]
        /\ xmit' = Append(xmit, p)
        /\ UNCHANGED <<told, train_ctrl_pkt, handling, delaying>>
    BY <1>1, SpiLinkAssumption DEF CommandTrain, xmit_spi, atmel
  <1>3. p \in Message /\ p.arg1 = t /\ p.arg2 = sent[t] + 1
    BY <1>2 DEF Message, Command, TR_CTRL
  <1>4. /\ Len(xmit') = Len(xmit) + 1 /\ Len(xmit) \in Nat
        /\ \A i \in 1 .. Len(xmit) : xmit'[i] = xmit[i]
        /\ xmit'[Len(xmit) + 1] = p
    BY <1>1, <1>2, <1>3, AppendProperties
  <1>5. \A u \in Train : sent'[u] \in Nat /\ sent[u] \in Nat /\ told[u] \in Nat /\ sent[u] <= sent'[u]
    BY <1>1, <1>2
  <1>6. sent'[t] = sent[t] + 1
    BY <1>1, <1>2
  <1>7. \A i \in 1 .. Len(xmit) : IsTrain(xmit[i]) =>
            /\ xmit[i].arg1 \in Train /\ xmit[i].arg2 \in Nat
            /\ xmit[i].arg2 <= sent[xmit[i].arg1]
    BY <1>1, CommandFields DEF IInv, QueueIsNew
  <1>8. QueueInOrder'
    <2> SUFFICES ASSUME NEW i \in 1 .. Len(xmit'), NEW j \in 1 .. Len(xmit'), i < j,
                        IsTrain(xmit'[i]), IsTrain(xmit'[j]), xmit'[i].arg1 = xmit'[j].arg1
                 PROVE  xmit'[i].arg2 < xmit'[j].arg2
      BY DEF QueueInOrder, IsTrain
    <2>1. i \in 1 .. Len(xmit) /\ xmit'[i] = xmit[i]
      BY <1>4
    <2>2. CASE j \in 1 .. Len(xmit)
      BY <1>4, <2>1, <2>2 DEF IInv, QueueInOrder
    <2>3. CASE j = Len(xmit) + 1
      BY <1>2, <1>3, <1>4, <1>7, <2>1, <2>3
    <2> QED BY <1>4, <2>2, <2>3
  <1>9. QueueIsNew'
    <2> SUFFICES ASSUME NEW i \in 1 .. Len(xmit'), IsTrain(xmit'[i])
                 PROVE  /\ told'[xmit'[i].arg1] < xmit'[i].arg2
                        /\ xmit'[i].arg2 <= sent'[xmit'[i].arg1]
                        /\ train_ctrl_pkt'.arg1 = xmit'[i].arg1 => train_ctrl_pkt'.arg2 < xmit'[i].arg2
      BY DEF QueueIsNew, IsTrain
    <2>1. CASE i \in 1 .. Len(xmit)
      <3>1. /\ xmit'[i] = xmit[i] /\ IsTrain(xmit[i]) /\ xmit[i].arg1 \in Train
            /\ xmit[i].arg2 \in Nat
        BY <1>4, <1>7, <2>1
      <3>2. /\ told[xmit[i].arg1] < xmit[i].arg2
            /\ xmit[i].arg2 <= sent[xmit[i].arg1]
            /\ train_ctrl_pkt.arg1 = xmit[i].arg1 => train_ctrl_pkt.arg2 < xmit[i].arg2
        BY <2>1, <3>1 DEF IInv, QueueIsNew
      <3> QED BY <1>2, <1>5, <3>1, <3>2
    <2>2. CASE i = Len(xmit) + 1
      <3>1. told[t] <= sent[t]
        BY DEF IInv, ToldSent
      <3>2. train_ctrl_pkt.arg1 = t => train_ctrl_pkt.arg2 \in Nat /\ train_ctrl_pkt.arg2 <= sent[t]
        BY <1>1, CommandFields DEF IInv, CopyIsNew
      <3> QED BY <1>2, <1>3, <1>4, <1>5, <1>6, <2>2, <3>1, <3>2
    <2> QED BY <1>4, <2>1, <2>2
  <1>10. CopyIsNew'
    <2>1. handling' # Nothing => handling' = train_ctrl_pkt' /\ delaying'
      BY <1>2 DEF IInv, CopyIsNew
    <2>2. ASSUME train_ctrl_pkt # Nothing
          PROVE  /\ told[train_ctrl_pkt.arg1] <= train_ctrl_pkt.arg2
                 /\ train_ctrl_pkt.arg2 <= sent'[train_ctrl_pkt.arg1]
      <3>1. train_ctrl_pkt.arg1 \in Train /\ train_ctrl_pkt.arg2 \in Nat
        BY <1>1, <2>2, CommandFields
      <3>2. /\ told[train_ctrl_pkt.arg1] <= train_ctrl_pkt.arg2
            /\ train_ctrl_pkt.arg2 <= sent[train_ctrl_pkt.arg1]
        BY <2>2 DEF IInv, CopyIsNew
      <3> QED BY <1>5, <3>1, <3>2
    <2> QED BY <1>2, <2>1, <2>2 DEF CopyIsNew
  <1>11. ToldSent'
    BY <1>2, <1>5 DEF IInv, ToldSent
  <1> QED BY <1>8, <1>9, <1>10, <1>11

(* spi_controller transmits the head of the queue, or the copy.               *)
LEMMA Transmitted ==
    ASSUME IInv, spi_controller
    PROVE  QueueInOrder' /\ QueueIsNew' /\ CopyIsNew' /\ ToldSent'
  <1> DEFINE p == Packet
  <1>1. /\ xmit # << >> /\ ~delaying /\ delaying'
        /\ xmit' = Tail(xmit)
        /\ train_ctrl_pkt' = IF p.cmd = "TR_CTRL" THEN p ELSE train_ctrl_pkt
        /\ handling' = IF p.cmd = "TR_CTRL" THEN p ELSE handling
        /\ UNCHANGED <<sent, told>>
    BY DEF spi_controller, Takes, Packet
  <1>2. TypeOK /\ handling = Nothing
    BY <1>1 DEF IInv, CopyIsNew
  <1>3. /\ Head(xmit) = xmit[1] /\ Len(xmit) \in Nat /\ Len(xmit) >= 1
        /\ Len(xmit') = Len(xmit) - 1
        /\ \A i \in 1 .. Len(xmit') : xmit'[i] = xmit[i + 1] /\ i + 1 \in 1 .. Len(xmit)
        /\ p.cmd = "TR_CTRL" => p \in Command
    BY <1>1, <1>2, PacketType
  <1>4. /\ \A i \in 1 .. Len(xmit) : IsTrain(xmit[i]) => xmit[i] \in Command
        /\ train_ctrl_pkt \in Command \cup {Nothing}
    BY <1>2, CommandFields DEF TypeOK
  <1>5. CASE IsTrain(xmit[1])
    <2>1. p = xmit[1] /\ p \in Command /\ train_ctrl_pkt' = p /\ handling' = p
      BY <1>1, <1>3, <1>5, CommandFields DEF Packet, IsTrain
    <2>2. QueueInOrder'
      BY <1>3 DEF IInv, QueueInOrder, IsTrain
    <2>3. QueueIsNew'
      <3> SUFFICES ASSUME NEW i \in 1 .. Len(xmit'), IsTrain(xmit'[i])
                   PROVE  /\ told'[xmit'[i].arg1] < xmit'[i].arg2
                          /\ xmit'[i].arg2 <= sent'[xmit'[i].arg1]
                          /\ train_ctrl_pkt'.arg1 = xmit'[i].arg1 => train_ctrl_pkt'.arg2 < xmit'[i].arg2
        BY DEF QueueIsNew, IsTrain
      <3>1. xmit'[i] = xmit[i + 1] /\ i + 1 \in 1 .. Len(xmit) /\ 1 \in 1 .. Len(xmit) /\ 1 < i + 1
        BY <1>3
      <3>2. p.arg1 = xmit[i + 1].arg1 => p.arg2 < xmit[i + 1].arg2
        BY <1>5, <2>1, <3>1 DEF IInv, QueueInOrder
      <3> QED BY <1>1, <2>1, <3>1, <3>2 DEF IInv, QueueIsNew
    <2>4. CopyIsNew'
      <3>1. 1 \in 1 .. Len(xmit)
        BY <1>3
      <3>2. told[p.arg1] < p.arg2 /\ p.arg2 <= sent[p.arg1]
        BY <1>5, <2>1, <3>1 DEF IInv, QueueIsNew
      <3>3. p.arg1 \in Train /\ p.arg2 \in Nat /\ told[p.arg1] \in Nat
        BY <1>2, <2>1, CommandFields DEF TypeOK
      <3> QED BY <1>1, <2>1, <3>2, <3>3 DEF CopyIsNew
    <2>5. ToldSent'
      BY <1>1 DEF IInv, ToldSent
    <2> QED BY <2>2, <2>3, <2>4, <2>5
  <1>6. CASE ~IsTrain(xmit[1])
    <2>1. train_ctrl_pkt' = train_ctrl_pkt /\ handling' \in {Nothing, train_ctrl_pkt}
      BY <1>1, <1>2, <1>3, <1>6 DEF Packet, IsTrain
    <2>2. QueueInOrder'
      BY <1>3 DEF IInv, QueueInOrder, IsTrain
    <2>3. QueueIsNew'
      BY <1>1, <1>3, <2>1 DEF IInv, QueueIsNew, IsTrain
    <2>4. CopyIsNew' /\ ToldSent'
      BY <1>1, <2>1 DEF IInv, CopyIsNew, ToldSent
    <2> QED BY <2>2, <2>3, <2>4
  <1> QED BY <1>5, <1>6

(* The Atmel passes on what it has in hand: it is no older than what the      *)
(* train was told, and older than all that still waits for the train.         *)
LEMMA Passed ==
    ASSUME IInv, Pass
    PROVE  /\ QueueInOrder' /\ QueueIsNew' /\ CopyIsNew' /\ ToldSent'
           /\ \A t \in Train : told'[t] >= told[t]
  <1> DEFINE p == train_ctrl_pkt
  <1>1. /\ handling = p /\ p # Nothing /\ handling' = Nothing
        /\ told' = [told EXCEPT ![p.arg1] = p.arg2]
        /\ UNCHANGED <<xmit, sent, train_ctrl_pkt>>
    BY DEF Pass, IInv, CopyIsNew, software
  <1>2. /\ p \in Command /\ p.arg1 \in Train /\ p.arg2 \in Nat
        /\ told \in [Train -> 0 .. MaxCommands] /\ sent \in [Train -> 0 .. MaxCommands]
    BY <1>1, CommandFields DEF IInv, TypeOK
  <1>3. told[p.arg1] <= p.arg2 /\ p.arg2 <= sent[p.arg1]
    BY <1>1 DEF IInv, CopyIsNew
  <1>4. \A t \in Train : told'[t] = IF t = p.arg1 THEN p.arg2 ELSE told[t]
    BY <1>1, <1>2
  <1>5. \A t \in Train : told[t] \in Nat /\ sent[t] \in Nat
    BY <1>2
  <1>6. \A t \in Train : told'[t] >= told[t]
    BY <1>2, <1>3, <1>4, <1>5
  <1>7. QueueInOrder'
    BY <1>1 DEF IInv, QueueInOrder, IsTrain
  <1>8. QueueIsNew'
    <2> SUFFICES ASSUME NEW i \in 1 .. Len(xmit), IsTrain(xmit[i])
                 PROVE  told'[xmit[i].arg1] < xmit[i].arg2
      BY <1>1 DEF IInv, QueueIsNew, IsTrain
    <2>1. xmit \in Seq(Message) /\ xmit[i] \in Command /\ xmit[i].arg1 \in Train
      BY CommandFields DEF IInv, TypeOK
    <2> QED BY <1>4, <2>1 DEF IInv, QueueIsNew
  <1>9. CopyIsNew'
    <2>1. told'[p.arg1] = p.arg2
      BY <1>2, <1>4
    <2> QED BY <1>1, <1>2, <1>3, <2>1 DEF CopyIsNew
  <1>10. ToldSent'
    BY <1>1, <1>3, <1>4 DEF IInv, ToldSent
  <1> QED BY <1>6, <1>7, <1>8, <1>9, <1>10

(* Each step keeps the commands of a train in the order they were given. *)
LEMMA QueueStep == IInv /\ [Next]_vars => QueueInOrder' /\ QueueIsNew' /\ CopyIsNew' /\ ToldSent'
  <1> SUFFICES ASSUME IInv, [Next]_vars
               PROVE  QueueInOrder' /\ QueueIsNew' /\ CopyIsNew' /\ ToldSent'
    OBVIOUS
  <1> USE DEF Queues, software, atmel
  <1>1. ASSUME NEW t \in Train, CommandTrain(t)
        PROVE  QueueInOrder' /\ QueueIsNew' /\ CopyIsNew' /\ ToldSent'
    BY <1>1, CommandAdded
  <1>2. CASE switch_track
    <2>1. SW_CTRL \in Message
      BY DEF Message
    <2> QED BY <1>2, <2>1, OtherAdded, CommandFields DEF switch_track, xmit_spi
  <1>3. CASE spi_controller
    BY <1>3, Transmitted
  <1>4. CASE Delayed
    BY <1>4, Untouched DEF Delayed
  <1>5. CASE PollSensor
    BY <1>5, Untouched DEF PollSensor
  <1>6. CASE ReportSensor
    BY <1>6, Untouched DEF ReportSensor
  <1>7. CASE AckSensor
    <2>1. hal.hs_num \in Number
      BY DEF IInv, TypeOK
    <2>2. HS_ACK(hal.hs_num) \in Message /\ ~IsTrain(HS_ACK(hal.hs_num))
      BY <2>1, CommandFields DEF Message
    <2> QED BY <1>7, <2>2, OtherAdded DEF AckSensor, xmit_spi
  <1>8. CASE ClearEdges
    BY <1>8, Untouched DEF ClearEdges
  <1>9. CASE GPIOPortF_IntHandler
    <2>1. TX_ERR \in Message
      BY DEF Message
    <2>2. CASE xmit' = xmit
      BY <1>9, <2>2, Untouched DEF GPIOPortF_IntHandler
    <2>3. CASE xmit' = Append(xmit, TX_ERR)
      BY <1>9, <2>1, <2>3, OtherAdded, CommandFields DEF GPIOPortF_IntHandler
    <2>4. xmit' = xmit \/ xmit' = Append(xmit, TX_ERR)
      BY <1>9 DEF GPIOPortF_IntHandler
    <2> QED BY <2>2, <2>3, <2>4
  <1>10. CASE Pass
    BY <1>10, Passed
  <1>11. CASE Fail
    BY <1>11 DEF Fail, IInv, QueueInOrder, QueueIsNew, CopyIsNew, ToldSent
  <1>12. ASSUME NEW s \in Sensor, Trigger(s)
         PROVE  QueueInOrder' /\ QueueIsNew' /\ CopyIsNew' /\ ToldSent'
    BY <1>12, Untouched DEF Trigger
  <1>13. CASE UNCHANGED vars
    BY <1>13, Untouched DEF vars
  <1> QED BY <1>1, <1>2, <1>3, <1>4, <1>5, <1>6, <1>7, <1>8, <1>9, <1>10, <1>11,
             <1>12, <1>13 DEF Next

-----------------------------------------------------------------------------
(* The inductive invariant holds in every reachable state.                    *)
THEOREM Invariance == Spec => []IInv
  <1>1. IInv /\ [Next]_vars => IInv'
    BY TypeStep, QueueStep DEF IInv
  <1> QED BY InitIInv, <1>1, PTL DEF Spec

(* Messages, packets and counters keep their types; TX_ERR re-sends a train   *)
(* packet or nothing.                                                         *)
THEOREM Types == Spec => []TypeOK
  <1>1. IInv => TypeOK
    BY DEF IInv
  <1> QED BY Invariance, <1>1, PTL

(* No re-send takes a train back to a command that a newer one has replaced.  *)
THEOREM Forward == Spec => NeverReverts
  <1>1. IInv /\ [Next]_vars => [\A t \in Train : told'[t] >= told[t]]_vars
    <2> SUFFICES ASSUME IInv, Next PROVE \A t \in Train : told'[t] >= told[t]
      OBVIOUS
    <2>1. CASE Pass
      BY <2>1, Passed
    <2>2. CASE ~Pass
      <3>1. told' = told
        BY <2>2 DEF Next, CommandTrain, switch_track, spi_controller, Delayed, PollSensor,
              ReportSensor, AckSensor, ClearEdges, GPIOPortF_IntHandler, Fail, Trigger, atmel
      <3>2. \A t \in Train : told[t] \in Nat
        BY DEF IInv, TypeOK
      <3> QED BY <3>1, <3>2
    <2> QED BY <2>1, <2>2
  <1> QED BY Invariance, <1>1, PTL DEF Spec, NeverReverts
-----------------------------------------------------------------------------
(* The conductor hears of every sensor once, for any sensors and any number   *)
(* of commands, as long as failures and sensors stay apart and no handler     *)
(* runs over the response.                                                    *)

(* The sensors not acknowledged are the last that were set off; those before  *)
(* them have been reported, and the first of them too once hal_server is done *)
(* with it.  One thing at a time stands for that sensor: the edge, the        *)
(* wake-up, hal_server, or the acknowledgement in the queue.                  *)
IsAck(p) == p.cmd = "HS_ACK"

AckQueued == \E i \in 1 .. Len(xmit) : IsAck(xmit[i])

Acked == Len(triggered) - Len(waiting)

Underway == irq \/ handler

WaitingIsRest ==
    /\ Len(waiting) <= Len(triggered)
    /\ \A i \in 1 .. Len(waiting) : waiting[i] = triggered[Acked + i]

ReportedSoFar ==
    /\ Len(reported) = IF hal.at = "ack" \/ AckQueued THEN Acked + 1 ELSE Acked
    /\ \A i \in 1 .. Len(reported) : reported[i] = triggered[i]

Edges ==
    /\ ~(irq /\ handler)
    /\ Underway /\ waiting = << >> => pin1 /\ handling = Nothing
    /\ pin1 => waiting = << >>

OneAtATime ==
    /\ wakeups \in {0, 1}
    /\ Underway \/ waiting = << >> => wakeups = 0 /\ hal.at = "recv" /\ ~AckQueued
    /\ wakeups = 1 => hal.at = "recv" /\ ~AckQueued
    /\ hal.at # "recv" => hal.hs_num = waiting[1] /\ ~AckQueued
    /\ \A i \in 1 .. Len(xmit) : IsAck(xmit[i]) => xmit[i].arg1 = waiting[1]
    /\ \A i, j \in 1 .. Len(xmit) : IsAck(xmit[i]) /\ IsAck(xmit[j]) => i = j

HInv == WaitingIsRest /\ ReportedSoFar /\ Edges /\ OneAtATime

(* Which packets acknowledge a sensor. *)
LEMMA Acks ==
    /\ ~IsAck(TX_ERR) /\ ~IsAck(SW_CTRL) /\ ~IsAck(Nothing)
    /\ \A p \in Command : ~IsAck(p)
    /\ \A s : IsAck(HS_ACK(s)) /\ HS_ACK(s).arg1 = s /\ HS_ACK(s) # TX_ERR
  BY DEF IsAck, TX_ERR, SW_CTRL, Nothing, Command, TR_CTRL, HS_ACK

(* No sensor is on its way to the conductor at the start. *)
LEMMA InitHInv == Init => HInv
  BY DEF Init, HInv, WaitingIsRest, ReportedSoFar, Edges, OneAtATime, AckQueued,
         Acked, Underway

(* Steps that touch none of the sensors' way to the conductor.                *)
Way == <<xmit, wakeups, hal, reported, waiting, triggered, irq, handler, pin1>>

(* A step that touches nothing on that way keeps its invariant. *)
LEMMA OffTheWay ==
    ASSUME HInv, UNCHANGED Way, handling' \in {handling, Nothing}
    PROVE  HInv'
  BY DEF Way, HInv, WaitingIsRest, ReportedSoFar, Edges, OneAtATime, AckQueued,
         Acked, Underway, IsAck

(* A packet that is no acknowledgement is added to the queue.                 *)
LEMMA Added ==
    ASSUME TypeOK, NEW p \in Message, ~IsAck(p), xmit' = Append(xmit, p)
    PROVE  /\ AckQueued' = AckQueued
           /\ \A i \in 1 .. Len(xmit') : IsAck(xmit'[i]) => i \in 1 .. Len(xmit) /\ xmit'[i] = xmit[i]
  <1>1. xmit \in Seq(Message)
    BY DEF TypeOK
  <1>2. /\ Len(xmit') = Len(xmit) + 1 /\ Len(xmit) \in Nat
        /\ \A i \in 1 .. Len(xmit) : xmit'[i] = xmit[i]
        /\ xmit'[Len(xmit) + 1] = p
    BY <1>1, AppendProperties
  <1>3. \A i \in 1 .. Len(xmit') : i \in 1 .. Len(xmit) \/ i = Len(xmit) + 1
    BY <1>2
  <1> QED BY <1>2, <1>3 DEF AckQueued, IsAck

(* Nor does a packet that acknowledges no sensor disturb it. *)
LEMMA OtherSent ==
    ASSUME TypeOK, HInv, NEW p \in Message, ~IsAck(p), xmit' = Append(xmit, p),
           UNCHANGED <<wakeups, hal, reported, waiting, triggered, irq, handler,
                       pin1, handling>>
    PROVE  HInv'
  <1>1. /\ AckQueued' = AckQueued
        /\ \A i \in 1 .. Len(xmit') : IsAck(xmit'[i]) => i \in 1 .. Len(xmit) /\ xmit'[i] = xmit[i]
    BY Added
  <1>2. OneAtATime'
    BY <1>1 DEF HInv, OneAtATime, Underway, IsAck
  <1>3. WaitingIsRest' /\ ReportedSoFar' /\ Edges'
    BY <1>1 DEF HInv, WaitingIsRest, ReportedSoFar, Edges, Acked, Underway
  <1> QED BY <1>2, <1>3 DEF HInv

(* spi_controller acknowledges the first sensor that waits, or no sensor.     *)
LEMMA Acknowledged ==
    ASSUME TypeOK, HInv, spi_controller
    PROVE  HInv'
  <1>1. /\ xmit # << >> /\ ~irq /\ ~handler /\ xmit' = Tail(xmit) /\ Takes(Packet)
        /\ UNCHANGED <<wakeups, hal, reported, pin1, triggered, handler>>
    BY DEF spi_controller, Packet, Threads
  <1>2. /\ Head(xmit) = xmit[1] /\ Len(xmit) \in Nat /\ Len(xmit) >= 1
        /\ Len(xmit') = Len(xmit) - 1
        /\ \A i \in 1 .. Len(xmit') : xmit'[i] = xmit[i + 1] /\ i + 1 \in 1 .. Len(xmit)
    BY <1>1, PacketType
  <1>3. train_ctrl_pkt \in Command \cup {Nothing} /\ waiting \in Seq(Sensor) /\ triggered \in Seq(Sensor)
    BY DEF TypeOK
  <1>4. IsAck(Packet) <=> IsAck(xmit[1])
    BY <1>2, <1>3, Acks DEF Packet
  <1>5. CASE IsAck(xmit[1])
    <2>1. Packet = xmit[1] /\ 1 \in 1 .. Len(xmit) /\ AckQueued
      BY <1>2, <1>5, Acks DEF Packet, AckQueued
    <2>2. /\ waiting # << >> /\ xmit[1].arg1 = waiting[1] /\ wakeups = 0 /\ hal.at = "recv"
      BY <1>5, <2>1 DEF HInv, OneAtATime
    <2>3. /\ waiting' = Tail(waiting) /\ irq' = (Len(waiting) > 1) /\ handling' = handling
      BY <1>1, <1>3, <1>5, <2>1, <2>2, HeadTailProperties DEF Takes, IsAck
    <2>4. /\ Len(waiting') = Len(waiting) - 1 /\ Len(waiting) \in Nat /\ Len(waiting) >= 1
          /\ \A i \in 1 .. Len(waiting') : waiting'[i] = waiting[i + 1] /\ i + 1 \in 1 .. Len(waiting)
          /\ waiting' \in Seq(Sensor) /\ Len(triggered) \in Nat
          /\ Acked' = Acked + 1
      BY <1>1, <1>3, <2>2, <2>3, HeadTailProperties DEF Acked
    <2>5. ~AckQueued'
      <3> SUFFICES ASSUME NEW i \in 1 .. Len(xmit'), IsAck(xmit'[i]) PROVE FALSE
        BY DEF AckQueued, IsAck
      <3>1. xmit'[i] = xmit[i + 1] /\ i + 1 \in 1 .. Len(xmit) /\ i + 1 # 1
        BY <1>2
      <3> QED BY <1>5, <2>1, <3>1 DEF HInv, OneAtATime, IsAck
    <2>6. WaitingIsRest'
      BY <1>1, <2>4 DEF HInv, WaitingIsRest, Acked
    <2>7. ReportedSoFar'
      BY <1>1, <2>1, <2>2, <2>4, <2>5 DEF HInv, ReportedSoFar
    <2>8. Edges'
      <3>1. ~pin1' /\ ~handler'
        BY <1>1, <2>2 DEF HInv, Edges
      <3>2. ASSUME waiting' = << >> PROVE ~irq'
        <4>1. Len(waiting') = 0
          BY <3>2
        <4>2. Len(waiting') = Len(waiting) - 1 /\ Len(waiting) \in Nat
          BY <2>4
        <4>3. Len(waiting) = 1
          BY <4>1, <4>2
        <4>4. ~(Len(waiting) > 1)
          BY <4>3
        <4> QED BY <2>3, <4>4
      <3> QED BY <3>1, <3>2 DEF Edges, Underway
    <2>9. OneAtATime'
      BY <1>1, <2>2, <2>5 DEF HInv, OneAtATime, AckQueued, IsAck
    <2> QED BY <2>6, <2>7, <2>8, <2>9 DEF HInv
  <1>6. CASE ~IsAck(xmit[1])
    <2>1. waiting' = waiting /\ irq' = irq
      <3>1. Packet.cmd # "HS_ACK" /\ irq \in BOOLEAN
        BY <1>4, <1>6 DEF IsAck, TypeOK
      <3> QED BY <1>1, <3>1 DEF Takes
    <2>2. AckQueued' = AckQueued
      <3>1. AckQueued => AckQueued'
        <4> SUFFICES ASSUME NEW i \in 1 .. Len(xmit), IsAck(xmit[i]) PROVE AckQueued'
          BY DEF AckQueued
        <4>1. i - 1 \in 1 .. Len(xmit') /\ xmit'[i - 1] = xmit[(i - 1) + 1] /\ (i - 1) + 1 = i
          BY <1>2, <1>6
        <4> QED BY <4>1 DEF AckQueued, IsAck
      <3>2. AckQueued' => AckQueued
        BY <1>2 DEF AckQueued, IsAck
      <3> QED BY <3>1, <3>2 DEF AckQueued
    <2>3. WaitingIsRest' /\ ReportedSoFar'
      BY <1>1, <2>1, <2>2 DEF HInv, WaitingIsRest, ReportedSoFar, Acked
    <2>4. Edges'
      BY <1>1, <2>1 DEF HInv, Edges, Underway
    <2>5. OneAtATime'
      <3>1. \A i \in 1 .. Len(xmit') : IsAck(xmit'[i]) => xmit'[i].arg1 = waiting'[1]
        BY <1>2, <2>1 DEF HInv, OneAtATime, IsAck
      <3>2. \A i, j \in 1 .. Len(xmit') : IsAck(xmit'[i]) /\ IsAck(xmit'[j]) => i = j
        <4> SUFFICES ASSUME NEW i \in 1 .. Len(xmit'), NEW j \in 1 .. Len(xmit'),
                            IsAck(xmit'[i]), IsAck(xmit'[j])
                     PROVE  i = j
          BY DEF IsAck
        <4>1. IsAck(xmit[i + 1]) /\ IsAck(xmit[j + 1]) /\ i + 1 \in 1 .. Len(xmit) /\ j + 1 \in 1 .. Len(xmit)
          BY <1>2 DEF IsAck
        <4>2. i + 1 = j + 1
          BY <4>1 DEF HInv, OneAtATime
        <4> QED BY <4>2
      <3> QED BY <1>1, <2>1, <2>2, <3>1, <3>2 DEF HInv, OneAtATime, Underway
    <2> QED BY <2>3, <2>4, <2>5 DEF HInv
  <1> QED BY <1>5, <1>6

(* hal_server polls, reports and acknowledges the first sensor that waits.    *)
LEMMA Polled ==
    ASSUME TypeOK, HInv, PollSensor
    PROVE  HInv'
  <1>1. /\ ~irq /\ ~handler /\ hal.at = "recv" /\ wakeups > 0 /\ wakeups' = wakeups - 1
        /\ hal' = [at |-> "read",
                   hs_num |-> IF waiting = << >> THEN EMPTY_ARG ELSE Head(waiting)]
        /\ UNCHANGED <<xmit, reported, waiting, triggered, irq, handler, pin1, handling>>
    BY DEF PollSensor, Threads, atmel
  <1>2. wakeups = 1 /\ waiting # << >> /\ ~AckQueued
    BY <1>1 DEF HInv, OneAtATime
  <1>3. Head(waiting) = waiting[1]
    BY <1>2 DEF TypeOK
  <1>4. wakeups' = 0 /\ hal'.at = "read" /\ hal'.hs_num = waiting[1] /\ ~AckQueued'
    BY <1>1, <1>2, <1>3 DEF AckQueued, IsAck
  <1>5. WaitingIsRest' /\ ReportedSoFar' /\ Edges'
    BY <1>1, <1>2, <1>4 DEF HInv, WaitingIsRest, ReportedSoFar, Edges, Acked, Underway
  <1>6. OneAtATime'
    BY <1>1, <1>2, <1>4 DEF HInv, OneAtATime, Underway, AckQueued, IsAck
  <1> QED BY <1>5, <1>6 DEF HInv

(* The elements of a sequence with one more at its end. *)
LEMMA AppendedSet ==
    ASSUME NEW S, NEW s \in Seq(S), NEW x \in S
    PROVE  ToSet(Append(s, x)) = ToSet(s) \cup {x}
  <1>1. /\ Len(Append(s, x)) = Len(s) + 1 /\ Len(s) \in Nat
        /\ \A i \in 1 .. Len(s) : Append(s, x)[i] = s[i]
        /\ Append(s, x)[Len(s) + 1] = x
    BY AppendProperties
  <1>2. DOMAIN s = 1 .. Len(s) /\ DOMAIN Append(s, x) = 1 .. Len(s) + 1
    BY <1>1
  <1>3. 1 .. Len(s) + 1 = (1 .. Len(s)) \cup {Len(s) + 1}
    BY <1>1
  <1> QED BY <1>1, <1>2, <1>3, Zenon DEF ToSet

(* What it reports is what it read, if the response is intact. *)
LEMMA Unspoilt ==
    ASSUME TypeOK, ReportSensor, Intact'
    PROVE  /\ hal' = [at |-> "ack", hs_num |-> hal.hs_num]
           /\ reported' = Append(reported, hal.hs_num)
  <1>1. PICK hs_num \in {hal.hs_num} \cup Junk :
            hal' = [at |-> "ack", hs_num |-> hs_num] /\ reported' = Append(reported, hs_num)
    BY DEF ReportSensor
  <1>2. reported \in Seq(Number) /\ hs_num \in Number
    BY DEF TypeOK, Number
  <1>3. hs_num \in ToSet(reported')
    BY <1>1, <1>2, AppendedSet
  <1>4. hs_num \notin Junk
    BY <1>3 DEF Intact
  <1> QED BY <1>1, <1>4

(* hal_server reports the sensor that has waited longest. *)
LEMMA Reported ==
    ASSUME TypeOK, HInv, ReportSensor, Intact'
    PROVE  HInv'
  <1>1. /\ ~irq /\ ~handler /\ hal.at = "read"
        /\ hal' = [at |-> "ack", hs_num |-> hal.hs_num]
        /\ reported' = Append(reported, hal.hs_num)
        /\ UNCHANGED <<xmit, wakeups, waiting, triggered, irq, handler, pin1, handling>>
    BY Unspoilt DEF ReportSensor, Threads, atmel
  <1>2. /\ wakeups = 0 /\ hal.hs_num = waiting[1] /\ ~AckQueued /\ waiting # << >>
    BY <1>1 DEF HInv, OneAtATime
  <1>3. /\ waiting \in Seq(Sensor) /\ triggered \in Seq(Sensor) /\ reported \in Seq(Number)
        /\ hal.hs_num \in Number
    BY DEF TypeOK
  <1>4. /\ Len(waiting) \in Nat /\ Len(waiting) >= 1 /\ Len(triggered) \in Nat
        /\ Len(waiting) <= Len(triggered) /\ 1 \in 1 .. Len(waiting)
        /\ waiting[1] = triggered[Acked + 1]
    BY <1>2, <1>3 DEF HInv, WaitingIsRest
  <1>5. Len(reported) = Acked
    BY <1>1, <1>2 DEF HInv, ReportedSoFar
  <1>6. /\ Len(reported') = Acked + 1 /\ Acked \in Nat
        /\ \A i \in 1 .. Acked : reported'[i] = reported[i]
        /\ reported'[Acked + 1] = waiting[1]
    <2>1. Acked \in Nat
      BY <1>4 DEF Acked
    <2>2. /\ Len(reported') = Len(reported) + 1
          /\ \A i \in 1 .. Len(reported) : reported'[i] = reported[i]
          /\ reported'[Len(reported) + 1] = hal.hs_num
      BY <1>1, <1>3, AppendProperties
    <2> QED BY <1>2, <1>5, <2>1, <2>2
  <1>7. ~AckQueued' /\ hal'.at = "ack" /\ hal'.hs_num = waiting[1] /\ Acked' = Acked
    BY <1>1, <1>2 DEF AckQueued, IsAck, Acked
  <1>8. ReportedSoFar'
    <2>1. \A i \in 1 .. Acked : reported[i] = triggered[i]
      BY <1>5 DEF HInv, ReportedSoFar
    <2>2. \A i \in 1 .. Acked + 1 : i \in 1 .. Acked \/ i = Acked + 1
      BY <1>6
    <2>3. \A i \in 1 .. Acked + 1 : reported'[i] = triggered[i]
      BY <1>4, <1>6, <2>1, <2>2
    <2> QED BY <1>1, <1>6, <1>7, <2>3 DEF ReportedSoFar
  <1>9. WaitingIsRest' /\ Edges'
    BY <1>1 DEF HInv, WaitingIsRest, Edges, Acked, Underway
  <1>10. OneAtATime'
    BY <1>1, <1>2, <1>7 DEF HInv, OneAtATime, Underway, AckQueued, IsAck
  <1> QED BY <1>8, <1>9, <1>10 DEF HInv

(* hal_server acknowledges the sensor it has just reported. *)
LEMMA AckSent ==
    ASSUME TypeOK, HInv, AckSensor
    PROVE  HInv'
  <1> DEFINE p == HS_ACK(hal.hs_num)
  <1>1. /\ ~irq /\ ~handler /\ hal.at = "ack" /\ xmit' = Append(xmit, p)
        /\ hal' = [at |-> "recv", hs_num |-> EMPTY_ARG]
        /\ UNCHANGED <<wakeups, reported, waiting, triggered, irq, handler, pin1, handling>>
    BY DEF AckSensor, xmit_spi, Threads, atmel
  <1>2. /\ wakeups = 0 /\ hal.hs_num = waiting[1] /\ ~AckQueued /\ waiting # << >>
    BY <1>1 DEF HInv, OneAtATime
  <1>3. xmit \in Seq(Message) /\ p \in Message /\ IsAck(p) /\ p.arg1 = waiting[1]
    BY <1>2, Acks DEF TypeOK, Message
  <1>4. /\ Len(xmit') = Len(xmit) + 1 /\ Len(xmit) \in Nat
        /\ \A i \in 1 .. Len(xmit) : xmit'[i] = xmit[i]
        /\ xmit'[Len(xmit) + 1] = p
    BY <1>1, <1>3, AppendProperties
  <1>5. \A i \in 1 .. Len(xmit') : IsAck(xmit'[i]) => i = Len(xmit) + 1 /\ xmit'[i] = p
    <2>1. \A i \in 1 .. Len(xmit') : i \in 1 .. Len(xmit) \/ i = Len(xmit) + 1
      BY <1>4
    <2> QED BY <1>2, <1>4, <2>1 DEF AckQueued
  <1>6. AckQueued' /\ hal'.at = "recv"
    BY <1>1, <1>3, <1>4 DEF AckQueued, IsAck
  <1>7. WaitingIsRest' /\ Edges'
    BY <1>1 DEF HInv, WaitingIsRest, Edges, Acked, Underway
  <1>8. ReportedSoFar'
    BY <1>1, <1>6 DEF HInv, ReportedSoFar, Acked
  <1>9. OneAtATime'
    BY <1>1, <1>2, <1>3, <1>5, <1>6 DEF HInv, OneAtATime, Underway, IsAck
  <1> QED BY <1>7, <1>8, <1>9 DEF HInv

(* The interrupt turns an edge into a wake-up or an error message.            *)
LEMMA Handled ==
    ASSUME TypeOK, HInv, GPIOPortF_IntHandler
    PROVE  HInv'
  <1>1. /\ handler /\ ~handler' /\ ~pin1' /\ ~irq /\ irq' = irq
        /\ UNCHANGED <<hal, reported, waiting, triggered, handling>>
    BY DEF GPIOPortF_IntHandler, HInv, Edges
  <1>2. wakeups = 0 /\ hal.at = "recv" /\ ~AckQueued
    BY <1>1 DEF HInv, OneAtATime, Underway
  <1>3. WaitingIsRest' /\ Edges'
    BY <1>1 DEF HInv, WaitingIsRest, Edges, Acked, Underway
  <1>4. CASE xmit' = xmit
    <2>1. ~AckQueued'
      BY <1>2, <1>4 DEF AckQueued, IsAck
    <2>2. wakeups' \in {0, 1} /\ (waiting = << >> => wakeups' = 0)
      BY <1>2 DEF GPIOPortF_IntHandler
    <2> QED BY <1>1, <1>2, <1>3, <1>4, <2>1, <2>2
            DEF HInv, OneAtATime, ReportedSoFar, Underway, Acked, AckQueued, IsAck
  <1>5. CASE xmit' = Append(xmit, TX_ERR) /\ waiting = << >> /\ wakeups' = wakeups
    <2>1. TX_ERR \in Message /\ ~IsAck(TX_ERR)
      BY Acks DEF Message
    <2>2. ~AckQueued'
      BY <1>2, <1>5, <2>1, Added
    <2> QED BY <1>1, <1>2, <1>3, <1>5, <2>2
            DEF HInv, OneAtATime, ReportedSoFar, Underway, Acked, AckQueued, IsAck
  <1>6. xmit' = xmit \/ (xmit' = Append(xmit, TX_ERR) /\ waiting = << >> /\ wakeups' = wakeups)
    BY DEF GPIOPortF_IntHandler
  <1> QED BY <1>4, <1>5, <1>6

(* Another sensor is set off: it is the last that waits.                      *)
LEMMA Triggered ==
    ASSUME TypeOK, HInv, NEW s \in Sensor, Trigger(s), apart'
    PROVE  HInv'
  <1>1. /\ ~pin1 /\ triggered' = Append(triggered, s) /\ waiting' = Append(waiting, s)
        /\ irq' = (irq \/ waiting = << >>)
        /\ UNCHANGED <<xmit, wakeups, hal, reported, handling, pin1, handler>>
    BY DEF Trigger, software
  <1>2. waiting \in Seq(Sensor) /\ triggered \in Seq(Sensor) /\ Len(waiting) <= Len(triggered)
    BY DEF TypeOK, HInv, WaitingIsRest
  <1>3. /\ Len(waiting') = Len(waiting) + 1 /\ Len(waiting) \in Nat
        /\ \A i \in 1 .. Len(waiting) : waiting'[i] = waiting[i]
        /\ waiting'[Len(waiting) + 1] = s /\ waiting' # << >>
    BY <1>1, <1>2, AppendProperties
  <1>4. /\ Len(triggered') = Len(triggered) + 1 /\ Len(triggered) \in Nat
        /\ \A i \in 1 .. Len(triggered) : triggered'[i] = triggered[i]
        /\ triggered'[Len(triggered) + 1] = s
    BY <1>1, <1>2, AppendProperties
  <1>5. Acked' = Acked /\ Acked \in Nat
    BY <1>2, <1>3, <1>4 DEF Acked
  <1>6. WaitingIsRest'
    <2>1. \A i \in 1 .. Len(waiting) : Acked + i \in 1 .. Len(triggered)
      BY <1>2, <1>3, <1>4 DEF Acked
    <2>2. \A i \in 1 .. Len(waiting') : i \in 1 .. Len(waiting) \/ i = Len(waiting) + 1
      BY <1>3
    <2>3. Acked + (Len(waiting) + 1) = Len(triggered) + 1
      BY <1>3, <1>4 DEF Acked
    <2>4. \A i \in 1 .. Len(waiting') : waiting'[i] = triggered'[Acked + i]
      BY <1>3, <1>4, <2>1, <2>2, <2>3 DEF HInv, WaitingIsRest
    <2> QED BY <1>2, <1>3, <1>4, <1>5, <2>4 DEF WaitingIsRest
  <1>7. AckQueued' = AckQueued
    BY <1>1 DEF AckQueued, IsAck
  <1>8. ReportedSoFar'
    <2>1. Len(reported) = (IF hal.at = "ack" \/ AckQueued THEN Acked + 1 ELSE Acked)
          /\ (hal.at = "ack" \/ AckQueued => waiting # << >>)
      BY DEF HInv, ReportedSoFar, OneAtATime
    <2>2. \A i \in 1 .. Len(reported) : i \in 1 .. Len(triggered)
      BY <1>2, <1>3, <1>4, <2>1 DEF Acked
    <2> QED BY <1>1, <1>4, <1>5, <1>7, <2>1, <2>2 DEF HInv, ReportedSoFar
  <1>9. waiting = << >> => ~irq /\ ~handler
    BY <1>1 DEF HInv, Edges, Underway
  <1>10. Edges'
    BY <1>1, <1>3, <1>9 DEF HInv, Edges, Underway
  <1>11. waiting # << >> => waiting'[1] = waiting[1]
    BY <1>2, <1>3
  <1>12. OneAtATime'
    <2>1. CASE waiting = << >>
      BY <1>1, <1>7, <2>1 DEF HInv, OneAtATime, AckQueued, IsAck
    <2>2. CASE waiting # << >>
      <3>1. irq' = irq
        BY <1>1, <2>2 DEF TypeOK
      <3> QED BY <1>1, <1>3, <1>7, <1>11, <2>2, <3>1 DEF HInv, OneAtATime, Underway, IsAck
    <2> QED BY <2>1, <2>2
  <1> QED BY <1>6, <1>8, <1>10, <1>12 DEF HInv

(* Each step keeps the invariant of the sensors' way. *)
LEMMA HStep ==
    ASSUME TypeOK, HInv, [Next]_vars, apart', Intact'
    PROVE  HInv'
  <1> USE DEF Way, software, atmel
  <1>1. ASSUME NEW t \in Train, CommandTrain(t) PROVE HInv'
    <2>1. /\ xmit' = Append(xmit, TR_CTRL(t, sent[t] + 1))
          /\ sent[t] + 1 \in 1 .. MaxCommands
      BY <1>1, SpiLinkAssumption DEF CommandTrain, xmit_spi, TypeOK
    <2>2. TR_CTRL(t, sent[t] + 1) \in Command
      BY <2>1 DEF Command
    <2>3. TR_CTRL(t, sent[t] + 1) \in Message /\ ~IsAck(TR_CTRL(t, sent[t] + 1))
      BY <2>2, Acks DEF Message
    <2> QED BY <1>1, <2>1, <2>3, OtherSent DEF CommandTrain
  <1>2. CASE switch_track
    <2>1. SW_CTRL \in Message
      BY DEF Message
    <2> QED BY <1>2, <2>1, OtherSent, Acks DEF switch_track, xmit_spi
  <1>3. CASE spi_controller
    BY <1>3, Acknowledged
  <1>4. CASE Delayed
    BY <1>4, OffTheWay DEF Delayed
  <1>5. CASE PollSensor
    BY <1>5, Polled
  <1>6. CASE ReportSensor
    BY <1>6, Reported
  <1>7. CASE AckSensor
    BY <1>7, AckSent
  <1>8. CASE ClearEdges
    BY <1>8 DEF ClearEdges, HInv, WaitingIsRest, ReportedSoFar, Edges, OneAtATime, AckQueued,
          Acked, Underway, IsAck
  <1>9. CASE GPIOPortF_IntHandler
    BY <1>9, Handled
  <1>10. CASE Pass
    BY <1>10, OffTheWay DEF Pass
  <1>11. CASE Fail
    <2>1. /\ waiting = << >> /\ handling # Nothing /\ handling' = Nothing /\ pin1' /\ irq'
          /\ UNCHANGED <<xmit, wakeups, hal, reported, waiting, triggered, handler>>
      BY <1>11 DEF Fail
    <2>2. ~irq /\ ~handler
      BY <2>1 DEF HInv, Edges, Underway
    <2> QED BY <2>1, <2>2 DEF HInv, WaitingIsRest, ReportedSoFar, Edges, OneAtATime,
            AckQueued, Acked, Underway, IsAck
  <1>12. ASSUME NEW s \in Sensor, Trigger(s) PROVE HInv'
    BY <1>12, Triggered
  <1>13. CASE UNCHANGED vars
    BY <1>13, OffTheWay DEF vars
  <1> QED BY <1>1, <1>2, <1>3, <1>4, <1>5, <1>6, <1>7, <1>8, <1>9, <1>10, <1>11,
             <1>12, <1>13 DEF Next

-----------------------------------------------------------------------------
(* A sequence is a prefix of another that it agrees with as far as it goes.   *)
LEMMA AgreesIsPrefix ==
    ASSUME NEW S, NEW s \in Seq(S), NEW t \in Seq(S), Len(s) <= Len(t),
           \A i \in 1 .. Len(s) : s[i] = t[i]
    PROVE  IsPrefix(s, t)
  <1>1. Len(s) \in Nat /\ Len(t) \in Nat
    OBVIOUS
  <1>2. \A i \in 1 .. Len(s) : s[i] \in S /\ t[i] \in S
    OBVIOUS
  <1>3. /\ SubSeq(s, 1, Len(s)) \in Seq(S) /\ SubSeq(t, 1, Len(s)) \in Seq(S)
        /\ Len(SubSeq(s, 1, Len(s))) = Len(s) /\ Len(SubSeq(t, 1, Len(s))) = Len(s)
        /\ \A i \in 1 .. Len(s) : SubSeq(s, 1, Len(s))[i] = s[i]
        /\ \A i \in 1 .. Len(s) : SubSeq(t, 1, Len(s))[i] = t[i]
    BY <1>1, <1>2
  <1>4. SubSeq(s, 1, Len(s)) = SubSeq(t, 1, Len(s))
    BY <1>3, SeqEqual
  <1> QED BY <1>4 DEF IsPrefix

(* As long as failures and sensors stay apart and responses are intact, what  *)
(* was reported is the beginning of what was set off.                         *)
LEMMA OnceEach == HInv /\ TypeOK => IsPrefix(reported, triggered)
  <1> SUFFICES ASSUME HInv, TypeOK PROVE IsPrefix(reported, triggered)
    OBVIOUS
  <1>1. /\ reported \in Seq(Number) /\ triggered \in Seq(Number) /\ waiting \in Seq(Sensor)
        /\ triggered \in Seq(Sensor)
    BY DEF TypeOK, Number
  <1>2. Len(reported) \in Nat /\ Len(triggered) \in Nat /\ Len(waiting) \in Nat
    BY <1>1
  <1>3. waiting # << >> => Len(waiting) >= 1
    BY <1>1
  <1>4. Len(reported) <= Len(triggered)
    BY <1>2, <1>3 DEF HInv, ReportedSoFar, WaitingIsRest, OneAtATime, Acked
  <1>5. \A i \in 1 .. Len(reported) : reported[i] = triggered[i]
    BY DEF HInv, ReportedSoFar
  <1> QED BY <1>1, <1>4, <1>5, AgreesIsPrefix

(* Nothing that has come together, or been run over, is undone. *)
LEMMA Monotone == TypeOK /\ [Next]_vars => (apart' => apart) /\ (Intact' => Intact)
  <1> SUFFICES ASSUME TypeOK, [Next]_vars PROVE (apart' => apart) /\ (Intact' => Intact)
    OBVIOUS
  <1>1. apart' => apart
    BY DEF Next, vars, software, atmel, CommandTrain, switch_track, spi_controller, Delayed,
           PollSensor, ReportSensor, AckSensor, ClearEdges, GPIOPortF_IntHandler, Pass,
           Fail, Trigger
  <1>2. CASE reported' = reported
    BY <1>1, <1>2 DEF Intact
  <1>3. CASE ReportSensor
    <2>1. PICK hs_num \in {hal.hs_num} \cup Junk : reported' = Append(reported, hs_num)
      BY <1>3 DEF ReportSensor
    <2>2. reported \in Seq(Number) /\ hs_num \in Number
      BY DEF TypeOK, Number
    <2>3. ToSet(reported) \subseteq ToSet(reported')
      BY <2>1, <2>2, AppendedSet
    <2> QED BY <1>1, <2>3 DEF Intact
  <1>4. reported' = reported \/ ReportSensor
    BY DEF Next, vars, software, atmel, CommandTrain, switch_track, spi_controller, Delayed,
           PollSensor, AckSensor, ClearEdges, GPIOPortF_IntHandler, Pass, Fail, Trigger
  <1> QED BY <1>2, <1>3, <1>4

-----------------------------------------------------------------------------
(* What remains when failures and sensors come together and handlers run over *)
(* the response: no sensor is given up unread, and none is read before its    *)
(* turn.                                                                      *)

(* A sensor that no longer waits has been reported, and so has whatever an    *)
(* acknowledgement names: the one in the queue, and the one hal_server is     *)
(* about to send.                                                             *)
GoneAreReported == \A i \in 1 .. Acked : triggered[i] \in ToSet(reported)

AcksAreReported ==
    /\ \A i \in 1 .. Len(xmit) : IsAck(xmit[i]) => xmit[i].arg1 \in ToSet(reported)
    /\ hal.at = "ack" => hal.hs_num \in ToSet(reported)

KeptInv == WaitingIsRest /\ GoneAreReported /\ AcksAreReported

(* A sensor that has been read is none behind the first that still waits.     *)
Due(x) == x \in Sensor => \E k \in 1 .. Len(triggered) : k <= Acked + 1 /\ x = triggered[k]

ReadInTurn ==
    /\ \A i, j \in 1 .. Len(triggered) : triggered[i] = triggered[j] => i = j
    /\ hal.at = "read" => Due(hal.hs_num)
    /\ \A x \in ToSet(reported) : Due(x)

(* Acked counts the sensors that no longer wait. *)
LEMMA AckedType == TypeOK /\ WaitingIsRest => Acked \in Nat /\ Len(triggered) \in Nat
  BY DEF TypeOK, WaitingIsRest, Acked

(* Nothing has been set off at the start. *)
LEMMA InitKept == Init => KeptInv /\ ReadInTurn
  <1> SUFFICES ASSUME Init PROVE KeptInv /\ ReadInTurn
    OBVIOUS
  <1>1. /\ xmit = << >> /\ waiting = << >> /\ triggered = << >> /\ reported = << >>
        /\ hal.at = "recv" /\ Acked = 0
    BY DEF Init, Acked
  <1>2. ToSet(reported) = {}
    BY <1>1 DEF ToSet
  <1> QED BY <1>1, <1>2
          DEF KeptInv, WaitingIsRest, GoneAreReported, AcksAreReported, ReadInTurn

Passage == <<hal, reported, waiting, triggered>>

(* A step that keeps these, and adds no acknowledgement, keeps both. *)
LEMMA NotPassed ==
    ASSUME KeptInv, UNCHANGED Passage,
           \A i \in 1 .. Len(xmit') : IsAck(xmit'[i]) =>
               \E j \in 1 .. Len(xmit) : xmit'[i] = xmit[j]
    PROVE  KeptInv' /\ (ReadInTurn => ReadInTurn')
  <1>1. Acked' = Acked
    BY DEF Passage, Acked
  <1>2. WaitingIsRest' /\ GoneAreReported'
    BY <1>1 DEF KeptInv, WaitingIsRest, GoneAreReported, Passage
  <1>3. AcksAreReported'
    BY DEF KeptInv, AcksAreReported, Passage, IsAck
  <1>4. ReadInTurn => ReadInTurn'
    BY <1>1 DEF ReadInTurn, Due, Passage
  <1> QED BY <1>2, <1>3, <1>4 DEF KeptInv

(* spi_controller passes an acknowledgement on: the Atmel drops its first     *)
(* sensor only if that is the one named, and that one has been reported.      *)
LEMMA KeptAcknowledged ==
    ASSUME TypeOK, KeptInv, spi_controller
    PROVE  KeptInv' /\ (ReadInTurn => ReadInTurn')
  <1>1. /\ xmit # << >> /\ xmit' = Tail(xmit) /\ Takes(Packet)
        /\ UNCHANGED <<hal, reported, triggered>>
    BY DEF spi_controller, Packet
  <1>2. /\ Head(xmit) = xmit[1] /\ Len(xmit) \in Nat /\ Len(xmit) >= 1
        /\ Len(xmit') = Len(xmit) - 1
        /\ \A i \in 1 .. Len(xmit') : xmit'[i] = xmit[i + 1] /\ i + 1 \in 1 .. Len(xmit)
    BY <1>1, PacketType
  <1>3. \A i \in 1 .. Len(xmit') : IsAck(xmit'[i]) => \E j \in 1 .. Len(xmit) : xmit'[i] = xmit[j]
    BY <1>2
  <1>4. CASE waiting' = waiting
    BY <1>1, <1>3, <1>4, NotPassed DEF Passage
  <1>5. CASE waiting' # waiting
    <2>1. IsAck(Packet) /\ waiting # << >> /\ Head(waiting) = Packet.arg1 /\ waiting' = Tail(waiting)
      BY <1>1, <1>5 DEF Takes, IsAck
    <2>2. train_ctrl_pkt \in Command \cup {Nothing} /\ waiting \in Seq(Sensor) /\ triggered \in Seq(Sensor)
      BY DEF TypeOK
    <2>3. Packet = xmit[1] /\ 1 \in 1 .. Len(xmit)
      BY <1>2, <2>1, <2>2, Acks DEF Packet
    <2>4. waiting[1] \in ToSet(reported)
      BY <2>1, <2>2, <2>3 DEF KeptInv, AcksAreReported
    <2>5. /\ Len(waiting') = Len(waiting) - 1 /\ Len(waiting) \in Nat /\ Len(waiting) >= 1
          /\ \A i \in 1 .. Len(waiting') : waiting'[i] = waiting[i + 1] /\ i + 1 \in 1 .. Len(waiting)
          /\ Len(triggered) \in Nat /\ Acked \in Nat /\ Acked' = Acked + 1
      BY <1>1, <2>1, <2>2, HeadTailProperties DEF Acked, KeptInv, WaitingIsRest
    <2>6. WaitingIsRest'
      BY <1>1, <2>5 DEF KeptInv, WaitingIsRest, Acked
    <2>7. triggered[Acked + 1] = waiting[1]
      BY <2>5 DEF KeptInv, WaitingIsRest
    <2>8. GoneAreReported'
      <3>1. \A i \in 1 .. Acked' : i \in 1 .. Acked \/ i = Acked + 1
        BY <2>5
      <3> QED BY <1>1, <2>4, <2>7, <3>1 DEF KeptInv, GoneAreReported
    <2>9. AcksAreReported'
      BY <1>1, <1>3 DEF KeptInv, AcksAreReported, IsAck
    <2>10. ASSUME ReadInTurn PROVE ReadInTurn'
      <3>1. \A x : Due(x) => Due(x)'
        BY <1>1, <2>5 DEF Due
      <3> QED BY <1>1, <2>10, <3>1 DEF ReadInTurn
    <2> QED BY <2>6, <2>8, <2>9, <2>10 DEF KeptInv
  <1> QED BY <1>4, <1>5

(* hal_server reads the sensor that has waited longest, or that none does. *)
LEMMA KeptPolled ==
    ASSUME TypeOK, KeptInv, PollSensor
    PROVE  KeptInv' /\ (ReadInTurn => ReadInTurn')
  <1>1. /\ hal' = [at |-> "read",
                   hs_num |-> IF waiting = << >> THEN EMPTY_ARG ELSE Head(waiting)]
        /\ UNCHANGED <<xmit, reported, waiting, triggered>>
    BY DEF PollSensor, atmel
  <1>2. Acked' = Acked
    BY <1>1 DEF Acked
  <1>3. KeptInv'
    BY <1>1, <1>2 DEF KeptInv, WaitingIsRest, GoneAreReported, AcksAreReported, IsAck
  <1>4. Due(hal'.hs_num)
    <2>1. CASE waiting = << >>
      BY <1>1, <2>1, SpiLinkAssumption DEF Due
    <2>2. CASE waiting # << >>
      <3>1. /\ waiting \in Seq(Sensor) /\ Len(waiting) \in Nat /\ Len(waiting) >= 1
            /\ Head(waiting) = waiting[1] /\ Len(triggered) \in Nat
        BY <2>2 DEF TypeOK
      <3>2. waiting[1] = triggered[Acked + 1] /\ Acked + 1 \in 1 .. Len(triggered)
        BY <3>1 DEF KeptInv, WaitingIsRest, Acked
      <3> QED BY <1>1, <2>2, <3>1, <3>2 DEF Due
    <2> QED BY <2>1, <2>2
  <1>5. ReadInTurn => ReadInTurn'
    BY <1>1, <1>2, <1>4 DEF ReadInTurn, Due
  <1> QED BY <1>3, <1>5

(* hal_server reports what it read, or what a handler has made of it. *)
LEMMA KeptReported ==
    ASSUME TypeOK, KeptInv, ReportSensor
    PROVE  KeptInv' /\ (ReadInTurn /\ Junk \cap Sensor = {} => ReadInTurn')
  <1>1. /\ hal.at = "read"
        /\ UNCHANGED <<xmit, waiting, triggered>>
    BY DEF ReportSensor, atmel
  <1>2. PICK hs_num \in {hal.hs_num} \cup Junk :
            hal' = [at |-> "ack", hs_num |-> hs_num] /\ reported' = Append(reported, hs_num)
    BY DEF ReportSensor
  <1>3. ToSet(reported') = ToSet(reported) \cup {hs_num}
    <2>1. reported \in Seq(Number) /\ hs_num \in Number
      BY DEF TypeOK, Number
    <2> QED BY <1>2, <2>1, AppendedSet
  <1>4. Acked' = Acked
    BY <1>1 DEF Acked
  <1>5. KeptInv'
    BY <1>1, <1>2, <1>3, <1>4
       DEF KeptInv, WaitingIsRest, GoneAreReported, AcksAreReported, IsAck
  <1>6. ASSUME ReadInTurn, Junk \cap Sensor = {} PROVE ReadInTurn'
    <2>1. Due(hs_num)
      BY <1>1, <1>2, <1>6 DEF ReadInTurn, Due
    <2>2. \A x : Due(x) => Due(x)'
      BY <1>1, <1>4 DEF Due
    <2> QED BY <1>1, <1>2, <1>3, <1>6, <2>1, <2>2 DEF ReadInTurn
  <1> QED BY <1>5, <1>6

(* hal_server acknowledges what it has reported. *)
LEMMA KeptAckSent ==
    ASSUME TypeOK, KeptInv, AckSensor
    PROVE  KeptInv' /\ (ReadInTurn => ReadInTurn')
  <1> DEFINE p == HS_ACK(hal.hs_num)
  <1>1. /\ hal.at = "ack" /\ xmit' = Append(xmit, p)
        /\ hal' = [at |-> "recv", hs_num |-> EMPTY_ARG]
        /\ UNCHANGED <<reported, waiting, triggered>>
    BY DEF AckSensor, xmit_spi, atmel
  <1>2. p.arg1 \in ToSet(reported)
    BY <1>1, Acks DEF KeptInv, AcksAreReported
  <1>3. xmit \in Seq(Message) /\ p \in Message
    BY DEF TypeOK, Message
  <1>4. /\ Len(xmit') = Len(xmit) + 1 /\ Len(xmit) \in Nat
        /\ \A i \in 1 .. Len(xmit) : xmit'[i] = xmit[i]
        /\ xmit'[Len(xmit) + 1] = p
    BY <1>1, <1>3, AppendProperties
  <1>5. \A i \in 1 .. Len(xmit') : i \in 1 .. Len(xmit) \/ i = Len(xmit) + 1
    BY <1>4
  <1>6. AcksAreReported'
    BY <1>1, <1>2, <1>4, <1>5 DEF KeptInv, AcksAreReported, IsAck
  <1>7. Acked' = Acked
    BY <1>1 DEF Acked
  <1>8. WaitingIsRest' /\ GoneAreReported'
    BY <1>1, <1>7 DEF KeptInv, WaitingIsRest, GoneAreReported
  <1>9. ReadInTurn => ReadInTurn'
    BY <1>1, <1>7 DEF ReadInTurn, Due
  <1> QED BY <1>6, <1>8, <1>9 DEF KeptInv

(* Another sensor is set off, behind those that wait. *)
LEMMA KeptTriggered ==
    ASSUME TypeOK, KeptInv, NEW s \in Sensor, Trigger(s)
    PROVE  KeptInv' /\ (ReadInTurn => ReadInTurn')
  <1>1. /\ triggered' = Append(triggered, s) /\ waiting' = Append(waiting, s)
        /\ s \notin ToSet(triggered)
        /\ UNCHANGED <<xmit, hal, reported>>
    BY DEF Trigger, software
  <1>2. waiting \in Seq(Sensor) /\ triggered \in Seq(Sensor) /\ Len(waiting) <= Len(triggered)
    BY DEF TypeOK, KeptInv, WaitingIsRest
  <1>3. /\ Len(waiting') = Len(waiting) + 1 /\ Len(waiting) \in Nat
        /\ \A i \in 1 .. Len(waiting) : waiting'[i] = waiting[i]
        /\ waiting'[Len(waiting) + 1] = s
    BY <1>1, <1>2, AppendProperties
  <1>4. /\ Len(triggered') = Len(triggered) + 1 /\ Len(triggered) \in Nat
        /\ \A i \in 1 .. Len(triggered) : triggered'[i] = triggered[i]
        /\ triggered'[Len(triggered) + 1] = s
    BY <1>1, <1>2, AppendProperties
  <1>5. Acked' = Acked /\ Acked \in Nat /\ Acked <= Len(triggered)
    BY <1>2, <1>3, <1>4 DEF Acked
  <1>6. WaitingIsRest'
    <2>1. \A i \in 1 .. Len(waiting) : Acked + i \in 1 .. Len(triggered)
      BY <1>2, <1>3, <1>4 DEF Acked
    <2>2. \A i \in 1 .. Len(waiting') : i \in 1 .. Len(waiting) \/ i = Len(waiting) + 1
      BY <1>3
    <2>3. Acked + (Len(waiting) + 1) = Len(triggered) + 1
      BY <1>3, <1>4 DEF Acked
    <2>4. \A i \in 1 .. Len(waiting') : waiting'[i] = triggered'[Acked + i]
      BY <1>3, <1>4, <2>1, <2>2, <2>3 DEF KeptInv, WaitingIsRest
    <2> QED BY <1>2, <1>3, <1>4, <1>5, <2>4 DEF WaitingIsRest
  <1>7. GoneAreReported' /\ AcksAreReported'
    BY <1>1, <1>4, <1>5 DEF KeptInv, GoneAreReported, AcksAreReported, IsAck
  <1>8. ASSUME ReadInTurn PROVE ReadInTurn'
    <2>1. \A x : Due(x) => Due(x)'
      BY <1>4, <1>5 DEF Due
    <2>2. \A i \in 1 .. Len(triggered) : triggered[i] # s
      BY <1>1, <1>2 DEF ToSet
    <2>3. \A i \in 1 .. Len(triggered') : i \in 1 .. Len(triggered) \/ i = Len(triggered) + 1
      BY <1>4
    <2>4. \A i, j \in 1 .. Len(triggered') : triggered'[i] = triggered'[j] => i = j
      BY <1>4, <1>8, <2>2, <2>3 DEF ReadInTurn
    <2> QED BY <1>1, <1>8, <2>1, <2>4 DEF ReadInTurn
  <1> QED BY <1>6, <1>7, <1>8 DEF KeptInv

(* Each step keeps both. *)
LEMMA KeptStep ==
    ASSUME TypeOK, KeptInv, [Next]_vars
    PROVE  KeptInv' /\ (ReadInTurn /\ Junk \cap Sensor = {} => ReadInTurn')
  <1> DEFINE Goal == KeptInv' /\ (ReadInTurn /\ Junk \cap Sensor = {} => ReadInTurn')
  <1> USE DEF Passage, software, atmel
  <1>1. ASSUME NEW p \in Message, ~IsAck(p), xmit' = Append(xmit, p), UNCHANGED Passage
        PROVE  Goal
    <2>1. \A i \in 1 .. Len(xmit') : IsAck(xmit'[i]) => \E j \in 1 .. Len(xmit) : xmit'[i] = xmit[j]
      BY <1>1, Added
    <2> QED BY <1>1, <2>1, NotPassed
  <1>2. ASSUME UNCHANGED <<xmit, Passage>> PROVE Goal
    BY <1>2, NotPassed
  <1>3. ASSUME NEW t \in Train, CommandTrain(t) PROVE Goal
    <2>1. /\ xmit' = Append(xmit, TR_CTRL(t, sent[t] + 1))
          /\ sent[t] + 1 \in 1 .. MaxCommands
      BY <1>3, SpiLinkAssumption DEF CommandTrain, xmit_spi, TypeOK
    <2>2. TR_CTRL(t, sent[t] + 1) \in Command
      BY <2>1 DEF Command
    <2>3. TR_CTRL(t, sent[t] + 1) \in Message /\ ~IsAck(TR_CTRL(t, sent[t] + 1))
      BY <2>2, Acks DEF Message
    <2> QED BY <1>1, <1>3, <2>1, <2>3 DEF CommandTrain
  <1>4. CASE switch_track
    <2>1. SW_CTRL \in Message
      BY DEF Message
    <2> QED BY <1>1, <1>4, <2>1, Acks DEF switch_track, xmit_spi
  <1>5. CASE spi_controller
    BY <1>5, KeptAcknowledged
  <1>6. CASE Delayed \/ ClearEdges \/ Pass \/ Fail \/ UNCHANGED vars
    BY <1>2, <1>6 DEF Delayed, ClearEdges, Pass, Fail, vars
  <1>7. CASE PollSensor
    BY <1>7, KeptPolled
  <1>8. CASE ReportSensor
    BY <1>8, KeptReported
  <1>9. CASE AckSensor
    BY <1>9, KeptAckSent
  <1>10. CASE GPIOPortF_IntHandler
    <2>1. TX_ERR \in Message /\ ~IsAck(TX_ERR)
      BY Acks DEF Message
    <2>2. xmit' = xmit \/ xmit' = Append(xmit, TX_ERR)
      BY <1>10 DEF GPIOPortF_IntHandler
    <2>3. UNCHANGED Passage
      BY <1>10 DEF GPIOPortF_IntHandler
    <2>4. CASE xmit' = xmit
      BY <1>2, <2>3, <2>4
    <2>5. CASE xmit' = Append(xmit, TX_ERR)
      BY <1>1, <2>1, <2>3, <2>5
    <2> QED BY <2>2, <2>4, <2>5
  <1>11. ASSUME NEW s \in Sensor, Trigger(s) PROVE Goal
    BY <1>11, KeptTriggered
  <1> QED BY <1>3, <1>4, <1>5, <1>6, <1>7, <1>8, <1>9, <1>10, <1>11 DEF Next

(* The sensors that were set off are those that no longer wait and those that *)
(* do.                                                                        *)
LEMMA KeptIsNoneDropped == TypeOK /\ KeptInv => NoneDropped
  <1> SUFFICES ASSUME TypeOK, KeptInv, NEW s \in ToSet(triggered)
               PROVE  s \in ToSet(waiting) \cup ToSet(reported)
    BY DEF NoneDropped
  <1>1. /\ triggered \in Seq(Sensor) /\ waiting \in Seq(Sensor) /\ Len(triggered) \in Nat
        /\ Len(waiting) \in Nat /\ DOMAIN triggered = 1 .. Len(triggered)
        /\ DOMAIN waiting = 1 .. Len(waiting)
    BY DEF TypeOK
  <1>2. PICK i \in 1 .. Len(triggered) : s = triggered[i]
    BY <1>1 DEF ToSet
  <1>3. CASE i \in 1 .. Acked
    BY <1>2, <1>3 DEF KeptInv, GoneAreReported
  <1>4. CASE i \notin 1 .. Acked
    <2>1. Acked \in Nat /\ i - Acked \in 1 .. Len(waiting) /\ Acked + (i - Acked) = i
      BY <1>1, <1>4 DEF Acked, KeptInv, WaitingIsRest
    <2>2. waiting[i - Acked] = triggered[i]
      BY <2>1 DEF KeptInv, WaitingIsRest
    <2> QED BY <1>1, <1>2, <2>1, <2>2 DEF ToSet
  <1> QED BY <1>3, <1>4

(* What is reported is no further on than the first that waits, and all       *)
(* before that one have been reported.                                        *)
LEMMA ReadIsInTurn == TypeOK /\ KeptInv /\ ReadInTurn => InTurn
  <1> SUFFICES ASSUME TypeOK, KeptInv, ReadInTurn,
                      NEW i \in DOMAIN triggered, NEW j \in DOMAIN triggered,
                      i < j, triggered[j] \in ToSet(reported)
               PROVE  triggered[i] \in ToSet(reported)
    BY DEF InTurn
  <1>1. /\ triggered \in Seq(Sensor) /\ DOMAIN triggered = 1 .. Len(triggered)
        /\ triggered[j] \in Sensor /\ Acked \in Nat
    BY AckedType DEF TypeOK, KeptInv
  <1>2. PICK k \in 1 .. Len(triggered) : k <= Acked + 1 /\ triggered[j] = triggered[k]
    BY <1>1 DEF ReadInTurn, Due
  <1>3. j = k
    BY <1>1, <1>2 DEF ReadInTurn
  <1>4. i \in 1 .. Acked
    BY <1>1, <1>2, <1>3
  <1> QED BY <1>4 DEF KeptInv, GoneAreReported

(* No sensor is given up before the conductor was told of it: for any sensors *)
(* and trains, with failures and sensors together, and whatever a handler     *)
(* leaves in the freed frame that the response is read from.                  *)
THEOREM NothingDropped == Spec => []NoneDropped
  <1>1. TypeOK /\ KeptInv /\ [Next]_vars => KeptInv'
    BY KeptStep
  <1>2. Init => KeptInv
    BY InitKept
  <1> QED BY Types, KeptIsNoneDropped, <1>1, <1>2, PTL DEF Spec

(* The conductor is told of the sensors in the order they were set off: of    *)
(* none before an earlier one in any case, and of none twice as long as       *)
(* failures and sensors stay apart and responses are intact; for any sensors, *)
(* trains and bounds, if what a handler leaves is no sensor's number.         *)
THEOREM SensorsInOrder ==
    ASSUME Junk \cap Sensor = {}
    PROVE  Spec => []InOrder
  <1>1. TypeOK /\ KeptInv /\ ReadInTurn /\ [Next]_vars => KeptInv' /\ ReadInTurn'
    BY KeptStep
  <1>2. Init => KeptInv /\ ReadInTurn
    BY InitKept
  <1>3. (apart /\ Intact => HInv) /\ TypeOK /\ [Next]_vars => (apart' /\ Intact' => HInv')
    BY Monotone, HStep
  <1>4. (apart /\ Intact => HInv)' <=> (apart' /\ Intact' => HInv')
    OBVIOUS
  <1>5. TypeOK /\ KeptInv /\ ReadInTurn /\ (apart /\ Intact => HInv) => InOrder
    BY ReadIsInTurn, OnceEach DEF InOrder
  <1> QED BY Types, InitHInv, <1>1, <1>2, <1>3, <1>4, <1>5, PTL DEF Spec
=============================================================================
