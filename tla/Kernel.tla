------------------------------- MODULE Kernel -------------------------------
(* The Train-OS kernel: PCBs, the waiting-to-run queues, the SVC calls that   *)
(* schedule (nice, terminate) and communicate (bind, send, recv), and the     *)
(* exceptions SysTick, GPIO port F and PendSV.                                *)
(*                                                                            *)
(* SVC, SysTick and GPIO all have the reset priority 0, so none preempts      *)
(* another: each handler is one action.  PendSV has the lowest priority: it   *)
(* is taken after every other handler and before any instruction of a thread, *)
(* so a thread acts only when it is `running' and no PendSV is pending.       *)
EXTENDS ReadyQueue, MsgQueue

CONSTANTS BootTable,     \* the create_proc calls of Kinit, <<proc, priority>>
          Idle,          \* the process running idle_process
          Nicers,        \* the processes that change their priority
          Receivers,     \* the processes that bind and receive
          Sock,          \* the sockets
          IsrSock,       \* the sockets GPIOPortF_IntHandler sends to
          NoSock,        \* the binded_socket of a process that has bound none
          TIME_QUANTUM,  \* ticks between two preemptions
          Burst          \* bound: no send to a bound socket with Burst unread

ASSUME KernelAssumption ==
    /\ BootTable \in Seq(Proc \X Pri)
    /\ \A p \in Proc : \E k \in 1 .. Len(BootTable) : BootTable[k][1] = p
    /\ \A k, l \in 1 .. Len(BootTable) :
            BootTable[k][1] = BootTable[l][1] => k = l
    /\ \A k \in 1 .. Len(BootTable) :
            BootTable[k][2] = MAX_NUM_PRI - 1 => BootTable[k][1] = Idle
    /\ MAX_NUM_PRI > 1
    /\ Idle \in Proc
    /\ Nicers \subseteq Proc \ {Idle}
    /\ Receivers \subseteq Proc \ {Idle}
    /\ IsrSock \subseteq Sock
    /\ NoSock \notin Sock
    /\ TIME_QUANTUM \in Nat \ {0}
    /\ Burst \in 1 .. MSG_QUEUE_SIZE

VARIABLES
    rq,            \* wtr[] and the PCBs' links (ReadyQueue)
    running,       \* the PCB `running' points to
    cur_priority,  \* the queue it was taken from, MAX_NUM_PRI before Krun
    pendsv,        \* PENDSVSET: a PendSV is pending
    ToD,           \* ToD % TIME_QUANTUM
    booted,        \* create_proc calls of Kinit done; Len + 1 after Krun
    pcb,           \* the priority and binded_socket of each PCB
    sock,          \* socket_list: binded_pcb, spin_lock and the packets
    thread         \* what each process is doing outside the kernel

vars == <<rq, running, cur_priority, pendsv, ToD, booted, pcb, sock, thread>>
sched == <<rq, running, cur_priority, pendsv>>

(* A process is in its own code ("user"), in recv() after a first SVC that    *)
(* found its queue empty ("recv2"), in recv() with its SVCs behind it         *)
(* ("copy"), or terminated.  dst and pkt are recv()'s local recv_packet: pkt  *)
(* is NoMsg while the packet on the stack has not been written.               *)
ThreadStates ==
    [at : {"user", "recv2", "copy", "dead"}, dst : Sock \cup {NoSock},
     pkt : Msg \cup {NoMsg}]

InUser == [at |-> "user", dst |-> NoSock, pkt |-> NoMsg]

TypeOK ==
    /\ rq \in Links
    /\ running \in Proc \cup {NULL}
    /\ cur_priority \in 0 .. MAX_NUM_PRI
    /\ pendsv \in BOOLEAN
    /\ ToD \in 0 .. TIME_QUANTUM - 1
    /\ booted \in 0 .. Len(BootTable) + 1
    /\ pcb \in [Proc -> [priority : Pri, binded_socket : Sock \cup {NoSock}]]
    /\ sock \in [Sock -> [binded_pcb : Proc \cup {NULL}, spin_lock : BOOLEAN,
                          q : MsgQueues]]
    /\ thread \in [Proc -> ThreadStates]

Init ==
    /\ rq = NoLinks
    /\ running = NULL
    /\ cur_priority = MAX_NUM_PRI
    /\ pendsv = FALSE
    /\ ToD = 0
    /\ booted = 0
    /\ pcb = [p \in Proc |-> [priority |-> 0, binded_socket |-> NoSock]]
    /\ sock = [s \in Sock |-> [binded_pcb |-> NULL, spin_lock |-> FALSE,
                               q |-> ZeroQueue]]
    /\ thread = [p \in Proc |-> InUser]

-----------------------------------------------------------------------------
(* Boot: the INIT and RUN calls of Kernel_Initialization.                     *)

(* One create_proc of Kinit; no interrupt is enabled until the last is done.  *)
create_proc ==
    /\ booted < Len(BootTable)
    /\ LET p   == BootTable[booted + 1][1]
           pri == BootTable[booted + 1][2]
       IN  /\ pcb' = [pcb EXCEPT ![p] = [priority |-> pri,
                                         binded_socket |-> NoSock]]
           /\ rq' = enqueue_pcb(rq, p, pri)
    /\ booted' = booted + 1
    /\ UNCHANGED <<running, cur_priority, pendsv, ToD, sock, thread>>

get_new_proc ==
    IF SomeReady(rq)
    THEN LET i == TopPri(rq) IN
         /\ running' = rq.wtr[i]
         /\ rq' = Select(rq, i)
         /\ cur_priority' = i
    ELSE UNCHANGED <<running, rq, cur_priority>>

Krun ==
    /\ booted = Len(BootTable)
    /\ get_new_proc
    /\ booted' = booted + 1
    /\ UNCHANGED <<pendsv, ToD, pcb, sock, thread>>

Up == booted = Len(BootTable) + 1

-----------------------------------------------------------------------------
(* Exceptions *)

SysTickHandler ==
    /\ Up
    /\ ToD' = (ToD + 1) % TIME_QUANTUM
    /\ pendsv' = (pendsv \/ ToD' = 0)
    /\ UNCHANGED <<rq, running, cur_priority, booted, pcb, sock, thread>>

PendSV ==
    /\ Up
    /\ pendsv
    /\ pendsv' = FALSE
    /\ get_new_proc
    /\ UNCHANGED <<ToD, booted, pcb, sock, thread>>

-----------------------------------------------------------------------------
(* The message calls of the kernel *)

Blocked(p) == \E s \in Sock : sock[s].spin_lock /\ sock[s].binded_pcb = p

(* Mutants of k_send_message: the receiver it wakes is not rescheduled, goes  *)
(* on spinning, or is not put back into a queue.                              *)
SendWithoutPendSV(s, m) ==
    /\ sock[s].binded_pcb # NULL => Unread(sock[s].q) < Burst
    /\ sock' = [sock EXCEPT ![s] = [@ EXCEPT !.q = Put(sock[s].q, m),
                                            !.spin_lock = FALSE]]
    /\ IF sock[s].spin_lock
       THEN rq' = enqueue_pcb(rq, sock[s].binded_pcb,
                              pcb[sock[s].binded_pcb].priority)
       ELSE UNCHANGED rq
    /\ UNCHANGED pendsv

SendKeepsSpinning(s, m) ==
    /\ sock[s].binded_pcb # NULL => Unread(sock[s].q) < Burst
    /\ sock' = [sock EXCEPT ![s] = [@ EXCEPT !.q = Put(sock[s].q, m)]]
    /\ IF sock[s].spin_lock
       THEN /\ rq' = enqueue_pcb(rq, sock[s].binded_pcb,
                                 pcb[sock[s].binded_pcb].priority)
            /\ pendsv' = TRUE
       ELSE UNCHANGED <<rq, pendsv>>

SendWithoutPost(s, m) ==
    /\ sock[s].binded_pcb # NULL => Unread(sock[s].q) < Burst
    /\ sock' = [sock EXCEPT ![s] = [@ EXCEPT !.q = Put(sock[s].q, m),
                                            !.spin_lock = FALSE]]
    /\ pendsv' = (pendsv \/ sock[s].spin_lock)
    /\ UNCHANGED rq

(* k_send_message: store, advance, and post the receiver it finds waiting.    *)
k_send_message(s, m) ==
    /\ sock[s].binded_pcb # NULL => Unread(sock[s].q) < Burst
    /\ sock' = [sock EXCEPT ![s] = [@ EXCEPT !.q = Put(sock[s].q, m),
                                            !.spin_lock = FALSE]]
    /\ IF sock[s].spin_lock
       THEN LET p == sock[s].binded_pcb IN
            /\ rq' = enqueue_pcb(rq, p, pcb[p].priority)
            /\ pendsv' = TRUE
       ELSE UNCHANGED <<rq, pendsv>>

(* k_recv_message for the running process p: not its socket, empty (spin and  *)
(* leave the queue of pcb->priority), or a packet copied out.  `no' is where  *)
(* p goes on with the return value false, which only the first SVC tests.     *)
k_recv_message(p, s, no) ==
    CASE sock[s].binded_pcb # p ->
            /\ thread' = [thread EXCEPT ![p] =
                            [at |-> "copy", dst |-> s, pkt |-> NoMsg]]
            /\ UNCHANGED <<sock, rq, pendsv>>
      [] sock[s].binded_pcb = p /\ IsEmpty(sock[s].q) ->
            /\ sock' = [sock EXCEPT ![s] = [@ EXCEPT !.spin_lock = TRUE]]
            /\ rq' = dequeue_pcb(rq, p, pcb[p].priority)
            /\ pendsv' = TRUE
            /\ thread' = [thread EXCEPT ![p] =
                            [at |-> no, dst |-> s, pkt |-> NoMsg]]
      [] sock[s].binded_pcb = p /\ ~IsEmpty(sock[s].q) ->
            /\ thread' = [thread EXCEPT ![p] =
                            [at |-> "copy", dst |-> s, pkt |-> First(sock[s].q)]]
            /\ sock' = [sock EXCEPT ![s] = [@ EXCEPT !.q = Take(sock[s].q)]]
            /\ UNCHANGED <<rq, pendsv>>

(* GPIOPortF_IntHandler sends from a handler, whatever is running; the port   *)
(* is set up once Kinit has created the processes.                            *)
GPIOPortF_IntHandler ==
    /\ booted >= Len(BootTable)
    /\ \E s \in IsrSock, m \in Msg : k_send_message(s, m)
    /\ UNCHANGED <<running, cur_priority, ToD, booted, pcb, thread>>

-----------------------------------------------------------------------------
(* Calls of the running process *)

Runs(p, at) == /\ Up
               /\ ~pendsv
               /\ running = p
               /\ p # Idle
               /\ thread[p].at = at

(* Mutants: bind() by a process that has bound a socket already, recv() that  *)
(* does not repeat its SVC.                                                   *)
BindTwice(p) ==
    /\ Runs(p, "user")
    /\ p \in Receivers
    /\ \E s \in Sock :
        /\ sock[s].binded_pcb = NULL
        /\ sock' = [sock EXCEPT ![s] = [@ EXCEPT !.binded_pcb = p,
                                                !.q = Reset(sock[s].q)]]
        /\ pcb' = [pcb EXCEPT ![p] = [@ EXCEPT !.binded_socket = s]]
    /\ UNCHANGED <<sched, ToD, booted, thread>>

RecvOnce(p) ==
    /\ Runs(p, "user")
    /\ p \in Receivers
    /\ \E s \in Sock : k_recv_message(p, s, "copy")
    /\ UNCHANGED <<running, cur_priority, ToD, booted, pcb>>

bind(p) ==
    /\ Runs(p, "user")
    /\ p \in Receivers
    /\ \E s \in Sock :
        /\ sock[s].binded_pcb = NULL
        /\ pcb[p].binded_socket = NoSock
        /\ sock' = [sock EXCEPT ![s] = [@ EXCEPT !.binded_pcb = p,
                                                !.q = Reset(sock[s].q)]]
        /\ pcb' = [pcb EXCEPT ![p] = [@ EXCEPT !.binded_socket = s]]
    /\ UNCHANGED <<sched, ToD, booted, thread>>

send(p) ==
    /\ Runs(p, "user")
    /\ \E s \in Sock, m \in Msg : k_send_message(s, m)
    /\ UNCHANGED <<running, cur_priority, ToD, booted, pcb, thread>>

(* recv(): the first SVC, the second one when the first returned false, and   *)
(* the copy of recv_packet to the caller.                                     *)
recv(p) ==
    /\ Runs(p, "user")
    /\ p \in Receivers
    /\ \E s \in Sock : k_recv_message(p, s, "recv2")
    /\ UNCHANGED <<running, cur_priority, ToD, booted, pcb>>

recv_again(p) ==
    /\ Runs(p, "recv2")
    /\ k_recv_message(p, thread[p].dst, "copy")
    /\ UNCHANGED <<running, cur_priority, ToD, booted, pcb>>

recv_return(p) ==
    /\ Runs(p, "copy")
    /\ thread' = [thread EXCEPT ![p] = InUser]
    /\ UNCHANGED <<sched, ToD, booted, pcb, sock>>

(* Knice: PRI0 .. PRI3 set the priority, INC and DEC move it by one within    *)
(* them, GUCPU keeps it; the PCB's own priority is never changed.             *)
INC   == MAX_NUM_PRI - 1
DEC   == MAX_NUM_PRI
GUCPU == MAX_NUM_PRI + 1

NewPriority(command) ==
    CASE command < INC -> command
      [] command = INC -> IF cur_priority = 0 THEN 0 ELSE cur_priority - 1
      [] command = DEC -> IF cur_priority = MAX_NUM_PRI - 2
                          THEN cur_priority ELSE cur_priority + 1
      [] command > DEC -> cur_priority

Commands(p) == IF p \in Nicers THEN 0 .. GUCPU ELSE {GUCPU}

Knice(p) ==
    /\ Runs(p, "user")
    /\ \E command \in Commands(p) :
        /\ cur_priority' = NewPriority(command)
        /\ rq' = enqueue_pcb(dequeue_pcb(rq, p, cur_priority), p, cur_priority')
    /\ pendsv' = TRUE
    /\ UNCHANGED <<running, ToD, booted, pcb, sock, thread>>

(* Kterminate leaves a socket the process bound pointing at the freed PCB.    *)
Kterminate(p) ==
    /\ Runs(p, "user")
    /\ rq' = dequeue_pcb(rq, p, cur_priority)
    /\ pendsv' = TRUE
    /\ thread' = [thread EXCEPT ![p] = [InUser EXCEPT !.at = "dead"]]
    /\ UNCHANGED <<running, cur_priority, ToD, booted, pcb, sock>>

Next ==
    \/ create_proc
    \/ Krun
    \/ SysTickHandler
    \/ PendSV
    \/ GPIOPortF_IntHandler
    \/ \E p \in Proc : \/ bind(p)
                       \/ send(p)
                       \/ recv(p)
                       \/ recv_again(p)
                       \/ recv_return(p)
                       \/ Knice(p)
                       \/ Kterminate(p)

Spec == Init /\ [][Next]_vars

(* The hardware delivers the tick and a pending PendSV, and boot runs to its  *)
(* end.  A process inside recv() that is given the processor again and again  *)
(* executes its next SVC in one of its quanta.  Nothing is assumed of the     *)
(* processes' own code.                                                       *)
Fairness ==
    /\ WF_vars(create_proc) /\ WF_vars(Krun)
    /\ WF_vars(SysTickHandler) /\ WF_vars(PendSV)
    /\ \A p \in Proc : SF_vars(recv_again(p)) /\ SF_vars(recv_return(p))

FairSpec == Spec /\ Fairness

-----------------------------------------------------------------------------
(* Safety *)

(* Each waiting-to-run list is one cycle through exactly the processes of its *)
(* queue, in order, and no process is linked twice (enqueue_pcb, dequeue_pcb  *)
(* and get_new_proc keep the pointers consistent).                            *)
RingsMatch == WellFormed(rq)

(* The running process is linked, as the last of the queue it was taken from, *)
(* unless it has just blocked, terminated, moved or been overtaken and the    *)
(* PendSV that replaces it is pending: dequeue_pcb, which never moves wtr,    *)
(* is only safe on a process that is not the head of a longer list.           *)
RunningIsTail ==
    Up /\ ~pendsv =>
        LET s == rq.order[cur_priority] IN s # << >> /\ s[Len(s)] = running

(* While a thread executes, no process of a higher priority is ready.         *)
HighestRuns ==
    Up /\ ~pendsv => \A i \in Pri : i < cur_priority => rq.wtr[i] = NULL

(* A receiver spins only on an empty socket of its own, and outside every     *)
(* queue: no packet arrives that leaves its receiver waiting (lost wakeup).   *)
NoLostWakeup ==
    \A s \in Sock : sock[s].spin_lock =>
        /\ IsEmpty(sock[s].q)
        /\ sock[s].binded_pcb \in Proc
        /\ thread[sock[s].binded_pcb].at \in {"recv2", "copy"}
        /\ ~Queued(rq, sock[s].binded_pcb)

(* Every process that exists is in a queue, or waits for a packet.            *)
NoLostProcess ==
    booted >= Len(BootTable) =>
        \A p \in Proc : \/ Queued(rq, p)
                         \/ Blocked(p)
                         \/ thread[p].at = "dead"

(* "A single process can bind to one socket, no more", and to a socket of its *)
(* own: the PCB and the socket name each other.                               *)
BindingsAgree ==
    \A p \in Proc, s \in Sock :
        pcb[p].binded_socket = s <=> sock[s].binded_pcb = p

(* recv() on a bound socket hands its caller a packet that was sent, also     *)
(* when its second SVC runs after others have been running.                   *)
RecvDelivers ==
    \A p \in Proc : thread[p].at = "copy" =>
        \/ thread[p].pkt \in Msg
        \/ sock[thread[p].dst].binded_pcb # p
-----------------------------------------------------------------------------
(* The inductive invariant behind the properties above, in named parts.  It   *)
(* holds when no receiver changes its priority: k_recv_message unlinks the    *)
(* process from the queue of pcb->priority, which Knice does not keep.        *)

Created(p) == \E k \in 1 .. Len(BootTable) : k <= booted /\ BootTable[k][1] = p

BootInv ==
    /\ ~Up => ~pendsv /\ \A s \in Sock : sock[s].binded_pcb = NULL
    /\ Up => cur_priority \in Pri
    /\ \A p \in Proc : ~Created(p) => ~Queued(rq, p)

(* A receiver stands in the queue of its own priority, and only the idle      *)
(* process in the last one.                                                   *)
PlaceInv ==
    /\ \A p \in Proc, i \in Pri : StandsIn(rq, p, i) =>
            /\ p \in Receivers => i = pcb[p].priority
            /\ p # Idle => i # MAX_NUM_PRI - 1
    /\ \A p \in Proc : p # Idle => pcb[p].priority # MAX_NUM_PRI - 1

OwnerInv ==
    /\ \A s \in Sock : sock[s].binded_pcb # NULL => sock[s].binded_pcb \in Receivers
    /\ \A p \in Proc : thread[p].at \in {"recv2", "copy"} =>
            p \in Receivers /\ thread[p].dst \in Sock
    /\ thread[Idle].at = "user"

CreatedInv ==
    \A p \in Proc : Created(p) => \/ Queued(rq, p)
                                  \/ Blocked(p)
                                  \/ thread[p].at = "dead"

IInv == /\ TypeOK
        /\ RingsMatch
        /\ BootInv
        /\ PlaceInv
        /\ OwnerInv
        /\ BindingsAgree
        /\ NoLostWakeup
        /\ CreatedInv
        /\ RunningIsTail
        /\ HighestRuns

(* Behind Delivers, whatever the processes do: a thread has a packet of       *)
(* recv() only while it copies it, and repeats its call on a socket.          *)
BoxInv ==
    /\ sock \in [Sock -> [binded_pcb : Proc \cup {NULL}, spin_lock : BOOLEAN,
                          q : MsgQueues]]
    /\ thread \in [Proc -> ThreadStates]
    /\ \A p \in Proc : thread[p].at # "copy" => thread[p].pkt = NoMsg
    /\ \A p \in Proc : thread[p].at = "recv2" => thread[p].dst \in Sock

(* Behind RecvDelivers, when no overrun can empty a queue: what is unread has *)
(* been sent, and a process that goes on to recv()'s second SVC finds a       *)
(* packet in its own socket once it spins no more.                            *)
PacketInv ==
    /\ \A s \in Sock : sock[s].binded_pcb # NULL =>
            Contents(sock[s].q) \in Seq(Msg)
    /\ \A p \in Proc : thread[p].at = "recv2" =>
            LET s == thread[p].dst
            IN  /\ sock[s].binded_pcb = p
                /\ sock[s].spin_lock \/ ~IsEmpty(sock[s].q)
    /\ RecvDelivers

-----------------------------------------------------------------------------
(* Liveness and the abstract specifications *)

(* A ready process of the highest priority is given the processor: nobody     *)
(* keeps it by not giving it up, and woken processes do not overtake it.      *)
TopPriorityRuns ==
    \A p \in Proc :
        (Up /\ \E k \in 1 .. Len(rq.order[0]) : rq.order[0][k] = p)
            ~> running = p

(* A receiver of the highest priority that waits on a socket a packet has     *)
(* come to gets through recv()'s second SVC with a packet; or to wait again,  *)
(* with none, when an overrun of the array has taken them all meanwhile.      *)
WokenReceives ==
    \A p \in Proc :
        (thread[p].at = "recv2" /\ ~Blocked(p) /\ pcb[p].priority = 0)
            ~> (thread[p].at = "copy" /\ (thread[p].pkt \in Msg \/ Blocked(p)))

Sched == INSTANCE Scheduler
            WITH ready <- rq.order, level <- cur_priority, NoProc <- NULL,
                 NoPri <- MAX_NUM_PRI

(* The kernel schedules as Scheduler says: strict priorities, round robin     *)
(* within one, and a new choice again and again.                              *)
Schedules == Sched!Spec

Boxes == INSTANCE Mailbox
            WITH owner <- [s \in Sock |-> sock[s].binded_pcb],
                 mail <- [s \in Sock |-> IF sock[s].binded_pcb = NULL THEN << >>
                                         ELSE Contents(sock[s].q)],
                 inbox <- [p \in Proc |-> thread[p].pkt],
                 Capacity <- MSG_QUEUE_SIZE - 1, NoProc <- NULL

(* The sockets deliver as Mailbox says: in order, each packet once, to the    *)
(* process that bound the socket, until one packet too many empties it.       *)
Delivers == Boxes!Spec
=============================================================================
