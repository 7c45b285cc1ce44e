----------------------------- MODULE ReadyQueue -----------------------------
(* The waiting-to-run queues of Train-OS (kernel.c): wtr[i] points into a     *)
(* circular doubly linked list of PCBs, one list per priority.  The whole     *)
(* structure is a record                                                      *)
(*     wtr   |-> [Pri -> Proc \cup {NULL}]    the array of heads              *)
(*     next  |-> [Proc -> Proc \cup {NULL}]   the PCBs' next pointers         *)
(*     prev  |-> [Proc -> Proc \cup {NULL}]   the PCBs' prev pointers         *)
(*     order |-> [Pri -> Seq(Proc)]           auxiliary, not in the code      *)
(* `order' is the queue each list is meant to be, next process to run first.  *)
(* No decision reads it; RingsMatch says that the pointers represent it.      *)
EXTENDS Naturals, Sequences

CONSTANTS Proc,          \* the PCBs
          NULL,          \* the null pointer
          MAX_NUM_PRI    \* number of priorities; 0 is the highest

ASSUME ReadyQueueAssumption ==
    /\ MAX_NUM_PRI \in Nat \ {0}
    /\ NULL \notin Proc

Pri == 0 .. MAX_NUM_PRI - 1

Links == [wtr   : [Pri -> Proc \cup {NULL}],
          next  : [Proc -> Proc \cup {NULL}],
          prev  : [Proc -> Proc \cup {NULL}],
          order : [Pri -> Seq(Proc)]]

NoLinks == [wtr   |-> [i \in Pri |-> NULL],
            next  |-> [p \in Proc |-> NULL],
            prev  |-> [p \in Proc |-> NULL],
            order |-> [i \in Pri |-> << >>]]

-----------------------------------------------------------------------------
(* Mutants of the operators below. *)

EnqueueAtHead(q, p, i) ==
    LET w    == q.wtr[i]
        last == IF w = NULL THEN p ELSE q.prev[w]
        head == IF w = NULL THEN p ELSE w
    IN  [wtr   |-> [q.wtr EXCEPT ![i] = p],
         next  |-> [q.next EXCEPT ![last] = p, ![p] = head],
         prev  |-> [q.prev EXCEPT ![p] = last, ![head] = p],
         order |-> [q.order EXCEPT ![i] = Append(@, p)]]

EnqueueWithoutPrev(q, p, i) ==
    LET w    == q.wtr[i]
        last == IF w = NULL THEN p ELSE q.prev[w]
        head == IF w = NULL THEN p ELSE w
    IN  [wtr   |-> [q.wtr EXCEPT ![i] = head],
         next  |-> [q.next EXCEPT ![last] = p, ![p] = head],
         prev  |-> [q.prev EXCEPT ![p] = last],
         order |-> [q.order EXCEPT ![i] = Append(@, p)]]

SelectWithoutAdvance(q, i) == q

-----------------------------------------------------------------------------
(* enqueue_pcb(proc, pri): link proc before the head, that is, at the tail;   *)
(* in an empty queue it becomes the head and its own neighbour.               *)
enqueue_pcb(q, p, i) ==
    LET w    == q.wtr[i]
        last == IF w = NULL THEN p ELSE q.prev[w]
        head == IF w = NULL THEN p ELSE w
    IN  [wtr   |-> [q.wtr EXCEPT ![i] = head],
         next  |-> [q.next EXCEPT ![last] = p, ![p] = head],
         prev  |-> [q.prev EXCEPT ![p] = last, ![head] = p],
         order |-> [q.order EXCEPT ![i] = Append(@, p)]]

(* dequeue_pcb(proc, pri): a PCB that is its own successor empties wtr[pri],  *)
(* any other is unlinked; wtr[pri] is not moved and proc's own pointers stay. *)
(* (The two stores through the NULL that was just written go to flash and     *)
(* have no effect on this state.)  Every caller removes the running process,  *)
(* which stands last in its queue: the auxiliary order drops its last.        *)
dequeue_pcb(q, p, i) ==
    LET alone == q.next[p] = p
    IN  [wtr   |-> IF alone THEN [q.wtr EXCEPT ![i] = NULL] ELSE q.wtr,
         next  |-> IF alone THEN q.next
                            ELSE [q.next EXCEPT ![q.prev[p]] = q.next[p]],
         prev  |-> IF alone THEN q.prev
                            ELSE [q.prev EXCEPT ![q.next[p]] = q.prev[p]],
         order |-> [q.order EXCEPT ![i] = SubSeq(@, 1, Len(@) - 1)]]

(* get_new_proc: the scan of the priorities, and the rotation of the list     *)
(* whose head is taken.                                                       *)
SomeReady(q) == \E i \in Pri : q.wtr[i] # NULL

TopPri(q) == CHOOSE i \in Pri : /\ q.wtr[i] # NULL
                                /\ \A j \in 0 .. i - 1 : q.wtr[j] = NULL

Select(q, i) ==
    [wtr   |-> [q.wtr EXCEPT ![i] = q.next[@]],
     next  |-> q.next,
     prev  |-> q.prev,
     order |-> [q.order EXCEPT ![i] = Append(Tail(@), Head(@))]]

-----------------------------------------------------------------------------
(* Where the pointers and the auxiliary order agree.                          *)

Succ(s, k) == IF k = Len(s) THEN 1 ELSE k + 1

StandsIn(q, p, i) == \E k \in 1 .. Len(q.order[i]) : q.order[i][k] = p

Queued(q, p) == \E i \in Pri : StandsIn(q, p, i)

(* No process stands twice in the queues. *)
NoDuplicates(q) ==
    \A i, j \in Pri :
        \A k \in 1 .. Len(q.order[i]), l \in 1 .. Len(q.order[j]) :
            q.order[i][k] = q.order[j][l] => i = j /\ k = l

(* Each list is one cycle through exactly the processes of its queue, in      *)
(* order, from its head; wtr is NULL exactly when the queue is empty.         *)
RingOf(q, i) ==
    LET s == q.order[i] IN
    /\ q.wtr[i] = IF s = << >> THEN NULL ELSE s[1]
    /\ \A k \in 1 .. Len(s) : /\ q.next[s[k]] = s[Succ(s, k)]
                              /\ q.prev[s[Succ(s, k)]] = s[k]

WellFormed(q) == NoDuplicates(q) /\ \A i \in Pri : RingOf(q, i)
=============================================================================
