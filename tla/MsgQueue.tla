------------------------------ MODULE MsgQueue ------------------------------
(* One entry of socket_list (msg_queue.c): the circular array of packets of   *)
(* a socket with its two indices.  sock_head is the next slot to write,       *)
(* sock_tail the slot read last.                                              *)
EXTENDS Naturals, Sequences

CONSTANTS MSG_QUEUE_SIZE,   \* slots of the array
          Msg,              \* the packets
          NoMsg             \* a slot, or a receiver's packet, never written

ASSUME MsgQueueAssumption ==
    /\ MSG_QUEUE_SIZE \in Nat \ {0, 1}
    /\ NoMsg \notin Msg

Slot == 0 .. MSG_QUEUE_SIZE - 1

MsgQueues == [head : Slot, tail : Slot, buf : [Slot -> Msg \cup {NoMsg}]]

(* socket_list is a zeroed global. *)
ZeroQueue == [head |-> 0, tail |-> 0, buf |-> [k \in Slot |-> NoMsg]]

-----------------------------------------------------------------------------
(* Mutants of the operators below. *)

PutWithoutWrap(q, m) ==
    [head |-> q.head + 1, tail |-> q.tail, buf |-> [q.buf EXCEPT ![q.head] = m]]

KeepIndices(q) == q

-----------------------------------------------------------------------------
(* temp_tail of k_recv_message. *)
ReadSlot(q) == (q.tail + 1) % MSG_QUEUE_SIZE

(* "Check to see if empty queue". *)
IsEmpty(q) == ReadSlot(q) = q.head

First(q) == q.buf[ReadSlot(q)]

Take(q) == [q EXCEPT !.tail = ReadSlot(q)]

(* The store and the head update of k_send_message: no test for a full queue. *)
Put(q, m) == [head |-> (q.head + 1) % MSG_QUEUE_SIZE, tail |-> q.tail,
              buf |-> [q.buf EXCEPT ![q.head] = m]]

(* k_bind_message leaves the slots and resets the indices. *)
Reset(q) == [q EXCEPT !.head = 1, !.tail = 0]

-----------------------------------------------------------------------------
(* The packets a queue holds, oldest first. *)

Unread(q) == (q.head + MSG_QUEUE_SIZE - ReadSlot(q)) % MSG_QUEUE_SIZE

Contents(q) ==
    [k \in 1 .. Unread(q) |-> q.buf[(q.tail + k) % MSG_QUEUE_SIZE]]
=============================================================================
