------------------------------ MODULE Mailbox -------------------------------
(* What the sockets promise: a socket is a queue that delivers its packets to *)
(* one owner in the order they were sent, each once.  It is empty when it is  *)
(* bound, and keeps what it holds except that a send that finds Capacity      *)
(* unread packets loses all of them and its own.                              *)
EXTENDS Naturals, Sequences

CONSTANTS Proc, NoProc, Sock, Msg, NoMsg, Capacity

VARIABLES owner,     \* the process a socket is bound to
          mail,      \* the unread packets of a bound socket, oldest first
          inbox      \* the packet each process has taken and not yet returned

vars == <<owner, mail, inbox>>

Init ==
    /\ owner = [s \in Sock |-> NoProc]
    /\ mail = [s \in Sock |-> << >>]
    /\ inbox = [p \in Proc |-> NoMsg]

Bind(p, s) ==
    /\ owner[s] = NoProc
    /\ owner' = [owner EXCEPT ![s] = p]
    /\ UNCHANGED <<mail, inbox>>

Send(s, m) ==
    /\ owner[s] # NoProc
    /\ mail' = [mail EXCEPT ![s] =
                    IF Len(@) < Capacity THEN Append(@, m) ELSE << >>]
    /\ UNCHANGED <<owner, inbox>>

Receive(p, s) ==
    /\ owner[s] = p
    /\ mail[s] # << >>
    /\ inbox' = [inbox EXCEPT ![p] = Head(mail[s])]
    /\ mail' = [mail EXCEPT ![s] = Tail(@)]
    /\ UNCHANGED owner

Return(p) ==
    /\ inbox' = [inbox EXCEPT ![p] = NoMsg]
    /\ UNCHANGED <<owner, mail>>

Next == \/ \E p \in Proc, s \in Sock : Bind(p, s) \/ Receive(p, s)
        \/ \E s \in Sock, m \in Msg : Send(s, m)
        \/ \E p \in Proc : Return(p)

Spec == Init /\ [][Next]_vars
=============================================================================
