----------------------------- MODULE Scheduler ------------------------------
(* What the kernel's scheduling promises: a queue of processes per priority.  *)
(* The process picked is the first of the highest priority queue that is not  *)
(* empty, and it goes to the back of it: round robin within a priority, and   *)
(* nothing of a lower priority while a higher one is ready.  The process that *)
(* has the processor may leave its queue (to wait or to end) or move to the   *)
(* back of any queue; a process in no queue may become ready at any time.     *)
EXTENDS Naturals, Sequences

CONSTANTS Proc, Pri, NoProc, NoPri

VARIABLES ready,     \* the queue of each priority, next to run first
          running,   \* the process that has the processor, NoProc at first
          level      \* the queue it stands in

vars == <<ready, running, level>>

Elements(s) == {s[k] : k \in 1 .. Len(s)}

IsReady(p) == \E i \in Pri : p \in Elements(ready[i])

Init ==
    /\ ready = [i \in Pri |-> << >>]
    /\ running = NoProc
    /\ level = NoPri

Wake(p, i) ==
    /\ ~IsReady(p)
    /\ ready' = [ready EXCEPT ![i] = Append(@, p)]
    /\ UNCHANGED <<running, level>>

Dispatch ==
    \E i \in Pri :
        /\ ready[i] # << >>
        /\ \A j \in Pri : j < i => ready[j] = << >>
        /\ ready' = [ready EXCEPT ![i] = Append(Tail(@), Head(@))]
        /\ running' = Head(ready[i])
        /\ level' = i

(* The processor is the running process's while it is the last of its queue.  *)
HasProcessor ==
    level \in Pri /\ LET s == ready[level] IN s # << >> /\ s[Len(s)] = running

Without(i) == [ready EXCEPT ![i] = SubSeq(@, 1, Len(@) - 1)]

Leave ==
    /\ HasProcessor
    /\ ready' = Without(level)
    /\ UNCHANGED <<running, level>>

Move(i) ==
    /\ HasProcessor
    /\ ready' = [Without(level) EXCEPT ![i] = Append(@, running)]
    /\ level' = i
    /\ UNCHANGED running

Next == \/ Dispatch
        \/ Leave
        \/ \E i \in Pri : Move(i)
        \/ \E p \in Proc, i \in Pri : Wake(p, i)

Safety == Init /\ [][Next]_vars

Spec == Safety /\ WF_vars(Dispatch)
=============================================================================
