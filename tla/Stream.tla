------------------------------- MODULE Stream -------------------------------
(* What printing promises: the characters come out in the order they were     *)
(* printed, each once, and all of them in the end; except that a character    *)
(* that finds Capacity others waiting takes all that are still waiting with   *)
(* it.                                                                        *)
EXTENDS Naturals, Sequences

CONSTANTS Char, Capacity

VARIABLE text       \* what has been printed and has not come out

Init == text = << >>

Put(ch) == text' = Append(text, ch)

Overrun ==
    /\ Len(text) >= Capacity
    /\ \E k \in 0 .. Len(text) - Capacity : text' = SubSeq(text, 1, k)

ComeOut == text # << >> /\ text' = Tail(text)

Next == ComeOut \/ Overrun \/ \E ch \in Char : Put(ch)

Safety == Init /\ [][Next]_text

Spec == Safety /\ WF_text(ComeOut)
=============================================================================
