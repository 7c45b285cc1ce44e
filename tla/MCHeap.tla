------------------------------- MODULE MCHeap -------------------------------
(* Instances of the heap for TLC: three classes of two, one and two blocks.   *)
EXTENDS Heap, TLC

Firsts == <<0, 2, 3>>
Sizes  == <<2, 4, 8>>

(* What is not computed happens to be the answer for no memory.               *)
NoJunk == {NoMem}

(* No owner differs from another. *)
Owners == Permutations(Client)
=============================================================================
