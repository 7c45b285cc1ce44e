------------------------------ MODULE MCKernel ------------------------------
(* Instances of the kernel for TLC. *)
EXTENDS Kernel

CONSTANTS idle, a, b, c

(* Three application processes over the idle process: two of one priority.    *)
Procs == {idle, a, b, c}
Boot  == << <<idle, 2>>, <<a, 0>>, <<b, 1>>, <<c, 1>> >>

(* Two receivers of the highest priority.                                     *)
Procs2 == {idle, a, b}
Boot2  == << <<idle, 1>>, <<a, 0>>, <<b, 0>> >>
=============================================================================
