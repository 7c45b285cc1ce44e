------------------------------- MODULE MCUart -------------------------------
(* An instance of the output path for TLC. *)
EXTENDS Uart

CONSTANTS x, y

(* Strings of up to two characters, and one longer than the ring. *)
Texts == {<<x>>, <<y, x>>, <<x, y, y, x, y>>}
=============================================================================
