------------------------------ MODULE MCI8250 ------------------------------
(* Instances of I8250 for TLC: rings of three slots that fill, empty and   *)
(* wrap, and two different bytes so that their order can be told.          *)
EXTENDS I8250
=============================================================================
