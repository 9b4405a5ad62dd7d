------------------------------ MODULE MCFe2010 ------------------------------
(* Instances of Fe2010 for TLC: interrupt delivery with a freely running   *)
(* timer 0, and a guest that programs timer 2.                             *)
EXTENDS Fe2010

NoControlWords == {}

\* Latch in mode 0, and the two-byte load in modes 0 and 3.
TimerControlWords == {<<0, 0>>, <<3, 0>>, <<3, 3>>}
=============================================================================
