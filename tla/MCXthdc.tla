------------------------------ MODULE MCXthdc ------------------------------
(* Instances of Xthdc for TLC: a disk of two cylinders, two heads, two     *)
(* sectors of two bytes, and transfers that cross every border.            *)
EXTENDS Xthdc
=============================================================================
