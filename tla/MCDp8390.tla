----------------------------- MODULE MCDp8390 -----------------------------
(* Instances of Dp8390 for TLC: a ring of five pages of eight bytes above  *)
(* page zero; frames of one page, of one page and a spare one, and of two. *)
EXTENDS Dp8390
=============================================================================
