----------------------------- MODULE MCFdc9268 -----------------------------
(* Instance of Fdc9268 for TLC: a drive with two cylinders of two sectors  *)
(* per track, where the driver may ask for a sector that does not exist    *)
(* and for transfers that end at or go past the end of the image.          *)
EXTENDS Fdc9268
=============================================================================
