--------------------------- MODULE MCClient33310 ----------------------------
(* Two indexes, so that those of two requests are equal or differ.         *)
EXTENDS Client33310
=============================================================================
