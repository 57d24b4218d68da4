----------------------------- MODULE MCBoundaryTag -----------------------------
(* A small arena, requests of two sizes and a margin of one word: rests are   *)
(* split off or given away, and blocks have every alignment.                  *)
EXTENDS BoundaryTag
===============================================================================
