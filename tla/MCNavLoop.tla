----------------------------- MODULE MCNavLoop -----------------------------
(***************************************************************************)
(* NavLoop with its symmetries: neither a goal nor a cell is told from     *)
(* another of its kind.  Sound for the safety properties checked here.     *)
(***************************************************************************)
EXTENDS NavLoop, TLC

Symmetric == Permutations(Goals) \cup Permutations(Cells)
=============================================================================
