---------------------------- MODULE MCJsonStore -----------------------------
(***************************************************************************)
(* Small instances of JsonStore for TLC.                                   *)
(***************************************************************************)
EXTENDS JsonStore, TLC

CONSTANTS p1, p2, p3

ProcSymmetry == Permutations(Procs)
=============================================================================
