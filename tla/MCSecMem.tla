------------------------------ MODULE MCSecMem ------------------------------
(***************************************************************************)
(* One or two threads, a main pool and two overflow pools, each with room  *)
(* for one to three blocks.                                                *)
(***************************************************************************)
EXTENDS SecMem, TLC

(* The overflow pools are interchangeable. *)
Descriptors == Permutations(Overflow)
=============================================================================
