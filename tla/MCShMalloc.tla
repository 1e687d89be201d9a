----------------------------- MODULE MCShMalloc -----------------------------
(***************************************************************************)
(* sh_malloc's body under every row of the policy table, and what the      *)
(* repository says of it that the code does not keep.                      *)
(***************************************************************************)
EXTENDS ShMalloc

AllPolicies == { sh_protection_policies[p] : p \in 1 .. 4 }

(* include/sh_malloc.h line 11, "Internal malloc wrappers with error       *)
(* handling": a failed allocation never makes sh_malloc store outside the  *)
(* table it allocated.                                                     *)
FailureContained == status # "overrun"

(* src/sh_malloc.c lines 51 and 55, "If not, then use remainder" and       *)
(* "Otherwise, use full block": a last segment that the request does not   *)
(* fill is as long as the remainder, and no block of a call is lost.       *)
RemainderUsed ==
  pc = "done" /\ Segmented /\ size \in 1 .. IntMax =>
    LET rest == size % policy.segment_size
        last == tabs[segments_table][segment_index]
    IN  rest # 0 => last.size = rest + cipher_changes /\ orphans = 0
=============================================================================
