---------------------------- MODULE ShCoreProofs ----------------------------
(***************************************************************************)
(* What the lookup in the policy table returns.                            *)
(***************************************************************************)
EXTENDS ShCore, TLAPS

(* src/sh_protect.c lines 29-40: whatever grade it is asked for, the       *)
(* lookup returns the row of SH_PROTECT_MEDIUM, the first whose grade is   *)
(* not zero.                                                               *)
THEOREM LookupReturnsMedium ==
  \A g : sh_get_protection_policy(g) = sh_protection_policies[2]
<1>. DEFINE hit(p) == sh_protection_policies[p].protection_grade # 0
            first == CHOOSE p \in 1 .. 4 : hit(p) /\ \A q \in 1 .. p - 1 : ~hit(q)
<1>1. ~hit(1) /\ hit(2)
  BY DEF sh_protection_policies, Policy, SH_PROTECT_HIGH, SH_PROTECT_MEDIUM
<1>2. \E p \in 1 .. 4 : hit(p) /\ \A q \in 1 .. p - 1 : ~hit(q)
  <2>1. hit(2) /\ \A q \in 1 .. 2 - 1 : ~hit(q)
    BY <1>1
  <2>. QED
    BY <2>1
<1>3. first \in 1 .. 4 /\ hit(first) /\ \A q \in 1 .. first - 1 : ~hit(q)
  BY <1>2
<1>4. first = 2
  <2>. HIDE DEF first, hit
  <2>. QED
    BY <1>1, <1>3
<1>5. \A g : sh_get_protection_policy(g) = sh_protection_policies[first]
  BY DEF sh_get_protection_policy
<1>. QED
  BY <1>4, <1>5

(* The fields of that row that the other proofs use. *)
LEMMA MediumRow ==
  /\ sh_protection_policies[2].segmentation_enabled = TRUE
  /\ sh_protection_policies[2].segment_size = 10
  /\ sh_protection_policies[2].algorithm = "AES192"
BY DEF sh_protection_policies, Policy
=============================================================================
